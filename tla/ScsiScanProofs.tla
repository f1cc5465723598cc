--------------------------- MODULE ScsiScanProofs ---------------------------
(***************************************************************************)
(* Theorems about ScsiScan, for every bus, every number of buses and slots *)
(* and every size of the two tables.                                       *)
(***************************************************************************)
EXTENDS ScsiScan, FiniteSetTheorems, SequenceTheorems, WellFoundedInduction, TLAPS

(***************************************************************************)
(* Configuration space.                                                    *)
(***************************************************************************)

PciType ==
    \A p \in DOMAIN pci :
      /\ pci[p].functions \in Seq(PciFunction) /\ pci[p].alias \in BOOLEAN
      /\ \A n \in DOMAIN pci[p].functions :
           pci[p].functions[n] = NoFunction \/ ~Nobody(pci[p].functions[n].vendor)

\* Whatever is asked for, a function or its absence answers.
LEMMA AnyFunction ==
    ASSUME PciType, NEW bus, NEW s, NEW func \in Nat
    PROVE  FunctionAt(bus, s, func) \in PciFunction
<1>1. NoFunction \in PciFunction
  BY DEF NoFunction, PciFunction, PciByte
<1>2. CASE <<bus, s>> \in DOMAIN pci
  <2> DEFINE d == pci[<<bus, s>>]
             n == IF d.alias THEN 1 ELSE func + 1
  <2>1. d.functions \in Seq(PciFunction)
    BY <1>2 DEF PciType
  <2>2. n \in DOMAIN d.functions => d.functions[n] \in PciFunction
    <3> HIDE DEF d, n
    <3>1. QED BY <2>1
  <2>3. FunctionAt(bus, s, func) = IF n \in DOMAIN d.functions THEN d.functions[n]
                                   ELSE NoFunction
    BY <1>2 DEF FunctionAt
  <2> HIDE DEF d, n
  <2>4. QED BY <1>1, <2>2, <2>3
<1>3. CASE <<bus, s>> \notin DOMAIN pci
  BY <1>1, <1>3 DEF FunctionAt
<1>4. QED BY <1>2, <1>3

\* The low byte of an address is the register, whatever is above it.
LEMMA RegisterOf ==
    ASSUME NEW bus \in Nat, NEW s \in Nat, NEW offset \in {16, 60}
    PROVE  /\ Address(bus, s, 0, offset) \in Nat
           /\ Address(bus, s, 0, offset) % 256 = offset
           /\ (Address(bus, s, 0, offset) \div 256) % 8 \in Nat
<1>1. offset - (offset % 4) = offset
  BY SMT
<1>2. Address(bus, s, 0, offset) = bus * 65536 + s * 2048 + offset
  BY <1>1, SMT DEF Address
<1>3. QED BY <1>2, SMT

\* An address is a place in the slot and the bus it was made from.
LEMMA PlaceOf ==
    ASSUME NEW n \in Nat
    PROVE  n \div SlotsPerBus \in Nat /\ n % SlotsPerBus \in Nat
<1>1. SlotsPerBus \in 1 .. 32
  BY PciAssumption, Zenon
<1>2. QED BY <1>1, SMT

\* The low half of BAR0 without its low bits is a port or 0.
LEMMA HalfOfBar ==
    ASSUME NEW lo \in Nat, NEW hi \in Nat, lo < 256, hi < 256
    PROVE  256 * hi + (lo - (lo % 16)) \in Nat /\ 256 * hi + (lo - (lo % 16)) < 65536
<1>1. lo % 16 \in Nat /\ lo % 16 <= lo
  OBVIOUS
<1>2. QED BY <1>1, SMT

\* What fits in sixteen bits and is not 0 is a port.
LEMMA SixteenBits ==
    ASSUME NEW p \in Nat, 0 < p, p < 65536
    PROVE  p \in IoPorts
<1> DEFINE top == 65535
<1>1. top \in Nat
  BY SMT
<1>2. p <= top
  BY SMT
<1> HIDE DEF top
<1>3. p \in 1 .. top
  BY <1>1, <1>2
<1>4. IoPorts = 1 .. top
  BY DEF IoPorts, top
<1>5. QED BY <1>3, <1>4

\* An I/O base is sixteen bits, and an interrupt line eight.
LEMMA PortsAndLine ==
    ASSUME PciType, NEW n \in Nat
    PROVE  /\ IoBase(n) \in Nat /\ IoBase(n) < 65536
           /\ Byte(n, 60) \in Nat /\ Byte(n, 60) < 256
<1> DEFINE bus == n \div SlotsPerBus
           s == n % SlotsPerBus
<1>1. bus \in Nat /\ s \in Nat
  BY PlaceOf
<1> HIDE DEF bus, s
<1>2. ASSUME NEW offset \in {16, 60}
      PROVE  \E f \in PciFunction :
               pci_read_config_dword(bus, s, 0, offset)
                 = IF offset = 16 THEN f.bar0 ELSE <<f.irq, 0, 0, 0>>
  <2> DEFINE address == Address(bus, s, 0, offset)
             f == FunctionAt(address \div 65536, (address \div 2048) % 32, (address \div 256) % 8)
  <2>1. address \in Nat /\ address % 256 = offset /\ (address \div 256) % 8 \in Nat
    BY <1>1, RegisterOf
  <2>2. f \in PciFunction
    BY <2>1, AnyFunction
  <2>3. pci_read_config_dword(bus, s, 0, offset)
          = CASE address % 256 = 0  -> f.vendor \o f.device
              [] address % 256 = 8  -> <<0, 0, f.subclass, f.class>>
              [] address % 256 = 16 -> f.bar0
              [] address % 256 = 60 -> <<f.irq, 0, 0, 0>>
    BY DEF pci_read_config_dword, Config
  <2> HIDE DEF address, f
  <2>4. CASE offset = 16
    <3>1. address % 256 # 0 /\ address % 256 # 8 /\ address % 256 = 16 /\ address % 256 # 60
      BY <2>1, <2>4
    <3>2. pci_read_config_dword(bus, s, 0, offset) = f.bar0
      BY <2>3, <3>1, Zenon
    <3>3. QED BY <2>2, <2>4, <3>2
  <2>5. CASE offset = 60
    <3>1. address % 256 # 0 /\ address % 256 # 8 /\ address % 256 # 16 /\ address % 256 = 60
      BY <2>1, <2>5
    <3>2. pci_read_config_dword(bus, s, 0, offset) = <<f.irq, 0, 0, 0>>
      BY <2>3, <3>1, Zenon
    <3>3. offset # 16
      BY <2>5
    <3>4. QED BY <2>2, <3>2, <3>3
  <2>6. QED BY <2>4, <2>5
<1>3. IoBase(n) \in Nat /\ IoBase(n) < 65536
  <2>1. PICK f \in PciFunction : pci_read_config_dword(bus, s, 0, 16) = f.bar0
    BY <1>2
  <2>2. f.bar0 \in PciByte \X PciByte \X PciByte \X PciByte
    BY DEF PciFunction
  <2>3. /\ f.bar0[1] \in Nat /\ f.bar0[1] < 256
        /\ f.bar0[2] \in Nat /\ f.bar0[2] < 256
    BY <2>2 DEF PciByte
  <2>4. IoBase(n) = 256 * f.bar0[2] + (f.bar0[1] - (f.bar0[1] % 16))
    BY <2>1 DEF IoBase, bus, s
  <2>5. QED BY <2>3, <2>4, HalfOfBar
<1>4. Byte(n, 60) \in Nat /\ Byte(n, 60) < 256
  <2>1. PICK f \in PciFunction : pci_read_config_dword(bus, s, 0, 60) = <<f.irq, 0, 0, 0>>
    BY <1>2
  <2>2. f.irq \in Nat /\ f.irq < 256
    BY DEF PciFunction, PciByte
  <2>3. 1 + (60 % 4) = 1
    BY SMT
  <2>4. Byte(n, 60) = pci_read_config_dword(bus, s, 0, 60)[1]
    BY <2>3 DEF Byte, pci_read_config_byte, bus, s
  <2>5. QED BY <2>1, <2>2, <2>4
<1>5. QED BY <1>3, <1>4

(***************************************************************************)
(* The invariant, in three parts.                                          *)
(***************************************************************************)

IrqLines == {n \in Nat : n < 256}
Targets == 0 .. TargetsScanned - 1

ControllerSet == [slot : 0 .. Slots - 1, io_base : IoPorts, irq : IrqLines, device_count : Nat]

BlockCount == Number(swap32(scsi_read_capacity.last_lba)) + 1
BlockSize == Number(swap32(scsi_read_capacity.block_size))

DeviceSet ==
    [controller_id : Nat, target : Targets,
     vendor : {vendor}, product : {product}, revision : {revision},
     block_count : {BlockCount}, block_size : {BlockSize}]

\* Still walking over the slots.
Probing == pc \in {"pci", "reset", "ready"}

AdapterSlots == {n \in 0 .. Slots - 1 : Adapter(n)}

TypeInv ==
    /\ PciType
    /\ pc \in {"pci", "reset", "ready", "targets", "listing", "done"}
    /\ slot \in 0 .. Slots
    /\ pc \in {"reset", "ready"} => slot \in AdapterSlots
    /\ controllers \in Seq(ControllerSet) /\ controller_count <= SCSI_MAX_CONTROLLERS
    /\ scsi_devices \in Seq(DeviceSet) /\ device_count <= SCSI_MAX_DEVICES
    /\ ctrl \in Nat \ {0} /\ target \in Targets

\* A controller and a target that the walk over the targets has passed.
Passed(c, t) == c < ctrl \/ (c = ctrl /\ t < target)

\* Where that walk is, and that the list and the targets asked are those it passed.
TargetInv ==
    /\ Probing => scsi_devices = <<>> /\ ctrl = 1 /\ target = 0
    /\ ctrl <= controller_count + 1
    /\ ctrl = controller_count + 1 => target = 0
    /\ pc \in {"listing", "done"} => ctrl = controller_count + 1
    /\ asked \subseteq (1 .. controller_count) \X Targets
    /\ \A c \in 1 .. controller_count, t \in Targets : <<c, t>> \in asked <=> Passed(c, t)
    /\ \A d \in 1 .. device_count :
         Passed(scsi_devices[d].controller_id, scsi_devices[d].target)
    /\ \A d, e \in 1 .. device_count : d < e =>
         \/ scsi_devices[d].controller_id < scsi_devices[e].controller_id
         \/ /\ scsi_devices[d].controller_id = scsi_devices[e].controller_id
            /\ scsi_devices[d].target < scsi_devices[e].target
    /\ device_count < SCSI_MAX_DEVICES =>
         asked = {<<scsi_devices[d].controller_id, scsi_devices[d].target>> :
                    d \in 1 .. device_count}
    /\ CountsAgree

\* An adapter passed by and not registered has a full table before it.
Missed(n) ==
    Adapter(n) /\ n \notin refused /\ \A c \in 1 .. controller_count : controllers[c].slot # n

SlotInv ==
    /\ ~Probing => slot = Slots
    /\ \A c \in 1 .. controller_count : controllers[c].slot < slot
    /\ \A n \in 0 .. slot - 1 : Missed(n) =>
         /\ controller_count = SCSI_MAX_CONTROLLERS
         /\ controllers[controller_count].slot < n

IInv == TypeInv /\ TargetInv /\ SlotInv

(***************************************************************************)
(* Small facts.                                                            *)
(***************************************************************************)

\* The walk over the slots has an end.
LEMMA SlotsNat == Slots \in Nat
<1>1. Buses \in 1 .. 256 /\ SlotsPerBus \in 1 .. 32
  BY PciAssumption, Zenon
<1>2. QED BY <1>1, SMT DEF Slots

\* What is plugged in does not change, so an adapter stays one.
LEMMA AdapterSame ==
    ASSUME pci' = pci, NEW n
    PROVE  Adapter(n)' <=> Adapter(n)
BY DEF Adapter, Word, Byte, IoBase, pci_read_config_word, pci_read_config_byte,
       pci_read_config_dword, Config, FunctionAt

\* The tables are as long as their counts say and hold entries of their kind.
LEMMA LensNat ==
    ASSUME TypeInv
    PROVE  /\ controller_count \in Nat /\ device_count \in Nat
           /\ SCSI_MAX_CONTROLLERS \in Nat \ {0} /\ SCSI_MAX_DEVICES \in Nat
           /\ TargetsScanned \in Nat \ {0}
           /\ \A c \in 1 .. controller_count : controllers[c] \in ControllerSet
           /\ \A d \in 1 .. device_count : scsi_devices[d] \in DeviceSet
BY ScsiAssumption DEF TypeInv, controller_count, device_count

\* What is listed for a controller is finitely much.
LEMMA DevicesFinite ==
    ASSUME TypeInv, NEW c
    PROVE  IsFiniteSet(DevicesOf(c)) /\ Cardinality(DevicesOf(c)) \in Nat
<1>1. IsFiniteSet(1 .. device_count)
  BY LensNat, FS_Interval
<1>2. DevicesOf(c) \subseteq 1 .. device_count
  BY DEF DevicesOf
<1>3. QED BY <1>1, <1>2, FS_Subset, FS_CardinalityType

\* Places in the list are numbered in the order of the targets.
LEMMA RankOrder ==
    ASSUME NEW c \in Nat, NEW e \in Nat, NEW t \in Targets, NEW u \in Targets,
           c < e \/ (c = e /\ t < u)
    PROVE  c * TargetsScanned + t < e * TargetsScanned + u
<1>1. TargetsScanned \in Nat \ {0}
  BY ScsiAssumption
<1>2. t \in Nat /\ u \in Nat /\ t < TargetsScanned
  BY <1>1 DEF Targets
<1>3. CASE c = e /\ t < u
  <2>1. c * TargetsScanned \in Nat
    BY <1>1
  <2> DEFINE base == c * TargetsScanned
  <2>2. base \in Nat
    BY <2>1
  <2>3. e * TargetsScanned = base
    BY <1>3
  <2> HIDE DEF base
  <2>4. base + t < base + u
    BY <1>2, <1>3, <2>2
  <2>5. QED BY <2>3, <2>4 DEF base
<1>4. CASE c < e
  <2>1. (c + 1) * TargetsScanned <= e * TargetsScanned
    BY <1>1, <1>4, SMTT(30)
  <2>2. (c + 1) * TargetsScanned = c * TargetsScanned + TargetsScanned
    BY <1>1, SMTT(30)
  <2>3. c * TargetsScanned \in Nat /\ e * TargetsScanned \in Nat
    BY <1>1
  <2>4. QED BY <1>1, <1>2, <2>1, <2>2, <2>3
<1>5. QED BY <1>3, <1>4

(***************************************************************************)
(* One lemma per action that changes a table, and one for the others.      *)
(***************************************************************************)

\* The invariant holds before anything is scanned.
LEMMA InitInv == Init => IInv
<1> SUFFICES ASSUME Init PROVE IInv
  OBVIOUS
<1>1. /\ pc = "pci" /\ slot = 0 /\ controllers = <<>> /\ scsi_devices = <<>>
      /\ ctrl = 1 /\ target = 0 /\ refused = {} /\ asked = {} /\ pci \in Configurations
  BY DEF Init, PciInit
<1>2. PciType
  BY <1>1, PciAssumption DEF PciType
<1>3. controller_count = 0 /\ device_count = 0
  BY <1>1 DEF controller_count, device_count
<1>4. controllers \in Seq(ControllerSet) /\ scsi_devices \in Seq(DeviceSet)
  BY <1>1
<1>5. 0 \in Targets
  BY ScsiAssumption DEF Targets
<1>6. TypeInv
  BY <1>1, <1>2, <1>3, <1>4, <1>5, SlotsNat, ScsiAssumption DEF TypeInv
<1>7. CountsAgree
  BY <1>3 DEF CountsAgree
<1>8. \A c \in Nat, t \in Targets : ~Passed(c, t) \/ c = 0
  BY <1>1, <1>5, ScsiAssumption DEF Passed, Targets
<1>9. TargetInv
  BY <1>1, <1>3, <1>7, <1>8 DEF TargetInv, Probing
<1>10. SlotInv
  BY <1>1, <1>3 DEF SlotInv, Probing
<1>11. QED BY <1>6, <1>9, <1>10 DEF IInv

\* Steps that leave the tables and the walk over the targets as they are, and pass no
\* adapter by that did get ready.
LEMMA TablesSame ==
    ASSUME IInv,
           UNCHANGED <<pci, controllers, scsi_devices, ctrl, target, asked>>,
           pc' \in {"pci", "reset", "ready", "targets", "listing", "done"},
           slot' \in 0 .. Slots, slot <= slot',
           pc' \in {"reset", "ready"} => slot' \in AdapterSlots,
           Probing' => Probing,
           ~Probing' => slot' = Slots,
           pc' \in {"listing", "done"} => ctrl = controller_count + 1,
           refused \subseteq refused',
           \A n \in 0 .. slot' - 1 : n < slot \/ ~Adapter(n) \/ n \in refused'
    PROVE  IInv'
<1>1. TypeInv /\ TargetInv /\ SlotInv
  BY DEF IInv
<1>2. controller_count' = controller_count /\ device_count' = device_count
  BY DEF controller_count, device_count
<1>3. \A n : Adapter(n)' <=> Adapter(n)
  BY AdapterSame
<1>4. TypeInv'
  <2>1. PciType'
    BY <1>1 DEF TypeInv, PciType
  <2>2. AdapterSlots' = AdapterSlots
    BY <1>3 DEF AdapterSlots, Slots
  <2>3. controllers' \in Seq(ControllerSet) /\ scsi_devices' \in Seq(DeviceSet)
    BY <1>1 DEF TypeInv
  <2>4. ControllerSet' = ControllerSet /\ DeviceSet' = DeviceSet /\ Targets' = Targets
    BY DEF ControllerSet, DeviceSet, Targets
  <2>5. QED BY <1>1, <1>2, <2>1, <2>2, <2>3, <2>4 DEF TypeInv
<1>5. TargetInv'
  <2>1. \A c, t : Passed(c, t)' <=> Passed(c, t)
    BY DEF Passed
  <2>2. CountsAgree'
    BY <1>1, <1>2 DEF TargetInv, CountsAgree, DevicesOf
  <2>3. QED BY <1>1, <1>2, <2>1, <2>2 DEF TargetInv, Targets
<1>6. SlotInv'
  <2>1. \A c \in 1 .. controller_count' : controllers'[c].slot < slot'
    <3>1. \A c \in 1 .. controller_count : controllers[c].slot \in Nat
      BY <1>1, LensNat, SlotsNat DEF ControllerSet
    <3>2. slot \in Nat /\ slot' \in Nat
      BY <1>1, SlotsNat DEF TypeInv
    <3>3. QED BY <1>1, <1>2, <3>1, <3>2 DEF SlotInv
  <2>2. ASSUME NEW n \in 0 .. slot' - 1, Missed(n)'
        PROVE  /\ controller_count' = SCSI_MAX_CONTROLLERS
               /\ controllers'[controller_count'].slot < n
    <3>1. Adapter(n) /\ n \notin refused' /\ \A c \in 1 .. controller_count : controllers[c].slot # n
      BY <1>2, <1>3, <2>2 DEF Missed
    <3>2. n < slot /\ Missed(n)
      BY <3>1 DEF Missed
    <3>3. n \in 0 .. slot - 1
      BY <1>1, <3>2, SlotsNat DEF TypeInv
    <3>4. QED BY <1>1, <1>2, <3>2, <3>3 DEF SlotInv
  <2>3. QED BY <2>1, <2>2 DEF SlotInv
<1>7. QED BY <1>4, <1>5, <1>6 DEF IInv

\* A ready adapter is registered, or the table is full: then an earlier one is last.
LEMMA RegisterInv ==
    ASSUME IInv, Register
    PROVE  IInv'
<1>1. TypeInv /\ TargetInv /\ SlotInv
  BY DEF IInv
<1>2. /\ pc = "ready" /\ pc' = "pci" /\ slot' = slot + 1 /\ controllers' = AddController
      /\ UNCHANGED <<pci, scsi_devices, ctrl, target, refused, asked>>
  BY DEF Register
<1>3. slot \in AdapterSlots /\ slot \in Nat /\ slot < Slots /\ Slots \in Nat
  BY <1>1, <1>2, SlotsNat DEF TypeInv, AdapterSlots
<1>4. scsi_devices = <<>> /\ ctrl = 1 /\ target = 0 /\ device_count = 0
  BY <1>1, <1>2 DEF TargetInv, Probing, device_count
<1>5. device_count' = 0
  BY <1>2, <1>4 DEF device_count
<1>6. \A n : Adapter(n)' <=> Adapter(n)
  BY <1>2, AdapterSame
<1>7. /\ controller_count \in Nat /\ SCSI_MAX_CONTROLLERS \in Nat \ {0}
      /\ controllers \in Seq(ControllerSet) /\ controller_count <= SCSI_MAX_CONTROLLERS
      /\ controller_count = Len(controllers)
  BY <1>1, LensNat DEF TypeInv, controller_count
<1>8. Controller \in ControllerSet
  <2>1. IoBase(slot) \in Nat /\ IoBase(slot) < 65536 /\ Byte(slot, 60) \in Nat /\ Byte(slot, 60) < 256
    BY <1>1, <1>3, PortsAndLine DEF TypeInv
  <2>2. IoBase(slot) # 0
    BY <1>3 DEF AdapterSlots, Adapter
  <2>3. IoBase(slot) \in IoPorts /\ Byte(slot, 60) \in IrqLines
    BY <2>1, <2>2, SixteenBits DEF IrqLines
  <2>4. QED BY <1>3, <2>3 DEF Controller, ControllerSet
<1> DEFINE more == controller_count < SCSI_MAX_CONTROLLERS
           Result ==
             /\ controllers' \in Seq(ControllerSet) /\ controller_count' \in Nat
             /\ controller_count' <= SCSI_MAX_CONTROLLERS /\ controller_count <= controller_count'
             /\ \A c \in 1 .. controller_count' :
                  controllers'[c].slot < slot + 1 /\ controllers'[c].device_count = 0
             /\ \A n \in 0 .. slot : Missed(n)' =>
                         /\ controller_count' = SCSI_MAX_CONTROLLERS
                         /\ controllers'[controller_count'].slot < n
<1>9. ASSUME more PROVE Result
  <2>1. controllers' = Append(controllers, Controller)
    BY <1>2, <1>9 DEF AddController
  <2>2. /\ controllers' \in Seq(ControllerSet)
        /\ controller_count' = controller_count + 1
        /\ \A c \in 1 .. controller_count : controllers'[c] = controllers[c]
        /\ controllers'[controller_count + 1] = Controller
    BY <1>7, <1>8, <2>1 DEF controller_count
  <2>3. Controller.slot = slot /\ Controller.device_count = 0
    BY DEF Controller
  <2> HIDE DEF more
  <2>4. /\ controllers' \in Seq(ControllerSet) /\ controller_count' \in Nat
        /\ controller_count' <= SCSI_MAX_CONTROLLERS /\ controller_count <= controller_count'
    BY <1>7, <1>9, <2>2 DEF more
  <2>5. \A c \in 1 .. controller_count' : controllers'[c].slot < slot + 1
    <3> SUFFICES ASSUME NEW c \in 1 .. controller_count' PROVE controllers'[c].slot < slot + 1
      OBVIOUS
    <3>1. CASE c = controller_count + 1
      BY <1>3, <2>2, <2>3, <3>1
    <3>2. CASE c # controller_count + 1
      <4>1. c \in 1 .. controller_count
        BY <1>7, <2>2, <3>2
      <4>2. controllers[c].slot < slot /\ controllers[c].slot \in Nat
        BY <1>1, <1>3, <4>1, LensNat DEF SlotInv, ControllerSet
      <4>3. QED BY <1>3, <2>2, <4>1, <4>2
    <3>3. QED BY <3>1, <3>2
  <2>6. \A n \in 0 .. slot : ~Missed(n)'
    <3> SUFFICES ASSUME NEW n \in 0 .. slot, Missed(n)' PROVE FALSE
      OBVIOUS
    <3>1. Adapter(n) /\ n \notin refused
          /\ \A c \in 1 .. controller_count' : controllers'[c].slot # n
      BY <1>2, <1>6 DEF Missed
    <3>2. controller_count + 1 \in 1 .. controller_count'
      BY <1>7, <2>2
    <3>3. n # slot
      BY <2>2, <2>3, <3>1, <3>2
    <3>4. \A c \in 1 .. controller_count : c \in 1 .. controller_count'
      BY <1>7, <2>2
    <3>5. Missed(n)
      BY <2>2, <3>1, <3>4 DEF Missed
    <3>6. n \in 0 .. slot - 1
      BY <1>3, <3>3
    <3>7. controller_count = SCSI_MAX_CONTROLLERS
      BY <1>1, <3>5, <3>6 DEF SlotInv
    <3>8. QED BY <1>7, <1>9, <3>7 DEF more
  <2>7. \A c \in 1 .. controller_count' : controllers'[c].device_count = 0
    <3>1. \A c \in 1 .. controller_count : controllers[c].device_count = 0
      <4>1. \A c : DevicesOf(c) = {}
        BY <1>4 DEF DevicesOf
      <4>2. QED BY <1>1, <4>1, FS_EmptySet DEF TargetInv, CountsAgree
    <3>2. QED BY <1>7, <2>2, <2>3, <3>1
  <2>8. QED BY <2>4, <2>5, <2>6, <2>7
<1>10. ASSUME ~more PROVE Result
  <2>1. controllers' = controllers /\ controller_count' = controller_count
    BY <1>2, <1>10 DEF AddController, controller_count
  <2>2. controller_count = SCSI_MAX_CONTROLLERS
    BY <1>7, <1>10
  <2>3. \A c \in 1 .. controller_count : controllers[c].slot < slot /\ controllers[c].slot \in Nat
    BY <1>1, LensNat, SlotsNat DEF SlotInv, ControllerSet
  <2>4. \A n \in 0 .. slot : Missed(n)' =>
          controller_count = SCSI_MAX_CONTROLLERS /\ controllers[controller_count].slot < n
    <3> SUFFICES ASSUME NEW n \in 0 .. slot, Missed(n)'
                 PROVE  controllers[controller_count].slot < n
      BY <2>2
    <3>1. Missed(n)
      BY <1>2, <1>6, <2>1 DEF Missed
    <3>2. CASE n = slot
      BY <1>7, <2>2, <2>3, <3>2
    <3>3. CASE n # slot
      <4>1. n \in 0 .. slot - 1
        BY <1>3, <3>3
      <4>2. QED BY <1>1, <3>1, <4>1 DEF SlotInv
    <3>4. QED BY <3>2, <3>3
  <2>5. \A c \in 1 .. controller_count : controllers[c].device_count = 0
    <3>1. \A c : DevicesOf(c) = {}
      BY <1>4 DEF DevicesOf
    <3>2. QED BY <1>1, <3>1, FS_EmptySet DEF TargetInv, CountsAgree
  <2> HIDE DEF more
  <2>6. QED BY <2>1, <2>2, <2>3, <2>4, <2>5, <1>3, <1>7
<1>11. Result
  BY <1>9, <1>10
<1> HIDE DEF more
<1>12. TypeInv'
  <2>1. PciType'
    BY <1>1, <1>2 DEF TypeInv, PciType
  <2>2. ControllerSet' = ControllerSet /\ DeviceSet' = DeviceSet /\ Targets' = Targets
    BY DEF ControllerSet, DeviceSet, Targets
  <2>3. slot' \in 0 .. Slots
    BY <1>2, <1>3
  <2>4. QED BY <1>1, <1>2, <1>5, <1>11, <2>1, <2>2, <2>3, LensNat DEF TypeInv
<1>13. TargetInv'
  <2>1. /\ controllers' \in Seq(ControllerSet) /\ controller_count' \in Nat
        /\ \A c \in 1 .. controller_count' : controllers'[c].device_count = 0
    BY <1>11
  <2>2. \A c, t : Passed(c, t)' <=> Passed(c, t)
    BY <1>2 DEF Passed
  <2>3. \A c \in Nat \ {0}, t \in Targets : ~Passed(c, t)
    BY <1>4, ScsiAssumption DEF Passed, Targets
  <2>4. asked = {}
    <3>1. asked \subseteq (1 .. controller_count) \X Targets
      BY <1>1 DEF TargetInv
    <3>2. \A c \in 1 .. controller_count, t \in Targets : <<c, t>> \in asked <=> Passed(c, t)
      BY <1>1 DEF TargetInv
    <3>3. \A c \in 1 .. controller_count : c \in Nat \ {0}
      BY <1>7
    <3>4. \A c \in 1 .. controller_count, t \in Targets : <<c, t>> \notin asked
      BY <2>3, <3>2, <3>3
    <3>5. QED BY <3>1, <3>4
  <2>5. asked' = {}
    BY <1>2, <2>4
  <2>6. CountsAgree'
    <3>1. \A c : DevicesOf(c)' = {}
      BY <1>5 DEF DevicesOf
    <3>2. Cardinality({}) = 0
      BY FS_EmptySet
    <3>3. \A c \in 1 .. controller_count' : controllers'[c].device_count = Cardinality(DevicesOf(c)')
      BY <2>1, <3>1, <3>2
    <3>4. 1 .. device_count' = {}
      BY <1>5
    <3>5. QED BY <3>3, <3>4 DEF CountsAgree
  <2>7. \A c \in 1 .. controller_count', t \in Targets : <<c, t>> \notin asked' /\ ~Passed(c, t)'
    <3>1. \A c \in 1 .. controller_count' : c \in Nat \ {0}
      BY <2>1
    <3>2. QED BY <2>2, <2>3, <2>5, <3>1
  <2>8. ctrl' <= controller_count' + 1 /\ target' = 0 /\ ctrl' = 1 /\ scsi_devices' = <<>>
    <3>1. target' = 0 /\ ctrl' = 1 /\ scsi_devices' = <<>>
      BY <1>2, <1>4, Zenon
    <3>2. ASSUME NEW n \in Nat PROVE 1 <= n + 1
      OBVIOUS
    <3>3. controller_count' \in Nat
      BY <2>1, Zenon
    <3>4. QED BY <3>1, <3>2, <3>3, Zenon
  <2>9. Targets' = Targets
    BY DEF Targets
  <2>10. 1 .. device_count' = {}
    BY <1>5
  <2>11. asked' = {<<scsi_devices'[d].controller_id, scsi_devices'[d].target>> :
                     d \in 1 .. device_count'}
    BY <2>5, <2>10
  <2>12. ctrl' # controller_count' + 1 \/ target' = 0
    BY <2>8
  <2>13. Probing' /\ pc' \notin {"listing", "done"}
    BY <1>2 DEF Probing
  <2>14. asked' \subseteq (1 .. controller_count') \X Targets'
    BY <2>5
  <2> HIDE DEF Result
  <2>15. QED
    BY <2>6, <2>7, <2>8, <2>9, <2>10, <2>11, <2>12, <2>13, <2>14, Zenon DEF TargetInv
<1>14. SlotInv'
  BY <1>2, <1>3, <1>11 DEF SlotInv, Probing
<1>15. QED BY <1>12, <1>13, <1>14 DEF IInv

\* A target answered: the next one is due, and the device is in the list if there is room.
LEMMA ScanTargetInv ==
    ASSUME IInv, ScanTarget
    PROVE  IInv'
<1>1. TypeInv /\ TargetInv /\ SlotInv
  BY DEF IInv
<1>2. /\ pc = "targets" /\ ctrl <= controller_count
      /\ asked' = asked \cup {<<ctrl, target>>}
      /\ ListDevice /\ NextTarget
      /\ UNCHANGED <<pc, pci, slot, refused>>
  BY DEF ScanTarget
<1>3. /\ controller_count \in Nat /\ device_count \in Nat /\ TargetsScanned \in Nat \ {0}
      /\ SCSI_MAX_DEVICES \in Nat
      /\ controllers \in Seq(ControllerSet) /\ scsi_devices \in Seq(DeviceSet)
      /\ controller_count = Len(controllers) /\ device_count = Len(scsi_devices)
      /\ device_count <= SCSI_MAX_DEVICES
  BY <1>1, LensNat DEF TypeInv, controller_count, device_count
<1>4. ctrl \in 1 .. controller_count /\ ctrl \in Nat /\ target \in Targets
  BY <1>1, <1>2, <1>3 DEF TypeInv
<1>5. ctrl' \in Nat \ {0} /\ target' \in Targets /\ ctrl' <= controller_count + 1
      /\ (ctrl' = controller_count + 1 => target' = 0)
  BY <1>2, <1>3, <1>4 DEF NextTarget, Targets
<1>6. \A c \in Nat, t \in Targets : Passed(c, t)' <=> Passed(c, t) \/ (c = ctrl /\ t = target)
  BY <1>2, <1>3, <1>4 DEF NextTarget, Targets, Passed
<1>7. Targets' = Targets /\ ControllerSet' = ControllerSet /\ DeviceSet' = DeviceSet
  BY DEF Targets, ControllerSet, DeviceSet
<1>8. Device \in DeviceSet /\ Device.controller_id = ctrl /\ Device.target = target
  BY <1>4 DEF Device, DeviceSet, BlockCount, BlockSize
<1>9. <<ctrl, target>> \notin asked
  BY <1>1, <1>3, <1>4 DEF TargetInv, Passed, Targets
<1>10. \A d \in 1 .. device_count :
         /\ scsi_devices[d].controller_id \in Nat /\ scsi_devices[d].target \in Targets
         /\ Passed(scsi_devices[d].controller_id, scsi_devices[d].target)
  BY <1>1, LensNat DEF TargetInv, DeviceSet
<1> DEFINE Tables ==
             /\ controllers' \in Seq(ControllerSet) /\ Len(controllers') = controller_count
             /\ scsi_devices' \in Seq(DeviceSet) /\ Len(scsi_devices') \in Nat
             /\ Len(scsi_devices') <= SCSI_MAX_DEVICES
             /\ \A c \in 1 .. controller_count : controllers'[c].slot = controllers[c].slot
           Contents ==
             /\ \A d \in 1 .. device_count' :
                  Passed(scsi_devices[d].controller_id, scsi_devices[d].target)'
             /\ \A d, e \in 1 .. device_count' : d < e =>
                  \/ scsi_devices'[d].controller_id < scsi_devices'[e].controller_id
                  \/ /\ scsi_devices'[d].controller_id = scsi_devices'[e].controller_id
                     /\ scsi_devices'[d].target < scsi_devices'[e].target
             /\ device_count' < SCSI_MAX_DEVICES =>
                  asked' = {<<scsi_devices'[d].controller_id, scsi_devices'[d].target>> :
                              d \in 1 .. device_count'}
             /\ CountsAgree'
<1>11. ASSUME device_count < SCSI_MAX_DEVICES PROVE Tables /\ Contents
  <2>1. /\ scsi_devices' = Append(scsi_devices, Device)
        /\ controllers' = [controllers EXCEPT ![ctrl].device_count = @ + 1]
    BY <1>2, <1>11 DEF ListDevice
  <2>2. /\ scsi_devices' \in Seq(DeviceSet) /\ Len(scsi_devices') = device_count + 1
        /\ \A d \in 1 .. device_count : scsi_devices'[d] = scsi_devices[d]
        /\ scsi_devices'[device_count + 1] = Device
    BY <1>3, <1>8, <2>1
  <2>3. device_count' = device_count + 1
    BY <2>2 DEF device_count
  <2>4. controllers[ctrl] \in ControllerSet
    BY <1>3, <1>4
  <2> DEFINE Counted == [controllers[ctrl] EXCEPT !.device_count = @ + 1]
  <2>5. Counted \in ControllerSet /\ Counted.slot = controllers[ctrl].slot
        /\ Counted.device_count = controllers[ctrl].device_count + 1
    BY <2>4 DEF ControllerSet
  <2>6. controllers' = [controllers EXCEPT ![ctrl] = Counted]
    BY <2>1
  <2> HIDE DEF Counted
  <2>7. /\ controllers' \in Seq(ControllerSet) /\ Len(controllers') = controller_count
        /\ controllers'[ctrl] = Counted
        /\ \A c \in 1 .. controller_count : c # ctrl => controllers'[c] = controllers[c]
    BY <1>3, <1>4, <2>5, <2>6
  <2>8. Tables
    <3>1. \A c \in 1 .. controller_count : controllers'[c].slot = controllers[c].slot
      BY <2>5, <2>7
    <3>2. Len(scsi_devices') \in Nat /\ Len(scsi_devices') <= SCSI_MAX_DEVICES
      BY <1>3, <1>11, <2>2
    <3>3. QED BY <2>2, <2>7, <3>1, <3>2
  <2>9. \A d \in 1 .. device_count' :
          Passed(scsi_devices[d].controller_id, scsi_devices[d].target)'
    <3> SUFFICES ASSUME NEW d \in 1 .. device_count'
                 PROVE  Passed(scsi_devices[d].controller_id, scsi_devices[d].target)'
      OBVIOUS
    <3>1. CASE d = device_count + 1
      <4>1. scsi_devices'[d].controller_id = ctrl /\ scsi_devices'[d].target = target
        BY <1>8, <2>2, <3>1
      <4>2. QED BY <1>4, <1>6, <4>1
    <3>2. CASE d # device_count + 1
      <4>1. d \in 1 .. device_count
        BY <1>3, <2>3, <3>2
      <4>2. scsi_devices'[d] = scsi_devices[d]
        BY <2>2, <4>1
      <4>3. QED BY <1>6, <1>10, <4>1, <4>2
    <3>3. QED BY <3>1, <3>2
  <2>10. ASSUME NEW d \in 1 .. device_count', NEW e \in 1 .. device_count', d < e
         PROVE  \/ scsi_devices'[d].controller_id < scsi_devices'[e].controller_id
                \/ /\ scsi_devices'[d].controller_id = scsi_devices'[e].controller_id
                   /\ scsi_devices'[d].target < scsi_devices'[e].target
    <3>1. d \in 1 .. device_count /\ scsi_devices'[d] = scsi_devices[d]
      BY <1>3, <2>2, <2>3, <2>10
    <3>2. CASE e = device_count + 1
      <4>1. scsi_devices'[e].controller_id = ctrl /\ scsi_devices'[e].target = target
        BY <1>8, <2>2, <3>2
      <4>2. QED BY <1>10, <3>1, <4>1 DEF Passed
    <3>3. CASE e # device_count + 1
      <4>1. e \in 1 .. device_count
        BY <1>3, <2>3, <3>3
      <4>2. scsi_devices'[e] = scsi_devices[e]
        BY <2>2, <4>1
      <4>3. QED BY <1>1, <2>10, <3>1, <4>1, <4>2 DEF TargetInv
    <3>4. QED BY <3>2, <3>3
  <2>11. device_count' < SCSI_MAX_DEVICES =>
           asked' = {<<scsi_devices'[d].controller_id, scsi_devices'[d].target>> :
                       d \in 1 .. device_count'}
    <3>1. asked = {<<scsi_devices[d].controller_id, scsi_devices[d].target>> :
                     d \in 1 .. device_count}
      BY <1>1, <1>11 DEF TargetInv
    <3>2. 1 .. device_count' = (1 .. device_count) \cup {device_count + 1}
      BY <1>3, <2>3
    <3>3. /\ scsi_devices'[device_count + 1].controller_id = ctrl
          /\ scsi_devices'[device_count + 1].target = target
      BY <1>8, <2>2
    <3>4. \A d \in 1 .. device_count : scsi_devices'[d] = scsi_devices[d]
      BY <2>2
    <3>5. asked' = asked \cup {<<ctrl, target>>}
      BY <1>2
    <3>6. QED BY <3>1, <3>2, <3>3, <3>4, <3>5, Zenon
  <2>12. CountsAgree'
    <3>1. \A c : DevicesOf(c)' = IF c = ctrl THEN DevicesOf(c) \cup {device_count + 1}
                                             ELSE DevicesOf(c)
      <4>1. 1 .. device_count' = (1 .. device_count) \cup {device_count + 1}
        BY <1>3, <2>3
      <4>2. scsi_devices'[device_count + 1].controller_id = ctrl
        BY <1>8, <2>2
      <4>3. \A d \in 1 .. device_count : scsi_devices'[d] = scsi_devices[d]
        BY <2>2
      <4>4. \A c : DevicesOf(c)' = {d \in 1 .. device_count' : scsi_devices'[d].controller_id = c}
        BY DEF DevicesOf
      <4>5. QED BY <4>1, <4>2, <4>3, <4>4 DEF DevicesOf
    <3>2. device_count + 1 \notin DevicesOf(ctrl)
      BY <1>3 DEF DevicesOf
    <3>3. Cardinality(DevicesOf(ctrl) \cup {device_count + 1}) = Cardinality(DevicesOf(ctrl)) + 1
      BY <1>1, <3>2, DevicesFinite, FS_AddElement
    <3>4. \A c \in 1 .. controller_count :
            controllers[c].device_count = Cardinality(DevicesOf(c))
      BY <1>1 DEF TargetInv, CountsAgree
    <3>5. controller_count' = controller_count
      BY <2>7 DEF controller_count
    <3>6. \A c \in 1 .. controller_count :
            controllers'[c].device_count = Cardinality(DevicesOf(c)')
      <4> SUFFICES ASSUME NEW c \in 1 .. controller_count
                   PROVE  controllers'[c].device_count = Cardinality(DevicesOf(c)')
        OBVIOUS
      <4>1. CASE c = ctrl
        BY <2>5, <2>7, <3>1, <3>3, <3>4, <4>1
      <4>2. CASE c # ctrl
        BY <2>7, <3>1, <3>4, <4>2
      <4>3. QED BY <4>1, <4>2
    <3>7. \A d \in 1 .. device_count' :
            scsi_devices'[d].controller_id \in 1 .. controller_count
      <4>1. \A d \in 1 .. device_count : scsi_devices[d].controller_id \in 1 .. controller_count
        BY <1>1 DEF TargetInv, CountsAgree
      <4>2. QED BY <1>3, <1>4, <1>8, <2>2, <2>3, <4>1
    <3>8. QED BY <3>5, <3>6, <3>7 DEF CountsAgree
  <2>13. Contents
    <3> HIDE DEF Tables
    <3>1. QED BY <2>9, <2>10, <2>11, <2>12, Zenon
  <2> HIDE DEF Tables, Contents
  <2>14. QED BY <2>8, <2>13
<1>12. ASSUME ~(device_count < SCSI_MAX_DEVICES) PROVE Tables /\ Contents
  <2>1. scsi_devices' = scsi_devices /\ controllers' = controllers
    BY <1>2, <1>12 DEF ListDevice
  <2>2. device_count' = device_count /\ controller_count' = controller_count
    BY <2>1 DEF device_count, controller_count
  <2>3. Tables
    BY <1>3, <2>1
  <2>4. \A d \in 1 .. device_count' :
          Passed(scsi_devices[d].controller_id, scsi_devices[d].target)'
    BY <1>6, <1>10, <2>1, <2>2
  <2>5. CountsAgree'
    BY <1>1, <2>1, <2>2 DEF TargetInv, CountsAgree, DevicesOf
  <2>6. \A d, e \in 1 .. device_count : d < e =>
          \/ scsi_devices[d].controller_id < scsi_devices[e].controller_id
          \/ /\ scsi_devices[d].controller_id = scsi_devices[e].controller_id
             /\ scsi_devices[d].target < scsi_devices[e].target
    BY <1>1 DEF TargetInv
  <2>7. Contents
    <3> HIDE DEF Tables
    <3>1. QED BY <1>12, <2>1, <2>2, <2>4, <2>5, <2>6, Zenon
  <2> HIDE DEF Tables, Contents
  <2>8. QED BY <2>3, <2>7
<1>13. Tables /\ Contents
  <2> HIDE DEF Tables, Contents
  <2>1. QED BY <1>11, <1>12
<1>14. controller_count' = controller_count /\ device_count' = Len(scsi_devices')
  BY <1>13 DEF controller_count, device_count
<1>15. TypeInv'
  <2>1. PciType'
    BY <1>1, <1>2 DEF TypeInv, PciType
  <2>2. /\ controllers' \in Seq(ControllerSet)' /\ controller_count' <= SCSI_MAX_CONTROLLERS
        /\ scsi_devices' \in Seq(DeviceSet)' /\ device_count' <= SCSI_MAX_DEVICES
    BY <1>1, <1>7, <1>13, <1>14 DEF TypeInv
  <2>3. slot' \in 0 .. Slots /\ pc' = "targets"
    BY <1>1, <1>2 DEF TypeInv
  <2> HIDE DEF Tables, Contents
  <2>4. QED BY <1>5, <1>7, <2>1, <2>2, <2>3 DEF TypeInv
<1>16. SlotInv'
  <2>1. \A n : Adapter(n)' <=> Adapter(n)
    BY <1>2, AdapterSame
  <2>2. \A c \in 1 .. controller_count : controllers'[c].slot = controllers[c].slot
    BY <1>13
  <2>3. controller_count \in 1 .. controller_count
    BY <1>3, <1>4
  <2> HIDE DEF Tables, Contents
  <2>4. \A n : Missed(n)' <=> Missed(n)
    BY <1>2, <1>14, <2>1, <2>2 DEF Missed
  <2>5. slot' = slot /\ Probing' = Probing
    BY <1>2 DEF Probing
  <2>6. QED BY <1>1, <1>14, <2>2, <2>3, <2>4, <2>5 DEF SlotInv
<1>17. TargetInv'
  <2>1. \A c \in 1 .. controller_count', t \in Targets' : <<c, t>> \in asked' <=> Passed(c, t)'
    <3>1. \A c \in 1 .. controller_count : c \in Nat
      BY <1>3
    <3>2. \A c \in 1 .. controller_count, t \in Targets : <<c, t>> \in asked <=> Passed(c, t)
      <4>1. TargetInv
        BY <1>1
      <4>2. QED BY <4>1, Zenon DEF TargetInv
    <3>3. controller_count' = controller_count /\ Targets' = Targets
      BY <1>7, <1>14, Zenon
    <3>4. asked' = asked \cup {<<ctrl, target>>}
      BY <1>2
    <3> HIDE DEF Tables, Contents
    <3> SUFFICES ASSUME NEW c \in 1 .. controller_count, NEW t \in Targets
                 PROVE  <<c, t>> \in asked' <=> Passed(c, t)'
      BY <3>3, Zenon
    <3>5. Passed(c, t)' <=> Passed(c, t) \/ (c = ctrl /\ t = target)
      BY <1>6, <3>1
    <3>6. <<c, t>> \in asked <=> Passed(c, t)
      BY <3>2
    <3>7. QED BY <3>4, <3>5, <3>6
  <2>2. asked' \subseteq (1 .. controller_count') \X Targets'
    <3>1. asked \subseteq (1 .. controller_count) \X Targets
      BY <1>1 DEF TargetInv
    <3> HIDE DEF Tables, Contents
    <3>2. QED BY <1>2, <1>4, <1>7, <1>14, <3>1
  <2>3. ~Probing' /\ pc' \notin {"listing", "done"}
    BY <1>2 DEF Probing
  <2>4. Contents
    BY <1>13
  <2>5. ctrl' <= controller_count' + 1 /\ (ctrl' = controller_count' + 1 => target' = 0)
    BY <1>5, <1>14
  <2>6. QED BY <2>1, <2>2, <2>3, <2>4, <2>5, Zenon DEF TargetInv
<1>18. QED BY <1>15, <1>16, <1>17 DEF IInv

\* Every step keeps the invariant.
LEMMA NextInv == IInv /\ [Next]_vars => IInv'
<1> SUFFICES ASSUME IInv, [Next]_vars PROVE IInv'
  OBVIOUS
<1> USE DEF vars, listed
<1>1. TypeInv /\ TargetInv /\ SlotInv
  BY DEF IInv
<1>2. slot \in 0 .. Slots /\ slot \in Nat /\ Slots \in Nat
  BY <1>1, SlotsNat DEF TypeInv
<1>3. CASE SkipSlot
  <2>1. /\ pc = "pci" /\ pc' = "pci" /\ slot < Slots /\ ~Adapter(slot) /\ slot' = slot + 1
        /\ UNCHANGED <<pci, controllers, scsi_devices, ctrl, target, refused, asked>>
    BY <1>3 DEF SkipSlot
  <2>2. Probing' /\ Probing /\ slot' \in 0 .. Slots /\ slot <= slot'
    BY <1>2, <2>1 DEF Probing
  <2>3. \A n \in 0 .. slot' - 1 : n < slot \/ ~Adapter(n)
    BY <1>2, <2>1
  <2>4. QED BY <2>1, <2>2, <2>3, TablesSame
<1>4. CASE SoftReset
  <2>1. /\ pc = "pci" /\ pc' = "reset" /\ slot < Slots /\ Adapter(slot)
        /\ UNCHANGED <<slot, pci, controllers, scsi_devices, ctrl, target, refused, asked>>
    BY <1>4 DEF SoftReset
  <2>2. slot' \in AdapterSlots /\ slot <= slot' /\ \A n \in 0 .. slot' - 1 : n < slot
    BY <1>2, <2>1 DEF AdapterSlots
  <2>3. Probing' /\ Probing
    BY <2>1 DEF Probing
  <2>4. QED BY <1>2, <2>1, <2>2, <2>3, TablesSame
<1>5. CASE WaitReset
  <2>1. /\ pc = "reset" /\ pc' = "ready"
        /\ UNCHANGED <<slot, pci, controllers, scsi_devices, ctrl, target, refused, asked>>
    BY <1>5 DEF WaitReset
  <2>2. slot' \in AdapterSlots /\ slot <= slot' /\ \A n \in 0 .. slot' - 1 : n < slot
    BY <1>1, <1>2, <2>1 DEF TypeInv
  <2>3. Probing' /\ Probing
    BY <2>1 DEF Probing
  <2>4. QED BY <1>2, <2>1, <2>2, <2>3, TablesSame
<1>6. CASE Register
  BY <1>6, RegisterInv
<1>7. CASE TimeOut
  <2>1. /\ pc = "ready" /\ pc' = "pci" /\ slot' = slot + 1 /\ refused' = refused \cup {slot}
        /\ UNCHANGED <<pci, controllers, scsi_devices, ctrl, target, asked>>
    BY <1>7 DEF TimeOut
  <2>2. slot < Slots
    BY <1>1, <1>2, <2>1 DEF TypeInv, AdapterSlots
  <2>3. Probing' /\ Probing /\ slot' \in 0 .. Slots /\ slot <= slot'
    BY <1>2, <2>1, <2>2 DEF Probing
  <2>4. \A n \in 0 .. slot' - 1 : n < slot \/ n \in refused'
    BY <1>2, <2>1
  <2>5. QED BY <2>1, <2>3, <2>4, TablesSame
<1>8. CASE EndPci
  <2>1. /\ pc = "pci" /\ pc' = "targets" /\ slot = Slots
        /\ UNCHANGED <<slot, pci, controllers, scsi_devices, ctrl, target, refused, asked>>
    BY <1>8 DEF EndPci
  <2>2. ~Probing' /\ slot <= slot' /\ \A n \in 0 .. slot' - 1 : n < slot
    BY <1>2, <2>1 DEF Probing
  <2>3. QED BY <1>2, <2>1, <2>2, TablesSame
<1>9. CASE ScanTarget
  BY <1>9, ScanTargetInv
<1>10. CASE EndScan
  <2>1. /\ pc = "targets" /\ pc' = "listing" /\ ctrl > controller_count
        /\ UNCHANGED <<slot, pci, controllers, scsi_devices, ctrl, target, refused, asked>>
    BY <1>10 DEF EndScan
  <2>2. ctrl = controller_count + 1
    <3>1. ctrl \in Nat /\ controller_count \in Nat /\ ctrl <= controller_count + 1
      BY <1>1, LensNat DEF TypeInv, TargetInv
    <3>2. QED BY <2>1, <3>1
  <2>3. ~Probing' /\ slot' = Slots /\ slot <= slot' /\ \A n \in 0 .. slot' - 1 : n < slot
    BY <1>1, <1>2, <2>1 DEF Probing, SlotInv
  <2>4. QED BY <1>2, <2>1, <2>2, <2>3, TablesSame
<1>11. CASE ListPci \/ EndListing
  <2>1. /\ pc = "listing" /\ pc' \in {"listing", "done"}
        /\ UNCHANGED <<slot, pci, controllers, scsi_devices, ctrl, target, refused, asked>>
    BY <1>11 DEF ListPci, EndListing, ListFunction
  <2>2. ctrl = controller_count + 1
    BY <1>1, <2>1 DEF TargetInv
  <2>3. ~Probing' /\ slot' = Slots /\ slot <= slot' /\ \A n \in 0 .. slot' - 1 : n < slot
    BY <1>1, <1>2, <2>1 DEF Probing, SlotInv
  <2>4. QED BY <1>2, <2>1, <2>2, <2>3, TablesSame
<1>12. CASE UNCHANGED vars
  <2>1. UNCHANGED <<pc, slot, pci, controllers, scsi_devices, ctrl, target, refused, asked>>
    BY <1>12
  <2>2. Probing' = Probing /\ slot <= slot' /\ \A n \in 0 .. slot' - 1 : n < slot
    BY <1>2, <2>1 DEF Probing
  <2>3. /\ pc \in {"pci", "reset", "ready", "targets", "listing", "done"}
        /\ (pc' \in {"reset", "ready"} => slot' \in AdapterSlots)
        /\ (~Probing' => slot' = Slots)
        /\ (pc' \in {"listing", "done"} => ctrl = controller_count + 1)
    BY <1>1, <2>1, <2>2 DEF TypeInv, TargetInv, SlotInv
  <2>4. QED BY <1>2, <2>1, <2>2, <2>3, TablesSame
<1>13. QED
  BY <1>3, <1>4, <1>5, <1>6, <1>7, <1>8, <1>9, <1>10, <1>11, <1>12 DEF Next

\* So it holds throughout the scan.
LEMMA Invariant == Spec => []IInv
BY InitInv, NextInv, PTL DEF Spec

(***************************************************************************)
(* The texts of a device.                                                  *)
(***************************************************************************)

\* A non-empty set of numbers has a least one.
LEMMA Least ==
    ASSUME NEW S, S \subseteq Nat, S # {}
    PROVE  Min(S) \in S /\ \A y \in S : Min(S) <= y
<1>1. PICK m \in S : \A y \in S : <<y, m>> \notin OpToRel(<, Nat)
  BY NatLessThanWellFounded, WFMin, Zenon
<1>2. \A y \in S : m <= y
  <2> TAKE y \in S
  <2>1. y \in Nat /\ m \in Nat
    BY <1>1
  <2>2. <<y, m>> \notin OpToRel(<, Nat)
    BY <1>1
  <2>3. ~(y < m)
    BY <2>1, <2>2 DEF OpToRel
  <2>4. QED BY <2>1, <2>3
<1>3. QED BY <1>2, Zenon DEF Min

\* A non-empty set of numbers up to a bound has a greatest one.
LEMMA Greatest ==
    ASSUME NEW N \in Nat, NEW S, S \subseteq 0 .. N, S # {}
    PROVE  Max(S) \in S /\ \A y \in S : y <= Max(S)
<1> DEFINE T == {N - x : x \in S}
<1>1. T \subseteq Nat /\ T # {}
  <2>1. \A x \in S : N - x \in Nat
    OBVIOUS
  <2>2. QED BY <2>1, Zenon
<1>2. Min(T) \in T /\ \A y \in T : Min(T) <= y
  BY <1>1, Least
<1>3. PICK x \in S : Min(T) = N - x
  BY <1>2
<1>4. ASSUME NEW y \in S PROVE x >= y
  <2>1. N - y \in T
    OBVIOUS
  <2>2. N - x <= N - y
    BY <1>2, <1>3, <2>1
  <2>3. QED BY <2>2
<1>5. Max(S) \in S /\ \A y \in S : Max(S) >= y
  BY <1>4, Zenon DEF Max
<1>6. QED BY <1>5

\* A space, by a name of its own.
Blank == " "

\* The two blanks, the first under the name it has in these proofs.
LEMMA BlanksAre == Blanks = {Blank, "0"}
BY Zenon DEF Blanks, Blank

\* Characters of a text; the 0 that ends one is not among them.
Letter == STRING \ {"0"}

\* The characters of a text that are no blanks.
Solid(text) == {n \in DOMAIN text : text[n] # Blank}

\* T characters of the text are left when the blanks at its end are gone.
TrimmedAt(text, T) ==
    /\ T \in 0 .. Len(text)
    /\ T > 0 => text[T] # Blank
    /\ \A n \in 1 .. Len(text) : n > T => text[n] = Blank

\* Such a number exists, and says what Trimmed keeps.
LEMMA TrimIs ==
    ASSUME NEW text \in Seq(Letter)
    PROVE  \E T : TrimmedAt(text, T) /\ Trimmed(text) = SubSeq(text, 1, T)
<1> DEFINE T == IF Solid(text) = {} THEN 0 ELSE Max(Solid(text))
<1>1. Len(text) \in Nat /\ DOMAIN text = 1 .. Len(text)
  OBVIOUS
<1>2. Solid(text) = {n \in 1 .. Len(text) : text[n] # Blank}
  BY <1>1 DEF Solid
<1>3. TrimmedAt(text, T)
  <2>1. CASE Solid(text) = {}
    BY <1>1, <1>2, <2>1 DEF TrimmedAt
  <2>2. CASE Solid(text) # {}
    <3>1. Solid(text) \subseteq 0 .. Len(text)
      BY <1>1, <1>2
    <3>2. T \in Solid(text) /\ \A y \in Solid(text) : y <= T
      BY <1>1, <2>2, <3>1, Greatest
    <3> HIDE DEF T
    <3>3. T \in 1 .. Len(text) /\ text[T] # Blank
      BY <1>2, <3>2
    <3>4. ASSUME NEW n \in 1 .. Len(text), n > T PROVE text[n] = Blank
      <4>1. n \notin Solid(text)
        BY <1>1, <3>2, <3>3, <3>4
      <4>2. QED BY <1>2, <4>1
    <3>5. QED BY <1>1, <3>3, <3>4 DEF TrimmedAt
  <2>3. QED BY <2>1, <2>2
<1>4. Trimmed(text) = SubSeq(text, 1, T)
  BY Zenon DEF Trimmed, Solid, Blank
<1>5. QED BY <1>3, <1>4, Zenon

\* A field of a memory holds the first T characters of a text and 0 behind them.
Holds(mem, at, length, text, T) ==
    \A n \in 0 .. length - 1 : mem[at + n] = IF n < T THEN text[n + 1] ELSE "0"

\* A memory that has room for the field and the terminator behind it, and holds 0
\* where the field is longer than the text.
Fits(mem, at, length, text) ==
    /\ Len(text) <= length
    /\ \A n \in DOMAIN mem : n \in Nat
    /\ at .. at + length \subseteq DOMAIN mem
    /\ \A n \in 0 .. length - 1 : n > Len(text) => mem[at + n] = "0"

\* All else is as before.
SameElsewhere(mem, out, at, length) ==
    /\ DOMAIN out = DOMAIN mem
    /\ \A n \in DOMAIN mem : n < at \/ n > at + length => out[n] = mem[n]

\* scsi_string_copy puts a text into a field of a memory, without the blanks at its
\* end, fills the rest of the field with 0 and writes one terminator behind it.
LEMMA CopyText ==
    ASSUME NEW mem, NEW dest \in Nat, NEW length \in Nat, NEW text \in Seq(Letter),
           NEW T, TrimmedAt(text, T), Fits(mem, dest, length, text)
    PROVE  /\ Holds(scsi_string_copy(mem, dest, text, length), dest, length, text, T)
           /\ SameElsewhere(mem, scsi_string_copy(mem, dest, text, length), dest, length)
<1> DEFINE L == Len(text)
           copied == [n \in DOMAIN mem |->
                        IF n - dest \in 0 .. Len(text) - 1 THEN text[n - dest + 1]
                        ELSE IF n = dest + Len(text) THEN "0" ELSE mem[n]]
           solid == {n \in 0 .. length - 1 : copied[dest + n] \notin Blanks}
           end == IF solid = {} THEN 0 ELSE Max(solid) + 1
           out == [n \in DOMAIN mem |-> IF n - dest \in end .. length - 1 THEN "0" ELSE copied[n]]
<1>1. scsi_string_copy(mem, dest, text, length) = out
  BY Zenon DEF scsi_string_copy
<1>0. /\ Len(text) <= length
      /\ \A n \in DOMAIN mem : n \in Nat
      /\ dest .. dest + length \subseteq DOMAIN mem
      /\ \A n \in 0 .. length - 1 : n > Len(text) => mem[dest + n] = "0"
  BY DEF Fits
<1>2. L \in Nat /\ L <= length /\ T \in 0 .. L /\ T \in Nat
  BY <1>0 DEF TrimmedAt
<1>3. \A n \in 0 .. length - 1 : dest + n \in DOMAIN mem /\ (dest + n) - dest = n
  BY <1>0
<1>4. \A n \in 0 .. length - 1 : copied[dest + n] = IF n < L THEN text[n + 1] ELSE "0"
  <2> TAKE n \in 0 .. length - 1
  <2>1. dest + n \in DOMAIN mem /\ (dest + n) - dest = n
    BY <1>3
  <2>2. copied[dest + n] = IF n \in 0 .. L - 1 THEN text[n + 1]
                           ELSE IF dest + n = dest + L THEN "0" ELSE mem[dest + n]
    BY <2>1
  <2>3. QED BY <1>0, <1>2, <2>2
<1>5. \A n \in DOMAIN mem : n < dest \/ n > dest + length => copied[n] = mem[n]
  <2> TAKE n \in DOMAIN mem
  <2>1. n \in Nat
    BY <1>0
  <2>2. n < dest \/ n > dest + length => n - dest \notin 0 .. L - 1 /\ n # dest + L
    BY <1>2, <2>1
  <2>3. QED BY <2>2
<1> HIDE DEF copied
<1>6. \A n \in 0 .. length - 1 : copied[dest + n] \notin Blanks <=> (n < L /\ text[n + 1] # Blank)
  <2> TAKE n \in 0 .. length - 1
  <2>1. copied[dest + n] = IF n < L THEN text[n + 1] ELSE "0"
    BY <1>4
  <2>2. n < L => text[n + 1] # "0"
    BY <1>2 DEF Letter
  <2>3. QED BY <2>1, <2>2, BlanksAre
<1>7. solid = {n \in 0 .. length - 1 : n < L /\ text[n + 1] # Blank}
  BY <1>6
<1>8. end = T
  <2>1. CASE solid = {}
    <3>1. ASSUME T # 0 PROVE FALSE
      <4>1. T - 1 \in 0 .. length - 1 /\ T - 1 < L /\ (T - 1) + 1 = T
        BY <1>2, <3>1
      <4>2. text[T] # Blank
        BY <1>2, <3>1 DEF TrimmedAt
      <4>3. T - 1 \in solid
        BY <1>7, <4>1, <4>2
      <4>4. QED BY <2>1, <4>3
    <3>2. QED BY <2>1, <3>1
  <2>2. CASE solid # {}
    <3>1. solid \subseteq 0 .. length
      OBVIOUS
    <3>2. PICK m \in solid : m = Max(solid) /\ \A y \in solid : y <= m
      BY <2>2, <3>1, Greatest
    <3> HIDE DEF solid
    <3>3. m \in Nat /\ m < L /\ text[m + 1] # Blank
      BY <1>7, <3>2
    <3>4. m + 1 <= T
      <4>1. m + 1 \in 1 .. Len(text)
        BY <1>2, <3>3
      <4>2. ~(m + 1 > T)
        BY <3>3, <4>1 DEF TrimmedAt
      <4>3. QED BY <1>2, <3>3, <4>2
    <3>5. T - 1 <= m
      <4>1. T - 1 \in 0 .. length - 1 /\ T - 1 < L /\ (T - 1) + 1 = T
        BY <1>2, <3>3, <3>4
      <4>2. text[T] # Blank
        BY <1>2, <3>3, <3>4 DEF TrimmedAt
      <4>3. T - 1 \in solid
        BY <1>7, <4>1, <4>2
      <4>4. QED BY <3>2, <4>3
    <3>6. end = m + 1
      BY <2>2, <3>2
    <3> HIDE DEF end
    <3>7. QED BY <1>2, <3>3, <3>4, <3>5, <3>6
  <2>3. QED BY <2>1, <2>2
<1> HIDE DEF end, solid
<1>9. \A n \in 0 .. length - 1 : out[dest + n] = IF n < T THEN text[n + 1] ELSE "0"
  <2> TAKE n \in 0 .. length - 1
  <2>1. dest + n \in DOMAIN mem /\ (dest + n) - dest = n
    BY <1>3
  <2>2. out[dest + n] = IF n \in T .. length - 1 THEN "0" ELSE copied[dest + n]
    BY <1>8, <2>1
  <2>3. copied[dest + n] = IF n < L THEN text[n + 1] ELSE "0"
    BY <1>4
  <2> HIDE DEF out
  <2>4. QED BY <1>2, <2>2, <2>3
<1>10. \A n \in DOMAIN mem : n < dest \/ n > dest + length => out[n] = mem[n]
  <2> TAKE n \in DOMAIN mem
  <2>1. n \in Nat
    BY <1>0
  <2>2. n < dest \/ n > dest + length => n - dest \notin end .. length - 1
    BY <1>2, <1>8, <2>1
  <2>3. QED BY <2>2, <1>5
<1>11. DOMAIN out = DOMAIN mem
  OBVIOUS
<1> HIDE DEF out
<1>12. QED BY <1>1, <1>9, <1>10, <1>11, Zenon DEF Holds, SameElsewhere

\* Reading a field back gives the characters before the first 0.
LEMMA TextIs ==
    ASSUME NEW mem, NEW at \in Nat, NEW length \in Nat, NEW text \in Seq(Letter),
           NEW T \in 0 .. Len(text), T <= length,
           Holds(mem, at, length, text, T)
    PROVE  TextAt(mem, at, length) = SubSeq(text, 1, T)
<1> DEFINE ends == {n \in 0 .. length - 1 : mem[at + n] = "0"}
           k == IF ends = {} THEN length ELSE Min(ends)
<1>1. Len(text) \in Nat /\ T \in Nat /\ \A n \in 1 .. Len(text) : text[n] # "0"
  BY DEF Letter
<1>2. ends = {n \in 0 .. length - 1 : n >= T}
  <2>1. \A n \in 0 .. length - 1 : n < T => text[n + 1] # "0"
    BY <1>1
  <2>2. \A n \in 0 .. length - 1 : mem[at + n] = "0" <=> n >= T
    <3> TAKE n \in 0 .. length - 1
    <3>1. mem[at + n] = IF n < T THEN text[n + 1] ELSE "0"
      BY DEF Holds
    <3>2. CASE n < T
      BY <2>1, <3>1, <3>2, <1>1
    <3>3. CASE ~(n < T)
      BY <3>1, <3>3, <1>1
    <3>4. QED BY <3>2, <3>3
  <2>3. QED BY <2>2
<1>3. k = T
  <2>1. CASE ends = {}
    <3>1. ~(T < length)
      <4> HIDE DEF ends
      <4>1. T \in 0 .. length - 1 => T \in ends
        BY <1>1, <1>2
      <4>2. QED BY <1>1, <2>1, <4>1
    <3>2. QED BY <1>1, <2>1, <3>1
  <2>2. CASE ends # {}
    <3>1. Min(ends) \in ends /\ \A y \in ends : Min(ends) <= y
      <4>1. ends \subseteq Nat
        OBVIOUS
      <4> HIDE DEF ends
      <4>2. QED BY <2>2, <4>1, Least
    <3>2. PICK m \in ends : m = Min(ends) /\ \A y \in ends : m <= y
      BY <3>1
    <3>3. m \in Nat /\ m >= T /\ m < length
      BY <1>1, <1>2, <3>2
    <3>4. T \in ends
      <4>1. T \in 0 .. length - 1 /\ T >= T
        BY <1>1, <3>3
      <4> HIDE DEF ends
      <4>2. QED BY <1>2, <4>1
    <3>5. QED BY <1>1, <2>2, <3>2, <3>3, <3>4
  <2>3. QED BY <2>1, <2>2
<1>4. TextAt(mem, at, length) = [n \in 1 .. k |-> mem[at + n - 1]]
  BY Zenon DEF TextAt
<1> HIDE DEF k, ends
<1>5. \A n \in 1 .. T : mem[at + n - 1] = text[n]
  <2> TAKE n \in 1 .. T
  <2>1. n - 1 \in 0 .. length - 1 /\ n - 1 < T /\ at + (n - 1) = at + n - 1 /\ (n - 1) + 1 = n
    BY <1>1
  <2>2. mem[at + (n - 1)] = text[(n - 1) + 1]
    BY <2>1 DEF Holds
  <2>3. QED BY <2>1, <2>2
<1>6. SubSeq(text, 1, T) = [n \in 1 .. T |-> text[n]]
  BY <1>1
<1>7. QED BY <1>3, <1>4, <1>5, <1>6

\* A field that holds a text without the blanks at its end.
Filled(mem, at, length, text, T) ==
    /\ at \in Nat /\ length \in Nat /\ text \in Seq(Letter) /\ Len(text) <= length
    /\ TrimmedAt(text, T) /\ Holds(mem, at, length, text, T)

\* What is read of it in the end is the text without those blanks.
Told(mem, at, length, text, T) == FieldFrom(mem, at, length) = SubSeq(text, 1, T)

\* A trimmed text that was put into a field comes out of it, and out of the field of
\* the device it is copied to.
LEMMA FieldBack ==
    ASSUME NEW mem, NEW at, NEW length, NEW text, NEW T, Filled(mem, at, length, text, T)
    PROVE  Told(mem, at, length, text, T)
<1> DEFINE u == SubSeq(text, 1, T)
           zero == [n \in 0 .. length |-> "0"]
<1>0. /\ at \in Nat /\ length \in Nat /\ text \in Seq(Letter) /\ Len(text) <= length
      /\ TrimmedAt(text, T) /\ Holds(mem, at, length, text, T)
  BY DEF Filled
<1>1. Len(text) \in Nat /\ T \in 0 .. Len(text) /\ T \in Nat /\ T <= length
  BY <1>0 DEF TrimmedAt
<1>2. TextAt(mem, at, length) = u
  BY <1>0, <1>1, TextIs, Zenon
<1>3. /\ u \in Seq(Letter) /\ Len(u) = T
      /\ \A n \in 1 .. T : u[n] = text[n]
  BY <1>0, <1>1
<1>4. SubSeq(u, 1, T) = u
  BY <1>3
<1> HIDE DEF u
<1>5. TrimmedAt(u, T)
  BY <1>0, <1>1, <1>3 DEF TrimmedAt
<1>6. /\ DOMAIN zero = 0 .. length
      /\ \A n \in DOMAIN zero : n \in Nat
      /\ 0 .. 0 + length \subseteq DOMAIN zero
      /\ \A n \in 0 .. length - 1 : zero[0 + n] = "0"
  BY <1>0
<1> HIDE DEF zero
<1>7. Holds(scsi_string_copy(zero, 0, u, length), 0, length, u, T)
  <2>1. Fits(zero, 0, length, u)
    BY <1>0, <1>1, <1>3, <1>6 DEF Fits
  <2>2. 0 \in Nat
    OBVIOUS
  <2>3. QED BY <1>0, <1>3, <1>5, <2>1, <2>2, CopyText, Zenon
<1>8. TextAt(scsi_string_copy(zero, 0, u, length), 0, length) = SubSeq(u, 1, T)
  <2>1. T \in 0 .. Len(u)
    BY <1>1, <1>3
  <2>2. 0 \in Nat
    OBVIOUS
  <2>3. T <= length /\ u \in Seq(Letter) /\ length \in Nat
    BY <1>0, <1>1, <1>3
  <2> DEFINE out == scsi_string_copy(zero, 0, u, length)
  <2>4. Holds(out, 0, length, u, T)
    BY <1>7
  <2> HIDE DEF out
  <2>5. TextAt(out, 0, length) = SubSeq(u, 1, T)
    BY <2>1, <2>2, <2>3, <2>4, TextIs, Zenon
  <2>6. QED BY <2>5 DEF out
<1>9. FieldFrom(mem, at, length) = TextAt(scsi_string_copy(zero, 0, TextAt(mem, at, length), length), 0, length)
  BY Zenon DEF FieldFrom, zero
<1>10. QED BY <1>2, <1>4, <1>8, <1>9, Zenon DEF u, Told

\* The three texts of INQUIRY fill their fields.
LEMMA TextsAre ==
    /\ Texts.vendor \in Seq(Letter) /\ Len(Texts.vendor) = 8
    /\ Texts.product \in Seq(Letter) /\ Len(Texts.product) = 16
    /\ Texts.revision \in Seq(Letter) /\ Len(Texts.revision) = 4
<1>1. ASSUME NEW N \in Nat, NEW S, NEW f \in [1 .. N -> S]
      PROVE  f \in Seq(S) /\ Len(f) = N
  OBVIOUS
<1>2. 8 \in Nat /\ 16 \in Nat /\ 4 \in Nat
  OBVIOUS
<1>3. QED BY <1>1, <1>2, ScsiAssumption, Zenon DEF Letter

\* Each of the three fields of the inquiry data is told to the device without the blanks
\* at its end: the terminators of the first two are overwritten by the field
\* behind, and the copies after the first leave the fields before alone.
LEMMA FieldsTold ==
    vendor = Trimmed(Texts.vendor) /\ product = Trimmed(Texts.product) /\ revision = Trimmed(Texts.revision)
<1> DEFINE Empty == [n \in 8 .. 36 |-> "?"]
<1>1. DOMAIN Empty = 8 .. 36
  OBVIOUS
<1> HIDE DEF Empty
<1>2. PICK v, p, r :
         /\ TrimmedAt(Texts.vendor, v) /\ Trimmed(Texts.vendor) = SubSeq(Texts.vendor, 1, v)
         /\ TrimmedAt(Texts.product, p) /\ Trimmed(Texts.product) = SubSeq(Texts.product, 1, p)
         /\ TrimmedAt(Texts.revision, r) /\ Trimmed(Texts.revision) = SubSeq(Texts.revision, 1, r)
  <2>1. \E v : TrimmedAt(Texts.vendor, v) /\ Trimmed(Texts.vendor) = SubSeq(Texts.vendor, 1, v)
    BY TextsAre, TrimIs
  <2>2. \E p : TrimmedAt(Texts.product, p) /\ Trimmed(Texts.product) = SubSeq(Texts.product, 1, p)
    BY TextsAre, TrimIs
  <2>3. \E r : TrimmedAt(Texts.revision, r) /\ Trimmed(Texts.revision) = SubSeq(Texts.revision, 1, r)
    BY TextsAre, TrimIs
  <2>4. QED BY <2>1, <2>2, <2>3, Zenon
<1> DEFINE m1 == scsi_string_copy(Empty, 8, Texts.vendor, 8)
           m2 == scsi_string_copy(m1, 16, Texts.product, 16)
           m3 == scsi_string_copy(m2, 32, Texts.revision, 4)
<1>3. /\ DOMAIN m1 = 8 .. 36
      /\ Holds(m1, 8, 8, Texts.vendor, v)
  <2>1. Fits(Empty, 8, 8, Texts.vendor)
    BY <1>1, TextsAre DEF Fits
  <2>2. 8 \in Nat
    OBVIOUS
  <2>3. Holds(m1, 8, 8, Texts.vendor, v) /\ SameElsewhere(Empty, m1, 8, 8)
    BY <1>2, <2>1, <2>2, TextsAre, CopyText, Zenon
  <2> HIDE DEF m1
  <2>4. QED BY <1>1, <2>3 DEF SameElsewhere
<1> HIDE DEF m1
<1>4. /\ DOMAIN m2 = 8 .. 36
      /\ Holds(m2, 16, 16, Texts.product, p)
      /\ \A n \in 8 .. 15 : m2[n] = m1[n]
  <2>1. Fits(m1, 16, 16, Texts.product)
    BY <1>3, TextsAre DEF Fits
  <2>2. 16 \in Nat
    OBVIOUS
  <2>3. Holds(m2, 16, 16, Texts.product, p) /\ SameElsewhere(m1, m2, 16, 16)
    BY <1>2, <2>1, <2>2, TextsAre, CopyText, Zenon
  <2> HIDE DEF m2
  <2>4. QED BY <1>3, <2>3 DEF SameElsewhere
<1> HIDE DEF m2
<1>5. /\ Holds(m3, 32, 4, Texts.revision, r)
      /\ \A n \in 8 .. 31 : m3[n] = m2[n]
  <2>1. Fits(m2, 32, 4, Texts.revision)
    BY <1>4, TextsAre DEF Fits
  <2>2. 32 \in Nat /\ 4 \in Nat
    OBVIOUS
  <2>3. Holds(m3, 32, 4, Texts.revision, r) /\ SameElsewhere(m2, m3, 32, 4)
    BY <1>2, <2>1, <2>2, TextsAre, CopyText, Zenon
  <2> HIDE DEF m3
  <2>4. QED BY <1>4, <2>3 DEF SameElsewhere
<1>6. scsi_inquiry = m3
  BY Zenon DEF scsi_inquiry, m2, m1, Empty
<1> HIDE DEF m3
<1>7. Holds(m3, 8, 8, Texts.vendor, v)
  <2> SUFFICES ASSUME NEW n \in 0 .. 8 - 1
               PROVE  m3[8 + n] = IF n < v THEN Texts.vendor[n + 1] ELSE "0"
    BY Zenon DEF Holds
  <2>1. 8 + n \in 8 .. 15 /\ 8 + n \in 8 .. 31
    OBVIOUS
  <2>2. m3[8 + n] = m1[8 + n]
    BY <1>4, <1>5, <2>1, Zenon
  <2>3. QED BY <1>3, <2>2, Zenon DEF Holds
<1>8. Holds(m3, 16, 16, Texts.product, p)
  <2> SUFFICES ASSUME NEW n \in 0 .. 16 - 1
               PROVE  m3[16 + n] = IF n < p THEN Texts.product[n + 1] ELSE "0"
    BY Zenon DEF Holds
  <2>1. 16 + n \in 8 .. 31
    OBVIOUS
  <2>2. m3[16 + n] = m2[16 + n]
    BY <1>5, <2>1, Zenon
  <2>3. QED BY <1>4, <2>2, Zenon DEF Holds
<1>9. vendor = SubSeq(Texts.vendor, 1, v)
  <2>1. Filled(m3, 8, 8, Texts.vendor, v)
    BY <1>2, <1>7, TextsAre DEF Filled
  <2>2. Told(m3, 8, 8, Texts.vendor, v)
    BY <2>1, FieldBack, Zenon
  <2>3. QED BY <1>6, <2>2, Zenon DEF vendor, Told
<1>10. product = SubSeq(Texts.product, 1, p)
  <2>1. Filled(m3, 16, 16, Texts.product, p)
    BY <1>2, <1>8, TextsAre DEF Filled
  <2>2. Told(m3, 16, 16, Texts.product, p)
    BY <2>1, FieldBack, Zenon
  <2>3. QED BY <1>6, <2>2, Zenon DEF product, Told
<1>11. revision = SubSeq(Texts.revision, 1, r)
  <2>1. Filled(m3, 32, 4, Texts.revision, r)
    BY <1>2, <1>5, TextsAre DEF Filled
  <2>2. Told(m3, 32, 4, Texts.revision, r)
    BY <2>1, FieldBack, Zenon
  <2>3. QED BY <1>6, <2>2, Zenon DEF revision, Told
<1>12. QED BY <1>2, <1>9, <1>10, <1>11, Zenon

\* The two sizes of an entry are the only ones its set allows.
LEMMA SizesOf ==
    ASSUME NEW C, NEW T, NEW V, NEW P, NEW R, NEW b, NEW e,
           NEW d \in [controller_id : C, target : T, vendor : V, product : P, revision : R,
                      block_count : {b}, block_size : {e}]
    PROVE  d.block_count = b /\ d.block_size = e
OBVIOUS

\* Turning a number round twice gives it back.
LEMMA NumbersTold == BlockCount = 204800 /\ BlockSize = 512
<1>1. ASSUME NEW a, NEW b, NEW c, NEW d
      PROVE  Number(swap32(swap32(<<a, b, c, d>>))) = a + 256 * b + 65536 * c + 16777216 * d
  BY SMT DEF Number, swap32
<1>2. /\ Number(swap32(swap32(Bytes(204799)))) = 204799
      /\ Number(swap32(swap32(Bytes(512)))) = 512
  <2>1. Bytes(204799) = <<255, 31, 3, 0>> /\ Bytes(512) = <<0, 2, 0, 0>>
    BY SMT DEF Bytes
  <2>2. QED BY <1>1, <2>1, SMT
<1>3. QED BY <1>2, SMT DEF scsi_read_capacity, BlockCount, BlockSize

(***************************************************************************)
(* The listing.                                                            *)
(***************************************************************************)

\* The function at a place of the walk, the places before N where one answers, and
\* the line for a place.
Tells(n) == FunctionAt(BusOf(n), SlotOf(n), FunctionOf(n))
AnswersBefore(N) == {n \in 0 .. N - 1 : Tells(n) # NoFunction}
LineAt(n) ==
    [bus |-> BusOf(n), slot |-> SlotOf(n), func |-> FunctionOf(n),
     class |-> Tells(n).class, subclass |-> Tells(n).subclass]
LineSet == [bus : Nat, slot : Nat, func : Nat, class : PciByte, subclass : PciByte]

\* A list with a line for each place before N that answers, in order.
Lists(list, N) ==
    /\ list \in Seq(LineSet)
    /\ Len(list) = Cardinality(AnswersBefore(N))
    /\ \A k \in 1 .. Len(list) : \E n \in AnswersBefore(N) :
         list[k] = LineAt(n) /\ Cardinality(AnswersBefore(n)) = k - 1
    /\ \A n \in AnswersBefore(N) : \E k \in 1 .. Len(list) : list[k] = LineAt(n)

\* The listing has the lines of the places already looked at; and the registered
\* controllers are still the adapters they were found as.
ListInv ==
    /\ place \in 0 .. Places
    /\ pc = "done" => place = Places
    /\ Lists(listing, place)
    /\ \A c \in 1 .. controller_count : controllers[c].slot \in AdapterSlots

\* Quotient and remainder, with one of each.
LEMMA Division ==
    ASSUME NEW a \in Nat, NEW b \in Nat \ {0}
    PROVE  a \div b \in Nat /\ a % b \in 0 .. b - 1 /\ a = (a \div b) * b + (a % b)
<1>1. a \div b \in Nat
  BY SMTT(30)
<1>2. a % b \in 0 .. b - 1
  BY SMTT(30)
<1>3. a = b * (a \div b) + (a % b)
  BY SMTT(30)
<1>4. b * (a \div b) = (a \div b) * b
  BY <1>1, SMTT(30)
<1>5. a = (a \div b) * b + (a % b)
  BY <1>3, <1>4
<1>6. QED BY <1>1, <1>2, <1>5

\* More of a factor is more of the product.
LEMMA Products ==
    ASSUME NEW a \in Nat, NEW c \in Nat, NEW b \in Nat, a <= c
    PROVE  a * b \in Nat /\ a * b <= c * b
<1> DEFINE k == c - a
<1>1. k \in Nat /\ c = a + k
  OBVIOUS
<1> HIDE DEF k
<1>2. a * b \in Nat /\ k * b \in Nat
  BY <1>1, SMTT(30)
<1>3. (a + k) * b = a * b + k * b
  BY <1>1, SMTT(30)
<1>4. a * b <= a * b + k * b
  BY <1>2
<1>5. QED BY <1>1, <1>2, <1>3, <1>4

\* And whatever is such a quotient and remainder is the one.
LEMMA DivisionIs ==
    ASSUME NEW q \in Nat, NEW b \in Nat \ {0}, NEW r \in Nat, r < b, NEW a, a = q * b + r
    PROVE  a \div b = q /\ a % b = r
<1>1. q * b \in Nat /\ a \in Nat
  BY SMTT(30)
<1> DEFINE p == a \div b
<1>2. p \in Nat /\ a % b \in 0 .. b - 1 /\ a = p * b + (a % b)
  BY <1>1, Division
<1>3. p * b \in Nat
  BY <1>2, SMTT(30)
<1>4. PICK m \in Nat : m = a % b /\ m < b
  BY <1>2
<1>5. PICK x \in Nat, y \in Nat : x = q * b /\ y = p * b
  BY <1>1, <1>3
<1>6. x + r = y + m
  BY <1>2, <1>4, <1>5
<1> HIDE DEF p
<1>7. ~(p < q)
  <2> SUFFICES ASSUME p < q PROVE FALSE
    OBVIOUS
  <2>1. (p + 1) * b <= q * b
    BY <1>2, Products
  <2>2. (p + 1) * b = p * b + b
    BY <1>2, SMTT(30)
  <2>3. y + b <= x
    BY <1>5, <2>1, <2>2
  <2>4. QED BY <1>4, <1>5, <1>6, <2>3
<1>8. ~(q < p)
  <2> SUFFICES ASSUME q < p PROVE FALSE
    OBVIOUS
  <2>1. (q + 1) * b <= p * b
    BY <1>2, Products
  <2>2. (q + 1) * b = q * b + b
    BY SMTT(30)
  <2>3. x + b <= y
    BY <1>5, <2>1, <2>2
  <2>4. QED BY <1>4, <1>5, <1>6, <2>3
<1>9. p = q
  BY <1>2, <1>7, <1>8
<1>10. x = y
  BY <1>5, <1>9, Zenon
<1>11. m = r
  BY <1>4, <1>5, <1>6, <1>10
<1>12. QED BY <1>4, <1>9, <1>11 DEF p

\* Bus, slot and function of a place are within what an address has room for.
LEMMA PlaceParts ==
    ASSUME NEW n \in Nat
    PROVE  /\ BusOf(n) \in Nat
           /\ SlotOf(n) \in Nat /\ SlotOf(n) < 32
           /\ FunctionOf(n) \in Nat /\ FunctionOf(n) < 8
<1>1. SlotsPerBus \in Nat \ {0} /\ SlotsPerBus <= 32
      /\ FunctionsPerSlot \in Nat \ {0} /\ FunctionsPerSlot <= 8
  <2>1. SlotsPerBus \in 1 .. 32 /\ FunctionsPerSlot \in 1 .. 8
    BY PciAssumption, Zenon
  <2>2. QED BY <2>1, SMT
<1>2. SlotsPerBus * FunctionsPerSlot \in Nat \ {0}
  BY <1>1, SMTT(30)
<1>3. n \div (SlotsPerBus * FunctionsPerSlot) \in Nat
  BY <1>2, Division
<1>4. n \div FunctionsPerSlot \in Nat /\ n % FunctionsPerSlot \in 0 .. FunctionsPerSlot - 1
  BY <1>1, Division
<1>5. (n \div FunctionsPerSlot) % SlotsPerBus \in 0 .. SlotsPerBus - 1
  BY <1>1, <1>4, Division
<1>6. BusOf(n) \in Nat
  BY <1>3 DEF BusOf
<1>7. SlotOf(n) \in Nat /\ SlotOf(n) < 32
  BY <1>1, <1>5, SMT DEF SlotOf
<1>8. FunctionOf(n) \in Nat /\ FunctionOf(n) < 8
  BY <1>1, <1>4, SMT DEF FunctionOf
<1>9. QED BY <1>6, <1>7, <1>8

\* An address names the function and the register it was made from.
LEMMA AddressParts ==
    ASSUME NEW bus \in Nat, NEW s \in Nat, s < 32, NEW func \in Nat, func < 8,
           NEW offset \in {0, 8}
    PROVE  /\ Address(bus, s, func, offset) \div 65536 = bus
           /\ (Address(bus, s, func, offset) \div 2048) % 32 = s
           /\ (Address(bus, s, func, offset) \div 256) % 8 = func
           /\ Address(bus, s, func, offset) % 256 = offset
<1>1. offset - (offset % 4) = offset
  BY SMT
<1>2. Address(bus, s, func, offset) = bus * 65536 + s * 2048 + func * 256 + offset
  BY <1>1, SMT DEF Address
<1> DEFINE a == Address(bus, s, func, offset)
<1>3. a \div 65536 = bus
  <2>1. s * 2048 + func * 256 + offset \in Nat /\ s * 2048 + func * 256 + offset < 65536
        /\ a = bus * 65536 + (s * 2048 + func * 256 + offset)
    BY <1>2, SMT
  <2> HIDE DEF a
  <2>2. QED BY <2>1, DivisionIs, SMT
<1>4. a \div 2048 = bus * 32 + s
  <2>1. func * 256 + offset \in Nat /\ func * 256 + offset < 2048 /\ bus * 32 + s \in Nat
        /\ a = (bus * 32 + s) * 2048 + (func * 256 + offset)
    BY <1>2, SMT
  <2> HIDE DEF a
  <2>2. QED BY <2>1, DivisionIs, SMT
<1>5. a \div 256 = (bus * 256 + s * 8) + func
  <2>1. offset \in Nat /\ offset < 256 /\ (bus * 256 + s * 8) + func \in Nat
        /\ a = ((bus * 256 + s * 8) + func) * 256 + offset
    BY <1>2, SMT
  <2> HIDE DEF a
  <2>2. QED BY <2>1, DivisionIs, SMT
<1>6. a % 256 = offset
  <2>1. offset \in Nat /\ offset < 256 /\ (bus * 256 + s * 8) + func \in Nat
        /\ a = ((bus * 256 + s * 8) + func) * 256 + offset
    BY <1>2, SMT
  <2> HIDE DEF a
  <2>2. QED BY <2>1, DivisionIs, SMT
<1>7. (bus * 32 + s) % 32 = s
  BY SMT
<1>8. ((bus * 256 + s * 8) + func) % 8 = func
  BY SMT
<1> HIDE DEF a
<1>9. QED BY <1>3, <1>4, <1>5, <1>6, <1>7, <1>8 DEF a

\* Two of the four registers that are told apart.
LEMMA FirstOrThird ==
    ASSUME NEW m, NEW c, NEW p, NEW q, NEW r, NEW u,
           c = CASE m = 0 -> p [] m = 8 -> q [] m = 16 -> r [] m = 60 -> u
    PROVE  (m = 0 => c = p) /\ (m = 8 => c = q)
<1>1. ASSUME m = 0 PROVE c = p
  <2>1. m # 8 /\ m # 16 /\ m # 60
    BY <1>1, SMT
  <2>2. QED BY <1>1, <2>1, Zenon
<1>2. ASSUME m = 8 PROVE c = q
  <2>1. m # 0 /\ m # 16 /\ m # 60
    BY <1>2, SMT
  <2>2. QED BY <1>2, <2>1, Zenon
<1>3. QED BY <1>1, <1>2

\* The function an address reaches, and what the data port shows of its first and of
\* its third register.
Reached(x) == FunctionAt(x \div 65536, (x \div 2048) % 32, (x \div 256) % 8)
Shows(x, f) ==
    /\ x % 256 = 0 => Config(x) = f.vendor \o f.device
    /\ x % 256 = 8 => Config(x) = <<0, 0, f.subclass, f.class>>

\* The data port shows what the function an address reaches tells.
LEMMA ReachedShows ==
    ASSUME NEW x
    PROVE  Shows(x, Reached(x))
<1> DEFINE f == Reached(x)
           m == x % 256
           c == Config(x)
<1>1. f = FunctionAt(x \div 65536, (x \div 2048) % 32, (x \div 256) % 8)
  BY DEF Reached
<1>2. c = CASE m = 0  -> f.vendor \o f.device
            [] m = 8  -> <<0, 0, f.subclass, f.class>>
            [] m = 16 -> f.bar0
            [] m = 60 -> <<f.irq, 0, 0, 0>>
  <2>1. c = LET g == FunctionAt(x \div 65536, (x \div 2048) % 32, (x \div 256) % 8)
            IN  CASE m = 0  -> g.vendor \o g.device
                  [] m = 8  -> <<0, 0, g.subclass, g.class>>
                  [] m = 16 -> g.bar0
                  [] m = 60 -> <<g.irq, 0, 0, 0>>
    BY DEF Config
  <2> HIDE DEF f, m, c
  <2>2. QED BY <1>1, <2>1
<1> HIDE DEF f, m, c
<1>3. (m = 0 => c = f.vendor \o f.device) /\ (m = 8 => c = <<0, 0, f.subclass, f.class>>)
  <2>1. PICK p, q, r, u : /\ p = f.vendor \o f.device /\ q = <<0, 0, f.subclass, f.class>>
                          /\ r = f.bar0 /\ u = <<f.irq, 0, 0, 0>>
    OBVIOUS
  <2>2. c = CASE m = 0 -> p [] m = 8 -> q [] m = 16 -> r [] m = 60 -> u
    BY <1>2, <2>1
  <2>3. (m = 0 => c = p) /\ (m = 8 => c = q)
    BY <2>2, FirstOrThird
  <2>4. QED BY <2>1, <2>3
<1>4. (x % 256 = 0 => Config(x) = f.vendor \o f.device)
      /\ (x % 256 = 8 => Config(x) = <<0, 0, f.subclass, f.class>>)
  BY <1>3 DEF m, c
<1>5. QED BY <1>4 DEF Shows, f

\* An address with the bits of a bus, a slot and a function reaches that function.
LEMMA RegistersAt ==
    ASSUME NEW bus, NEW s, NEW func, NEW x,
           x \div 65536 = bus, (x \div 2048) % 32 = s, (x \div 256) % 8 = func
    PROVE  Shows(x, FunctionAt(bus, s, func))
<1>1. Reached(x) = FunctionAt(bus, s, func)
  BY DEF Reached
<1>2. PICK f : f = Reached(x)
  OBVIOUS
<1>3. Shows(x, f)
  BY <1>2, ReachedShows
<1>4. QED BY <1>1, <1>2, <1>3

\* The first register of a function, and the third.
LEMMA IdRegister ==
    ASSUME NEW bus \in Nat, NEW s \in Nat, s < 32, NEW func \in Nat, func < 8
    PROVE  /\ Config(Address(bus, s, func, 0))
                = FunctionAt(bus, s, func).vendor \o FunctionAt(bus, s, func).device
           /\ Config(Address(bus, s, func, 8))
                = <<0, 0, FunctionAt(bus, s, func).subclass, FunctionAt(bus, s, func).class>>
<1>1. ASSUME NEW offset \in {0, 8}, NEW a, a = Address(bus, s, func, offset)
      PROVE  a \div 65536 = bus /\ (a \div 2048) % 32 = s /\ (a \div 256) % 8 = func
             /\ a % 256 = offset
  BY <1>1, AddressParts
<1>2. PICK a, b : a = Address(bus, s, func, 0) /\ b = Address(bus, s, func, 8)
  OBVIOUS
<1>3. a \div 65536 = bus /\ (a \div 2048) % 32 = s /\ (a \div 256) % 8 = func /\ a % 256 = 0
  BY <1>1, <1>2
<1>4. b \div 65536 = bus /\ (b \div 2048) % 32 = s /\ (b \div 256) % 8 = func /\ b % 256 = 8
  BY <1>1, <1>2
<1> DEFINE f == FunctionAt(bus, s, func)
<1> HIDE DEF f
<1>5. Shows(a, f) /\ Shows(b, f)
  BY <1>3, <1>4, RegistersAt DEF f
<1>6. a % 256 = 0 /\ b % 256 = 8
  BY <1>3, <1>4
<1>7. Config(a) = f.vendor \o f.device /\ Config(b) = <<0, 0, f.subclass, f.class>>
  BY <1>5, <1>6 DEF Shows
<1>8. QED BY <1>2, <1>7 DEF f

\* The first two bytes of the first register are the vendor.
LEMMA VendorBytes ==
    ASSUME NEW v \in PciByte \X PciByte, NEW d \in PciByte \X PciByte
    PROVE  SubSeq(v \o d, 1, 2) = v
<1> DEFINE w == v \o d
<1>1. v \in Seq(PciByte) /\ d \in Seq(PciByte) /\ Len(v) = 2 /\ Len(d) = 2
  OBVIOUS
<1>2. /\ w \in Seq(PciByte) /\ Len(w) = Len(v) + Len(d)
      /\ \A i \in 1 .. Len(v) + Len(d) : w[i] = IF i <= Len(v) THEN v[i] ELSE d[i - Len(v)]
  BY <1>1, ConcatProperties, Zenon
<1> HIDE DEF w
<1>3. w[1] = v[1] /\ w[2] = v[2] /\ Len(w) = 4
  BY <1>1, <1>2
<1>4. \A i \in 1 .. 2 : w[i] = v[i]
  BY <1>3
<1>5. /\ SubSeq(w, 1, 2) \in Seq(PciByte) /\ Len(SubSeq(w, 1, 2)) = 2
      /\ \A i \in 1 .. 2 : SubSeq(w, 1, 2)[i] = w[i]
  BY <1>2, <1>3
<1> DEFINE u == SubSeq(w, 1, 2)
<1> HIDE DEF u
<1>6. u = v
  <2>1. u \in Seq(PciByte) /\ Len(u) = 2 /\ \A i \in 1 .. 2 : u[i] = v[i]
    BY <1>4, <1>5, Zenon DEF u
  <2>2. QED BY <1>1, <2>1, SeqEqual
<1>7. QED BY <1>6 DEF u, w

\* A function is there or is not; if it is, it has a vendor.
LEMMA Answering ==
    ASSUME PciType, NEW bus, NEW s, NEW func \in Nat
    PROVE  /\ FunctionAt(bus, s, func) \in PciFunction
           /\ Nobody(FunctionAt(bus, s, func).vendor) <=> FunctionAt(bus, s, func) = NoFunction
<1> DEFINE f == FunctionAt(bus, s, func)
<1>1. f \in PciFunction
  BY AnyFunction
<1>2. Nobody(NoFunction.vendor)
  BY DEF Nobody, NoFunction
<1>3. f = NoFunction \/ ~Nobody(f.vendor)
  <2>1. CASE <<bus, s>> \in DOMAIN pci
    <3> DEFINE d == pci[<<bus, s>>]
               n == IF d.alias THEN 1 ELSE func + 1
    <3>1. \A m \in DOMAIN d.functions : d.functions[m] = NoFunction \/ ~Nobody(d.functions[m].vendor)
      BY <2>1 DEF PciType
    <3>2. f = IF n \in DOMAIN d.functions THEN d.functions[n] ELSE NoFunction
      BY <2>1 DEF FunctionAt
    <3> HIDE DEF d, n, f
    <3>3. QED BY <3>1, <3>2
  <2>2. CASE <<bus, s>> \notin DOMAIN pci
    BY <2>2 DEF FunctionAt
  <2>3. QED BY <2>1, <2>2
<1> HIDE DEF f
<1>4. f \in PciFunction /\ (Nobody(f.vendor) <=> f = NoFunction)
  BY <1>1, <1>2, <1>3
<1>5. QED BY <1>4 DEF f

\* scan_pci_bus prints a line for a place exactly when a function answers there.
LEMMA LineForPlace ==
    ASSUME PciType, NEW n \in Nat
    PROVE  /\ LineFor(n) = IF Tells(n) = NoFunction THEN <<>> ELSE <<LineAt(n)>>
           /\ LineAt(n) \in LineSet
<1> DEFINE f == Tells(n)
           r0 == pci_read_config(BusOf(n), SlotOf(n), FunctionOf(n), 0)
           r8 == pci_read_config(BusOf(n), SlotOf(n), FunctionOf(n), 8)
<1>1. /\ BusOf(n) \in Nat /\ SlotOf(n) \in Nat /\ SlotOf(n) < 32
      /\ FunctionOf(n) \in Nat /\ FunctionOf(n) < 8
  BY PlaceParts
<1>2. r0 = f.vendor \o f.device /\ r8 = <<0, 0, f.subclass, f.class>>
  BY <1>1, IdRegister DEF Tells, pci_read_config
<1>3. f \in PciFunction /\ (Nobody(f.vendor) <=> f = NoFunction)
  BY <1>1, Answering DEF Tells
<1>4. LineFor(n) = IF Nobody(SubSeq(r0, 1, 2)) THEN <<>>
                   ELSE <<[bus |-> BusOf(n), slot |-> SlotOf(n), func |-> FunctionOf(n),
                           class |-> r8[4], subclass |-> r8[3]]>>
  BY Zenon DEF LineFor
<1> HIDE DEF f, r0, r8
<1>5. f.vendor \in PciByte \X PciByte /\ f.device \in PciByte \X PciByte
      /\ f.class \in PciByte /\ f.subclass \in PciByte
  BY <1>3 DEF PciFunction
<1>6. SubSeq(r0, 1, 2) = f.vendor
  BY <1>2, <1>5, VendorBytes, Zenon
<1>7. r8[4] = f.class /\ r8[3] = f.subclass
  BY <1>2
<1>8. LineAt(n) = [bus |-> BusOf(n), slot |-> SlotOf(n), func |-> FunctionOf(n),
                   class |-> f.class, subclass |-> f.subclass]
  BY Zenon DEF LineAt, f
<1>9. LineAt(n) \in LineSet
  BY <1>1, <1>5, <1>8 DEF LineSet
<1>10. LineFor(n) = IF f = NoFunction THEN <<>> ELSE <<LineAt(n)>>
  BY <1>3, <1>4, <1>6, <1>7, <1>8, Zenon
<1>11. QED BY <1>9, <1>10 DEF f

\* The places are finitely many, and those before one are among those before a later.
LEMMA AnswersFinite ==
    ASSUME NEW N \in Nat
    PROVE  /\ IsFiniteSet(AnswersBefore(N)) /\ Cardinality(AnswersBefore(N)) \in Nat
           /\ \A n \in AnswersBefore(N) : n \in Nat /\ n < N
<1>1. AnswersBefore(N) \subseteq 0 .. N - 1
  BY DEF AnswersBefore
<1>2. IsFiniteSet(0 .. N - 1)
  BY FS_Interval
<1>3. QED BY <1>1, <1>2, FS_Subset, FS_CardinalityType

\* One place more adds that place if a function answers there.
LEMMA AnswersNext ==
    ASSUME NEW N \in Nat
    PROVE  AnswersBefore(N + 1) =
             IF Tells(N) = NoFunction THEN AnswersBefore(N) ELSE AnswersBefore(N) \cup {N}
BY DEF AnswersBefore

\* A place more, and its line if it has one.
LEMMA ListsMore ==
    ASSUME PciType, NEW N \in Nat, NEW list, Lists(list, N)
    PROVE  Lists(list \o LineFor(N), N + 1)
<1> DEFINE A == AnswersBefore(N)
<1>1. /\ list \in Seq(LineSet)
      /\ Len(list) = Cardinality(A)
      /\ \A k \in 1 .. Len(list) : \E n \in A :
           list[k] = LineAt(n) /\ Cardinality(AnswersBefore(n)) = k - 1
      /\ \A n \in A : \E k \in 1 .. Len(list) : list[k] = LineAt(n)
  BY DEF Lists
<1>2. IsFiniteSet(A) /\ Cardinality(A) \in Nat /\ \A n \in A : n \in Nat /\ n < N
  BY AnswersFinite
<1>3. CASE Tells(N) = NoFunction
  <2>1. LineFor(N) = <<>> /\ AnswersBefore(N + 1) = A
    BY <1>3, LineForPlace, AnswersNext
  <2>2. list \o LineFor(N) = list
    BY <1>1, <2>1
  <2>3. PICK more : more = list \o LineFor(N)
    OBVIOUS
  <2>4. Lists(more, N + 1)
    BY <2>1, <2>2, <2>3 DEF Lists
  <2>5. QED BY <2>3, <2>4
<1>4. CASE Tells(N) # NoFunction
  <2> DEFINE more == list \o LineFor(N)
             last == LineAt(N)
  <2>1. LineFor(N) = <<last>> /\ last \in LineSet /\ AnswersBefore(N + 1) = A \cup {N}
    BY <1>4, LineForPlace, AnswersNext
  <2>2. N \notin A
    BY <1>2
  <2>3. Cardinality(A \cup {N}) = Cardinality(A) + 1
    BY <1>2, <2>2, FS_AddElement
  <2>4. /\ more \in Seq(LineSet) /\ Len(more) = Len(list) + 1
        /\ \A k \in 1 .. Len(list) : more[k] = list[k]
        /\ more[Len(list) + 1] = last
    <3> HIDE DEF last
    <3>1. more = list \o <<last>> /\ last \in LineSet
      BY <2>1
    <3>2. QED BY <1>1, <3>1
  <2> HIDE DEF A, more, last
  <2>5. Len(more) = Cardinality(AnswersBefore(N + 1))
    BY <1>1, <2>1, <2>3, <2>4
  <2>6. ASSUME NEW k \in 1 .. Len(more)
        PROVE  \E n \in AnswersBefore(N + 1) :
                 more[k] = LineAt(n) /\ Cardinality(AnswersBefore(n)) = k - 1
    <3>1. CASE k = Len(list) + 1
      <4>1. more[k] = LineAt(N) /\ Cardinality(AnswersBefore(N)) = k - 1
        BY <1>1, <1>2, <2>4, <3>1 DEF A, last
      <4>2. N \in AnswersBefore(N + 1)
        BY <2>1
      <4>3. QED BY <4>1, <4>2
    <3>2. CASE k # Len(list) + 1
      <4>1. k \in 1 .. Len(list)
        BY <1>1, <1>2, <2>4, <3>2
      <4>2. PICK n \in A : list[k] = LineAt(n) /\ Cardinality(AnswersBefore(n)) = k - 1
        BY <1>1, <4>1
      <4>3. n \in AnswersBefore(N + 1) /\ more[k] = list[k]
        BY <2>1, <2>4, <4>1, <4>2
      <4>4. QED BY <4>2, <4>3
    <3>3. QED BY <3>1, <3>2
  <2>7. ASSUME NEW n \in AnswersBefore(N + 1)
        PROVE  \E k \in 1 .. Len(more) : more[k] = LineAt(n)
    <3>1. CASE n = N
      <4>1. Len(list) + 1 \in 1 .. Len(more)
        BY <1>1, <1>2, <2>4
      <4>2. more[Len(list) + 1] = LineAt(n)
        BY <2>4, <3>1 DEF last
      <4>3. QED BY <4>1, <4>2
    <3>2. CASE n # N
      <4>1. PICK k \in 1 .. Len(list) : list[k] = LineAt(n)
        BY <1>1, <2>1, <3>2
      <4>2. k \in 1 .. Len(more) /\ more[k] = LineAt(n)
        BY <1>1, <1>2, <2>4, <4>1
      <4>3. QED BY <4>2
    <3>3. QED BY <3>1, <3>2
  <2>8. Lists(more, N + 1)
    BY <2>4, <2>5, <2>6, <2>7 DEF Lists
  <2>9. QED BY <2>8 DEF more
<1>5. QED BY <1>3, <1>4

\* What is plugged in does not change, so neither does what a list should be.
LEMMA ListsSame ==
    ASSUME pci' = pci, NEW list, NEW N
    PROVE  Lists(list, N)' <=> Lists(list, N)
<1>1. \A bus, s, func : FunctionAt(bus, s, func)' = FunctionAt(bus, s, func)
  BY DEF FunctionAt
<1>2. \A n : Tells(n)' = Tells(n)
  BY <1>1 DEF Tells
<1>3. \A n : AnswersBefore(n)' = AnswersBefore(n) /\ LineAt(n)' = LineAt(n)
  BY <1>2 DEF AnswersBefore, LineAt
<1>4. QED BY <1>3, Zenon DEF Lists

\* There is room for the walk.
LEMMA PlacesNat == Places \in Nat
<1>1. ListedBuses \in Nat /\ SlotsPerBus \in Nat /\ FunctionsPerSlot \in Nat
  <2>1. /\ Buses \in 1 .. 256 /\ SlotsPerBus \in 1 .. 32 /\ FunctionsPerSlot \in 1 .. 8
        /\ ListedBuses \in 1 .. Buses
    BY PciAssumption, Zenon
  <2>2. QED BY <2>1, SMT
<1>2. ListedBuses * SlotsPerBus \in Nat
  BY <1>1, SMTT(30)
<1>3. ListedBuses * SlotsPerBus * FunctionsPerSlot \in Nat
  BY <1>1, <1>2, SMTT(30)
<1>4. QED BY <1>3 DEF Places

\* Nothing is listed and nothing registered at first.
LEMMA ListInit == Init => ListInv
<1> SUFFICES ASSUME Init PROVE ListInv
  OBVIOUS
<1>1. place = 0 /\ listing = <<>> /\ pc = "pci" /\ controllers = <<>>
  BY DEF Init, PciInit
<1>2. AnswersBefore(0) = {}
  BY DEF AnswersBefore
<1>3. Lists(<<>>, 0)
  BY <1>2, FS_EmptySet DEF Lists
<1>4. controller_count = 0
  BY <1>1 DEF controller_count
<1>5. QED BY <1>1, <1>3, <1>4, PlacesNat DEF ListInv

\* Steps that neither list a function nor change which slots are registered.
LEMMA ListSame ==
    ASSUME ListInv, UNCHANGED <<pci, listing, place>>,
           pc' = "done" => pc = "done" \/ place = Places,
           \A c \in 1 .. controller_count' : controllers'[c].slot \in AdapterSlots
    PROVE  ListInv'
<1>1. PICK l, p : l = listing /\ p = place
  OBVIOUS
<1>2. Lists(l, p)
  BY <1>1 DEF ListInv
<1>3. Lists(l, p)'
  BY <1>2, ListsSame
<1>4. l = listing' /\ p = place'
  BY <1>1
<1>5. Lists(listing, place)'
  BY <1>3, <1>4
<1>6. Places' = Places /\ AdapterSlots' = AdapterSlots
  BY AdapterSame DEF Places, AdapterSlots, Slots
<1>7. QED BY <1>5, <1>6 DEF ListInv

\* Every step keeps the listing in line with the places looked at.
LEMMA ListStep == IInv /\ ListInv /\ [Next]_vars => ListInv'
<1> SUFFICES ASSUME IInv, ListInv, [Next]_vars PROVE ListInv'
  OBVIOUS
<1>1. TypeInv /\ TargetInv
  BY DEF IInv
<1>2. /\ place \in 0 .. Places /\ (pc = "done" => place = Places)
      /\ \A c \in 1 .. controller_count : controllers[c].slot \in AdapterSlots
  BY DEF ListInv
<1>3. controller_count \in Nat /\ controllers \in Seq(ControllerSet) /\ controller_count = Len(controllers)
  BY <1>1, LensNat DEF TypeInv, controller_count
<1>4. CASE \/ SkipSlot \/ SoftReset \/ WaitReset \/ TimeOut \/ EndPci \/ EndScan \/ EndListing
           \/ UNCHANGED vars
  <2>1. UNCHANGED <<pci, listing, place, controllers>>
    BY <1>4 DEF SkipSlot, SoftReset, WaitReset, TimeOut, EndPci, EndScan, EndListing, listed, vars
  <2>2. pc' = "done" => pc = "done" \/ place >= Places
    BY <1>4 DEF SkipSlot, SoftReset, WaitReset, TimeOut, EndPci, EndScan, EndListing, vars
  <2>3. place >= Places => place = Places
    BY <1>2, PlacesNat
  <2>4. controller_count' = controller_count
    BY <2>1 DEF controller_count
  <2>5. QED BY <1>2, <2>1, <2>2, <2>3, <2>4, ListSame
<1>5. CASE Register
  <2>1. /\ pc = "ready" /\ pc' = "pci" /\ controllers' = AddController
        /\ UNCHANGED <<pci, listing, place>>
    BY <1>5 DEF Register, listed
  <2>2. slot \in AdapterSlots
    BY <1>1, <2>1 DEF TypeInv
  <2>3. ASSUME NEW c \in 1 .. controller_count' PROVE controllers'[c].slot \in AdapterSlots
    <3>1. CASE controllers' = controllers
      <4>1. controller_count' = controller_count
        BY <3>1 DEF controller_count
      <4>2. QED BY <1>2, <3>1, <4>1
    <3>2. CASE controllers' = Append(controllers, Controller)
      <4>1. /\ controller_count' = controller_count + 1
            /\ \A e \in 1 .. controller_count : controllers'[e] = controllers[e]
            /\ controllers'[controller_count + 1] = Controller
        BY <1>3, <3>2 DEF controller_count
      <4>2. Controller.slot = slot
        BY DEF Controller
      <4>3. CASE c = controller_count + 1
        BY <2>2, <4>1, <4>2, <4>3
      <4>4. CASE c # controller_count + 1
        <5>1. c \in 1 .. controller_count
          BY <1>3, <4>1, <4>4
        <5>2. QED BY <1>2, <4>1, <5>1
      <4>5. QED BY <4>3, <4>4
    <3>3. QED BY <2>1, <3>1, <3>2 DEF AddController
  <2>4. QED BY <2>1, <2>3, ListSame
<1>6. CASE ScanTarget
  <2>1. pc = "targets" /\ pc' = "targets" /\ UNCHANGED <<pci, listing, place>>
    BY <1>6 DEF ScanTarget, listed
  <2>2. \/ controllers' = controllers
        \/ controllers' = [controllers EXCEPT ![ctrl].device_count = @ + 1]
    BY <1>6 DEF ScanTarget, ListDevice
  <2>3. ctrl \in 1 .. controller_count
    BY <1>1, <1>3, <1>6 DEF TypeInv, ScanTarget
  <2>4. /\ controller_count' = controller_count
        /\ \A c \in 1 .. controller_count : controllers'[c].slot = controllers[c].slot
    <3>1. CASE controllers' = controllers
      BY <3>1 DEF controller_count
    <3>2. CASE controllers' = [controllers EXCEPT ![ctrl].device_count = @ + 1]
      <4>1. controllers[ctrl] \in ControllerSet
        BY <1>1, <2>3, LensNat
      <4> DEFINE Counted == [controllers[ctrl] EXCEPT !.device_count = @ + 1]
      <4>2. Counted \in ControllerSet /\ Counted.slot = controllers[ctrl].slot
        BY <4>1 DEF ControllerSet
      <4>3. controllers' = [controllers EXCEPT ![ctrl] = Counted]
        BY <3>2
      <4> HIDE DEF Counted
      <4>4. /\ Len(controllers') = controller_count /\ controllers'[ctrl] = Counted
            /\ \A c \in 1 .. controller_count : c # ctrl => controllers'[c] = controllers[c]
        BY <1>3, <2>3, <4>2, <4>3
      <4>5. QED BY <4>2, <4>4 DEF controller_count
    <3>3. QED BY <2>2, <3>1, <3>2
  <2>5. QED BY <1>2, <2>1, <2>4, ListSame
<1>7. CASE ListPci
  <2>1. /\ place < Places /\ listing' = listing \o LineFor(place) /\ place' = place + 1
        /\ pc = "listing" /\ UNCHANGED <<pc, pci, controllers>>
    BY <1>7 DEF ListPci, ListFunction
  <2>2. PICK l, p, line : l = listing /\ p = place /\ line = LineFor(p)
    OBVIOUS
  <2>3. Lists(l \o line, p + 1)
    <3>1. PciType /\ Lists(l, p) /\ p \in Nat
      BY <1>1, <1>2, <2>2, PlacesNat DEF ListInv, TypeInv
    <3>2. Lists(l \o LineFor(p), p + 1)
      BY <3>1, ListsMore
    <3>3. QED BY <2>2, <3>2
  <2>4. Lists(l \o line, p + 1)'
    BY <2>1, <2>3, ListsSame
  <2>5. listing' = l \o line /\ place' = p + 1
    BY <2>1, <2>2
  <2>6. Lists(listing, place)'
    BY <2>4, <2>5
  <2>7. Places' = Places /\ AdapterSlots' = AdapterSlots /\ controller_count' = controller_count
    BY <2>1, AdapterSame DEF Places, AdapterSlots, Slots, controller_count
  <2>8. place' \in 0 .. Places
    BY <1>2, <2>1, PlacesNat
  <2>9. QED BY <1>2, <2>1, <2>6, <2>7, <2>8 DEF ListInv
<1>8. QED BY <1>4, <1>5, <1>6, <1>7 DEF Next

\* The place of function 0 of a slot on a listed bus.
LEMMA PlaceOfSlot ==
    ASSUME NEW s \in Nat, s \div SlotsPerBus < ListedBuses
    PROVE  LET n == s * FunctionsPerSlot IN
           /\ n \in 0 .. Places - 1
           /\ BusOf(n) = s \div SlotsPerBus /\ SlotOf(n) = s % SlotsPerBus /\ FunctionOf(n) = 0
           /\ (s \div SlotsPerBus) * SlotsPerBus + (s % SlotsPerBus) = s
<1>1. PICK S \in Nat \ {0}, F \in Nat \ {0}, L \in Nat :
        S = SlotsPerBus /\ F = FunctionsPerSlot /\ L = ListedBuses
  <2>1. /\ Buses \in 1 .. 256 /\ SlotsPerBus \in 1 .. 32 /\ FunctionsPerSlot \in 1 .. 8
        /\ ListedBuses \in 1 .. Buses
    BY PciAssumption, Zenon
  <2>2. QED BY <2>1, SMT
<1>2. PICK b \in Nat, r \in Nat : b = s \div S /\ r = s % S /\ r < S /\ s = b * S + r
  BY <1>1, Division
<1>3. PICK n : n = s * F
  OBVIOUS
<1>4. n \in Nat /\ b * S \in Nat /\ S * F \in Nat \ {0} /\ L * S \in Nat
  <2>1. s * F \in Nat /\ b * S \in Nat /\ S * F \in Nat \ {0} /\ L * S \in Nat
    BY <1>1, <1>2, SMTT(30)
  <2>2. QED BY <1>3, <2>1
<1>5. r * F \in Nat /\ r * F < S * F
  <2>1. r * F \in Nat /\ (r + 1) * F <= S * F
    BY <1>1, <1>2, Products
  <2>2. (r + 1) * F = r * F + F
    BY <1>1, <1>2, SMTT(30)
  <2>3. PICK x \in Nat, y \in Nat : x = r * F /\ y = S * F
    BY <1>4, <2>1
  <2>4. QED BY <1>1, <2>1, <2>2, <2>3
<1>6. n \div (S * F) = b
  <2>1. (b * S + r) * F = (b * S) * F + r * F
    BY <1>1, <1>2, <1>4, SMTT(30)
  <2>2. (b * S) * F = b * (S * F)
    BY <1>1, <1>2, SMTT(30)
  <2>3. n = b * (S * F) + r * F
    BY <1>2, <1>3, <2>1, <2>2
  <2>4. PICK M \in Nat \ {0}, R \in Nat : M = S * F /\ R = r * F /\ R < M
    BY <1>4, <1>5
  <2>5. n \div M = b
    <3>1. n = b * M + R
      BY <2>3, <2>4, Zenon
    <3>2. M \in Nat \ {0} /\ R \in Nat /\ R < M
      BY <2>4
    <3>3. QED BY <3>1, <3>2, DivisionIs
  <2>6. QED BY <2>4, <2>5
<1>7. n \div F = s /\ n % F = 0
  <2>1. n = s * F + 0 /\ 0 < F
    BY <1>1, <1>3, <1>4
  <2>2. QED BY <1>1, <2>1, DivisionIs
<1>8. n < (L * S) * F
  <2>1. b + 1 <= L
    BY <1>1, <1>2
  <2>2. (b + 1) * S <= L * S
    BY <1>1, <1>2, <2>1, Products
  <2>3. (b + 1) * S = b * S + S
    BY <1>1, <1>2, SMTT(30)
  <2>4. s + 1 <= L * S
    <3>1. PICK x \in Nat, y \in Nat : x = b * S /\ y = L * S
      BY <1>4
    <3>2. QED BY <1>1, <1>2, <2>2, <2>3, <3>1
  <2>5. (s + 1) * F <= (L * S) * F /\ (L * S) * F \in Nat
    BY <1>1, <1>4, <2>4, Products
  <2>6. (s + 1) * F = s * F + F
    BY <1>1, SMTT(30)
  <2>7. PICK z \in Nat : z = (L * S) * F
    BY <2>5
  <2>8. QED BY <1>1, <1>3, <1>4, <2>5, <2>6, <2>7
<1>9. n \in 0 .. Places - 1
  <2>1. n < Places
    BY <1>1, <1>8 DEF Places
  <2>2. QED BY <1>4, <2>1, PlacesNat
<1>10. BusOf(n) = b /\ SlotOf(n) = r /\ FunctionOf(n) = 0
  BY <1>1, <1>2, <1>6, <1>7 DEF BusOf, SlotOf, FunctionOf
<1>11. QED BY <1>1, <1>2, <1>3, <1>9, <1>10

\* An adapter is a function that answers and calls itself mass storage.
LEMMA AdapterAnswers ==
    ASSUME PciType, NEW s \in Nat, Adapter(s)
    PROVE  LET f == FunctionAt(s \div SlotsPerBus, s % SlotsPerBus, 0)
           IN  f # NoFunction /\ f.class = 1
<1> DEFINE bus == s \div SlotsPerBus
           n == s % SlotsPerBus
           f == FunctionAt(bus, n, 0)
<1>1. bus \in Nat /\ n \in Nat /\ n < 32
  <2>1. SlotsPerBus \in 1 .. 32
    BY PciAssumption, Zenon
  <2>2. PICK S \in Nat \ {0} : S = SlotsPerBus /\ S <= 32
    BY <2>1
  <2>3. s \div S \in Nat /\ s % S \in 0 .. S - 1
    BY Division
  <2>4. QED BY <2>2, <2>3
<1>2. /\ Word(s, 0) = pci_read_config_word(bus, n, 0, 0)
      /\ Byte(s, 11) = pci_read_config_byte(bus, n, 0, 11)
  BY DEF Word, Byte
<1>3. ~Nobody(Word(s, 0)) /\ Byte(s, 11) = 1
  BY DEF Adapter
<1> HIDE DEF bus, n
<1>4. /\ Config(Address(bus, n, 0, 0)) = f.vendor \o f.device
      /\ Config(Address(bus, n, 0, 8)) = <<0, 0, f.subclass, f.class>>
  <2>1. PICK func \in Nat : func = 0 /\ func < 8
    OBVIOUS
  <2>2. /\ Config(Address(bus, n, func, 0))
             = FunctionAt(bus, n, func).vendor \o FunctionAt(bus, n, func).device
        /\ Config(Address(bus, n, func, 8))
             = <<0, 0, FunctionAt(bus, n, func).subclass, FunctionAt(bus, n, func).class>>
    BY <1>1, <2>1, IdRegister
  <2>3. QED BY <2>1, <2>2
<1>5. f \in PciFunction /\ (Nobody(f.vendor) <=> f = NoFunction)
  BY Answering
<1>6. pci_read_config_word(bus, n, 0, 0) = SubSeq(Config(Address(bus, n, 0, 0)), 1, 2)
  <2>1. 1 + (0 % 4) - (0 % 2) = 1
    BY SMT
  <2>2. QED BY <2>1 DEF pci_read_config_word, pci_read_config_dword
<1>7. Address(bus, n, 0, 11) = Address(bus, n, 0, 8)
  <2>1. 11 - (11 % 4) = 8 - (8 % 4)
    BY SMT
  <2>2. QED BY <2>1 DEF Address
<1>8. pci_read_config_byte(bus, n, 0, 11) = Config(Address(bus, n, 0, 8))[4]
  <2>1. 1 + (11 % 4) = 4
    BY SMT
  <2>2. QED BY <1>7, <2>1 DEF pci_read_config_byte, pci_read_config_dword
<1> HIDE DEF f
<1>9. SubSeq(f.vendor \o f.device, 1, 2) = f.vendor
  <2>1. f.vendor \in PciByte \X PciByte /\ f.device \in PciByte \X PciByte
    BY <1>5 DEF PciFunction
  <2>2. QED BY <2>1, VendorBytes
<1>10. f # NoFunction
  BY <1>2, <1>3, <1>4, <1>5, <1>6, <1>9
<1>11. f.class = 1
  BY <1>2, <1>3, <1>4, <1>8
<1>12. QED BY <1>10, <1>11 DEF f, bus, n

(***************************************************************************)
(* The theorems.                                                           *)
(***************************************************************************)

\* What the two tables hold are ports, lines, slots and targets that exist, and they
\* never hold more than their arrays have room for.
THEOREM ScanTypes == Spec => []TypeOK
<1>1. IInv => TypeOK
  <2> SUFFICES ASSUME IInv PROVE TypeOK
    OBVIOUS
  <2>1. TypeInv
    BY DEF IInv
  <2>2. ASSUME NEW c \in 1 .. controller_count
        PROVE  /\ controllers[c].slot \in 0 .. Slots - 1
               /\ controllers[c].io_base \in IoPorts /\ controllers[c].irq \in 0 .. 255
    <3>1. /\ controllers[c].slot \in 0 .. Slots - 1
          /\ controllers[c].io_base \in IoPorts /\ controllers[c].irq \in IrqLines
      BY <2>1, LensNat DEF ControllerSet
    <3>2. \A n \in IrqLines : n \in 0 .. 255
      BY SMT DEF IrqLines
    <3>3. QED BY <3>1, <3>2
  <2>3. \A d \in 1 .. device_count : scsi_devices[d].target \in 0 .. TargetsScanned - 1
    BY <2>1, LensNat DEF DeviceSet, Targets
  <2>4. QED BY <2>1, <2>2, <2>3 DEF TypeInv, TypeOK
<1>2. QED BY <1>1, Invariant, PTL

\* At every moment of the scan the count at each controller is the number of devices
\* listed for it, and no device is listed for a controller that is not there.
THEOREM TablesAgree == Spec => []CountsAgree
<1>1. IInv => CountsAgree
  BY DEF IInv, TargetInv
<1>2. QED BY <1>1, Invariant, PTL

\* The list of devices grows in scan order, without a repetition, and lacks a target that
\* was asked only when it is full; every target of every controller is asked.
THEOREM ScanOrder == Spec => []ListIsScanOrder
<1>1. IInv => ListIsScanOrder
  <2> SUFFICES ASSUME IInv PROVE ListIsScanOrder
    OBVIOUS
  <2>1. TypeInv /\ TargetInv
    BY DEF IInv
  <2> DEFINE Rank(d) == scsi_devices[d].controller_id * TargetsScanned + scsi_devices[d].target
  <2>2. ASSUME NEW d \in 1 .. device_count, NEW e \in 1 .. device_count, d < e
        PROVE  Rank(d) < Rank(e)
    <3>1. /\ scsi_devices[d].controller_id \in Nat /\ scsi_devices[d].target \in Targets
          /\ scsi_devices[e].controller_id \in Nat /\ scsi_devices[e].target \in Targets
      BY <2>1, LensNat DEF DeviceSet
    <3>2. \/ scsi_devices[d].controller_id < scsi_devices[e].controller_id
          \/ /\ scsi_devices[d].controller_id = scsi_devices[e].controller_id
             /\ scsi_devices[d].target < scsi_devices[e].target
      BY <2>1, <2>2 DEF TargetInv
    <3>3. QED BY <3>1, <3>2, RankOrder
  <2>3. device_count < SCSI_MAX_DEVICES =>
          asked = {<<scsi_devices[d].controller_id, scsi_devices[d].target>> :
                     d \in 1 .. device_count}
    BY <2>1 DEF TargetInv
  <2>4. ASSUME pc = "done" PROVE asked = (1 .. controller_count) \X (0 .. TargetsScanned - 1)
    <3>1. ctrl = controller_count + 1 /\ asked \subseteq (1 .. controller_count) \X Targets
      BY <2>1, <2>4 DEF TargetInv
    <3>2. \A c \in 1 .. controller_count, t \in Targets : Passed(c, t)
      BY <2>1, <3>1, LensNat DEF Passed
    <3>3. \A c \in 1 .. controller_count, t \in Targets : <<c, t>> \in asked
      BY <2>1, <3>2 DEF TargetInv
    <3>4. QED BY <3>1, <3>3 DEF Targets
  <2> HIDE DEF Rank
  <2>5. QED BY <2>2, <2>3, <2>4 DEF ListIsScanOrder, Rank
<1>2. QED BY <1>1, Invariant, PTL

\* Once the slots are walked, an adapter that got ready is in the table, or the
\* table is full of adapters before it.
THEOREM AdaptersFound == Spec => []ReadyAdaptersRegistered
<1>1. IInv => ReadyAdaptersRegistered
  <2> SUFFICES ASSUME IInv, pc \notin {"pci", "reset", "ready"}, NEW n \in 0 .. Slots - 1, Missed(n)
               PROVE  controller_count = SCSI_MAX_CONTROLLERS /\ controllers[controller_count].slot < n
    BY DEF ReadyAdaptersRegistered, Missed
  <2>1. slot = Slots
    BY DEF IInv, SlotInv, Probing
  <2>2. QED BY <2>1 DEF IInv, SlotInv
<1>2. QED BY <1>1, Invariant, PTL

\* The texts and the size of every listed device are what INQUIRY and READ CAPACITY
\* told, without the blanks at the end: the terminator that scsi_string_copy writes
\* behind a field, into the next one, never shows.
THEOREM DevicesTold == Spec => []DevicesAsTold
<1>1. IInv => DevicesAsTold
  <2> SUFFICES ASSUME IInv PROVE DevicesAsTold
    OBVIOUS
  <2>1. ASSUME NEW d \in 1 .. device_count
        PROVE  /\ scsi_devices[d].vendor = Trimmed(Texts.vendor)
               /\ scsi_devices[d].product = Trimmed(Texts.product)
               /\ scsi_devices[d].revision = Trimmed(Texts.revision)
               /\ scsi_devices[d].block_count = 204800 /\ scsi_devices[d].block_size = 512
    <3>1. scsi_devices[d] \in DeviceSet
      BY LensNat DEF IInv
    <3>2. scsi_devices[d].vendor = vendor /\ scsi_devices[d].product = product
          /\ scsi_devices[d].revision = revision
      BY <3>1 DEF DeviceSet
    <3>3. scsi_devices[d].block_count = BlockCount /\ scsi_devices[d].block_size = BlockSize
      BY <3>1, SizesOf, Zenon DEF DeviceSet
    <3>4. scsi_devices[d].block_count = 204800 /\ scsi_devices[d].block_size = 512
      BY <3>3, NumbersTold
    <3>5. QED BY <3>2, <3>4, FieldsTold
  <2>2. QED BY <2>1 DEF DevicesAsTold
<1>2. QED BY <1>1, Invariant, PTL

\* The listing has every function that answers on the listed buses, once and in order;
\* and every registered controller there is in it, as the mass storage controller that
\* function 0 of its slot is.
THEOREM ListingTold == Spec => []ListingAgrees
<1>1. IInv /\ ListInv => ListingAgrees
  <2> SUFFICES ASSUME IInv, ListInv, pc = "done" PROVE
        LET Answers == {n \in 0 .. Places - 1 :
                          FunctionAt(BusOf(n), SlotOf(n), FunctionOf(n)) # NoFunction}
            Line(n, l) == l.bus = BusOf(n) /\ l.slot = SlotOf(n) /\ l.func = FunctionOf(n)
        IN  /\ Len(listing) = Cardinality(Answers)
            /\ \A k \in DOMAIN listing : \E n \in Answers :
                 Line(n, listing[k]) /\ Cardinality({m \in Answers : m < n}) = k - 1
            /\ \A c \in 1 .. controller_count :
                 LET s == controllers[c].slot IN
                 s \div SlotsPerBus < ListedBuses => \E k \in DOMAIN listing :
                   /\ listing[k].bus * SlotsPerBus + listing[k].slot = s
                   /\ listing[k].func = 0 /\ listing[k].class = 1
    BY DEF ListingAgrees
  <2> DEFINE Answers == {n \in 0 .. Places - 1 :
                           FunctionAt(BusOf(n), SlotOf(n), FunctionOf(n)) # NoFunction}
             Line(n, l) == l.bus = BusOf(n) /\ l.slot = SlotOf(n) /\ l.func = FunctionOf(n)
  <2>1. Answers = AnswersBefore(Places)
    BY DEF AnswersBefore, Tells
  <2>2. Lists(listing, Places)
    BY DEF ListInv
  <2>3. listing \in Seq(LineSet) /\ Len(listing) = Cardinality(Answers)
    BY <2>1, <2>2 DEF Lists
  <2>4. DOMAIN listing = 1 .. Len(listing)
    BY <2>3
  <2>5. \A n : LineAt(n).bus = BusOf(n) /\ LineAt(n).slot = SlotOf(n)
               /\ LineAt(n).func = FunctionOf(n) /\ LineAt(n).class = Tells(n).class
    BY DEF LineAt
  <2>6. \A n \in Answers : {m \in Answers : m < n} = AnswersBefore(n)
    <3> SUFFICES ASSUME NEW n \in Answers
                 PROVE  {m \in Answers : m < n} = AnswersBefore(n)
      OBVIOUS
    <3>1. n \in 0 .. Places - 1
      OBVIOUS
    <3>2. \A m : (m \in 0 .. Places - 1 /\ m < n) <=> m \in 0 .. n - 1
      BY <3>1, PlacesNat
    <3>3. QED BY <3>2 DEF AnswersBefore, Tells
  <2> HIDE DEF Answers
  <2>7. ASSUME NEW k \in DOMAIN listing
        PROVE  \E n \in Answers :
                 Line(n, listing[k]) /\ Cardinality({m \in Answers : m < n}) = k - 1
    <3>1. PICK n \in Answers : listing[k] = LineAt(n) /\ Cardinality(AnswersBefore(n)) = k - 1
      BY <2>1, <2>2, <2>4 DEF Lists
    <3>2. Line(n, listing[k])
      BY <2>5, <3>1
    <3>3. Cardinality({m \in Answers : m < n}) = k - 1
      BY <2>6, <3>1
    <3>4. QED BY <3>2, <3>3
  <2>8. ASSUME NEW c \in 1 .. controller_count,
               controllers[c].slot \div SlotsPerBus < ListedBuses
        PROVE  \E k \in DOMAIN listing :
                 /\ listing[k].bus * SlotsPerBus + listing[k].slot = controllers[c].slot
                 /\ listing[k].func = 0 /\ listing[k].class = 1
    <3>1. controllers[c].slot \in AdapterSlots
      BY DEF ListInv
    <3>2. PICK s \in Nat : s = controllers[c].slot /\ Adapter(s)
      BY <3>1, SlotsNat DEF AdapterSlots
    <3>3. PICK n : n = s * FunctionsPerSlot
      OBVIOUS
    <3>4. /\ n \in 0 .. Places - 1
          /\ BusOf(n) = s \div SlotsPerBus /\ SlotOf(n) = s % SlotsPerBus /\ FunctionOf(n) = 0
          /\ BusOf(n) * SlotsPerBus + SlotOf(n) = s
      BY <2>8, <3>2, <3>3, PlaceOfSlot
    <3>5. Tells(n) # NoFunction /\ Tells(n).class = 1
      <4>1. PciType
        BY DEF IInv, TypeInv
      <4>2. QED BY <3>2, <3>4, <4>1, AdapterAnswers DEF Tells
    <3>6. n \in AnswersBefore(Places)
      BY <3>4, <3>5 DEF AnswersBefore
    <3>7. PICK k \in 1 .. Len(listing) : listing[k] = LineAt(n)
      BY <2>2, <3>6 DEF Lists
    <3>8. /\ listing[k].bus * SlotsPerBus + listing[k].slot = controllers[c].slot
          /\ listing[k].func = 0 /\ listing[k].class = 1
      BY <2>5, <3>2, <3>4, <3>5, <3>7
    <3>9. QED BY <2>4, <3>8
  <2>9. QED BY <2>3, <2>7, <2>8 DEF Answers
<1>2. Spec => [](IInv /\ ListInv)
  BY InitInv, NextInv, ListInit, ListStep, PTL DEF Spec
<1>3. QED BY <1>1, <1>2, PTL
=============================================================================
