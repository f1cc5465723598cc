------------------------------ MODULE ScsiScan ------------------------------
(***************************************************************************)
(* init_scsi and scsi_scan_devices of src/kernel/scsi.c: the walk over the *)
(* PCI slots that fills controllers[], and the walk over the targets that  *)
(* fills scsi_devices[]; then, as in a verbose boot, scan_pci_bus lists    *)
(* the same bus.  One action per PCI slot, per wait for a host adapter, per*)
(* target and per function listed.  INQUIRY and READ CAPACITY are the      *)
(* code's stand-ins: they answer with the same disk for every target.      *)
(***************************************************************************)
EXTENDS PciBus, FiniteSetsExt

CONSTANTS BusLogic,        \* <<vendor, device>> of the adapters the kernel drives
          SCSI_MAX_CONTROLLERS, SCSI_MAX_DEVICES,
          TargetsScanned,  \* 8: INQUIRY goes to targets 0 to 7
          Texts            \* vendor, product and revision as INQUIRY tells them: as
                           \* many characters as the field has, none of them the 0

ASSUME ScsiAssumption ==
    /\ SCSI_MAX_CONTROLLERS \in Nat \ {0} /\ SCSI_MAX_DEVICES \in Nat
    /\ TargetsScanned \in Nat \ {0}
    /\ Texts.vendor \in [1 .. 8 -> STRING \ {"0"}]
    /\ Texts.product \in [1 .. 16 -> STRING \ {"0"}]
    /\ Texts.revision \in [1 .. 4 -> STRING \ {"0"}]

VARIABLES pc,             \* "pci", "reset", "ready", "targets", "listing" or "done"
          slot,           \* the slot being looked at, counted over all buses
          controllers,    \* the entries in use of the table of that name
          scsi_devices,   \* and of this one
          ctrl, target,   \* the loop indices of the target walk
          refused,        \* history: slots whose adapter did not get ready
          asked           \* history: targets INQUIRY was sent to

vars == <<pc, pci, slot, controllers, scsi_devices, ctrl, target, refused, asked,
          place, listing>>

listed == <<place, listing>>

controller_count == Len(controllers)
device_count == Len(scsi_devices)

Init ==
    /\ pc = "pci"
    /\ PciInit
    /\ slot = 0
    /\ controllers = <<>> /\ scsi_devices = <<>>
    /\ ctrl = 1 /\ target = 0
    /\ refused = {} /\ asked = {}

(***************************************************************************)
(* init_scsi                                                               *)
(***************************************************************************)
Slots == Buses * SlotsPerBus

Word(n, offset) == pci_read_config_word(n \div SlotsPerBus, n % SlotsPerBus, 0, offset)
Byte(n, offset) == pci_read_config_byte(n \div SlotsPerBus, n % SlotsPerBus, 0, offset)

\* The base of the ports, from the low half of BAR0 without its low four bits.
IoBase(n) ==
    LET bar0 == pci_read_config_dword(n \div SlotsPerBus, n % SlotsPerBus, 0, 16)
    IN  256 * bar0[2] + (bar0[1] - (bar0[1] % 16))

\* Function 0 is a SCSI controller of the kind the kernel drives, with ports.
Adapter(n) ==
    /\ ~Nobody(Word(n, 0))
    /\ Byte(n, 11) = 1 /\ Byte(n, 10) = 0
    /\ IoBase(n) # 0
    /\ <<Word(n, 0), Word(n, 2)>> = BusLogic

\* Nothing there, another class, no I/O base, or an LSI controller, which is only
\* announced.  All slots of all buses are looked at: the exit after bus 3 tests
\* for bus 0 as well and is never taken.
SkipSlot ==
    /\ pc = "pci" /\ slot < Slots /\ ~Adapter(slot)
    /\ slot' = slot + 1
    /\ UNCHANGED <<pc, pci, controllers, scsi_devices, ctrl, target, refused, asked, listed>>

\* buslogic_soft_reset
SoftReset ==
    /\ pc = "pci" /\ slot < Slots /\ Adapter(slot)
    /\ pc' = "reset"
    /\ UNCHANGED <<pci, slot, controllers, scsi_devices, ctrl, target, refused, asked, listed>>

\* The wait inside buslogic_soft_reset: ready or timed out, its result is dropped.
WaitReset ==
    /\ pc = "reset"
    /\ pc' = "ready"
    /\ UNCHANGED <<pci, slot, controllers, scsi_devices, ctrl, target, refused, asked, listed>>

Controller == [slot |-> slot, io_base |-> IoBase(slot), irq |-> Byte(slot, 60), device_count |-> 0]

\* Mutant of AddController: the table is never full.
AddControllerAlways == Append(controllers, Controller)

\* Mutant of AddController: one controller too few.
AddControllerFewer ==
    IF controller_count + 1 < SCSI_MAX_CONTROLLERS THEN Append(controllers, Controller)
                                                   ELSE controllers

\* A new entry, if the table has room.
AddController ==
    IF controller_count < SCSI_MAX_CONTROLLERS THEN Append(controllers, Controller)
                                               ELSE controllers

\* buslogic_wait_ready in buslogic_init sees the ready bit.
Register ==
    /\ pc = "ready"
    /\ controllers' = AddController
    /\ slot' = slot + 1
    /\ pc' = "pci"
    /\ UNCHANGED <<pci, scsi_devices, ctrl, target, refused, asked, listed>>

\* buslogic_wait_ready gives up after its 10000 polls.
TimeOut ==
    /\ pc = "ready"
    /\ refused' = refused \cup {slot}
    /\ slot' = slot + 1
    /\ pc' = "pci"
    /\ UNCHANGED <<pci, controllers, scsi_devices, ctrl, target, asked, listed>>

EndPci ==
    /\ pc = "pci" /\ slot = Slots
    /\ pc' = "targets"
    /\ UNCHANGED <<pci, slot, controllers, scsi_devices, ctrl, target, refused, asked, listed>>

(***************************************************************************)
(* scsi_scan_devices.  Memory is a function from offsets to characters, 0  *)
(* ends a text; what is not yet written is "?".                            *)
(***************************************************************************)
Blanks == {" ", "0"}

\* The text at an offset, cut off after length characters.
TextAt(mem, at, length) ==
    LET ends == {n \in 0 .. length - 1 : mem[at + n] = "0"}
    IN  [n \in 1 .. (IF ends = {} THEN length ELSE Min(ends)) |-> mem[at + n - 1]]

\* scsi_string_copy: the characters, a terminator after them, and everything behind
\* the last character within length that is not a blank.
scsi_string_copy(mem, dest, src, length) ==
    LET copied == [n \in DOMAIN mem |->
                     IF n - dest \in 0 .. Len(src) - 1 THEN src[n - dest + 1]
                     ELSE IF n = dest + Len(src) THEN "0" ELSE mem[n]]
        solid == {n \in 0 .. length - 1 : copied[dest + n] \notin Blanks}
        end == IF solid = {} THEN 0 ELSE Max(solid) + 1
    IN  [n \in DOMAIN mem |-> IF n - dest \in end .. length - 1 THEN "0" ELSE copied[n]]

\* Mutant of scsi_inquiry: the fields from the last to the first.
scsi_inquiry_reversed ==
    LET Empty == [n \in 8 .. 36 |-> "?"]
        m1 == scsi_string_copy(Empty, 32, Texts.revision, 4)
        m2 == scsi_string_copy(m1, 16, Texts.product, 16)
    IN  scsi_string_copy(m2, 8, Texts.vendor, 8)

\* The three texts in the inquiry data, each of the full length of its field, so that
\* its terminator lands in the next one, and the last at offset 36, behind the
\* data.
scsi_inquiry ==
    LET Empty == [n \in 8 .. 36 |-> "?"]
        m1 == scsi_string_copy(Empty, 8, Texts.vendor, 8)
        m2 == scsi_string_copy(m1, 16, Texts.product, 16)
    IN  scsi_string_copy(m2, 32, Texts.revision, 4)

\* A text copied from the inquiry data into a field of a device.
FieldFrom(inquiry, at, length) ==
    TextAt(scsi_string_copy([n \in 0 .. length |-> "0"], 0, TextAt(inquiry, at, length), length),
           0, length)

\* Bytes of a 32-bit number, the first the lowest, and back.
Bytes(v) == <<v % 256, (v \div 256) % 256, (v \div 65536) % 256, v \div 16777216>>
Number(b) == b[1] + 256 * b[2] + 65536 * b[3] + 16777216 * b[4]
swap32(b) == <<b[4], b[3], b[2], b[1]>>

scsi_read_capacity == [last_lba |-> swap32(Bytes(204799)), block_size |-> swap32(Bytes(512))]

vendor == FieldFrom(scsi_inquiry, 8, 8)
product == FieldFrom(scsi_inquiry, 16, 16)
revision == FieldFrom(scsi_inquiry, 32, 4)

\* The entry for the target.
Device ==
    [controller_id |-> ctrl, target |-> target,
     vendor |-> vendor, product |-> product, revision |-> revision,
     block_count |-> Number(swap32(scsi_read_capacity.last_lba)) + 1,
     block_size |-> Number(swap32(scsi_read_capacity.block_size))]

\* Mutant of NextTarget: the target is not reset for the next controller.
NextTargetOnly ==
    IF target + 1 < TargetsScanned
    THEN target' = target + 1 /\ UNCHANGED ctrl
    ELSE UNCHANGED target /\ ctrl' = ctrl + 1

\* Mutant of NextTarget: the target starts again on the same controller.
NextTargetAgain ==
    target' = (target + 1) % TargetsScanned /\ UNCHANGED ctrl

\* The next target, or the first one of the next controller.
NextTarget ==
    IF target + 1 < TargetsScanned
    THEN target' = target + 1 /\ UNCHANGED ctrl
    ELSE target' = 0 /\ ctrl' = ctrl + 1

\* Mutant of ListDevice: counted at the controller even if not listed.
ListDeviceCount ==
    /\ controllers' = [controllers EXCEPT ![ctrl].device_count = @ + 1]
    /\ IF device_count < SCSI_MAX_DEVICES
       THEN scsi_devices' = Append(scsi_devices, Device) ELSE UNCHANGED scsi_devices

\* The device is listed, and counted at its controller, if the table has room.
ListDevice ==
    IF device_count < SCSI_MAX_DEVICES
    THEN /\ scsi_devices' = Append(scsi_devices, Device)
         /\ controllers' = [controllers EXCEPT ![ctrl].device_count = @ + 1]
    ELSE UNCHANGED <<scsi_devices, controllers>>

\* INQUIRY finds a disk.
ScanTarget ==
    /\ pc = "targets" /\ ctrl <= controller_count
    /\ asked' = asked \cup {<<ctrl, target>>}
    /\ ListDevice
    /\ NextTarget
    /\ UNCHANGED <<pc, pci, slot, refused, listed>>

EndScan ==
    /\ pc = "targets" /\ ctrl > controller_count
    /\ pc' = "listing"
    /\ UNCHANGED <<pci, slot, controllers, scsi_devices, ctrl, target, refused, asked, listed>>

ListPci ==
    /\ pc = "listing" /\ ListFunction
    /\ UNCHANGED <<pc, pci, slot, controllers, scsi_devices, ctrl, target, refused, asked>>

EndListing ==
    /\ pc = "listing" /\ place >= Places
    /\ pc' = "done"
    /\ UNCHANGED <<pci, slot, controllers, scsi_devices, ctrl, target, refused, asked, listed>>

Next ==
    \/ SkipSlot \/ SoftReset \/ WaitReset \/ Register \/ TimeOut \/ EndPci
    \/ ScanTarget \/ EndScan \/ ListPci \/ EndListing

Spec == Init /\ [][Next]_vars

FairSpec == Spec /\ WF_vars(Next)

(***************************************************************************)
(* Properties.                                                             *)
(***************************************************************************)

\* Sixteen bits, and 0 stands for none.
IoPorts == 1 .. 65535

\* Type correctness; the tables never hold more than the arrays of the code.
TypeOK ==
    /\ pc \in {"pci", "reset", "ready", "targets", "listing", "done"}
    /\ \A c \in 1 .. controller_count :
         /\ controllers[c].slot \in 0 .. Slots - 1
         /\ controllers[c].io_base \in IoPorts /\ controllers[c].irq \in 0 .. 255
    /\ \A d \in 1 .. device_count : scsi_devices[d].target \in 0 .. TargetsScanned - 1
    /\ controller_count <= SCSI_MAX_CONTROLLERS
    /\ device_count <= SCSI_MAX_DEVICES

DevicesOf(c) == {d \in 1 .. device_count : scsi_devices[d].controller_id = c}

\* The two tables agree at every moment: the count kept at each controller is
\* the number of devices listed for it, and no device names a controller that
\* is not registered.
CountsAgree ==
    /\ \A c \in 1 .. controller_count : controllers[c].device_count = Cardinality(DevicesOf(c))
    /\ \A d \in 1 .. device_count : scsi_devices[d].controller_id \in 1 .. controller_count

\* The device list is in scan order without a repetition, a full table is the
\* only reason for a scanned target to be missing from it, and in the end every
\* target of every controller was scanned: targets 0 to 7, the comment over the
\* loop says 0 to 15 (scsi.c:281).
ListIsScanOrder ==
    LET Rank(d) == scsi_devices[d].controller_id * TargetsScanned + scsi_devices[d].target
    IN  /\ \A d, e \in 1 .. device_count : d < e => Rank(d) < Rank(e)
        /\ device_count < SCSI_MAX_DEVICES =>
             asked = {<<scsi_devices[d].controller_id, scsi_devices[d].target>> :
                        d \in 1 .. device_count}
        /\ pc = "done" => asked = (1 .. controller_count) \X (0 .. TargetsScanned - 1)

\* An adapter that became ready is left out only if the controllers before it fill
\* the table; and an adapter behind another bus is found like any other.
ReadyAdaptersRegistered ==
    pc \notin {"pci", "reset", "ready"} =>
      \A n \in 0 .. Slots - 1 :
        Adapter(n) /\ n \notin refused /\ (\A c \in 1 .. controller_count : controllers[c].slot # n)
          => controller_count = SCSI_MAX_CONTROLLERS /\ controllers[controller_count].slot < n

\* A text without the blanks at its end.
Trimmed(text) ==
    LET solid == {n \in DOMAIN text : text[n] # " "}
    IN  SubSeq(text, 1, IF solid = {} THEN 0 ELSE Max(solid))

\* The texts and the size of a listed device are those INQUIRY and READ CAPACITY told,
\* although every terminator was first written into the next field and the
\* numbers are turned round twice: trailing blanks are gone, nothing else.
DevicesAsTold ==
    \A d \in 1 .. device_count :
      /\ scsi_devices[d].vendor = Trimmed(Texts.vendor)
      /\ scsi_devices[d].product = Trimmed(Texts.product)
      /\ scsi_devices[d].revision = Trimmed(Texts.revision)
      /\ scsi_devices[d].block_count = 204800 /\ scsi_devices[d].block_size = 512

\* hwinfo.c and scsi.c agree on the bus they both read with code of their own: what
\* is listed is every function that answers on the listed buses, once and in
\* order, holes in a slot or not; and every registered controller there is in
\* the list, as function 0 of its slot and as a mass storage controller.
ListingAgrees ==
    pc = "done" =>
      LET Answers == {n \in 0 .. Places - 1 :
                        FunctionAt(BusOf(n), SlotOf(n), FunctionOf(n)) # NoFunction}
          Line(n, l) == l.bus = BusOf(n) /\ l.slot = SlotOf(n) /\ l.func = FunctionOf(n)
      IN  /\ Len(listing) = Cardinality(Answers)
          /\ \A k \in DOMAIN listing : \E n \in Answers :
               Line(n, listing[k]) /\ Cardinality({m \in Answers : m < n}) = k - 1
          /\ \A c \in 1 .. controller_count :
               LET s == controllers[c].slot IN
               s \div SlotsPerBus < ListedBuses => \E k \in DOMAIN listing :
                 /\ listing[k].bus * SlotsPerBus + listing[k].slot = s
                 /\ listing[k].func = 0 /\ listing[k].class = 1

\* The scans end, however many adapters time out.
ScanEnds == <>(pc = "done")
=============================================================================
