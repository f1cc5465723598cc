------------------------------ MODULE CpuSetup ------------------------------
(***************************************************************************)
(* What the kernel does to the processor and asks of it: src/kernel/gdt.c, *)
(* gdt_asm.asm, hyperv.c and the processor half of hwinfo.c.  The          *)
(* processor is external; it goes into reset when it meets a fault, as no  *)
(* interrupt gate is ever present.  A 32-bit number is a pair of halves; a *)
(* register of four characters is a string, one of flags a set of bits.    *)
(* KernelBoot runs these steps in the order of kernel_main.                *)
(***************************************************************************)
EXTENDS Integers, Sequences

CONSTANT Machines   \* processors: [leaves, signature, vendor, edx, ecx, hypervisor, services, osid]

MicrosoftHv == <<"Micr", "osof", "t Hv">>

\* The register for the guest's id is there exactly under Hyper-V, which sets the
\* hypervisor bit of leaf 1 and tells its name.
ASSUME MachineAssumption ==
    \A m \in Machines :
      /\ m.leaves \in Nat /\ m.signature \in Nat
      /\ m.vendor \in Seq(STRING) /\ Len(m.vendor) = 3
      /\ m.hypervisor # <<>> => m.hypervisor \in Seq(STRING) /\ Len(m.hypervisor) = 3
      /\ m.osid = (m.leaves > 0 /\ 31 \in m.ecx /\ m.hypervisor = MicrosoftHv)

VARIABLES machine,
          cpu,                \* "runs" or "reset"
          interrupts,         \* the interrupt flag
          gdtr, idtr,         \* the tables loaded: [limit, table]
          gdt_entries, idt_entries,
          hyperv_detected, hyperv_features,
          cpu_info,
          report              \* what print_cpu_info printed

processor == <<machine, cpu, interrupts, gdtr, idtr, gdt_entries, idt_entries,
               hyperv_detected, hyperv_features, cpu_info, report>>

(***************************************************************************)
(* The processor.                                                          *)
(***************************************************************************)
Flag(byte, bit) == (byte \div bit) % 2 = 1

\* A descriptor that covers all addresses from zero: base 0, limit FFFFF pages.
Flat(d) ==
    /\ d.base_low = 0 /\ d.base_middle = 0 /\ d.base_high = 0
    /\ d.limit_low = 65535 /\ d.granularity % 16 = 15
    /\ Flag(d.granularity, 128) /\ Flag(d.granularity, 64)

\* A ring 0 selector may be loaded if its descriptor is inside the table, present,
\* a segment of ring 0 and, by the register, executable or writable.
Loads(table, limit, selector, executable) ==
    /\ selector + 7 <= limit
    /\ LET d == table[selector \div 8] IN
         /\ Flag(d.access, 128) /\ Flag(d.access, 16) /\ (d.access \div 32) % 4 = 0
         /\ Flag(d.access, 8) = executable /\ Flag(d.access, 2)
         /\ Flat(d)

Nothing == [eax |-> 0, ebx |-> "", ecx |-> "", edx |-> ""]
NoBits == [eax |-> 0, ebx |-> "", ecx |-> {}, edx |-> {}]

\* The answers to CPUID leaves 0 and 1 and, under a hypervisor, 40000000h and
\* 40000003h.
Vendor == [eax |-> machine.leaves, ebx |-> machine.vendor[1],
           edx |-> machine.vendor[2], ecx |-> machine.vendor[3]]
Version == IF machine.leaves = 0 THEN NoBits
           ELSE [eax |-> machine.signature, ebx |-> "", ecx |-> machine.ecx, edx |-> machine.edx]
HvVendor == IF machine.hypervisor = <<>> THEN Nothing
            ELSE [eax |-> 0, ebx |-> machine.hypervisor[1],
                  ecx |-> machine.hypervisor[2], edx |-> machine.hypervisor[3]]
HvFeatures == [NoBits EXCEPT !.eax = machine.services]

(***************************************************************************)
(* gdt.c and gdt_asm.asm                                                   *)
(***************************************************************************)

\* Mutant of gdt_set_gate: the flags overwrite the upper bits of the limit.
gdt_set_gate_flags(base, limit, access, gran) ==
    [base_low |-> base[2], base_middle |-> base[1] % 256, base_high |-> base[1] \div 256,
     limit_low |-> limit[2], granularity |-> 16 * (gran \div 16), access |-> access]

gdt_set_gate(base, limit, access, gran) ==
    [base_low |-> base[2], base_middle |-> base[1] % 256, base_high |-> base[1] \div 256,
     limit_low |-> limit[2], granularity |-> (limit[1] % 16) + 16 * (gran \div 16),
     access |-> access]

\* The null segment, and code and data for the kernel and for users.
GdtTable ==
    LET Zero == <<0, 0>>
        All == <<65535, 65535>>
    IN  [n \in 0 .. 4 |->
           IF n = 0 THEN gdt_set_gate(Zero, Zero, 0, 0)
           ELSE gdt_set_gate(Zero, All, CASE n = 1 -> 154 [] n = 2 -> 146
                                          [] n = 3 -> 250 [] n = 4 -> 242, 207)]

\* lgdt, the data segment registers to 10h and the far jump to 08h.
gdt_flush(table, limit) ==
    /\ gdtr' = [limit |-> limit, table |-> table]
    /\ cpu' = IF Loads(table, limit, 16, FALSE) /\ Loads(table, limit, 8, TRUE)
              THEN cpu ELSE "reset"

init_gdt ==
    /\ gdt_entries' = GdtTable
    /\ gdt_flush(GdtTable, 8 * 5 - 1)
    /\ UNCHANGED <<machine, interrupts, idtr, idt_entries, hyperv_detected,
                   hyperv_features, cpu_info, report>>

idt_set_gate(base, sel, flags) ==
    [base_low |-> base[2], base_high |-> base[1], sel |-> sel, always0 |-> 0, flags |-> flags]

\* All 256 gates are cleared: none is present.  One record stands for them all.
init_idt ==
    /\ idt_entries' = idt_set_gate(<<0, 0>>, 0, 0)
    /\ idtr' = [limit |-> 8 * 256 - 1, table |-> idt_entries']
    /\ UNCHANGED <<machine, cpu, interrupts, gdtr, gdt_entries, hyperv_detected,
                   hyperv_features, cpu_info, report>>

(***************************************************************************)
(* hyperv.c                                                                *)
(***************************************************************************)

\* The hypervisor bit, then the signature.
detect_hyperv ==
    31 \in Version.ecx /\ <<HvVendor.ebx, HvVendor.ecx, HvVendor.edx>> = MicrosoftHv

\* init_hyperv_hypercalls writes the guest OS id to a register only Hyper-V has.
\* init_hyperv_services only prints.
init_hyperv ==
    /\ hyperv_detected' = detect_hyperv
    /\ hyperv_features' = IF hyperv_detected' THEN HvFeatures.eax ELSE hyperv_features
    /\ cpu' = IF hyperv_detected' /\ ~machine.osid THEN "reset" ELSE cpu
    /\ UNCHANGED <<machine, interrupts, gdtr, idtr, gdt_entries, idt_entries, cpu_info, report>>

(***************************************************************************)
(* hwinfo.c                                                                *)
(***************************************************************************)
NoInfo == [vendor |-> <<"", "", "">>, stepping |-> 0, model |-> 0, family |-> 0,
           features_edx |-> {}, features_ecx |-> {}]

\* Mutant of detect_cpu: the two registers of features exchanged.
detect_cpu_exchanged ==
    LET named == [cpu_info EXCEPT !.vendor = <<Vendor.ebx, Vendor.edx, Vendor.ecx>>] IN
    /\ cpu_info' = IF Vendor.eax >= 1
                   THEN [named EXCEPT !.stepping = Version.eax % 16,
                                      !.model = (Version.eax \div 16) % 16,
                                      !.family = (Version.eax \div 256) % 16,
                                      !.features_edx = Version.ecx,
                                      !.features_ecx = Version.edx]
                   ELSE named
    /\ UNCHANGED <<machine, cpu, interrupts, gdtr, idtr, gdt_entries, idt_entries,
                   hyperv_detected, hyperv_features, report>>

detect_cpu ==
    LET named == [cpu_info EXCEPT !.vendor = <<Vendor.ebx, Vendor.edx, Vendor.ecx>>] IN
    /\ cpu_info' = IF Vendor.eax >= 1
                   THEN [named EXCEPT !.stepping = Version.eax % 16,
                                      !.model = (Version.eax \div 16) % 16,
                                      !.family = (Version.eax \div 256) % 16,
                                      !.features_edx = Version.edx,
                                      !.features_ecx = Version.ecx]
                   ELSE named
    /\ UNCHANGED <<machine, cpu, interrupts, gdtr, idtr, gdt_entries, idt_entries,
                   hyperv_detected, hyperv_features, report>>

\* The bits of features that have a name in what is printed.
KnownEdx == {0, 4, 5, 6, 9, 23, 25, 26}
KnownEcx == {0, 31}

\* print_cpu_info: two digits of family and model, one of the stepping, and the
\* names of the features it knows.
print_cpu_info ==
    /\ report' = [vendor |-> cpu_info.vendor,
                  family |-> cpu_info.family % 100, model |-> cpu_info.model % 100,
                  stepping |-> cpu_info.stepping % 10,
                  features_edx |-> cpu_info.features_edx \cap KnownEdx,
                  features_ecx |-> cpu_info.features_ecx \cap KnownEcx]
    /\ UNCHANGED <<machine, cpu, interrupts, gdtr, idtr, gdt_entries, idt_entries,
                   hyperv_detected, hyperv_features, cpu_info>>

\* The loader's tables; its interrupt flag is set by KernelBoot.
LoaderTable == [limit |-> 0, table |-> <<>>]

CpuInit ==
    /\ machine \in Machines
    /\ cpu = "runs"
    /\ interrupts \in BOOLEAN
    /\ gdtr = LoaderTable /\ idtr = LoaderTable
    /\ gdt_entries = <<>> /\ idt_entries = <<>>
    /\ hyperv_detected = FALSE /\ hyperv_features = {}
    /\ cpu_info = NoInfo /\ report = NoInfo
=============================================================================
