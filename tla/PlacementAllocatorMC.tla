------------------------ MODULE PlacementAllocatorMC ------------------------
(***************************************************************************)
(* Small instances of PlacementAllocator for TLC: a kilobyte of 4 bytes, a *)
(* page of 8, the first megabyte ending at 16 and a 64-byte address space. *)
(***************************************************************************)
EXTENDS PlacementAllocator

E(type, addr, len) == [type |-> type, addr |-> addr, len |-> len]

\* Low memory, one or two available regions in both orders, a reserved region
\* above them, nothing available, a region beyond the address space.
MCMaps == { <<E(1, 0, 12), E(1, 16, 16)>>,
            <<E(1, 16, 17), E(2, 48, 8), E(1, 0, 12)>>,
            <<E(1, 24, 6), E(1, 16, 8), E(2, 40, 20)>>,
            <<E(2, 0, 32)>>, <<>>,
            <<E(1, 0, 12), E(1, 16, 16), E(1, 64, 40)>> }
=============================================================================
