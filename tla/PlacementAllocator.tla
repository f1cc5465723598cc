------------------------- MODULE PlacementAllocator -------------------------
(***************************************************************************)
(* src/kernel/memory.c: init_memory finds the end of memory, then          *)
(* allocate_frame and kmalloc hand out addresses from one counter,         *)
(* placement_address, which every request moves on, refused or not.        *)
(* Addresses are 32-bit words: WordMod is 2^32 in the code, and the        *)
(* counter starts again from zero when the requests add up to it.          *)
(***************************************************************************)
EXTENDS Integers, Sequences

CONSTANTS WordMod,         \* addresses and sizes are modulo this
          PageSize,        \* PAGE_SIZE
          Kilo,            \* bytes in a KB
          PlacementStart,  \* where placement_address starts
          KernelEnd,       \* end of the kernel image (kernel_end, linker.ld)
          Maps,            \* multiboot memory maps: sequences of entries
          Uppers,          \* mem_upper values, used when there is no map
          Sizes,           \* what callers ask kmalloc for
          MaxGranted       \* a bound: callers with so many regions stop

\* Entries of a map: [type |-> ..., addr |-> ..., len |-> ...], 64-bit values.
Entry == [type : Nat, addr : Nat, len : Nat]

ASSUME AllocatorAssumption ==
    /\ WordMod \in Nat \ {0} /\ WordMod % 4 = 0
    /\ PageSize \in 1 .. WordMod - 1 /\ PageSize % 4 = 0
    /\ Kilo \in Nat
    /\ PlacementStart \in 0 .. WordMod - 1 /\ PlacementStart % 4 = 0
    /\ KernelEnd \in Nat
    /\ Maps \subseteq Seq(Entry)
    /\ Uppers \subseteq Nat
    /\ Sizes \subseteq 0 .. WordMod - 1
    /\ MaxGranted \in Nat

VARIABLES pc,                 \* "init", "walk" or "ready"
          mbi,                \* the boot information: its memory map, or mem_upper
          next,               \* the entry the walk is at
          memory_end,
          placement_address,
          granted,            \* what was handed out, in order
          exhausted,          \* an out-of-memory error was reported
          last,               \* the last request and whether it was granted
          wrapped             \* the requests add up to more than the address space

\* What requests leave behind; all but the error report is history.
answers == <<granted, exhausted, last, wrapped>>

vars == <<pc, mbi, next, memory_end, placement_address, answers>>

\* The multiboot information; hasMap is bit 6 of its flags.
BootInfo == [hasMap : {TRUE}, map : Maps, upper : {0}]
              \cup [hasMap : {FALSE}, map : {<<>>}, upper : Uppers]

\* What the caller may use: the bytes it asked for, from the address it got.
Region == [kind : {"frame", "heap"}, base : 0 .. WordMod - 1, size : Nat]

Available(e) == e.type = 1
EndOf(e) == e.addr + e.len

(***************************************************************************)
(* init_memory                                                             *)
(***************************************************************************)

Init ==
    /\ pc = "init"
    /\ mbi \in BootInfo
    /\ next = 1
    /\ memory_end = 0
    /\ placement_address = PlacementStart
    /\ granted = <<>>
    /\ exhausted = FALSE
    /\ last = [size |-> 0, given |-> FALSE]
    /\ wrapped = FALSE

StartWalk ==
    /\ pc = "init" /\ mbi.hasMap
    /\ pc' = "walk"
    /\ UNCHANGED <<mbi, next, memory_end, placement_address, answers>>

\* Mutant of WalkEntry: moves on by the entry and by the size of one.
WalkEntryTwice ==
    /\ pc = "walk" /\ next <= Len(mbi.map)
    /\ LET e == mbi.map[next] IN
         memory_end' = IF Available(e) /\ EndOf(e) > memory_end
                       THEN EndOf(e) % WordMod ELSE memory_end
    /\ next' = next + 2
    /\ UNCHANGED <<pc, mbi, placement_address, answers>>

\* Mutant of WalkEntry: the last available region wins.
WalkEntryLast ==
    /\ pc = "walk" /\ next <= Len(mbi.map)
    /\ LET e == mbi.map[next] IN
         memory_end' = IF Available(e) THEN EndOf(e) % WordMod ELSE memory_end
    /\ next' = next + 1
    /\ UNCHANGED <<pc, mbi, placement_address, answers>>

\* The comparison is done in 64 bits, the assignment in 32.
WalkEntry ==
    /\ pc = "walk" /\ next <= Len(mbi.map)
    /\ LET e == mbi.map[next] IN
         memory_end' = IF Available(e) /\ EndOf(e) > memory_end
                       THEN EndOf(e) % WordMod ELSE memory_end
    /\ next' = next + 1
    /\ UNCHANGED <<pc, mbi, placement_address, answers>>

EndWalk ==
    /\ pc = "walk" /\ next > Len(mbi.map)
    /\ pc' = "ready"
    /\ UNCHANGED <<mbi, next, memory_end, placement_address, answers>>

\* No map: (mem_upper + 1024) * 1024
UseUpper ==
    /\ pc = "init" /\ ~mbi.hasMap
    /\ memory_end' = ((mbi.upper + Kilo) * Kilo) % WordMod
    /\ pc' = "ready"
    /\ UNCHANGED <<mbi, next, placement_address, answers>>

(***************************************************************************)
(* allocate_frame and kmalloc                                              *)
(***************************************************************************)

\* A size in whole words, as a number of any size.
Whole(size) == (size + 3) - ((size + 3) % 4)

\* The answer to a request: an error, or the place where the counter was.
Answer(refused, kind, size) ==
    /\ granted' = IF refused THEN granted
                  ELSE Append(granted, [kind |-> kind, base |-> placement_address,
                                        size |-> size])
    /\ exhausted' = IF refused THEN TRUE ELSE exhausted
    /\ last' = [size |-> size, given |-> ~refused]
    /\ wrapped' = IF placement_address + Whole(size) >= WordMod THEN TRUE ELSE wrapped

\* Mutant of Advance: looks at the counter before it moves.
AdvanceLateCheck(step, kind, size) ==
    /\ placement_address' = (placement_address + step) % WordMod
    /\ Answer(placement_address >= memory_end, kind, size)

\* Mutant of Advance: the addresses are compared as signed numbers.
AdvanceSigned(step, kind, size) ==
    LET moved == (placement_address + step) % WordMod
        Signed(n) == IF 2 * n >= WordMod THEN n - WordMod ELSE n
    IN  /\ placement_address' = moved
        /\ Answer(Signed(moved) >= Signed(memory_end), kind, size)

\* Advance the counter by step and hand out size bytes, unless the counter
\* has then reached the end of memory.  The counter is not put back.
Advance(step, kind, size) ==
    LET moved == (placement_address + step) % WordMod IN
    /\ placement_address' = moved
    /\ Answer(moved >= memory_end, kind, size)

\* The bound on the history.  It is no bound on requests that are refused.
Calling == pc = "ready" /\ Len(granted) < MaxGranted

AllocateFrame ==
    /\ Calling
    /\ Advance(PageSize, "frame", PageSize)
    /\ UNCHANGED <<pc, mbi, next, memory_end>>

\* Mutant of Rounded: rounds down.
RoundedDown(size) == size - (size % 4)

\* Mutant of Rounded: rounds up to a multiple of 8.
RoundedToEight(size) == LET s == (size + 7) % WordMod IN s - (s % 8)

\* (size + 3) & ~3
Rounded(size) == LET s == (size + 3) % WordMod IN s - (s % 4)

KMallocZero ==
    /\ pc = "ready" /\ 0 \in Sizes
    /\ UNCHANGED vars

KMalloc(size) ==
    /\ Calling /\ size # 0
    /\ Advance(Rounded(size), "heap", size)
    /\ UNCHANGED <<pc, mbi, next, memory_end>>

Next ==
    \/ StartWalk \/ WalkEntry \/ EndWalk \/ UseUpper
    \/ AllocateFrame
    \/ KMallocZero \/ \E size \in Sizes : KMalloc(size)

Spec == Init /\ [][Next]_vars

(***************************************************************************)
(* Properties.                                                             *)
(***************************************************************************)

\* Type correctness.
TypeOK ==
    /\ pc \in {"init", "walk", "ready"}
    /\ mbi \in BootInfo
    /\ next \in 1 .. Len(mbi.map) + 1
    /\ memory_end \in 0 .. WordMod - 1
    /\ placement_address \in 0 .. WordMod - 1
    /\ granted \in Seq(Region)
    /\ exhausted \in BOOLEAN
    /\ last \in [size : Nat, given : BOOLEAN]
    /\ wrapped \in BOOLEAN

\* What allocate_frame and kmalloc have handed out never overlaps, in any
\* interleaving of the two over their one counter: each region ends before the
\* next one begins.  This is so until the requests, refused ones included, add up
\* to the address space and the counter wraps around (memory.c:35, 53).
NoOverlap ==
    ~wrapped => \A j, k \in 1 .. Len(granted) :
      j < k => granted[j].base + granted[j].size <= granted[k].base

\* Until the counter wraps around, everything handed out lies between the start
\* address and the end of memory that init_memory computed.
WithinMemory ==
    ~wrapped => \A k \in 1 .. Len(granted) :
      /\ PlacementStart <= granted[k].base
      /\ granted[k].base + granted[k].size <= memory_end

\* Every heap block and every frame is 4-byte aligned, after any mix of requests,
\* refused or not and even when the counter has wrapped around.
GrantedAligned == \A k \in 1 .. Len(granted) : granted[k].base % 4 = 0

\* After a request was refused, one is granted only when the counter wraps
\* around: a refused request moves it all the same (memory.c:53), so any number of
\* them may follow, and it stays at or above the end of memory until they add
\* up to the address space.
ExhaustionIsFinal == [][exhausted /\ ~wrapped' => granted' = granted]_vars

\* The ends of the available regions of a map.
Ends(map) == {EndOf(map[k]) : k \in {k \in 1 .. Len(map) : Available(map[k])}}

\* When init_memory is over, memory_end is the highest end of an available
\* region of the map (0 without any), in whatever order the map lists them, if
\* all of them lie below WordMod: the assignment keeps 32 bits of a 64-bit end.
MemoryEndIsTop ==
    pc = "ready" /\ mbi.hasMap /\ (\A e \in Ends(mbi.map) : e < WordMod) =>
      IF Ends(mbi.map) = {} THEN memory_end = 0
      ELSE memory_end \in Ends(mbi.map) /\ \A e \in Ends(mbi.map) : e <= memory_end

Regions == INSTANCE RegionAllocator WITH
             Start <- PlacementStart, Align <- 4, Space <- WordMod,
             Requests <- {PageSize} \cup (Sizes \ {0}),
             limit <- IF pc = "ready" THEN memory_end ELSE -1,
             given <- {[base |-> granted[k].base, size |-> granted[k].size] :
                         k \in 1 .. Len(granted)},
             refused <- exhausted, call <- last,
             asked <- placement_address - PlacementStart, lapsed <- wrapped

\* memory.c implements RegionAllocator: a request is given a region that is aligned,
\* inside memory and nobody else's, or it is refused because this request does not
\* fit above everything handed out with a byte to spare (one that would end exactly
\* at memory_end is refused, memory.c:37, 55), or because one was refused before.
\* Nothing is promised once the requests add up to the address space.
ImplementsRegions == Regions!Spec

\* README.md:246, "Heap grows upward from kernel end".
HeapAboveKernel == \A k \in 1 .. Len(granted) : granted[k].base >= KernelEnd
=============================================================================
