---------------------- MODULE PlacementAllocatorProofs ----------------------
(***************************************************************************)
(* Proofs about PlacementAllocator, for every size of the address space,   *)
(* every memory map and every sequence of requests, those that wrap the    *)
(* counter around included.                                                *)
(***************************************************************************)
EXTENDS PlacementAllocator, TLAPS

\* The counter and everything handed out are multiples of 4, wrapped around or not.
AlignInv == placement_address % 4 = 0 /\ GrantedAligned

\* Nothing is handed out or refused before the memory size is known.
WaitInv == pc # "ready" => granted = <<>> /\ exhausted = FALSE /\ wrapped = FALSE

\* Until the counter wraps around, everything handed out lies below it, and after a
\* refusal it is at or beyond the end of memory.
CounterInv ==
    ~wrapped =>
      /\ PlacementStart <= placement_address
      /\ \A k \in 1 .. Len(granted) :
           granted[k].base + granted[k].size <= placement_address
      /\ exhausted => memory_end <= placement_address

IInv == TypeOK /\ AlignInv /\ WaitInv /\ CounterInv /\ NoOverlap /\ WithinMemory

(***************************************************************************)
(* Arithmetic of the counter.                                              *)
(***************************************************************************)

\* A number below the modulus is its own remainder.
LEMMA ModSmall ==
    ASSUME NEW a \in Nat, NEW m \in Nat \ {0}, a < m
    PROVE  a % m = a
  OBVIOUS

\* A remainder is below the modulus.
LEMMA ModRange ==
    ASSUME NEW a \in Nat, NEW m \in Nat \ {0}
    PROVE  a % m \in 0 .. m - 1
  OBVIOUS

\* A number below twice the modulus loses it at most once.
LEMMA ModOnce ==
    ASSUME NEW a \in Nat, NEW m \in Nat \ {0}, a < 2 * m, a >= m
    PROVE  a % m = a - m
  OBVIOUS

\* Where the counter stays a multiple of 4 although it is cut to a word.
LEMMA WordsOfFour ==
    ASSUME NEW p \in Nat, NEW s \in Nat, p < WordMod, s < WordMod, p % 4 = 0, s % 4 = 0
    PROVE  ((p + s) % WordMod) % 4 = 0
  <1>1. WordMod \in Nat \ {0} /\ WordMod % 4 = 0
    BY AllocatorAssumption
  <1>2. CASE p + s < WordMod
    <2>1. (p + s) % WordMod = p + s
      BY <1>1, <1>2, ModSmall
    <2>. QED  BY <2>1
  <1>3. CASE p + s >= WordMod
    <2>1. (p + s) % WordMod = p + s - WordMod
      BY <1>1, <1>3, ModOnce
    <2>. QED  BY <1>1, <1>3, <2>1
  <1>. QED  BY <1>1, <1>2, <1>3

\* What lies below the counter lies below any later value of it.
LEMMA StillBelow ==
    ASSUME NEW a \in Nat, NEW b \in Nat, NEW p \in Nat, NEW s \in Nat, a + b <= p
    PROVE  a + b <= p + s
  OBVIOUS

\* A size in whole words covers the size.
LEMMA WholeCovers ==
    ASSUME NEW size \in Nat
    PROVE  /\ Whole(size) \in Nat /\ Whole(size) % 4 = 0
           /\ size <= Whole(size) /\ Whole(size) <= size + 3
           /\ size + 3 - Whole(size) < 4
  BY DEF Whole

\* kmalloc's rounding is a word and a multiple of 4.
LEMMA RoundedIsWord ==
    ASSUME NEW size \in Nat
    PROVE  Rounded(size) \in 0 .. WordMod - 1 /\ Rounded(size) % 4 = 0
  <1>1. (size + 3) % WordMod \in 0 .. WordMod - 1 /\ WordMod \in Nat
    BY ModRange, AllocatorAssumption
  <1>2. PICK s \in 0 .. WordMod - 1 : s = (size + 3) % WordMod
    BY <1>1
  <1>3. Rounded(size) = s - (s % 4)
    BY <1>2 DEF Rounded
  <1>. QED  BY <1>1, <1>2, <1>3

\* It is the size in whole words if that fits into a word.
LEMMA RoundedIsWhole ==
    ASSUME NEW size \in Nat, Whole(size) < WordMod
    PROVE  Rounded(size) = Whole(size)
  <1>1. WordMod \in Nat \ {0} /\ WordMod % 4 = 0
    BY AllocatorAssumption
  <1>2. size + 3 < WordMod
    BY <1>1 DEF Whole
  <1>3. (size + 3) % WordMod = size + 3
    BY <1>1, <1>2, ModSmall
  <1>. QED  BY <1>3 DEF Rounded, Whole

\* A page is a size in whole words.
LEMMA PageIsWhole ==
    Whole(PageSize) = PageSize /\ PageSize \in 0 .. WordMod - 1 /\ PageSize % 4 = 0
  <1>1. PageSize \in 1 .. WordMod - 1 /\ PageSize % 4 = 0 /\ WordMod \in Nat
    BY AllocatorAssumption
  <1>. QED  BY <1>1 DEF Whole

(***************************************************************************)
(* The invariant.                                                          *)
(***************************************************************************)

\* Both kinds of boot information have a map and a mem_upper of the right type.
LEMMA BootInfoType ==
    ASSUME NEW b \in BootInfo
    PROVE  b.map \in Seq(Entry) /\ b.upper \in Nat
  <1>1. <<>> \in Seq(Entry)
    OBVIOUS
  <1>2. CASE b \in [hasMap : {TRUE}, map : Maps, upper : {0}]
    BY <1>2, AllocatorAssumption
  <1>3. CASE b \in [hasMap : {FALSE}, map : {<<>>}, upper : Uppers]
    <2>1. b.map = <<>> /\ b.upper \in Uppers
      BY <1>3
    <2>. QED  BY <1>1, <2>1, AllocatorAssumption
  <1>. QED  BY <1>2, <1>3 DEF BootInfo

\* The initial state satisfies it.
LEMMA InitIInv == Init => IInv
  <1> SUFFICES ASSUME Init PROVE IInv
    OBVIOUS
  <1>1. granted = <<>> /\ granted \in Seq(Region) /\ Len(granted) = 0
    BY DEF Init
  <1>2. TypeOK
    <2>1. memory_end \in 0 .. WordMod - 1 /\ placement_address \in 0 .. WordMod - 1
      BY AllocatorAssumption DEF Init
    <2>2. pc \in {"init", "walk", "ready"} /\ next = 1
      BY DEF Init
    <2>3. mbi \in BootInfo /\ exhausted \in BOOLEAN /\ wrapped \in BOOLEAN
      BY DEF Init
    <2>4. last \in [size : Nat, given : BOOLEAN]
      BY DEF Init
    <2>5. next \in 1 .. Len(mbi.map) + 1
      BY <2>2, <2>3, BootInfoType
    <2>. QED  BY <1>1, <2>1, <2>2, <2>3, <2>4, <2>5 DEF TypeOK
  <1>3. AlignInv /\ WaitInv /\ CounterInv
    BY <1>1, AllocatorAssumption DEF Init, AlignInv, GrantedAligned, WaitInv, CounterInv
  <1>4. NoOverlap /\ WithinMemory
    BY <1>1 DEF NoOverlap, WithinMemory
  <1>. QED  BY <1>2, <1>3, <1>4 DEF IInv

\* The steps of init_memory, which hand nothing out.
LEMMA InitMemoryIInv ==
    ASSUME IInv, pc # "ready",
           UNCHANGED <<mbi, placement_address, answers>>,
           pc' \in {"init", "walk", "ready"},
           next' \in 1 .. Len(mbi.map) + 1,
           memory_end' \in 0 .. WordMod - 1
    PROVE  IInv'
  <1>1. TypeOK'
    BY DEF IInv, TypeOK, answers
  <1>2. AlignInv' /\ WaitInv'
    BY DEF IInv, AlignInv, GrantedAligned, WaitInv, answers
  <1>3. CounterInv' /\ NoOverlap' /\ WithinMemory'
    BY DEF IInv, WaitInv, CounterInv, NoOverlap, WithinMemory, answers
  <1>. QED  BY <1>1, <1>2, <1>3 DEF IInv

\* A request: the counter moves by a multiple of 4, which is the size in whole words
\* if that fits into a word.  What holds whatever it wraps to.
LEMMA AdvanceTypes ==
    ASSUME IInv, pc = "ready",
           NEW step \in 0 .. WordMod - 1, NEW kd \in {"frame", "heap"}, NEW size \in Nat,
           step % 4 = 0, Advance(step, kd, size),
           UNCHANGED <<pc, mbi, next, memory_end>>
    PROVE  TypeOK' /\ AlignInv' /\ WaitInv'
  <1> DEFINE region == [kind |-> kd, base |-> placement_address, size |-> size]
  <1>1. /\ placement_address \in 0 .. WordMod - 1 /\ placement_address % 4 = 0
        /\ granted \in Seq(Region) /\ exhausted \in BOOLEAN /\ wrapped \in BOOLEAN
        /\ WordMod \in Nat \ {0} /\ step \in Nat /\ step < WordMod
    BY AllocatorAssumption DEF IInv, TypeOK, AlignInv
  <1>2. placement_address' \in 0 .. WordMod - 1 /\ placement_address' % 4 = 0
    <2>1. placement_address' = (placement_address + step) % WordMod
      BY DEF Advance
    <2>2. placement_address + step \in Nat
      BY <1>1
    <2>3. (placement_address + step) % WordMod \in 0 .. WordMod - 1
      BY <1>1, <2>2, ModRange
    <2>4. ((placement_address + step) % WordMod) % 4 = 0
      BY <1>1, WordsOfFour
    <2>. QED  BY <2>1, <2>3, <2>4, Zenon
  <1>3. granted' = granted \/ granted' = Append(granted, region)
    BY DEF Advance, Answer
  <1>4. /\ exhausted' \in BOOLEAN /\ wrapped' \in BOOLEAN
        /\ last' \in [size : Nat, given : BOOLEAN]
    BY <1>1, Zenon DEF Advance, Answer
  <1>5. region \in Region
    BY <1>1 DEF Region
  <1>6. granted' \in Seq(Region)
    BY <1>1, <1>3, <1>5
  <1>7. TypeOK'
    BY <1>2, <1>4, <1>6 DEF IInv, TypeOK
  <1>8. GrantedAligned'
    <2>1. \A k \in 1 .. Len(granted) : granted[k].base % 4 = 0
      BY DEF IInv, AlignInv, GrantedAligned
    <2>2. CASE granted' = Append(granted, region)
      <3> SUFFICES ASSUME NEW k \in 1 .. Len(granted') PROVE granted'[k].base % 4 = 0
        BY DEF GrantedAligned
      <3>1. CASE k = Len(granted) + 1
        <4>1. granted'[k] = region
          BY <1>1, <1>5, <2>2, <3>1
        <4>. QED  BY <1>1, <4>1
      <3>2. CASE k \in 1 .. Len(granted)
        <4>1. granted'[k] = granted[k]
          BY <1>1, <1>5, <2>2, <3>2
        <4>. QED  BY <2>1, <3>2, <4>1
      <3>3. Len(granted') = Len(granted) + 1 /\ Len(granted) \in Nat
        BY <1>1, <1>5, <2>2
      <3>. QED  BY <3>1, <3>2, <3>3
    <2>. QED  BY <1>3, <2>1, <2>2 DEF GrantedAligned
  <1>9. WaitInv'
    BY DEF WaitInv
  <1>. QED  BY <1>2, <1>7, <1>8, <1>9 DEF AlignInv

\* What a request that does not wrap the counter around does.
LEMMA AdvanceIs ==
    ASSUME IInv, NEW step \in 0 .. WordMod - 1, NEW kd, NEW size \in Nat,
           Whole(size) < WordMod => step = Whole(size),
           Advance(step, kd, size), ~wrapped'
    PROVE  /\ ~wrapped /\ step = Whole(size) /\ placement_address + step < WordMod
           /\ placement_address' = placement_address + step
           /\ IF placement_address + step >= memory_end
              THEN exhausted' = TRUE /\ granted' = granted
              ELSE /\ exhausted' = exhausted
                   /\ granted' = Append(granted, [kind |-> kd, base |-> placement_address,
                                                  size |-> size])
           /\ last' = [size |-> size, given |-> ~(placement_address + step >= memory_end)]
           /\ wrapped' = wrapped
  <1>1. /\ placement_address \in Nat /\ placement_address < WordMod
        /\ WordMod \in Nat \ {0} /\ step \in Nat
    BY AllocatorAssumption DEF IInv, TypeOK
  <1>2. ~(placement_address + Whole(size) >= WordMod) /\ ~wrapped
    BY Zenon DEF Advance, Answer
  <1>3. Whole(size) \in Nat
    BY WholeCovers
  <1>4. step = Whole(size)
    BY <1>1, <1>2, <1>3
  <1>5. placement_address + step < WordMod
    BY <1>1, <1>2, <1>4
  <1>6. (placement_address + step) % WordMod = placement_address + step
    <2>1. PICK sum \in Nat : sum = placement_address + step
      BY <1>1
    <2>. QED  BY <1>1, <1>5, <2>1, ModSmall
  <1>7. placement_address' = placement_address + step
    BY <1>6, Zenon DEF Advance
  <1>8. Answer(placement_address + step >= memory_end, kd, size)
    BY <1>6, Zenon DEF Advance
  <1>. QED  BY <1>2, <1>4, <1>5, <1>7, <1>8, Zenon DEF Answer

\* Until the counter wraps around, requests keep what lies below it apart and inside
\* memory.
LEMMA AdvanceIInv ==
    ASSUME IInv, pc = "ready",
           NEW step \in 0 .. WordMod - 1, NEW kd \in {"frame", "heap"}, NEW size \in Nat,
           step % 4 = 0, Whole(size) < WordMod => step = Whole(size),
           Advance(step, kd, size),
           UNCHANGED <<pc, mbi, next, memory_end>>
    PROVE  IInv'
  <1> SUFFICES ASSUME ~wrapped'
               PROVE  CounterInv' /\ NoOverlap' /\ WithinMemory'
    BY AdvanceTypes DEF IInv, CounterInv, NoOverlap, WithinMemory
  <1> DEFINE moved == placement_address + step
             region == [kind |-> kd, base |-> placement_address, size |-> size]
  <1>1. /\ placement_address \in 0 .. WordMod - 1 /\ memory_end \in 0 .. WordMod - 1
        /\ granted \in Seq(Region) /\ exhausted \in BOOLEAN
        /\ WordMod \in Nat /\ PlacementStart \in Nat /\ step \in Nat
    BY AllocatorAssumption DEF IInv, TypeOK
  <1>2. /\ ~wrapped /\ step = Whole(size) /\ placement_address' = moved
        /\ IF moved >= memory_end
           THEN exhausted' = TRUE /\ granted' = granted
           ELSE exhausted' = exhausted /\ granted' = Append(granted, region)
    BY AdvanceIs
  <1>3. size <= step /\ moved \in Nat
    <2>1. step = Whole(size) /\ size <= Whole(size)
      BY <1>2, WholeCovers
    <2>. QED  BY <1>1, <2>1
  <1>4. PlacementStart <= placement_address /\ (exhausted => memory_end <= placement_address)
    BY <1>2 DEF IInv, CounterInv
  <1>5. \A k \in 1 .. Len(granted) :
           /\ granted[k] \in Region
           /\ granted[k].base \in Nat /\ granted[k].size \in Nat
           /\ granted[k].base + granted[k].size <= placement_address
           /\ granted[k].base + granted[k].size <= moved
    <2>1. \A k \in 1 .. Len(granted) : granted[k] \in Region
      BY <1>1
    <2>2. \A r \in Region : r.base \in Nat /\ r.size \in Nat
      BY <1>1 DEF Region
    <2>3. TAKE k \in 1 .. Len(granted)
    <2>4. granted[k].base \in Nat /\ granted[k].size \in Nat
      BY <2>1, <2>2
    <2>5. granted[k].base + granted[k].size <= placement_address
      BY <1>2 DEF IInv, CounterInv
    <2>. QED  BY <1>1, <2>1, <2>4, <2>5, StillBelow
  <1>6. CASE moved >= memory_end
    <2>1. exhausted' = TRUE /\ granted' = granted
      BY <1>2, <1>6
    <2>2. CounterInv'
      BY <1>1, <1>2, <1>3, <1>4, <1>5, <1>6, <2>1 DEF CounterInv
    <2>3. NoOverlap' /\ WithinMemory'
      BY <1>2, <2>1 DEF IInv, NoOverlap, WithinMemory
    <2>. QED  BY <2>2, <2>3
  <1>7. CASE ~(moved >= memory_end)
    <2>1. exhausted' = exhausted /\ granted' = Append(granted, region)
      BY <1>2, <1>7
    <2>2. region \in Region
      BY <1>1 DEF Region
    <2>3. /\ Len(granted') = Len(granted) + 1 /\ Len(granted) \in Nat
          /\ granted'[Len(granted) + 1] = region
          /\ \A k \in 1 .. Len(granted) : granted'[k] = granted[k]
      BY <1>1, <2>1, <2>2
    <2>4. ~exhausted
      BY <1>1, <1>3, <1>4, <1>7
    <2>5. CounterInv'
      <3>1. ASSUME NEW k \in 1 .. Len(granted')
            PROVE  granted'[k].base + granted'[k].size <= placement_address'
        <4>1. CASE k = Len(granted) + 1
          <5>1. granted'[k].base = placement_address /\ granted'[k].size = size
            BY <2>3, <4>1
          <5>. QED  BY <1>1, <1>2, <1>3, <5>1
        <4>2. CASE k \in 1 .. Len(granted)
          BY <1>2, <1>5, <2>3, <4>2
        <4>. QED  BY <2>3, <4>1, <4>2
      <3>2. placement_address' = moved /\ ~exhausted'
        BY <1>2, <2>1, <2>4
      <3>3. PlacementStart <= placement_address'
        BY <1>1, <1>4, <3>2
      <3>. QED  BY <3>1, <3>2, <3>3 DEF CounterInv
    <2>6. NoOverlap'
      <3>1. SUFFICES ASSUME NEW j \in 1 .. Len(granted'), NEW k \in 1 .. Len(granted'), j < k
                     PROVE  granted'[j].base + granted'[j].size <= granted'[k].base
        BY DEF NoOverlap
      <3>2. j \in 1 .. Len(granted) /\ granted'[j] = granted[j]
        BY <2>3, <3>1
      <3>3. CASE k = Len(granted) + 1
        BY <1>5, <2>3, <3>2, <3>3
      <3>4. CASE k \in 1 .. Len(granted)
        BY <1>2, <2>3, <3>1, <3>2, <3>4 DEF IInv, NoOverlap
      <3>. QED  BY <2>3, <3>3, <3>4
    <2>7. WithinMemory'
      <3>1. ASSUME NEW k \in 1 .. Len(granted')
            PROVE  /\ PlacementStart <= granted'[k].base
                   /\ granted'[k].base + granted'[k].size <= memory_end'
        <4>1. CASE k = Len(granted) + 1
          BY <1>1, <1>3, <1>4, <1>7, <2>3, <4>1
        <4>2. CASE k \in 1 .. Len(granted)
          BY <1>2, <2>3, <4>2 DEF IInv, WithinMemory
        <4>. QED  BY <2>3, <4>1, <4>2
      <3>. QED  BY <3>1 DEF WithinMemory
    <2>. QED  BY <2>5, <2>6, <2>7
  <1>. QED  BY <1>6, <1>7

\* What allocate_frame and kmalloc pass on to Advance.
LEMMA FrameRequest ==
    ASSUME AllocateFrame
    PROVE  /\ pc = "ready" /\ Advance(PageSize, "frame", PageSize)
           /\ UNCHANGED <<pc, mbi, next, memory_end>>
           /\ PageSize \in 0 .. WordMod - 1 /\ PageSize % 4 = 0 /\ PageSize \in Nat \ {0}
           /\ Whole(PageSize) < WordMod => PageSize = Whole(PageSize)
  <1>1. PageSize \in Nat \ {0}
    BY AllocatorAssumption
  <1>. QED  BY <1>1, PageIsWhole DEF AllocateFrame, Calling

LEMMA HeapRequest ==
    ASSUME NEW size \in Sizes, KMalloc(size)
    PROVE  /\ pc = "ready" /\ Advance(Rounded(size), "heap", size)
           /\ UNCHANGED <<pc, mbi, next, memory_end>>
           /\ Rounded(size) \in 0 .. WordMod - 1 /\ Rounded(size) % 4 = 0
           /\ size \in Nat \ {0}
           /\ Whole(size) < WordMod => Rounded(size) = Whole(size)
  <1>1. size \in Nat \ {0}
    BY AllocatorAssumption DEF KMalloc
  <1>. QED  BY <1>1, RoundedIsWord, RoundedIsWhole DEF KMalloc, Calling

\* Every step of the specification preserves it.
LEMMA NextIInv ==
    ASSUME IInv, [Next]_vars
    PROVE  IInv'
  <1> USE AllocatorAssumption
  <1>1. /\ memory_end \in 0 .. WordMod - 1 /\ next \in 1 .. Len(mbi.map) + 1
        /\ mbi \in BootInfo
    BY DEF IInv, TypeOK
  <1>2. mbi.map \in Seq(Entry) /\ Len(mbi.map) \in Nat
    BY <1>1, BootInfoType
  <1>3. CASE StartWalk
    BY <1>1, <1>3, InitMemoryIInv DEF StartWalk
  <1>4. CASE WalkEntry
    <2>1. next \in 1 .. Len(mbi.map) /\ next' = next + 1
      BY <1>1, <1>2, <1>4 DEF WalkEntry
    <2>2. mbi.map[next] \in Entry
      BY <1>2, <2>1
    <2>3. EndOf(mbi.map[next]) \in Nat
      BY <2>2 DEF EndOf, Entry
    <2>4. memory_end' \in 0 .. WordMod - 1
      BY <1>1, <1>4, <2>3, ModRange DEF WalkEntry
    <2>5. next' \in 1 .. Len(mbi.map) + 1
      BY <1>2, <2>1
    <2>. QED  BY <1>4, <2>4, <2>5, InitMemoryIInv DEF WalkEntry
  <1>5. CASE EndWalk
    BY <1>1, <1>5, InitMemoryIInv DEF EndWalk
  <1>6. CASE UseUpper
    <2>1. (mbi.upper + Kilo) * Kilo \in Nat
      BY <1>1, BootInfoType
    <2>. QED  BY <1>1, <1>6, <2>1, ModRange, InitMemoryIInv DEF UseUpper
  <1>7. CASE AllocateFrame
    BY <1>7, FrameRequest, AdvanceIInv
  <1>8. ASSUME NEW size \in Sizes, KMalloc(size)
        PROVE  IInv'
    BY <1>8, HeapRequest, AdvanceIInv
  <1>9. CASE KMallocZero \/ UNCHANGED vars
    <2>1. UNCHANGED vars
      BY <1>9 DEF KMallocZero
    <2>2. TypeOK' /\ AlignInv' /\ WaitInv'
      BY <2>1 DEF vars, answers, IInv, TypeOK, AlignInv, GrantedAligned, WaitInv
    <2>3. CounterInv' /\ NoOverlap' /\ WithinMemory'
      BY <2>1 DEF vars, answers, IInv, CounterInv, NoOverlap, WithinMemory
    <2>. QED  BY <2>2, <2>3 DEF IInv
  <1>. QED  BY <1>3, <1>4, <1>5, <1>6, <1>7, <1>8, <1>9 DEF Next

\* The invariant of every reachable state.
THEOREM Invariance == Spec => []IInv
  <1>1. IInv /\ [Next]_vars => IInv'
    BY NextIInv
  <1>. QED  BY InitIInv, <1>1, PTL DEF Spec

\* Type correctness, of a counter that wraps around as well.
THEOREM TypeCorrect == Spec => []TypeOK
  <1>1. IInv => TypeOK
    BY DEF IInv
  <1>. QED  BY Invariance, <1>1, PTL

\* The regions handed out by kmalloc and allocate_frame do not overlap until the
\* counter wraps around.
THEOREM Disjoint == Spec => []NoOverlap
  <1>1. IInv => NoOverlap
    BY DEF IInv
  <1>. QED  BY Invariance, <1>1, PTL

\* They all lie between the start address and the end of memory until then.
THEOREM Inside == Spec => []WithinMemory
  <1>1. IInv => WithinMemory
    BY DEF IInv
  <1>. QED  BY Invariance, <1>1, PTL

\* Heap blocks and frames are word-aligned, also after the counter wrapped around.
THEOREM Aligned == Spec => []GrantedAligned
  <1>1. IInv => GrantedAligned
    BY DEF IInv, AlignInv
  <1>. QED  BY Invariance, <1>1, PTL

\* After a refusal nothing more is handed out unless the counter wraps around, however
\* many requests follow.
THEOREM RefusedForGood == Spec => ExhaustionIsFinal
  <1>1. ASSUME IInv, [Next]_vars, exhausted, ~wrapped'
        PROVE  granted' = granted
    <2>1. ASSUME NEW step \in 0 .. WordMod - 1, NEW kd, NEW size \in Nat,
                 Whole(size) < WordMod => step = Whole(size), Advance(step, kd, size)
          PROVE  granted' = granted
      <3>1. ~wrapped /\ (IF placement_address + step >= memory_end
                         THEN granted' = granted ELSE TRUE)
        BY <1>1, <2>1, AdvanceIs
      <3>2. memory_end <= placement_address
        BY <1>1, <3>1 DEF IInv, CounterInv
      <3>3. /\ placement_address \in Nat /\ memory_end \in Nat /\ step \in Nat
        BY <1>1, AllocatorAssumption DEF IInv, TypeOK
      <3>4. placement_address + step >= memory_end
        BY <3>2, <3>3
      <3>. QED  BY <3>1, <3>4
    <2>2. CASE AllocateFrame
      BY <2>1, <2>2, FrameRequest
    <2>3. ASSUME NEW size \in Sizes, KMalloc(size)
          PROVE  granted' = granted
      BY <2>1, <2>3, HeapRequest
    <2>. QED
      BY <1>1, <2>2, <2>3
      DEF Next, vars, answers, StartWalk, WalkEntry, EndWalk, UseUpper, KMallocZero
  <1>2. IInv /\ [Next]_vars => [exhausted /\ ~wrapped' => granted' = granted]_vars
    BY <1>1
  <1>. QED  BY Invariance, <1>2, PTL DEF Spec, ExhaustionIsFinal

(***************************************************************************)
(* The end of memory.                                                      *)
(***************************************************************************)

\* memory_end is the highest end among the available entries before next.
TopSoFar ==
    /\ \A k \in 1 .. Len(mbi.map) :
         k < next /\ Available(mbi.map[k]) => EndOf(mbi.map[k]) <= memory_end
    /\ \/ memory_end = 0
       \/ \E k \in 1 .. Len(mbi.map) :
            k < next /\ Available(mbi.map[k]) /\ memory_end = EndOf(mbi.map[k])

SmallEnds == \A e \in Ends(mbi.map) : e < WordMod

WalkInv ==
    /\ mbi \in BootInfo /\ next \in Nat \ {0} /\ memory_end \in Nat
    /\ pc \in {"init", "walk", "ready"}
    /\ mbi.hasMap /\ pc = "ready" => next > Len(mbi.map)
    /\ mbi.hasMap /\ SmallEnds => TopSoFar

\* Entries of the boot information's map have ends.
LEMMA EndsAreNumbers ==
    ASSUME mbi \in BootInfo
    PROVE  /\ Len(mbi.map) \in Nat
           /\ \A k \in 1 .. Len(mbi.map) : EndOf(mbi.map[k]) \in Nat
  <1>1. mbi.map \in Seq(Entry)
    BY BootInfoType
  <1>2. \A e \in Entry : EndOf(e) \in Nat
    BY DEF Entry, EndOf
  <1>. QED  BY <1>1, <1>2

LEMMA InitWalk == Init => WalkInv
  <1> SUFFICES ASSUME Init PROVE WalkInv
    OBVIOUS
  <1>1. mbi \in BootInfo /\ next = 1 /\ memory_end = 0 /\ pc = "init"
    BY DEF Init
  <1>2. TopSoFar
    BY <1>1 DEF TopSoFar
  <1>. QED  BY <1>1, <1>2 DEF WalkInv

\* One entry of the map: it is either the new top or not above the old one.
LEMMA EntryWalk ==
    ASSUME WalkInv, WalkEntry
    PROVE  WalkInv'
  <1> DEFINE e == mbi.map[next]
  <1>1. /\ pc = "walk" /\ pc' = pc /\ mbi' = mbi /\ next' = next + 1 /\ next <= Len(mbi.map)
        /\ memory_end' = IF Available(e) /\ EndOf(e) > memory_end
                         THEN EndOf(e) % WordMod ELSE memory_end
    BY DEF WalkEntry
  <1>2. /\ mbi \in BootInfo /\ next \in Nat \ {0} /\ memory_end \in Nat
    BY DEF WalkInv
  <1>3. next \in 1 .. Len(mbi.map) /\ EndOf(e) \in Nat /\ Len(mbi.map) \in Nat
    BY <1>1, <1>2, EndsAreNumbers
  <1> HIDE DEF e
  <1>4. memory_end' \in Nat
    <2>1. WordMod \in Nat \ {0}
      BY AllocatorAssumption
    <2>2. ASSUME NEW n \in Nat PROVE n % WordMod \in Nat
      BY <2>1
    <2>3. EndOf(e) % WordMod \in Nat
      BY <1>3, <2>2
    <2>. QED  BY <1>1, <1>2, <2>3
  <1>5. ASSUME mbi.hasMap, SmallEnds
        PROVE  TopSoFar'
    <2>1. TopSoFar
      BY <1>5 DEF WalkInv
    <2>2. CASE Available(e) /\ EndOf(e) > memory_end
      <3>1. EndOf(e) \in Ends(mbi.map)
        BY <1>3, <2>2 DEF Ends, e
      <3>2. memory_end' = EndOf(e)
        <4>1. EndOf(e) < WordMod /\ WordMod \in Nat \ {0}
          BY <1>5, <3>1, AllocatorAssumption DEF SmallEnds
        <4>2. EndOf(e) % WordMod = EndOf(e)
          BY <1>3, <4>1, ModSmall
        <4>. QED  BY <1>1, <2>2, <4>2
      <3>3. \A k \in 1 .. Len(mbi.map) :
              k < next + 1 /\ Available(mbi.map[k]) => EndOf(mbi.map[k]) <= EndOf(e)
        <4> SUFFICES ASSUME NEW k \in 1 .. Len(mbi.map), k < next + 1, Available(mbi.map[k])
                     PROVE  EndOf(mbi.map[k]) <= EndOf(e)
          OBVIOUS
        <4>1. EndOf(mbi.map[k]) \in Nat
          BY <1>2, EndsAreNumbers
        <4>2. CASE k = next
          BY <1>3, <4>2 DEF e
        <4>3. CASE k # next
          <5>1. k < next
            BY <1>2, <1>3, <4>3
          <5>2. EndOf(mbi.map[k]) <= memory_end
            BY <2>1, <5>1 DEF TopSoFar
          <5>. QED  BY <1>2, <1>3, <2>2, <4>1, <5>2
        <4>. QED  BY <4>2, <4>3
      <3>4. \E k \in 1 .. Len(mbi.map) :
              k < next + 1 /\ Available(mbi.map[k]) /\ EndOf(e) = EndOf(mbi.map[k])
        BY <1>2, <1>3, <2>2 DEF e
      <3>. QED  BY <1>1, <3>2, <3>3, <3>4 DEF TopSoFar
    <2>3. CASE ~(Available(e) /\ EndOf(e) > memory_end)
      <3>1. memory_end' = memory_end
        BY <1>1, <2>3
      <3>2. \A k \in 1 .. Len(mbi.map) :
              k < next + 1 /\ Available(mbi.map[k]) => EndOf(mbi.map[k]) <= memory_end
        <4> SUFFICES ASSUME NEW k \in 1 .. Len(mbi.map), k < next + 1, Available(mbi.map[k])
                     PROVE  EndOf(mbi.map[k]) <= memory_end
          OBVIOUS
        <4>1. CASE k = next
          BY <1>2, <1>3, <2>3, <4>1 DEF e
        <4>2. CASE k # next
          <5>1. k < next
            BY <1>2, <1>3, <4>2
          <5>. QED  BY <2>1, <5>1 DEF TopSoFar
        <4>. QED  BY <4>1, <4>2
      <3>3. \/ memory_end = 0
            \/ \E k \in 1 .. Len(mbi.map) :
                 k < next + 1 /\ Available(mbi.map[k]) /\ memory_end = EndOf(mbi.map[k])
        BY <1>2, <1>3, <2>1 DEF TopSoFar
      <3>. QED  BY <1>1, <3>1, <3>2, <3>3 DEF TopSoFar
    <2>. QED  BY <2>2, <2>3
  <1>6. next' \in Nat \ {0}
    BY <1>1, <1>2
  <1>7. SmallEnds' <=> SmallEnds
    BY <1>1 DEF SmallEnds, Ends
  <1>. QED  BY <1>1, <1>2, <1>4, <1>5, <1>6, <1>7 DEF WalkInv

\* Every other step leaves the walk where it is, or does without a map.
LEMMA NextWalk == WalkInv /\ [Next]_vars => WalkInv'
  <1> SUFFICES ASSUME WalkInv, [Next]_vars PROVE WalkInv'
    OBVIOUS
  <1>1. ASSUME UNCHANGED <<mbi, next, memory_end>>, pc' \in {"init", "walk", "ready"},
               pc' = "ready" => pc = "ready" \/ next > Len(mbi.map)
        PROVE  WalkInv'
    BY <1>1 DEF WalkInv, TopSoFar, SmallEnds, Ends
  <1>2. CASE StartWalk
    BY <1>1, <1>2 DEF StartWalk
  <1>3. CASE WalkEntry
    BY <1>3, EntryWalk
  <1>4. CASE EndWalk
    BY <1>1, <1>4 DEF EndWalk
  <1>5. CASE UseUpper
    <2>1. /\ ~mbi.hasMap /\ mbi' = mbi /\ next' = next /\ pc' = "ready"
          /\ memory_end' = ((mbi.upper + Kilo) * Kilo) % WordMod
      BY <1>5 DEF UseUpper
    <2>2. mbi \in BootInfo /\ next \in Nat \ {0}
      BY DEF WalkInv
    <2>3. mbi.upper \in Nat /\ Kilo \in Nat /\ WordMod \in Nat \ {0}
      BY <2>2, BootInfoType, AllocatorAssumption
    <2> DEFINE bytes == (mbi.upper + Kilo) * Kilo
    <2>4. bytes \in Nat
      BY <2>3
    <2>5. bytes % WordMod \in Nat
      <3> HIDE DEF bytes
      <3>. QED  BY <2>3, <2>4, ModRange
    <2>6. memory_end' \in Nat
      BY <2>1, <2>5
    <2>. QED  BY <2>1, <2>2, <2>6 DEF WalkInv
  <1>6. CASE AllocateFrame
    BY <1>1, <1>6 DEF AllocateFrame, Calling, WalkInv
  <1>7. CASE KMallocZero
    BY <1>1, <1>7 DEF KMallocZero, vars, WalkInv
  <1>8. ASSUME NEW size \in Sizes, KMalloc(size)
        PROVE  WalkInv'
    BY <1>1, <1>8 DEF KMalloc, Calling, WalkInv
  <1>9. CASE UNCHANGED vars
    BY <1>1, <1>9 DEF vars, WalkInv
  <1>. QED  BY <1>2, <1>3, <1>4, <1>5, <1>6, <1>7, <1>8, <1>9 DEF Next

\* init_memory finds the highest end of an available region, whatever the order of
\* the map, if all of them fit into 32 bits.
THEOREM TopFound == Spec => []MemoryEndIsTop
  <1>1. WalkInv => MemoryEndIsTop
    <2> SUFFICES ASSUME WalkInv, pc = "ready", mbi.hasMap, SmallEnds
                 PROVE  IF Ends(mbi.map) = {} THEN memory_end = 0
                        ELSE memory_end \in Ends(mbi.map)
                             /\ \A e \in Ends(mbi.map) : e <= memory_end
      BY DEF MemoryEndIsTop, SmallEnds
    <2>1. TopSoFar /\ next > Len(mbi.map) /\ memory_end \in Nat /\ next \in Nat
      BY DEF WalkInv
    <2>2. /\ Len(mbi.map) \in Nat
          /\ \A k \in 1 .. Len(mbi.map) : k < next /\ EndOf(mbi.map[k]) \in Nat
      BY <2>1, EndsAreNumbers DEF WalkInv
    <2>3. \A e \in Ends(mbi.map) : e \in Nat /\ e <= memory_end
      BY <2>1, <2>2 DEF TopSoFar, Ends
    <2>4. memory_end = 0 \/ memory_end \in Ends(mbi.map)
      BY <2>1 DEF TopSoFar, Ends
    <2>5. CASE Ends(mbi.map) = {}
      BY <2>4, <2>5
    <2>6. CASE Ends(mbi.map) # {}
      <3>1. PICK e \in Ends(mbi.map) : e \in Nat /\ e <= memory_end
        BY <2>3, <2>6
      <3>2. memory_end \in Ends(mbi.map)
        BY <2>1, <2>4, <3>1
      <3>. QED  BY <2>3, <2>6, <3>2
    <2>. QED  BY <2>5, <2>6
  <1>. QED  BY <1>1, InitWalk, NextWalk, PTL DEF Spec

(***************************************************************************)
(* The refinement: PlacementAllocator implements RegionAllocator.          *)
(***************************************************************************)

\* What the store of regions sees.
Limit == IF pc = "ready" THEN memory_end ELSE -1
Given == {[base |-> granted[k].base, size |-> granted[k].size] : k \in 1 .. Len(granted)}
Asked == placement_address - PlacementStart
Unseen == UNCHANGED <<Limit, Given, exhausted, last, Asked, wrapped>>

\* Until a request is refused or the counter wraps around, the counter is where the
\* last region ends, rounded up.
TopInv ==
    ~exhausted /\ ~wrapped => \E top \in Regions!Ends : placement_address = Regions!Up(top)

RInv == IInv /\ TopInv

(***************************************************************************)
(* Rounding.                                                               *)
(***************************************************************************)

LEMMA UpIs == \A n : Regions!Up(n) = (n + 4 - 1) - ((n + 4 - 1) % 4)
  BY DEF Regions!Up

LEMMA UpIsWhole ==
    ASSUME NEW n \in Nat
    PROVE  Regions!Up(n) = Whole(n)
  <1>1. (n + 4 - 1) - ((n + 4 - 1) % 4) = (n + 3) - ((n + 3) % 4)
    BY SMT
  <1>. QED  BY <1>1, UpIs DEF Whole

LEMMA UpMultiple ==
    ASSUME NEW n \in Nat, n % 4 = 0
    PROVE  Regions!Up(n) = n
  <1>1. (n + 4 - 1) - ((n + 4 - 1) % 4) = n
    BY SMT
  <1>. QED  BY <1>1, UpIs

LEMMA UpOfSum ==
    ASSUME NEW b \in Nat, NEW n \in Nat, b % 4 = 0
    PROVE  Regions!Up(b + n) = b + Regions!Up(n)
  <1>1. (b + n + 4 - 1) - ((b + n + 4 - 1) % 4) = b + ((n + 4 - 1) - ((n + 4 - 1) % 4))
    BY SMT
  <1>. QED  BY <1>1, UpIs

\* Rounding up does not step over a multiple of 4.
LEMMA UpBelow ==
    ASSUME NEW n \in Nat, NEW p \in Nat, n <= p, p % 4 = 0
    PROVE  Regions!Up(n) \in Nat /\ Regions!Up(n) <= p
  <1>1. (n + 4 - 1) - ((n + 4 - 1) % 4) \in Nat /\ (n + 4 - 1) - ((n + 4 - 1) % 4) <= p
    BY SMT
  <1>. QED  BY <1>1, UpIs

(***************************************************************************)
(* The steps.                                                              *)
(***************************************************************************)

LEMMA InitRefines == Init => Regions!Init /\ TopInv
  <1> SUFFICES ASSUME Init PROVE Regions!Init /\ TopInv
    OBVIOUS
  <1>1. /\ pc = "init" /\ granted = <<>> /\ exhausted = FALSE
        /\ placement_address = PlacementStart
        /\ last = [size |-> 0, given |-> FALSE] /\ wrapped = FALSE
    BY DEF Init
  <1>2. Given = {}
    BY <1>1 DEF Given
  <1>3. placement_address - PlacementStart = 0
    BY <1>1, AllocatorAssumption
  <1>4. Regions!Init
    BY <1>1, <1>2, <1>3 DEF Regions!Init, Regions!Unknown, Given
  <1>5. PlacementStart \in Regions!Ends
    BY DEF Regions!Ends
  <1>6. Regions!Up(PlacementStart) = PlacementStart
    BY UpMultiple, AllocatorAssumption
  <1>. QED  BY <1>1, <1>4, <1>5, <1>6 DEF TopInv

\* A step of init_memory gives nothing; the last one learns the end of memory.
LEMMA InitMemoryRefines ==
    ASSUME RInv, pc # "ready", memory_end' \in Nat,
           UNCHANGED <<placement_address, answers>>
    PROVE  TopInv' /\ (Regions!Learn \/ Unseen)
  <1>1. /\ Given' = Given /\ Asked' = Asked
        /\ exhausted' = exhausted /\ last' = last /\ wrapped' = wrapped
    BY DEF Given, Asked, answers
  <1>2. TopInv'
    BY DEF RInv, TopInv, Regions!Ends, Regions!Up, answers
  <1>3. CASE pc' = "ready"
    <2>1. Limit = -1 /\ Limit' \in Nat
      BY <1>3 DEF Limit
    <2>2. Regions!Learn
      BY <1>1, <2>1, Zenon DEF Regions!Learn, Regions!Unknown, Given, Limit, Asked
    <2>. QED  BY <1>2, <2>2
  <1>4. CASE pc' # "ready"
    <2>1. Limit' = Limit
      BY <1>4, Zenon DEF Limit
    <2>2. Unseen
      BY <1>1, <2>1, Zenon DEF Unseen
    <2>. QED  BY <1>2, <2>2
  <1>. QED  BY <1>2, <1>3, <1>4

\* A request that does not wrap the counter around is counted and given the place at the
\* counter if this very request fits above everything given, and refused otherwise.
LEMMA AdvanceRefines ==
    ASSUME RInv, pc = "ready",
           NEW step \in 0 .. WordMod - 1, NEW kd \in {"frame", "heap"}, NEW size \in Nat \ {0},
           Whole(size) < WordMod => step = Whole(size),
           Advance(step, kd, size), ~wrapped',
           UNCHANGED <<pc, mbi, next, memory_end>>
    PROVE  TopInv' /\ Regions!Request(size)
  <1> DEFINE moved == placement_address + step
             region == [kind |-> kd, base |-> placement_address, size |-> size]
             new == [base |-> placement_address, size |-> size]
  <1>1. /\ placement_address \in Nat /\ memory_end \in Nat /\ placement_address % 4 = 0
        /\ granted \in Seq(Region) /\ exhausted \in BOOLEAN
        /\ PlacementStart \in Nat /\ WordMod \in Nat /\ step \in Nat
    BY AllocatorAssumption DEF RInv, IInv, TypeOK, AlignInv
  <1>2. /\ ~wrapped /\ step = Whole(size) /\ moved < WordMod
        /\ placement_address' = moved
        /\ IF moved >= memory_end
           THEN exhausted' = TRUE /\ granted' = granted
           ELSE exhausted' = exhausted /\ granted' = Append(granted, region)
        /\ last' = [size |-> size, given |-> ~(moved >= memory_end)]
        /\ wrapped' = wrapped
    BY AdvanceIs DEF RInv
  <1>3. step = Regions!Up(size) /\ size <= step
    BY <1>2, UpIsWhole, WholeCovers
  <1>4. /\ PlacementStart <= placement_address
        /\ exhausted => memory_end <= placement_address
        /\ \A k \in 1 .. Len(granted) :
             granted[k].base + granted[k].size <= placement_address
    BY <1>2 DEF RInv, IInv, CounterInv
  <1>5. Limit = memory_end /\ Limit # -1 /\ Limit' = Limit
    BY <1>1 DEF Limit
  <1>6. /\ PlacementStart + Asked + Regions!Up(size) < WordMod
        /\ Asked' = Asked + Regions!Up(size)
    <2>1. placement_address + step < WordMod /\ placement_address' = placement_address + step
      BY <1>2
    <2>. QED  BY <1>1, <1>3, <2>1 DEF Asked
  <1>7. SUFFICES TopInv' /\ (Regions!Grant(size) \/ Regions!Refuse(size))
    BY <1>2, <1>5, <1>6, Zenon DEF Regions!Request, Regions!Unknown, Limit, Asked
  <1>8. CASE moved >= memory_end
    <2>1. exhausted' = TRUE /\ granted' = granted /\ Given' = Given
      BY <1>2, <1>8 DEF Given
    <2>2. TopInv'
      BY <2>1 DEF TopInv
    <2>3. exhausted \/ ~Regions!Fits(size)
      <3> SUFFICES ASSUME ~exhausted PROVE ~Regions!Fits(size)
        OBVIOUS
      <3>1. PICK top \in Regions!Ends : placement_address = Regions!Up(top)
        BY <1>2 DEF RInv, TopInv
      <3>2. ~(Regions!Up(top) + Regions!Up(size) < Limit)
        BY <1>1, <1>3, <1>5, <1>8, <3>1
      <3>. QED  BY <3>1, <3>2, Zenon DEF Regions!Fits, Limit
    <2>4. last' = [size |-> size, given |-> FALSE]
      <3>1. (moved >= memory_end) = TRUE
        BY <1>8
      <3>. QED  BY <1>2, <3>1
    <2>5. Regions!Refuse(size)
      BY <2>1, <2>3, <2>4, Zenon DEF Regions!Refuse, Given
    <2>. QED  BY <2>2, <2>5
  <1>9. CASE ~(moved >= memory_end)
    <2>1. granted' = Append(granted, region) /\ exhausted' = exhausted
      BY <1>2, <1>9
    <2>2. /\ Len(granted') = Len(granted) + 1 /\ Len(granted) \in Nat
          /\ granted'[Len(granted) + 1] = region
          /\ \A k \in 1 .. Len(granted) : granted'[k] = granted[k]
      <3>1. region \in Region
        <4>1. placement_address \in 0 .. WordMod - 1
          BY DEF RInv, IInv, TypeOK
        <4>. QED  BY <4>1 DEF Region
      <3>. QED  BY <1>1, <2>1, <3>1
    <2>3. region.base = placement_address /\ region.size = size
      OBVIOUS
    <2>4. ~exhausted
      BY <1>1, <1>4, <1>9
    <2>5. last' = [size |-> size, given |-> TRUE]
      <3>1. (moved >= memory_end) = FALSE
        BY <1>9
      <3>. QED  BY <1>2, <3>1
    <2> HIDE DEF region
    <2>6. Given' = Given \cup {new}
      <3>1. Given' = {[base |-> granted'[k].base, size |-> granted'[k].size] :
                        k \in 1 .. Len(granted')}
        BY DEF Given
      <3>2. 1 .. Len(granted') = (1 .. Len(granted)) \cup {Len(granted) + 1}
        BY <2>2
      <3>3. [base |-> granted'[Len(granted) + 1].base,
             size |-> granted'[Len(granted) + 1].size] = new
        BY <2>2, <2>3
      <3>. QED  BY <2>2, <3>1, <3>2, <3>3, Zenon DEF Given
    <2>7. \A r \in Given : r.base + r.size <= placement_address
      BY <1>4 DEF Given
    <2>8. Regions!Fits(size)
      <3> SUFFICES ASSUME NEW top \in Regions!Ends
                   PROVE  Regions!Up(top) + Regions!Up(size) < memory_end
        BY <1>5, Zenon DEF Regions!Fits, Limit
      <3>1. top = PlacementStart \/ \E r \in Given : top = r.base + r.size
        BY DEF Regions!Ends, Given
      <3>2. \A r \in Given : r.base \in Nat /\ r.size \in Nat
        <4>1. \A k \in 1 .. Len(granted) : granted[k] \in Region
          BY <1>1
        <4>2. \A r \in Region : r.base \in Nat /\ r.size \in Nat
          BY <1>1 DEF Region
        <4>. QED  BY <4>1, <4>2 DEF Given
      <3>3. top \in Nat /\ top <= placement_address
        BY <1>1, <1>4, <2>7, <3>1, <3>2
      <3>4. Regions!Up(top) \in Nat /\ Regions!Up(top) <= placement_address
        BY <1>1, <3>3, UpBelow
      <3>. QED  BY <1>1, <1>3, <1>9, <3>4
    <2>9. \A r \in Given : Regions!Apart(r, new)
      BY <2>7 DEF Regions!Apart
    <2>10. placement_address \in PlacementStart .. memory_end - size
      BY <1>1, <1>3, <1>4, <1>9
    <2>11. Regions!Grant(size)
      <3>1. \E place \in PlacementStart .. Limit - size :
              /\ place % 4 = 0
              /\ \A r \in Given : Regions!Apart(r, [base |-> place, size |-> size])
              /\ Given' = Given \cup {[base |-> place, size |-> size]}
        BY <1>1, <1>5, <2>6, <2>9, <2>10, Zenon
      <3>. QED  BY <2>1, <2>4, <2>5, <2>8, <3>1, Zenon DEF Regions!Grant, Given, Limit
    <2>12. TopInv'
      <3>1. Regions!Ends' = {PlacementStart} \cup {r.base + r.size : r \in Given'}
        BY DEF Regions!Ends, Given
      <3>2. placement_address + size \in Regions!Ends'
        <4>1. new \in Given' /\ new.base = placement_address /\ new.size = size
          BY <2>6
        <4>2. placement_address + size = new.base + new.size
          BY <4>1
        <4>. QED  BY <3>1, <4>1, <4>2, Zenon
      <3>3. Regions!Up(placement_address + size) = placement_address + Regions!Up(size)
        BY <1>1, UpOfSum
      <3>. QED  BY <1>2, <1>3, <3>2, <3>3 DEF TopInv
    <2>. QED  BY <2>11, <2>12
  <1>. QED  BY <1>8, <1>9

\* A request that wraps the counter around ends the promise: all requests together no
\* longer fit into the address space.
LEMMA AdvanceLapses ==
    ASSUME RInv, pc = "ready",
           NEW step \in 0 .. WordMod - 1, NEW kd, NEW size \in Nat \ {0},
           Advance(step, kd, size), ~wrapped, wrapped'
    PROVE  Regions!Lapse(size)
  <1>1. placement_address + Whole(size) >= WordMod
    BY Zenon DEF Advance, Answer
  <1>2. /\ placement_address \in Nat /\ memory_end \in Nat /\ PlacementStart \in Nat
        /\ Whole(size) \in Nat /\ Regions!Up(size) = Whole(size)
    BY AllocatorAssumption, UpIsWhole, WholeCovers DEF RInv, IInv, TypeOK
  <1>3. PlacementStart + Asked + Regions!Up(size) >= WordMod
    BY <1>1, <1>2 DEF Asked
  <1>4. Limit # -1
    BY <1>2 DEF Limit
  <1>. QED  BY <1>3, <1>4, Zenon DEF Regions!Lapse, Regions!Unknown, Limit, Asked

\* Any request, before the counter wraps around, then and afterwards.
LEMMA RequestRefines ==
    ASSUME RInv, pc = "ready",
           NEW step \in 0 .. WordMod - 1, NEW kd \in {"frame", "heap"}, NEW size \in Nat \ {0},
           size \in {PageSize} \cup (Sizes \ {0}),
           Whole(size) < WordMod => step = Whole(size),
           Advance(step, kd, size),
           UNCHANGED <<pc, mbi, next, memory_end>>
    PROVE  TopInv' /\ Regions!Next
  <1>1. CASE ~wrapped'
    BY <1>1, AdvanceRefines DEF Regions!Next
  <1>2. CASE wrapped' /\ ~wrapped
    BY <1>2, AdvanceLapses DEF TopInv, Regions!Next
  <1>3. CASE wrapped' /\ wrapped
    <2>1. wrapped' = TRUE
      BY <1>3, Zenon DEF Advance, Answer
    <2>. QED  BY <1>3, <2>1 DEF TopInv, Regions!Next, Regions!Lapsed
  <1>. QED  BY <1>1, <1>2, <1>3

LEMMA NextRefines ==
    ASSUME RInv, IInv', [Next]_vars
    PROVE  TopInv' /\ ([Regions!Next]_(Regions!vars))
  <1> SUFFICES TopInv' /\ (Regions!Next \/ Unseen)
    BY DEF Unseen, Regions!vars, Limit, Given, Asked
  <1>1. memory_end \in Nat /\ memory_end' \in Nat
    BY AllocatorAssumption DEF RInv, IInv, TypeOK
  <1>2. CASE StartWalk \/ WalkEntry \/ EndWalk \/ UseUpper
    <2>1. pc # "ready" /\ UNCHANGED <<placement_address, answers>>
      BY <1>2 DEF StartWalk, WalkEntry, EndWalk, UseUpper
    <2>. QED  BY <1>1, <2>1, InitMemoryRefines DEF Regions!Next
  <1>3. CASE AllocateFrame
    BY <1>3, FrameRequest, RequestRefines
  <1>4. ASSUME NEW size \in Sizes, KMalloc(size)
        PROVE  TopInv' /\ (Regions!Next \/ Unseen)
    BY <1>4, HeapRequest, RequestRefines
  <1>5. CASE KMallocZero \/ UNCHANGED vars
    <2>1. UNCHANGED <<pc, memory_end, placement_address, granted, exhausted, last, wrapped>>
      BY <1>5 DEF KMallocZero, vars, answers
    <2>2. Limit' = Limit /\ Given' = Given /\ Asked' = Asked
      BY <2>1 DEF Limit, Given, Asked
    <2>3. TopInv'
      BY <2>1 DEF RInv, TopInv, Regions!Ends, Regions!Up
    <2>. QED  BY <2>1, <2>2, <2>3 DEF Unseen
  <1>. QED  BY <1>2, <1>3, <1>4, <1>5 DEF Next

\* allocate_frame and kmalloc implement RegionAllocator, for every sequence of requests:
\* each request is given an aligned region inside memory apart from the others, or
\* refused because it does not fit above them with a byte to spare or because one was
\* refused before; the promise ends when the requests add up to the address space.
THEOREM AllocatorRefinesRegions == Spec => ImplementsRegions
  <1>1. IInv /\ Init => RInv /\ Regions!Init
    BY InitRefines DEF RInv
  <1>2. RInv /\ IInv' /\ [Next]_vars => RInv' /\ [Regions!Next]_(Regions!vars)
    BY NextRefines DEF RInv
  <1>. QED  BY Invariance, <1>1, <1>2, PTL DEF Spec, ImplementsRegions, Regions!Spec
=============================================================================
