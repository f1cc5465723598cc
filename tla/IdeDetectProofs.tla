-------------------------- MODULE IdeDetectProofs ---------------------------
(***************************************************************************)
(* Proofs about IdeDetect: the list of devices is right when detection is  *)
(* over and at every step before, whatever is attached, whichever drives   *)
(* fail or are slow, for one channel or two and any size of the            *)
(* identification data.                                                    *)
(***************************************************************************)
EXTENDS IdeDetect, TLAPS, WellFoundedInduction

\* The firmware left no packet signature in the registers of a disk.  A disk whose
\* registers hold 20 and 235, or 105 and 150, is an ATAPI drive to the code.
Unsigned == \A left \in Leftover : ~IsPacketSignature(left[1], left[2])

(***************************************************************************)
(* The invariant.                                                          *)
(***************************************************************************)

\* The words an identification is made of, and those of the drive at p.
Words == {Junk} \cup (Pos \X {"IDENTIFY", "IDENTIFY_PACKET"} \X Word)
OwnCommand(p) == IF kind[p] = "ata" THEN "IDENTIFY" ELSE "IDENTIFY_PACKET"
Own(p) == [w \in Word |-> IdentifyWord(p, OwnCommand(p), w)]

\* The positions in the order of the loops: how many are behind, and which.
Order(p) == 2 * p[1] + p[2]
Turn == IF pc = "init" THEN 0 ELSE IF pc = "done" THEN 4 ELSE 2 * channel + number
Tried(p) == Order(p) < Turn
Untouched(p) ==
    pc = "init" \/ Order(p) > Turn \/ (Order(p) = Turn /\ pc \in {"slot", "select", "identify"})

\* Where the loops are, and what is set up at each point of their body.
AfterSelect == {"identify", "wait1ms", "poll", "signature", "packet", "packetWait", "read"}
PlaceInv ==
    /\ device_count \in 0 .. Turn
    /\ pc = "init" => number = 0
    /\ pc \in {"select"} \cup AfterSelect =>
         ide_devices[device_count].channel = channel /\ ide_devices[device_count].drive = number
    /\ pc \in AfterSelect => selected[channel] = number
    /\ pc \in {"select", "identify", "wait1ms", "poll", "signature"} => type = "ATA"
    /\ pc \in {"packet", "packetWait"} => n = 0
    /\ identify_buffer \in [Word -> Words]

\* What holds of a drive whatever the driver does: it is asked to identify itself
\* and nothing else, offers nothing but its own words, and the registers of a disk
\* are as the firmware left them.
Sound(p) ==
    LET d == drive[p] IN
    /\ kind[p] \in {"none", "ata", "atapi", "floating"}
    /\ d.phase # "idle" => Present(p) /\ d.cmd \in {"IDENTIFY", "IDENTIFY_PACKET"}
    /\ kind[p] = "ata" /\ d.phase # "idle" => d.cmd = "IDENTIFY"
    /\ d.phase # "dataOut"
    /\ d.phase = "dataIn" => d.buf = Own(p) /\ d.left \in 1 .. SectorWords
    /\ kind[p] = "ata" => <<regs[p].lba1, regs[p].lba2>> \in Leftover

\* What the drive at p is doing between IDENTIFY and the look at its registers,
Identifying(p) ==
    \/ drive[p].phase \in {"accepted", "busy"} /\ drive[p].cmd = "IDENTIFY"
    \/ kind[p] = "ata" /\ drive[p].phase = "dataIn" /\ drive[p].left = SectorWords
    \/ kind[p] = "ata" /\ drive[p].phase = "idle" /\ Fails(p)
    \/ kind[p] = "atapi" /\ drive[p].phase = "idle" /\ regs[p].lba1 = 20 /\ regs[p].lba2 = 235

\* after IDENTIFY PACKET,
Packing(p) ==
    \/ drive[p].phase \in {"accepted", "busy"} /\ drive[p].cmd = "IDENTIFY_PACKET"
    \/ drive[p].phase = "dataIn" /\ drive[p].left = SectorWords
    \/ drive[p].phase = "idle" /\ Fails(p)

\* and while n words are read from it.
Reading(p) ==
    \/ /\ n < SectorWords
       /\ drive[p].phase = "dataIn" /\ drive[p].left = SectorWords - n
       /\ \A w \in Word : w < n => identify_buffer[w] = Own(p)[w]
    \/ /\ n = SectorWords /\ drive[p].phase = "idle"
       /\ \A w \in Word : identify_buffer[w] = Own(p)[w]
    \/ /\ Fails(p) /\ drive[p].phase = "idle"
       /\ \A w \in Word : w < n => identify_buffer[w] = Junk
    \/ /\ Late(p)
       /\ drive[p].phase = "dataIn" => SectorWords - drive[p].left <= n
       /\ \A w \in Word : w < n => identify_buffer[w] \in {Junk} \cup {Own(p)[v] : v \in 0 .. w}

\* The drive being tried and the driver are in step.
Together ==
    /\ pc \in {"wait1ms", "poll", "signature"} => (Present(here) => Identifying(here))
    /\ pc = "poll" => kind[here] # "none" /\ drive[here].phase # "accepted"
    /\ pc = "signature" => Present(here) /\ drive[here].phase \notin {"accepted", "busy"}
    /\ pc = "packet" => kind[here] = "atapi" /\ drive[here].phase = "idle"
    /\ pc = "packetWait" => kind[here] = "atapi" /\ Packing(here)
    /\ pc = "read" => Present(here) /\ Reading(here)
    /\ pc \in {"packet", "packetWait", "read"} => kind[here] = (IF type = "ATA" THEN "ata" ELSE "atapi")

\* What is known of a position: nothing happens ahead of the loops, and what is
\* behind them is idle (or slow, or stale) and listed (or stale).
Settled(p) == drive[p].phase = "idle" \/ Late(p) \/ Stale(p)
Has(p) == \E s \in 0 .. device_count - 1 : PosOf(ide_devices[s]) = p
PositionsInv ==
    \A p \in Pos :
      /\ Sound(p)
      /\ Untouched(p) => drive[p].phase = "idle"
      /\ Tried(p) => Settled(p) /\ (Present(p) => Stale(p) \/ Has(p))

\* An entry tells the truth about the drive it names.
Truthful(e) ==
    LET p == PosOf(e) IN
    /\ Tried(p) /\ kind[p] = KindOf(e)
    /\ \/ e.info = Own(p) /\ Shown(e.model) = Unpadded(NameOf[p])
       \/ Fails(p) /\ e.info = JunkBlock
       \/ Late(p) /\ \A w \in Word : e.info[w] \in {Junk} \cup {Own(p)[v] : v \in 0 .. w}
EntriesInv ==
    /\ \A s \in 0 .. device_count - 1 : Truthful(ide_devices[s])
    /\ \A s, t \in 0 .. device_count - 1 : s < t => Rank(ide_devices[s]) < Rank(ide_devices[t])

IInv == TypeOK /\ PlaceInv /\ PositionsInv /\ Together /\ EntriesInv

(***************************************************************************)
(* Constants and positions.                                                *)
(***************************************************************************)

\* What the assumptions say of the constants.
LEMMA Params ==
    /\ SectorWords \in Nat /\ SectorWords >= 1
    /\ Channels \subseteq {0, 1} /\ 0 \in Channels
    /\ Leftover \subseteq Byte \X Byte
    /\ Junk \notin Pos \X {"IDENTIFY", "IDENTIFY_PACKET"} \X Word
BY BusAssumption, DetectAssumption

\* A position is a channel and a drive, and its place in the order tells it from
\* every other.
LEMMA Positions ==
    /\ \A p \in Pos : p = <<p[1], p[2]>> /\ p[1] \in Channels /\ p[2] \in {0, 1}
    /\ \A p \in Pos : Order(p) \in 0 .. 3
    /\ \A p, q \in Pos : Order(p) = Order(q) => p = q
<1>1. \A p \in Pos : p = <<p[1], p[2]>> /\ p[1] \in {0, 1} /\ p[2] \in {0, 1} /\ p[1] \in Channels
  <2>1. \A p \in Pos : p = <<p[1], p[2]>> /\ p[1] \in Channels /\ p[2] \in {0, 1}
    BY DEF Pos, Drives
  <2>2. QED BY <2>1, Params
<1>2. \A p \in Pos : Order(p) \in 0 .. 3
  BY <1>1 DEF Order
<1>3. ASSUME NEW p \in Pos, NEW q \in Pos, Order(p) = Order(q) PROVE p = q
  <2>1. p[1] = q[1] /\ p[2] = q[2]
    BY <1>1, <1>3 DEF Order
  <2>2. QED BY <2>1, <1>1, Zenon
<1>4. QED BY <1>1, <1>2, <1>3

\* The identification of a drive is made of words.
LEMMA OwnWords ==
    ASSUME NEW p \in Pos
    PROVE  /\ Own(p) \in [Word -> Words]
           /\ \A w \in Word : Own(p)[w] = <<p, OwnCommand(p), w>> /\ Own(p)[w] # Junk
           /\ Words \subseteq Content /\ Junk \in Words
<1>1. OwnCommand(p) \in {"IDENTIFY", "IDENTIFY_PACKET"}
  BY DEF OwnCommand
<1>2. ASSUME NEW w \in Word
      PROVE  <<p, OwnCommand(p), w>> \in Pos \X {"IDENTIFY", "IDENTIFY_PACKET"} \X Word
  BY <1>1
<1>3. QED BY <1>2, Params, Zenon DEF Own, Words, Content, IdentifyWord

(***************************************************************************)
(* Names.                                                                  *)
(***************************************************************************)

\* A non-empty set of numbers up to a bound has a greatest one.
LEMMA Greatest ==
    ASSUME NEW N \in Nat, NEW S, S \subseteq 1 .. N, S # {}
    PROVE  \E x \in S : \A y \in S : y <= x
<1> DEFINE T == {N - x : x \in S}
<1>1. T \subseteq Nat /\ T # {}
  <2>1. \A x \in S : N - x \in Nat
    OBVIOUS
  <2>2. QED BY <2>1, Zenon
<1>2. PICK m \in T : \A y \in T : <<y, m>> \notin OpToRel(<, Nat)
  BY <1>1, NatLessThanWellFounded, WFMin, Zenon
<1>3. \A y \in T : ~(y < m)
  BY <1>1, <1>2 DEF OpToRel
<1>4. PICK x \in S : m = N - x
  OBVIOUS
<1>5. ASSUME NEW y \in S PROVE y <= x
  <2>1. N - y \in T
    OBVIOUS
  <2>2. ~(N - y < N - x)
    BY <1>3, <1>4, <2>1
  <2>3. QED BY <2>2
<1>6. QED BY <1>5

\* The last character of a name that is no padding.
LEMMA LastCharacter ==
    ASSUME NEW N \in Nat, NEW name \in [1 .. N -> STRING]
    PROVE  \E L \in 0 .. N :
             /\ \A k \in 1 .. N : (\E j \in k .. N : name[j] # " ") <=> k <= L
             /\ Unpadded(name) = SubSeq(name, 1, L)
<1> DEFINE I == {k \in 1 .. Len(name) : name[k] # " "}
<1>1. name \in Seq(STRING) /\ Len(name) = N
  OBVIOUS
<1>2. I = {k \in 1 .. N : name[k] # " "}
  BY <1>1
<1>3. Unpadded(name) = SubSeq(name, 1, IF I # {} THEN Max(I) ELSE 0)
  BY Zenon DEF Unpadded, SelectLastInSeq
<1> HIDE DEF I
<1>4. ASSUME NEW k \in 1 .. N
      PROVE  (\E j \in k .. N : name[j] # " ") <=> \E j \in I : k <= j
  <2>1. \A j \in k .. N : j \in 1 .. N /\ k <= j
    BY <1>4
  <2>2. \A j \in 1 .. N : k <= j => j \in k .. N
    BY <1>4
  <2>3. QED BY <1>2, <2>1, <2>2, Zenon
<1>5. CASE I = {}
  <2>1. 0 \in 0 .. N /\ \A k \in 1 .. N : ~(k <= 0)
    OBVIOUS
  <2>2. QED BY <1>3, <1>4, <1>5, <2>1, Zenon
<1>6. CASE I # {}
  <2>1. I \subseteq 1 .. N
    BY <1>2
  <2>2. PICK m \in I : m = Max(I) /\ \A y \in I : y <= m
    <3>1. \E x \in I : \A y \in I : y <= x
      BY <1>6, <2>1, Greatest
    <3>2. QED BY <2>1, <3>1 DEF Max
  <2>3. m \in 0 .. N
    BY <2>1
  <2>4. ASSUME NEW k \in 1 .. N PROVE (\E j \in I : k <= j) <=> k <= m
    BY <2>1, <2>2
  <2>5. QED BY <1>3, <1>4, <1>6, <2>2, <2>3, <2>4, Zenon
<1>7. QED BY <1>5, <1>6

\* A C string ends at its first terminator.
LEMMA StringEnd ==
    ASSUME NEW T, NEW string \in Seq(T), NEW m \in 1 .. Len(string), string[m] = "NUL",
           \A k \in 1 .. m - 1 : string[k] # "NUL"
    PROVE  Shown(string) = SubSeq(string, 1, m - 1)
<1> DEFINE J == {k \in 1 .. Len(string) : string[k] = "NUL"}
<1>1. Shown(string) = SubSeq(string, 1, (IF J # {} THEN Min(J) ELSE 0) - 1)
  BY Zenon DEF Shown, SelectInSeq
<1>2. m \in J /\ J \subseteq Nat
  OBVIOUS
<1>3. \A k \in J : m <= k
  OBVIOUS
<1> HIDE DEF J
<1>4. \A k \in J : (\A y \in J : k <= y) => k = m
  BY <1>2, <1>3
<1>5. Min(J) = m
  BY <1>2, <1>3, <1>4, Zenon DEF Min
<1>6. QED BY <1>1, <1>2, <1>5, Zenon

\* What ide_string_copy makes of a drive's own words reads as the drive calls itself.
LEMMA OwnName ==
    ASSUME NEW p \in Pos
    PROVE  Shown(ide_string_copy(Own(p))) = Unpadded(NameOf[p])
<1> DEFINE N == 2 * SectorWords
           name == NameOf[p]
           copy == ide_string_copy(Own(p))
<1>1. N \in Nat /\ N >= 1
  BY Params
<1>2. name \in [1 .. N -> STRING \ {"NUL"}] /\ name \in [1 .. N -> STRING]
  BY DetectAssumption
<1>3. PICK L \in 0 .. N :
        /\ \A k \in 1 .. N : (\E j \in k .. N : name[j] # " ") <=> k <= L
        /\ Unpadded(name) = SubSeq(name, 1, L)
  <2> HIDE DEF N, name
  <2>1. QED BY <1>1, <1>2, LastCharacter
<1>4. ASSUME NEW k \in 1 .. N
      PROVE  (IF k % 2 = 1 THEN Byte0(Own(p)[(k - 1) \div 2]) ELSE Byte1(Own(p)[(k - 1) \div 2]))
               = name[k]
  <2> DEFINE w == (k - 1) \div 2
  <2>1. w \in Word /\ (IF k % 2 = 1 THEN 2 * w + 1 ELSE 2 * w + 2) = k
    BY Params DEF Word
  <2> HIDE DEF w
  <2>2. Own(p)[w] = <<p, OwnCommand(p), w>> /\ Own(p)[w] # Junk
    BY <2>1, OwnWords
  <2>3. Byte0(Own(p)[w]) = name[2 * w + 1] /\ Byte1(Own(p)[w]) = name[2 * w + 2]
    BY <2>2 DEF Byte0, Byte1
  <2>4. QED BY <2>1, <2>3 DEF w
<1>5. copy = [k \in 1 .. N + 1 |-> IF \E j \in k .. N : name[j] # " " THEN name[k] ELSE "NUL"]
  <2> DEFINE chars == [k \in 1 .. N |->
                         IF k % 2 = 1 THEN Byte0(Own(p)[(k - 1) \div 2])
                                      ELSE Byte1(Own(p)[(k - 1) \div 2])]
  <2>1. copy = [k \in 1 .. N + 1 |-> IF \E j \in k .. N : chars[j] # " " THEN chars[k] ELSE "NUL"]
    BY Zenon DEF ide_string_copy
  <2>2. \A k \in 1 .. N : chars[k] = name[k]
    BY <1>4, Zenon
  <2> HIDE DEF chars, name, copy, N
  <2>3. ASSUME NEW k \in 1 .. N + 1
        PROVE  /\ \A j \in k .. N : chars[j] = name[j]
               /\ (\E j \in k .. N : TRUE) => k \in 1 .. N
    <3>1. \A j \in k .. N : j \in 1 .. N
      BY <1>1, <2>3
    <3>2. (\E j \in k .. N : TRUE) => k \in 1 .. N
      BY <1>1, <2>3
    <3>3. QED BY <2>2, <3>1, <3>2, Zenon
  <2>4. ASSUME NEW k \in 1 .. N + 1
        PROVE  (IF \E j \in k .. N : chars[j] # " " THEN chars[k] ELSE "NUL")
                 = (IF \E j \in k .. N : name[j] # " " THEN name[k] ELSE "NUL")
    <3>1. (\E j \in k .. N : chars[j] # " ") <=> (\E j \in k .. N : name[j] # " ")
      BY <2>3, Zenon
    <3>2. (\E j \in k .. N : name[j] # " ") => chars[k] = name[k]
      BY <2>2, <2>3, Zenon
    <3>3. QED BY <3>1, <3>2, Zenon
  <2>5. QED BY <2>1, <2>4, Zenon
<1> HIDE DEF copy, name, N
<1>6. L + 1 \in 1 .. N + 1 /\ (L + 1) - 1 = L /\ ~(L + 1 <= L)
  BY <1>1
<1>7. \A k \in 1 .. L : k \in 1 .. N /\ k \in 1 .. N + 1 /\ k <= L
  BY <1>1
<1>8. \A k \in 1 .. L : copy[k] = name[k] /\ copy[k] # "NUL"
  <2>1. \A k \in 1 .. N : name[k] # "NUL"
    BY <1>2
  <2>2. QED BY <1>3, <1>5, <1>7, <2>1, Zenon
<1>9. copy[L + 1] = "NUL"
  <2>1. ASSUME L + 1 \in 1 .. N PROVE ~ \E j \in L + 1 .. N : name[j] # " "
    BY <2>1, <1>3, <1>6, Zenon
  <2>2. ASSUME L + 1 \notin 1 .. N PROVE ~ \E j \in L + 1 .. N : TRUE
    BY <2>2, <1>1
  <2>3. QED BY <1>5, <1>6, <2>1, <2>2, Zenon
<1>10. copy \in Seq(STRING \cup {"NUL"}) /\ Len(copy) = N + 1
  <2>1. ASSUME NEW k \in 1 .. N + 1
        PROVE  (IF \E j \in k .. N : name[j] # " " THEN name[k] ELSE "NUL") \in STRING \cup {"NUL"}
    <3>1. (\E j \in k .. N : TRUE) => k \in 1 .. N
      BY <1>1
    <3>2. k \in 1 .. N => name[k] \in STRING
      BY <1>2
    <3>3. QED BY <3>1, <3>2, Zenon
  <2>2. copy \in [1 .. N + 1 -> STRING \cup {"NUL"}]
    BY <1>5, <2>1, Zenon
  <2>3. QED BY <1>1, <2>2
<1>11. Shown(copy) = SubSeq(copy, 1, L)
  <2>1. Shown(copy) = SubSeq(copy, 1, (L + 1) - 1)
    <3>1. L + 1 \in 1 .. Len(copy)
      BY <1>6, <1>10
    <3>2. \A k \in 1 .. (L + 1) - 1 : copy[k] # "NUL"
      BY <1>6, <1>8, Zenon
    <3>3. QED BY <1>9, <1>10, <3>1, <3>2, StringEnd, Zenon
  <2>2. QED BY <1>6, <2>1
<1>12. SubSeq(copy, 1, L) = SubSeq(name, 1, L)
  <2>1. name \in Seq(STRING) /\ Len(name) = N
    BY <1>1, <1>2
  <2>2. QED BY <1>1, <1>8, <1>10, <2>1
<1>13. QED BY <1>3, <1>11, <1>12, Zenon DEF copy, name

\* A copied name is made of the characters of the drives' names, of those of a
\* floating bus and of terminators.
LEMMA CopyType ==
    ASSUME NEW b \in [Word -> Words]
    PROVE  ide_string_copy(b) \in Seq({"ff", "NUL"} \cup UNION {Range(NameOf[p]) : p \in Pos})
<1> DEFINE N == 2 * SectorWords
           Chars == {"ff", "NUL"} \cup UNION {Range(NameOf[p]) : p \in Pos}
           char(k) == IF k % 2 = 1 THEN Byte0(b[(k - 1) \div 2]) ELSE Byte1(b[(k - 1) \div 2])
<1>1. N \in Nat
  BY Params
<1>2. ASSUME NEW v \in Word
      PROVE  Byte0(b[v]) \in Chars /\ Byte1(b[v]) \in Chars
  <2>1. CASE b[v] = Junk
    BY <2>1 DEF Byte0, Byte1
  <2>2. CASE b[v] # Junk
    <3>1. b[v] \in Pos \X {"IDENTIFY", "IDENTIFY_PACKET"} \X Word
      BY <2>2 DEF Words
    <3>2. PICK p \in Pos, w \in Word : b[v][1] = p /\ b[v][3] = w
      BY <3>1
    <3>3. 2 * w + 1 \in 1 .. N /\ 2 * w + 2 \in 1 .. N
      BY Params DEF Word
    <3>4. DOMAIN NameOf[p] = 1 .. N
      BY DetectAssumption
    <3>5. \A j \in 1 .. N : NameOf[p][j] \in Range(NameOf[p])
      BY <3>4, Zenon DEF Range
    <3>6. \A j \in 1 .. N : NameOf[p][j] \in Chars
      BY <3>5, Zenon
    <3>7. QED BY <2>2, <3>2, <3>3, <3>6, Zenon DEF Byte0, Byte1
  <2>3. QED BY <2>1, <2>2
<1>3. ASSUME NEW k \in 1 .. N
      PROVE  char(k) \in Chars
  <2>1. (k - 1) \div 2 \in Word
    BY Params DEF Word
  <2>2. QED BY <1>2, <2>1, Zenon
<1>4. DEFINE chars == [k \in 1 .. N |-> char(k)]
<1>5. ide_string_copy(b) = [k \in 1 .. N + 1 |->
                              IF \E j \in k .. N : chars[j] # " " THEN chars[k] ELSE "NUL"]
  BY Zenon DEF ide_string_copy
<1>6. \A k \in 1 .. N : chars[k] \in Chars
  BY <1>3, Zenon
<1>7. "NUL" \in Chars
  OBVIOUS
<1> HIDE DEF N, Chars, chars
<1>8. ASSUME NEW k \in 1 .. N + 1
      PROVE  (IF \E j \in k .. N : chars[j] # " " THEN chars[k] ELSE "NUL") \in Chars
  <2>1. (\E j \in k .. N : TRUE) => k \in 1 .. N
    BY <1>1
  <2>2. QED BY <2>1, <1>6, <1>7, Zenon
<1>9. ide_string_copy(b) \in [1 .. N + 1 -> Chars]
  BY <1>5, <1>8, Zenon
<1>10. N + 1 \in Nat
  BY <1>1
<1> HIDE DEF Chars
<1>11. ide_string_copy(b) \in Seq(Chars)
  BY <1>9, <1>10
<1>12. QED BY <1>11 DEF Chars

(***************************************************************************)
(* The drives on their own.                                                *)
(***************************************************************************)

\* How the drive at q gets on with a command: it shows that it is busy, offers its
\* words, fails, or aborts the IDENTIFY of the other command set and shows what it is.
Progress(q) ==
    \/ /\ drive[q].phase = "accepted" /\ drive'[q].phase = "busy"
       /\ drive'[q].cmd = drive[q].cmd /\ regs'[q] = regs[q]
    \/ /\ drive[q].phase = "busy" /\ drive[q].cmd = OwnCommand(q)
       /\ drive'[q].phase = "dataIn" /\ drive'[q].left = SectorWords
       /\ drive'[q].buf = Own(q) /\ drive'[q].cmd = drive[q].cmd /\ regs'[q] = regs[q]
    \/ /\ drive[q].phase = "busy" /\ drive[q].cmd = OwnCommand(q)
       /\ drive'[q].phase = "idle" /\ Fails(q) /\ regs'[q] = regs[q]
    \/ /\ drive[q].phase = "busy" /\ drive[q].cmd = "IDENTIFY" /\ kind[q] = "atapi"
       /\ drive'[q].phase = "idle" /\ regs'[q].lba1 = 20 /\ regs'[q].lba2 = 235

\* A step of a drive is one of these, and touches nothing else.
LEMMA DriveProgress ==
    ASSUME TypeOK, NEW q \in Pos, Sound(q), DriveStep(q)
    PROVE  /\ Progress(q)
           /\ UNCHANGED <<kind, selected, disk, dirty>>
           /\ \A p \in Pos : p # q => drive'[p] = drive[p] /\ regs'[p] = regs[p]
           /\ drive' \in [Pos -> DriveState] /\ regs' \in [Pos -> TaskFile]
<1>1. /\ kind \in [Pos -> {"none", "ata", "atapi", "floating"}]
      /\ drive \in [Pos -> DriveState] /\ regs \in [Pos -> TaskFile]
  BY DEF TypeOK, BusTypeOK
<1>2. drive[q] \in DriveState /\ regs[q] \in TaskFile
  BY <1>1
<1>3. OwnCommand(q) = "IDENTIFY" <=> kind[q] = "ata"
  BY DEF OwnCommand
<1>4. CASE AssertBusy(q)
  <2> DEFINE e == [drive[q] EXCEPT !.phase = "busy", !.fault = {}]
  <2>1. e \in DriveState /\ e.phase = "busy" /\ e.cmd = drive[q].cmd
    BY <1>2 DEF DriveState
  <2>2. drive' = [drive EXCEPT ![q] = e]
    BY <1>1, <1>4 DEF AssertBusy
  <2>3. UNCHANGED <<kind, selected, regs, disk, dirty>> /\ drive[q].phase = "accepted"
    BY <1>4 DEF AssertBusy
  <2> HIDE DEF e
  <2>4. drive'[q] = e /\ drive' \in [Pos -> DriveState] /\ \A p \in Pos : p # q => drive'[p] = drive[p]
    BY <1>1, <2>1, <2>2
  <2>5. Progress(q)
    BY <2>1, <2>3, <2>4 DEF Progress
  <2>6. QED BY <1>1, <2>3, <2>4, <2>5
<1>5. ASSUME NEW f \in SUBSET {"ERR", "DF"}, Stop(q, f)
      PROVE  /\ drive'[q].phase = "idle" /\ drive' \in [Pos -> DriveState]
             /\ \A p \in Pos : p # q => drive'[p] = drive[p]
  <2> DEFINE e == [IdleDrive EXCEPT !.fault = f]
  <2>1. e \in DriveState /\ e.phase = "idle"
    BY BusAssumption DEF IdleDrive, DriveState, JunkBlock, Content
  <2>2. drive' = [drive EXCEPT ![q] = e]
    BY <1>5 DEF Stop
  <2> HIDE DEF e
  <2>3. QED BY <1>1, <2>1, <2>2
<1>6. CASE Abort(q)
  <2>1. drive[q].phase = "busy" /\ ~Supported(q) /\ Stop(q, {"ERR"}) /\ UNCHANGED <<kind, selected, disk, dirty>>
    BY <1>6 DEF Abort
  <2>2. kind[q] = "atapi" /\ drive[q].cmd = "IDENTIFY"
    BY <2>1 DEF Supported, Sound, Present
  <2>3. regs' = [regs EXCEPT ![q].lba1 = 20, ![q].lba2 = 235]
    BY <1>6, <2>2 DEF Abort
  <2> DEFINE r == [regs[q] EXCEPT !.lba1 = 20, !.lba2 = 235]
  <2>4. r \in TaskFile /\ r.lba1 = 20 /\ r.lba2 = 235
    <3>1. 20 \in Byte /\ 235 \in Byte
      BY DEF Byte
    <3>2. QED BY <1>2, <3>1 DEF TaskFile
  <2>5. regs' = [regs EXCEPT ![q] = r]
    BY <1>1, <1>2, <2>3 DEF TaskFile
  <2> HIDE DEF r
  <2>6. regs'[q] = r /\ regs' \in [Pos -> TaskFile] /\ \A p \in Pos : p # q => regs'[p] = regs[p]
    BY <1>1, <2>4, <2>5
  <2>7. Progress(q)
    BY <1>5, <2>1, <2>2, <2>4, <2>6 DEF Progress
  <2>8. QED BY <1>5, <2>1, <2>6, <2>7
<1>7. CASE FinishIdentify(q)
  <2>1. PICK c \in {"IDENTIFY", "IDENTIFY_PACKET"} :
          /\ Working(q, c)
          /\ \/ Offer(q, "dataIn", [w \in Word |-> IdentifyWord(q, c, w)])
             \/ <<q, "IDENTIFY">> \in MayFail /\ Stop(q, {"ERR"})
    BY <1>7 DEF FinishIdentify
  <2>2. drive[q].phase = "busy" /\ drive[q].cmd = c /\ UNCHANGED <<kind, selected, regs, disk, dirty>>
    BY <1>7, <2>1 DEF FinishIdentify, Working
  <2>3. c = OwnCommand(q)
    BY <1>7, <2>1, <2>2 DEF FinishIdentify, Supported, OwnCommand
  <2>4. CASE Offer(q, "dataIn", [w \in Word |-> IdentifyWord(q, c, w)])
    <3>1. Offer(q, "dataIn", Own(q))
      BY <2>3, <2>4, Zenon DEF Own
    <3>2. Own(q) \in [Word -> Content]
      BY OwnWords
    <3> DEFINE e == [drive[q] EXCEPT !.phase = "dataIn", !.left = SectorWords, !.buf = Own(q)]
    <3>3. e \in DriveState /\ e.phase = "dataIn" /\ e.left = SectorWords /\ e.buf = Own(q) /\ e.cmd = drive[q].cmd
      <4>1. SectorWords \in 0 .. SectorWords
        BY Params
      <4>2. QED BY <1>2, <3>2, <4>1 DEF DriveState
    <3>4. drive' = [drive EXCEPT ![q] = e]
      BY <1>1, <3>1 DEF Offer
    <3> HIDE DEF e
    <3>5. drive'[q] = e /\ drive' \in [Pos -> DriveState] /\ \A p \in Pos : p # q => drive'[p] = drive[p]
      BY <1>1, <3>3, <3>4
    <3>6. Progress(q)
      BY <2>2, <2>3, <3>3, <3>5 DEF Progress
    <3>7. QED BY <1>1, <2>2, <3>5, <3>6
  <2>5. CASE <<q, "IDENTIFY">> \in MayFail /\ Stop(q, {"ERR"})
    <3>1. Progress(q)
      BY <1>5, <2>2, <2>3, <2>5 DEF Progress, Fails
    <3>2. QED BY <1>1, <1>5, <2>2, <2>5, <3>1
  <2>6. QED BY <2>1, <2>4, <2>5
<1>8. ~(FinishRead(q) \/ RequestData(q) \/ CommitSector(q) \/ FinishFlush(q))
  BY DEF Sound, FinishRead, RequestData, CommitSector, FinishFlush, Working
<1>9. QED BY <1>4, <1>6, <1>7, <1>8 DEF DriveStep

\* While what is attached does not change, and the loops do not go back, an entry
\* already made stays true.
LEMMA EntryStays ==
    ASSUME TypeOK, kind' = kind, \A p \in Pos : Tried(p) => Tried(p)',
           NEW s \in 0 .. device_count - 1, ide_devices'[s] = ide_devices[s],
           Truthful(ide_devices[s])
    PROVE  Truthful(ide_devices[s])'
<1>1. \A p \in Pos : Own(p)' = Own(p) /\ Late(p)' = Late(p)
  BY DEF Own, OwnCommand, Late
<1>2. PosOf(ide_devices[s]) \in Pos
  <2>1. device_count \in 0 .. 4
    BY DEF TypeOK
  <2>2. s \in Slots
    BY <2>1 DEF Slots
  <2>3. QED BY <2>2 DEF TypeOK, PosOf, Pos
<1>3. Tried(PosOf(ide_devices[s]))'
  BY <1>2 DEF Truthful, PosOf
<1>4. QED BY <1>1, <1>2, <1>3, Zenon DEF Truthful, PosOf, Fails, KindOf

\* So the list is true as long as it stays as it is.
LEMMA EntriesStay ==
    ASSUME TypeOK, EntriesInv, kind' = kind, device_count' = device_count,
           \A s \in 0 .. device_count - 1 : ide_devices'[s] = ide_devices[s],
           \A p \in Pos : Tried(p) => Tried(p)'
    PROVE  EntriesInv' /\ \A p \in Pos : Has(p)' <=> Has(p)
<1>1. \A s \in 0 .. device_count - 1 : Truthful(ide_devices[s])'
  BY EntryStays DEF EntriesInv
<1>2. EntriesInv'
  BY <1>1, Zenon DEF EntriesInv, Rank
<1>3. QED BY <1>2, Zenon DEF Has, PosOf

\* The steps of the drives preserve the invariant.
LEMMA DriveKeeps ==
    ASSUME IInv, NEW q \in Pos, DriveStep(q), UNCHANGED detector
    PROVE  IInv'
<1>1. TypeOK /\ PlaceInv /\ PositionsInv /\ Together /\ EntriesInv
  BY DEF IInv
<1>2. /\ Sound(q) /\ (Untouched(q) => drive[q].phase = "idle")
      /\ (Tried(q) => Settled(q))
  BY <1>1 DEF PositionsInv
<1>3. /\ Progress(q)
      /\ UNCHANGED <<kind, selected, disk, dirty>>
      /\ \A p \in Pos : p # q => drive'[p] = drive[p] /\ regs'[p] = regs[p]
      /\ drive' \in [Pos -> DriveState] /\ regs' \in [Pos -> TaskFile]
  BY <1>1, <1>2, DriveProgress
<1>4. /\ UNCHANGED <<pc, channel, number, type, cl, ch, identify_buffer, n, ide_devices,
                     device_count, nIEN, stray>>
  BY DEF detector
<1>5. TypeOK'
  BY <1>1, <1>3, <1>4 DEF TypeOK, BusTypeOK, here
<1>6. PlaceInv' /\ Turn' = Turn /\ here' = here
  BY <1>1, <1>3, <1>4 DEF PlaceInv, Turn, here
<1>7. \A p \in Pos : /\ Own(p)' = Own(p) /\ (Tried(p)' <=> Tried(p)) /\ (Untouched(p)' <=> Untouched(p))
                     /\ (Late(p)' <=> Late(p)) /\ (Present(p)' <=> Present(p))
  BY <1>3, <1>4, <1>6 DEF Own, OwnCommand, Tried, Untouched, Late, Present
<1>8. EntriesInv' /\ \A p \in Pos : Has(p)' <=> Has(p)
  BY <1>1, <1>3, <1>4, <1>7, EntriesStay
<1>9. drive[q].phase # "idle" /\ drive[q].phase \in {"accepted", "busy"}
  BY <1>3 DEF Progress
<1>10. Sound(q)' /\ (Stale(q) => Stale(q)')
  <2>1. SectorWords \in 1 .. SectorWords
    BY Params
  <2>2. kind[q] = "ata" => regs'[q] = regs[q]
    BY <1>3 DEF Progress
  <2>3. QED BY <1>2, <1>3, <1>7, <2>1, <2>2 DEF Progress, Sound, Present, OwnCommand, Stale
<1>11. PositionsInv'
  <2>1. ASSUME NEW p \in Pos, p # q
        PROVE  /\ Sound(p)' /\ (Untouched(p) => drive[p].phase = "idle")'
               /\ (Tried(p) => Settled(p) /\ (Present(p) => Stale(p) \/ Has(p)))'
    BY <1>1, <1>3, <1>7, <1>8, <2>1 DEF PositionsInv, Sound, Settled, Stale, Late, Present
  <2>2. /\ Sound(q)' /\ (Untouched(q) => drive[q].phase = "idle")'
        /\ (Tried(q) => Settled(q) /\ (Present(q) => Stale(q) \/ Has(q)))'
    <3>1. Tried(q) => Late(q) \/ Stale(q)
      BY <1>2, <1>9 DEF Settled
    <3>2. Tried(q) /\ Present(q) => Stale(q) \/ Has(q)
      BY <1>1 DEF PositionsInv
    <3>3. QED BY <1>2, <1>7, <1>8, <1>9, <1>10, <3>1, <3>2, Zenon DEF Settled
  <2>3. QED BY <2>1, <2>2, Zenon DEF PositionsInv
<1>12. Together'
  <2>1. CASE here # q
    BY <1>1, <1>3, <1>4, <1>6, <1>7, <2>1 DEF TypeOK, Together, Identifying, Packing, Reading, Present, Fails
  <2>2. CASE here = q
    <3>1. pc \in {"wait1ms", "poll", "signature"} /\ Present(q) => Identifying(q)'
      BY <1>1, <1>2, <1>3, <1>9, <2>2 DEF Together, Identifying, Progress, Fails, OwnCommand, Present
    <3>2. pc # "signature" /\ pc # "packet"
      BY <1>1, <1>9, <2>2 DEF Together
    <3>3. pc = "packetWait" => Packing(q)'
      BY <1>1, <1>3, <1>9, <2>2 DEF Together, Packing, Progress, Fails
    <3>4. ASSUME pc = "read" PROVE Reading(q)'
      <4>1. Late(q) /\ \A w \in Word : w < n => identify_buffer[w] \in {Junk} \cup {Own(q)[v] : v \in 0 .. w}
        BY <1>1, <1>9, <2>2, <3>4 DEF Together, Reading
      <4>2. drive'[q].phase = "dataIn" => drive'[q].left = SectorWords
        BY <1>3, <1>9 DEF Progress
      <4>3. SectorWords - SectorWords <= n
        BY <1>1, Params DEF TypeOK
      <4>4. drive'[q].phase = "dataIn" => SectorWords - drive'[q].left <= n'
        BY <1>4, <4>2, <4>3
      <4>5. QED BY <1>4, <1>7, <4>1, <4>4, Zenon DEF Reading
    <3>5. QED BY <1>1, <1>3, <1>4, <1>6, <1>7, <1>9, <2>2, <3>1, <3>2, <3>3, <3>4 DEF Together, Progress
  <2>3. QED BY <2>1, <2>2
<1>13. QED BY <1>5, <1>6, <1>8, <1>11, <1>12 DEF IInv

(***************************************************************************)
(* The driver.                                                             *)
(***************************************************************************)

\* The position being tried, and the drive the driver talks to.
LEMMA Current ==
    ASSUME TypeOK, PlaceInv
    PROVE  /\ here \in Pos /\ channel \in Channels /\ number \in {0, 1}
           /\ pc \notin {"init", "done"} =>
                /\ Turn = Order(here) /\ Turn \in 0 .. 3 /\ device_count \in Slots
                /\ \A p \in Pos : Order(p) = Turn => p = here
           /\ pc \in AfterSelect => Selected(channel) = here
<1>1. here \in Pos /\ channel \in Channels /\ number \in {0, 1}
  BY DEF TypeOK, here, Pos, Drives
<1>2. pc \notin {"init", "done"} => Turn = Order(here)
  BY DEF Turn, Order, here
<1>3. Order(here) \in 0 .. 3 /\ \A p \in Pos : Order(p) = Order(here) => p = here
  BY <1>1, Positions
<1>4. pc \notin {"init", "done"} => device_count \in Slots
  BY <1>2, <1>3 DEF PlaceInv, Slots
<1>5. pc \in AfterSelect => Selected(channel) = here
  BY DEF PlaceInv, Selected, here
<1>6. QED BY <1>1, <1>2, <1>3, <1>4, <1>5

\* While the position being tried stays, only that one can be touched for the first
\* time, and no other is settled or listed anew.
LEMMA PositionsStay ==
    ASSUME TypeOK, PlaceInv, PositionsInv, UNCHANGED loop,
           pc \notin {"init", "done"}, pc' \notin {"init", "done"},
           kind' = kind, \A p \in Pos : Has(p)' <=> Has(p),
           \A p \in Pos : p # here => drive'[p] = drive[p],
           \A p \in Pos : regs'[p].lba1 = regs[p].lba1 /\ regs'[p].lba2 = regs[p].lba2,
           Sound(here)',
           Untouched(here)' => drive'[here].phase = "idle"
    PROVE  PositionsInv'
<1>1. here \in Pos /\ (\A p \in Pos : Order(p) = Turn => p = here) /\ Turn' = Turn /\ here' = here
  BY Current DEF loop, Turn, here
<1>2. \A p \in Pos : Own(p)' = Own(p) /\ (Late(p)' <=> Late(p)) /\ (Present(p)' <=> Present(p))
                     /\ (Stale(p)' <=> Stale(p)) /\ (Tried(p)' <=> Tried(p))
  BY <1>1 DEF Own, OwnCommand, Late, Present, Stale, Tried
<1>3. ASSUME NEW p \in Pos, p # here
      PROVE  /\ Sound(p)' /\ (Untouched(p) => drive[p].phase = "idle")'
             /\ (Tried(p) => Settled(p) /\ (Present(p) => Stale(p) \/ Has(p)))'
  <2>1. Untouched(p)' => Untouched(p)
    BY <1>1, <1>3 DEF Untouched
  <2>2. /\ Sound(p) /\ (Untouched(p) => drive[p].phase = "idle")
        /\ (Tried(p) => Settled(p) /\ (Present(p) => Stale(p) \/ Has(p)))
    BY DEF PositionsInv
  <2>3. Sound(p)'
    BY <1>2, <1>3, <2>2 DEF Sound, Present
  <2>4. QED BY <1>2, <1>3, <2>1, <2>2, <2>3, Zenon DEF Settled
<1>4. ~Tried(here)
  BY <1>1, Positions, Current DEF Tried
<1>5. /\ Sound(here)' /\ (Untouched(here) => drive[here].phase = "idle")' /\ ~Tried(here)'
  BY <1>1, <1>2, <1>4
<1>6. ASSUME NEW p \in Pos
      PROVE  /\ Sound(p)' /\ (Untouched(p) => drive[p].phase = "idle")'
             /\ (Tried(p) => Settled(p) /\ (Present(p) => Stale(p) \/ Has(p)))'
  <2>1. CASE p = here
    <3>1. p = here'
      BY <1>1, <2>1
    <3>2. Sound(p)' /\ (Untouched(p) => drive[p].phase = "idle")' /\ ~Tried(p)'
      BY <1>5, <3>1 DEF Sound, Untouched, Present, Tried
    <3>3. QED BY <3>2
  <2>2. CASE p # here
    BY <1>3, <2>2
  <2>3. QED BY <2>1, <2>2
<1>7. QED BY <1>6, Zenon DEF PositionsInv

\* Going on to the next position leaves the one that was tried behind, and no other.
LEMMA Advance ==
    ASSUME TypeOK, PlaceInv, pc \notin {"init", "done"}, NextDrive
    PROVE  /\ pc' \in {"slot", "done"} /\ here' \in Pos
           /\ Turn' \in Nat /\ Turn < Turn'
           /\ \A p \in Pos : /\ Tried(p)' <=> Tried(p) \/ p = here
                             /\ Untouched(p)' => Order(p) > Turn
<1>1. /\ channel \in Channels /\ number \in {0, 1} /\ here \in Pos /\ channel \in {0, 1}
      /\ Turn = Order(here) /\ Turn \in 0 .. 3 /\ \A p \in Pos : Order(p) = Turn => p = here
      /\ Turn = 2 * channel + number
  BY Current, Params DEF Turn
<1>2. \A p \in Pos : Order(p) \in 0 .. 3
  BY Positions
<1>3. CASE number = 0
  <2>1. number' = 1 /\ pc' = "slot" /\ channel' = channel
    BY <1>3 DEF NextDrive
  <2>2. here' \in Pos
    BY <1>1, <2>1 DEF here, Pos, Drives
  <2>3. Turn' = Turn + 1
    BY <1>1, <1>3, <2>1 DEF Turn
  <2>4. ASSUME NEW p \in Pos
        PROVE  (Tried(p)' <=> Order(p) < Turn + 1) /\ (Untouched(p)' => Order(p) >= Turn + 1)
    <3>1. Order(p)' = Order(p) /\ Order(p) \in 0 .. 3
      BY <1>2 DEF Order
    <3>2. Tried(p)' <=> Order(p) < Turn + 1
      BY <2>3, <3>1, Zenon DEF Tried
    <3>3. Untouched(p)' => Order(p) > Turn + 1 \/ Order(p) = Turn + 1
      BY <2>1, <2>3, <3>1, Zenon DEF Untouched
    <3>4. QED BY <1>1, <3>1, <3>2, <3>3
  <2>5. ASSUME NEW p \in Pos
        PROVE  /\ Order(p) < Turn + 1 <=> Order(p) < Turn \/ p = here
               /\ Order(p) >= Turn + 1 => Order(p) > Turn
    <3>1. Order(p) = Turn <=> p = here
      BY <1>1
    <3>2. Order(p) \in Int /\ Turn \in Int
      BY <1>1, <1>2
    <3>3. QED BY <3>1, <3>2
  <2>6. Turn' \in Nat /\ Turn < Turn'
    BY <1>1, <2>3
  <2>7. QED BY <2>1, <2>2, <2>4, <2>5, <2>6, Zenon DEF Tried
<1>4. CASE number = 1 /\ channel + 1 \in Channels
  <2>1. number' = 0 /\ pc' = "slot" /\ channel' = channel + 1
    BY <1>4 DEF NextDrive
  <2>2. here' \in Pos
    BY <1>4, <2>1 DEF here, Pos, Drives
  <2>3. Turn' = Turn + 1
    BY <1>1, <1>4, <2>1 DEF Turn
  <2>4. ASSUME NEW p \in Pos
        PROVE  (Tried(p)' <=> Order(p) < Turn + 1) /\ (Untouched(p)' => Order(p) >= Turn + 1)
    <3>1. Order(p)' = Order(p) /\ Order(p) \in 0 .. 3
      BY <1>2 DEF Order
    <3>2. Tried(p)' <=> Order(p) < Turn + 1
      BY <2>3, <3>1, Zenon DEF Tried
    <3>3. Untouched(p)' => Order(p) > Turn + 1 \/ Order(p) = Turn + 1
      BY <2>1, <2>3, <3>1, Zenon DEF Untouched
    <3>4. QED BY <1>1, <3>1, <3>2, <3>3
  <2>5. ASSUME NEW p \in Pos
        PROVE  /\ Order(p) < Turn + 1 <=> Order(p) < Turn \/ p = here
               /\ Order(p) >= Turn + 1 => Order(p) > Turn
    <3>1. Order(p) = Turn <=> p = here
      BY <1>1
    <3>2. Order(p) \in Int /\ Turn \in Int
      BY <1>1, <1>2
    <3>3. QED BY <3>1, <3>2
  <2>6. Turn' \in Nat /\ Turn < Turn'
    BY <1>1, <2>3
  <2>7. QED BY <2>1, <2>2, <2>4, <2>5, <2>6, Zenon DEF Tried
<1>5. CASE number = 1 /\ channel + 1 \notin Channels
  <2>1. pc' = "done" /\ channel' = channel /\ number' = number
    BY <1>5 DEF NextDrive
  <2>2. here' \in Pos /\ Turn' = 4
    BY <1>1, <2>1 DEF here, Turn
  <2>3. \A p \in Pos : p[1] <= channel
    BY <1>1, <1>5, Positions, Params
  <2>4. \A p \in Pos : Order(p) <= Turn
    BY <1>1, <1>5, <2>3, Positions, Params DEF Order
  <2>5. QED BY <1>1, <1>2, <2>1, <2>2, <2>4 DEF Tried, Untouched
<1>6. QED BY <1>1, <1>3, <1>4, <1>5

\* What the end of the loop body preserves: the position tried must be settled, and
\* listed if a drive is there that is not stale.
LEMMA Moves ==
    ASSUME TypeOK, PlaceInv, PositionsInv, pc \notin {"init", "slot", "select", "identify", "done"}, NextDrive,
           UNCHANGED <<kind, regs, drive>>,
           \A p \in Pos : Has(p) => Has(p)',
           \A p \in Pos : p = here => Settled(p) /\ (Present(p) => Stale(p) \/ Has(p)')
    PROVE  PositionsInv' /\ Together'
<1>1. /\ pc' \in {"slot", "done"}
      /\ \A p \in Pos : /\ Tried(p)' <=> Tried(p) \/ p = here
                        /\ Untouched(p)' => Order(p) > Turn
  BY Advance
<1>2. \A p \in Pos : /\ (Sound(p)' <=> Sound(p)) /\ (Late(p)' <=> Late(p)) /\ (Stale(p)' <=> Stale(p))
                     /\ (Present(p)' <=> Present(p))
  BY DEF Sound, Own, OwnCommand, Late, Stale, Present
<1>3. ASSUME NEW p \in Pos
      PROVE  /\ Sound(p)' /\ (Untouched(p) => drive[p].phase = "idle")'
             /\ (Tried(p) => Settled(p) /\ (Present(p) => Stale(p) \/ Has(p)))'
  <2>1. /\ Sound(p) /\ (Untouched(p) => drive[p].phase = "idle")
        /\ (Tried(p) => Settled(p) /\ (Present(p) => Stale(p) \/ Has(p)))
    BY DEF PositionsInv
  <2>2. Untouched(p)' => Untouched(p)
    BY <1>1 DEF Untouched
  <2>3. Settled(p)' <=> Settled(p)
    BY <1>2, Zenon DEF Settled
  <2>4. QED BY <1>1, <1>2, <2>1, <2>2, <2>3, Zenon
<1>4. PositionsInv'
  BY <1>3, Zenon DEF PositionsInv
<1>5. Together'
  BY <1>1 DEF Together
<1>6. QED BY <1>4, <1>5

\* The initial states satisfy the invariant.
LEMMA InitIInv == Init => IInv
<1> SUFFICES ASSUME Init PROVE IInv
  OBVIOUS
<1>1. JunkBlock \in [Word -> Words] /\ JunkBlock \in [Word -> Content]
  BY DEF JunkBlock, Words, Content
<1>2. BusTypeOK
  <2>1. IdleDrive \in DriveState
    BY <1>1, BusAssumption DEF IdleDrive, DriveState
  <2>2. kind \in [Pos -> {"none", "ata", "atapi", "floating"}]
    BY DetectAssumption DEF Init
  <2>3. regs \in [Pos -> TaskFile]
    BY Params DEF Init, TaskFile, Byte
  <2>4. QED BY <2>1, <2>2, <2>3 DEF Init, BusTypeOK, Drives
<1>3. here \in Pos
  BY Params DEF Init, here, Pos, Drives
<1>4. ide_devices \in [Slots -> [channel : Channels, drive : Drives,
                                  type : {"ATA", "ATAPI"}, info : [Word -> Content],
                                  size : Content \cup {Zero},
                                  model : Seq({"ff", "NUL"} \cup
                                              UNION {Range(NameOf[p]) : p \in Pos})]]
  <2>1. EmptySlot \in [channel : Channels, drive : Drives,
                                  type : {"ATA", "ATAPI"}, info : [Word -> Content],
                                  size : Content \cup {Zero},
                                  model : Seq({"ff", "NUL"} \cup
                                              UNION {Range(NameOf[p]) : p \in Pos})]
    BY <1>1, Params DEF EmptySlot, Drives
  <2>2. QED BY <2>1 DEF Init
<1>5. TypeOK
  <2>1. /\ pc = "init" /\ type = "ATA" /\ cl = 0 /\ ch = 0 /\ n = 0 /\ device_count = 0 /\ nIEN = {}
        /\ identify_buffer = JunkBlock
    BY DEF Init
  <2>2. 0 \in Byte /\ 0 \in 0 .. SectorWords /\ 0 \in 0 .. 4 /\ {} \subseteq Channels
    BY Params DEF Byte
  <2>3. QED BY <1>1, <1>2, <1>3, <1>4, <2>1, <2>2, Zenon DEF TypeOK
<1>6. PlaceInv /\ Turn = 0
  BY <1>1 DEF Init, PlaceInv, Turn, AfterSelect
<1>7. PositionsInv
  <2>1. ASSUME NEW p \in Pos
        PROVE  Sound(p) /\ drive[p].phase = "idle" /\ ~Tried(p)
    <3>1. drive[p].phase = "idle"
      BY DEF Init, IdleDrive
    <3>2. ~Tried(p)
      BY <1>6, Positions DEF Tried
    <3>3. <<regs[p].lba1, regs[p].lba2>> \in Leftover
      <4>1. PICK left \in Leftover : regs[p].lba1 = left[1] /\ regs[p].lba2 = left[2]
        BY DEF Init
      <4>2. left = <<left[1], left[2]>>
        BY Params
      <4>3. QED BY <4>1, <4>2
    <3>4. kind[p] \in {"none", "ata", "atapi", "floating"}
      BY <1>2 DEF BusTypeOK
    <3>5. QED BY <3>1, <3>2, <3>3, <3>4 DEF Sound
  <2>2. QED BY <2>1 DEF PositionsInv
<1>8. Together /\ EntriesInv
  BY DEF Init, Together, EntriesInv
<1>9. QED BY <1>5, <1>6, <1>7, <1>8 DEF IInv

\* Disabling the interrupts touches no drive and no entry.
LEMMA DisableInterruptsKeeps == ASSUME IInv, DisableInterrupts PROVE IInv'
<1>1. TypeOK /\ PlaceInv /\ PositionsInv /\ Together /\ EntriesInv /\ pc = "init"
  BY DEF IInv, DisableInterrupts
<1>2. /\ UNCHANGED <<kind, selected, regs, drive, disk, dirty, number, type, cl, ch, identify_buffer, n,
                     ide_devices, device_count>>
      /\ nIEN' \subseteq Channels
      /\ \/ channel + 1 \in Channels /\ channel' = channel + 1 /\ pc' = pc
         \/ channel' = 0 /\ pc' = "slot"
  BY <1>1 DEF DisableInterrupts, OutNIEN, bus, locals, listing, TypeOK
<1>3. number = 0 /\ device_count = 0 /\ Turn = 0 /\ Turn' = 0
  BY <1>1, <1>2 DEF PlaceInv, Turn
<1>4. here' \in Pos
  BY <1>2, <1>3, Params DEF here, Pos, Drives
<1>5. TypeOK'
  BY <1>1, <1>2, <1>4 DEF TypeOK, BusTypeOK
<1>6. PlaceInv' /\ Together' /\ EntriesInv'
  BY <1>1, <1>2, <1>3 DEF PlaceInv, Together, EntriesInv, AfterSelect
<1>7. PositionsInv'
  <2>1. ASSUME NEW p \in Pos
        PROVE  Sound(p)' /\ (drive[p].phase = "idle")' /\ ~Tried(p)'
    <3>1. Sound(p) /\ drive[p].phase = "idle"
      BY <1>1 DEF PositionsInv, Untouched
    <3>2. ~Tried(p)'
      BY <1>3, Positions DEF Tried, Order
    <3>3. QED BY <1>2, <3>1, <3>2 DEF Sound, Present, Own, OwnCommand
  <2>2. QED BY <2>1, Zenon DEF PositionsInv
<1>8. QED BY <1>5, <1>6, <1>7 DEF IInv

\* Preparing a slot changes no entry already made.
LEMMA PrepareSlotKeeps == ASSUME IInv, PrepareSlot PROVE IInv'
<1>1. TypeOK /\ PlaceInv /\ PositionsInv /\ Together /\ EntriesInv /\ pc = "slot" /\ pc' = "select"
  BY DEF IInv, PrepareSlot
<1>2. /\ UNCHANGED <<kind, selected, regs, drive, disk, dirty, channel, number, cl, ch, identify_buffer, n,
                     device_count, nIEN, stray>>
      /\ ide_devices' = [ide_devices EXCEPT ![device_count].channel = channel,
                                            ![device_count].drive = number]
      /\ type' = "ATA"
  BY DEF PrepareSlot, bus, loop
<1>3. here \in Pos /\ channel \in Channels /\ number \in {0, 1} /\ device_count \in Slots /\ Turn' = Turn
  BY <1>1, <1>2, Current DEF Turn
<1>4. TypeOK' /\ ide_devices'[device_count].channel = channel /\ ide_devices'[device_count].drive = number
  <2> DEFINE Entry == [channel : Channels, drive : Drives,
                       type : {"ATA", "ATAPI"}, info : [Word -> Content],
                       size : Content \cup {Zero},
                       model : Seq({"ff", "NUL"} \cup UNION {Range(NameOf[p]) : p \in Pos})]
             e == [ide_devices[device_count] EXCEPT !.channel = channel, !.drive = number]
  <2>1. ide_devices \in [Slots -> Entry]
    BY <1>1 DEF TypeOK
  <2>2. e \in Entry /\ e.channel = channel /\ e.drive = number
    BY <1>3, <2>1 DEF Drives
  <2>3. ide_devices' = [ide_devices EXCEPT ![device_count] = e]
    BY <1>2, <1>3, <2>1
  <2> HIDE DEF Entry, e
  <2>4. ide_devices' \in [Slots -> Entry] /\ ide_devices'[device_count] = e
    BY <1>3, <2>1, <2>2, <2>3
  <2>5. TypeOK'
    BY <1>1, <1>2, <2>4, Zenon DEF TypeOK, BusTypeOK, here, Entry
  <2>6. QED BY <2>2, <2>4, <2>5
<1>5. \A s \in 0 .. device_count - 1 : ide_devices'[s] = ide_devices[s]
  BY <1>1, <1>2, <1>3 DEF TypeOK, Slots
<1>6. \A p \in Pos : Tried(p)' <=> Tried(p)
  BY <1>3 DEF Tried, Order
<1>7. EntriesInv' /\ \A p \in Pos : Has(p)' <=> Has(p)
  BY <1>1, <1>2, <1>5, <1>6, EntriesStay
<1>8. PlaceInv'
  BY <1>1, <1>2, <1>3, <1>4 DEF PlaceInv, AfterSelect
<1>9. Sound(here)' /\ drive'[here].phase = "idle"
  <2>1. Sound(here) /\ Untouched(here) /\ drive[here].phase = "idle"
    BY <1>1, <1>3, Current DEF PositionsInv, Untouched
  <2>2. QED BY <1>2, <2>1 DEF Sound, Present, Own, OwnCommand, here
<1>10. PositionsInv'
  BY <1>1, <1>2, <1>7, <1>9, PositionsStay DEF loop
<1>11. Together'
  BY <1>1 DEF Together
<1>12. QED BY <1>4, <1>7, <1>8, <1>10, <1>11 DEF IInv

\* What a step within the loop body leaves as it is.
LEMMA Within ==
    ASSUME TypeOK, PlaceInv, EntriesInv, UNCHANGED <<kind, loop, listing>>,
           pc \notin {"init", "done"}, pc' \notin {"init", "done"}
    PROVE  /\ EntriesInv' /\ Turn' = Turn /\ here' = here
           /\ UNCHANGED <<channel, number, ide_devices, device_count>>
           /\ \A p \in Pos : (Has(p)' <=> Has(p)) /\ (Tried(p)' <=> Tried(p)) /\ Own(p)' = Own(p)
                             /\ (Late(p)' <=> Late(p)) /\ (Present(p)' <=> Present(p))
<1>1. UNCHANGED <<channel, number, ide_devices, device_count>>
  BY DEF loop, listing
<1>2. Turn' = Turn /\ here' = here
  BY <1>1 DEF Turn, here
<1>3. \A p \in Pos : (Tried(p)' <=> Tried(p)) /\ Own(p)' = Own(p)
                     /\ (Late(p)' <=> Late(p)) /\ (Present(p)' <=> Present(p))
  BY <1>2 DEF Tried, Order, Own, OwnCommand, Late, Present
<1>4. EntriesInv' /\ \A p \in Pos : Has(p)' <=> Has(p)
  BY <1>1, <1>3, EntriesStay
<1>5. QED BY <1>1, <1>2, <1>3, <1>4

\* Selecting a drive writes the top register of both drives of the channel.
LEMMA SelectKeeps == ASSUME IInv, Select PROVE IInv'
<1>1. TypeOK /\ PlaceInv /\ PositionsInv /\ Together /\ EntriesInv /\ pc = "select" /\ pc' = "identify"
  BY DEF IInv, Select
<1>2. /\ UNCHANGED <<kind, drive, disk, dirty, loop, listing, type, cl, ch, identify_buffer, n, nIEN, stray>>
      /\ selected' = [selected EXCEPT ![channel] = number]
      /\ regs' = [p \in Pos |-> IF p[1] = channel THEN [regs[p] EXCEPT !.top = 0] ELSE regs[p]]
  BY DEF Select, SelectDrive, locals
<1>3. here \in Pos /\ channel \in Channels /\ number \in {0, 1} /\ Turn = Order(here)
  BY <1>1, Current
<1>4. /\ EntriesInv' /\ Turn' = Turn /\ here' = here
      /\ UNCHANGED <<channel, number, ide_devices, device_count>>
      /\ \A p \in Pos : (Has(p)' <=> Has(p)) /\ Own(p)' = Own(p) /\ (Present(p)' <=> Present(p))
  BY <1>1, <1>2, Within
<1>5. /\ regs' \in [Pos -> TaskFile]
      /\ \A p \in Pos : regs'[p].lba1 = regs[p].lba1 /\ regs'[p].lba2 = regs[p].lba2
  <2>1. regs \in [Pos -> TaskFile]
    BY <1>1 DEF TypeOK, BusTypeOK
  <2>2. \A r \in TaskFile : LET t == [r EXCEPT !.top = 0]
                            IN  t \in TaskFile /\ t.lba1 = r.lba1 /\ t.lba2 = r.lba2
    BY DEF TaskFile
  <2>3. QED BY <1>2, <2>1, <2>2
<1>6. TypeOK' /\ selected'[channel] = number
  <2>1. selected' \in [Channels -> Drives] /\ selected'[channel] = number
    BY <1>1, <1>2, <1>3 DEF TypeOK, BusTypeOK, Drives
  <2>2. QED BY <1>1, <1>2, <1>4, <1>5, <2>1 DEF TypeOK, BusTypeOK
<1>7. PlaceInv'
  BY <1>1, <1>2, <1>4, <1>6 DEF PlaceInv, AfterSelect
<1>8. Sound(here)' /\ drive'[here].phase = "idle"
  <2>1. Sound(here) /\ Untouched(here) /\ drive[here].phase = "idle"
    BY <1>1, <1>3 DEF PositionsInv, Untouched
  <2>2. QED BY <1>2, <1>3, <1>4, <1>5, <2>1 DEF Sound, Present, Own, OwnCommand
<1>9. PositionsInv'
  BY <1>1, <1>2, <1>4, <1>5, <1>8, PositionsStay
<1>10. Together'
  BY <1>1 DEF Together
<1>11. QED BY <1>4, <1>6, <1>7, <1>9, <1>10 DEF IInv

\* An idle drive that is there takes the command.
LEMMA Issued ==
    ASSUME TypeOK, here \in Pos, Selected(channel) = here, drive[here].phase = "idle",
           NEW c \in {"IDENTIFY", "IDENTIFY_PACKET"}, IssueCommand(channel, c)
    PROVE  /\ drive' \in [Pos -> DriveState]
           /\ \A p \in Pos : p # here => drive'[p] = drive[p]
           /\ IF Present(here) THEN drive'[here].phase = "accepted" /\ drive'[here].cmd = c
                              ELSE drive' = drive
<1>1. drive \in [Pos -> DriveState] /\ regs[here] \in TaskFile
  BY DEF TypeOK, BusTypeOK
<1>2. AddressOf(regs[here]) \in Nat
  <2>1. regs[here].lba0 \in Nat /\ regs[here].lba1 \in Nat /\ regs[here].lba2 \in Nat /\ regs[here].top \in Nat
    BY <1>1 DEF TaskFile, Byte
  <2>2. QED BY <2>1, SMT DEF AddressOf
<1>3. CASE Present(here)
  <2> DEFINE a == AddressOf(regs[here])
             e == [drive[here] EXCEPT !.phase = "accepted", !.cmd = c, !.addr = a]
  <2>1. drive' = [drive EXCEPT ![here] = e]
    BY <1>1, <1>3 DEF IssueCommand
  <2>2. e \in DriveState /\ e.phase = "accepted" /\ e.cmd = c
    <3>1. a \in Nat
      BY <1>2
    <3> HIDE DEF a
    <3>2. QED BY <1>1, <3>1 DEF DriveState, Command
  <2> HIDE DEF e
  <2>3. QED BY <1>1, <1>3, <2>1, <2>2
<1>4. CASE ~Present(here)
  BY <1>1, <1>4 DEF IssueCommand
<1>5. QED BY <1>3, <1>4

\* IDENTIFY goes to the drive being tried.
LEMMA SendIdentifyKeeps == ASSUME IInv, SendIdentify PROVE IInv'
<1>1. TypeOK /\ PlaceInv /\ PositionsInv /\ Together /\ EntriesInv /\ pc = "identify" /\ pc' = "wait1ms"
  BY DEF IInv, SendIdentify
<1>2. /\ UNCHANGED <<kind, selected, regs, disk, dirty, loop, listing, type, cl, ch, identify_buffer, n,
                     nIEN, stray>>
      /\ IssueCommand(channel, "IDENTIFY")
  BY DEF SendIdentify, locals
<1>3. here \in Pos /\ Turn = Order(here) /\ Selected(channel) = here
  BY <1>1, Current DEF AfterSelect
<1>4. /\ EntriesInv' /\ Turn' = Turn /\ here' = here
      /\ UNCHANGED <<channel, number, ide_devices, device_count>>
      /\ \A p \in Pos : (Has(p)' <=> Has(p)) /\ Own(p)' = Own(p) /\ (Present(p)' <=> Present(p))
  BY <1>1, <1>2, Within
<1>5. Sound(here) /\ drive[here].phase = "idle"
  BY <1>1, <1>3 DEF PositionsInv, Untouched
<1>6. /\ drive' \in [Pos -> DriveState]
      /\ \A p \in Pos : p # here => drive'[p] = drive[p]
      /\ IF Present(here) THEN drive'[here].phase = "accepted" /\ drive'[here].cmd = "IDENTIFY"
                         ELSE drive' = drive
  BY <1>1, <1>2, <1>3, <1>5, Issued
<1>7. TypeOK'
  BY <1>1, <1>2, <1>4, <1>6 DEF TypeOK, BusTypeOK
<1>8. PlaceInv'
  BY <1>1, <1>2, <1>4 DEF PlaceInv, AfterSelect
<1>9. Sound(here)' /\ ~Untouched(here)'
  <2>1. ~Untouched(here)'
    BY <1>1, <1>3, <1>4, Positions DEF Untouched, Order
  <2>2. QED BY <1>2, <1>3, <1>4, <1>5, <1>6, <2>1 DEF Sound, Present, Own, OwnCommand
<1>10. PositionsInv'
  BY <1>1, <1>2, <1>4, <1>6, <1>9, PositionsStay
<1>11. Together'
  BY <1>1, <1>3, <1>4, <1>6 DEF Together, Identifying
<1>12. QED BY <1>4, <1>7, <1>8, <1>10, <1>11 DEF IInv

\* What the status register tells of the drive it is read from.
LEMMA StatusOf ==
    ASSUME TypeOK, here \in Pos, Selected(channel) = here
    PROVE  /\ Status(channel) = {} <=> kind[here] = "none"
           /\ "BSY" \notin Status(channel) <=>
                kind[here] = "none" \/ (Present(here) /\ drive[here].phase # "busy")
<1>1. /\ kind[here] \in {"none", "ata", "atapi", "floating"}
      /\ drive[here].fault \in SUBSET {"ERR", "DF"}
  BY DEF TypeOK, BusTypeOK, DriveState
<1>2. QED BY <1>1 DEF Status, Present, AllBits

\* A position is skipped without an entry if no drive is there, or a stale one.
LEMMA Skips ==
    ASSUME TypeOK, PlaceInv, PositionsInv, EntriesInv, pc \in {"wait1ms", "signature"}, NextDrive,
           UNCHANGED <<bus, listing, identify_buffer, nIEN>>,
           type' \in {"ATA", "ATAPI"}, cl' \in Byte, ch' \in Byte, n' \in 0 .. SectorWords,
           Settled(here), Present(here) => Stale(here)
    PROVE  IInv'
<1>1. UNCHANGED <<kind, selected, regs, drive, disk, dirty, ide_devices, device_count, identify_buffer, nIEN>>
  BY DEF bus, listing
<1>2. /\ pc' \in {"slot", "done"} /\ here' \in Pos
      /\ Turn' \in Nat /\ Turn < Turn' /\ Turn \in 0 .. 3
      /\ \A p \in Pos : Tried(p) => Tried(p)'
  BY Advance, Current
<1>3. EntriesInv' /\ \A p \in Pos : Has(p)' <=> Has(p)
  BY <1>1, <1>2, EntriesStay
<1>4. PositionsInv' /\ Together'
  BY <1>1, <1>3, Moves
<1>5. TypeOK'
  BY <1>1, <1>2, Zenon DEF TypeOK, BusTypeOK
<1>6. PlaceInv'
  <2>1. device_count' \in 0 .. Turn'
    <3>1. device_count \in 0 .. Turn
      BY DEF PlaceInv
    <3>2. QED BY <1>1, <1>2, <3>1
  <2>2. QED BY <1>1, <1>2, <2>1 DEF PlaceInv, AfterSelect
<1>7. QED BY <1>3, <1>4, <1>5, <1>6 DEF IInv

\* A step that looks at the drive and goes on within the loop body.
LEMMA Looks ==
    ASSUME TypeOK, PlaceInv, PositionsInv, EntriesInv,
           pc \in AfterSelect \ {"identify"}, pc' \in AfterSelect \ {"identify"},
           UNCHANGED <<bus, loop, listing, identify_buffer, nIEN>>,
           type' \in {"ATA", "ATAPI"}, cl' \in Byte, ch' \in Byte, n' \in 0 .. SectorWords,
           pc' \in {"wait1ms", "poll", "signature"} => type' = "ATA",
           pc' \in {"packet", "packetWait"} => n' = 0
    PROVE  /\ TypeOK' /\ PlaceInv' /\ PositionsInv' /\ EntriesInv' /\ here' = here
           /\ UNCHANGED <<kind, selected, regs, drive, disk, dirty>>
           /\ Own(here)' = Own(here)
<1>1. UNCHANGED <<kind, selected, regs, drive, disk, dirty>> /\ pc \notin {"init", "done"} /\ pc' \notin {"init", "done"}
  BY DEF bus, AfterSelect
<1>2. /\ EntriesInv' /\ Turn' = Turn /\ here' = here
      /\ UNCHANGED <<channel, number, ide_devices, device_count>>
      /\ \A p \in Pos : (Has(p)' <=> Has(p)) /\ Own(p)' = Own(p) /\ (Present(p)' <=> Present(p))
  BY <1>1, Within
<1>3. here \in Pos /\ Turn = Order(here)
  BY <1>1, Current
<1>4. TypeOK'
  BY <1>1, <1>2, Zenon DEF TypeOK, BusTypeOK, AfterSelect
<1>5. PlaceInv'
  BY <1>1, <1>2 DEF PlaceInv, AfterSelect
<1>6. Sound(here)' /\ ~Untouched(here)'
  <2>1. ~Untouched(here)'
    BY <1>2, <1>3, Positions DEF Untouched, Order, AfterSelect
  <2>2. Sound(here)
    BY <1>3 DEF PositionsInv
  <2>3. QED BY <1>1, <1>2, <2>1, <2>2 DEF Sound, Present, Own, OwnCommand
<1>7. PositionsInv'
  BY <1>1, <1>2, <1>6, PositionsStay
<1>8. Own(here)' = Own(here)
  BY <1>1, <1>2 DEF Own, OwnCommand
<1>9. QED BY <1>1, <1>2, <1>4, <1>5, <1>7, <1>8

\* A position is skipped if the status register reads as zero: nothing is there.
LEMMA CheckPresenceKeeps == ASSUME IInv, CheckPresence PROVE IInv'
<1>1. /\ TypeOK /\ PlaceInv /\ PositionsInv /\ Together /\ EntriesInv /\ pc = "wait1ms"
      /\ UNCHANGED <<bus, type, cl, ch, identify_buffer, n, listing, nIEN, stray>>
  BY DEF IInv, CheckPresence, locals
<1>2. here \in Pos /\ Selected(channel) = here /\ Sound(here)
  BY <1>1, Current DEF AfterSelect, PositionsInv
<1>3. drive[here].phase # "accepted"
  BY <1>2 DEF CheckPresence
<1>4. /\ type \in {"ATA", "ATAPI"} /\ cl \in Byte /\ ch \in Byte /\ n \in 0 .. SectorWords /\ type = "ATA"
  BY <1>1 DEF TypeOK, PlaceInv
<1>5. CASE Status(channel) = {}
  <2>1. kind[here] = "none" /\ NextDrive
    BY <1>1, <1>2, <1>5, StatusOf DEF CheckPresence
  <2>2. Settled(here) /\ ~Present(here)
    BY <1>2, <2>1 DEF Sound, Present, Settled
  <2>3. QED BY <1>1, <1>4, <2>1, <2>2, Skips
<1>6. CASE Status(channel) # {}
  <2>1. kind[here] # "none" /\ pc' = "poll" /\ UNCHANGED loop
    BY <1>1, <1>2, <1>6, StatusOf DEF CheckPresence
  <2>2. /\ TypeOK' /\ PlaceInv' /\ PositionsInv' /\ EntriesInv' /\ here' = here
        /\ UNCHANGED <<kind, selected, regs, drive, disk, dirty>>
    BY <1>1, <1>4, <2>1, Looks DEF AfterSelect
  <2>3. Together'
    BY <1>1, <1>3, <2>1, <2>2 DEF Together, Identifying, Present, Fails
  <2>4. QED BY <2>2, <2>3 DEF IInv
<1>7. QED BY <1>5, <1>6

\* The poll ends when the drive is not busy any more.
LEMMA PollKeeps == ASSUME IInv, Poll PROVE IInv'
<1>1. /\ TypeOK /\ PlaceInv /\ PositionsInv /\ Together /\ EntriesInv /\ pc = "poll" /\ pc' = "signature"
      /\ UNCHANGED <<bus, loop, type, cl, ch, identify_buffer, n, listing, nIEN, stray>>
  BY DEF IInv, Poll, locals
<1>2. here \in Pos /\ Selected(channel) = here
  BY <1>1, Current DEF AfterSelect
<1>3. kind[here] # "none" /\ drive[here].phase # "accepted"
  BY <1>1 DEF Together
<1>4. Present(here) /\ drive[here].phase # "busy"
  BY <1>1, <1>2, <1>3, StatusOf DEF Poll
<1>5. /\ type \in {"ATA", "ATAPI"} /\ cl \in Byte /\ ch \in Byte /\ n \in 0 .. SectorWords /\ type = "ATA"
  BY <1>1 DEF TypeOK, PlaceInv
<1>6. /\ TypeOK' /\ PlaceInv' /\ PositionsInv' /\ EntriesInv' /\ here' = here
      /\ UNCHANGED <<kind, selected, regs, drive, disk, dirty>>
  BY <1>1, <1>5, Looks DEF AfterSelect
<1>7. Together'
  BY <1>1, <1>3, <1>4, <1>6 DEF Together, Identifying, Present, Fails
<1>8. QED BY <1>6, <1>7 DEF IInv

\* The registers tell a disk from a packet drive.
LEMMA ReadSignatureKeeps == ASSUME IInv, Unsigned, ReadSignature PROVE IInv'
<1>1. /\ TypeOK /\ PlaceInv /\ PositionsInv /\ Together /\ EntriesInv /\ pc = "signature"
      /\ UNCHANGED <<bus, identify_buffer, listing, nIEN, stray>>
  BY DEF IInv, ReadSignature
<1>2. here \in Pos /\ Selected(channel) = here /\ Sound(here)
  BY <1>1, Current DEF AfterSelect, PositionsInv
<1>3. cl' = regs[here].lba1 /\ ch' = regs[here].lba2 /\ n' = 0
  BY <1>2 DEF ReadSignature
<1>4. cl' \in Byte /\ ch' \in Byte /\ n' \in 0 .. SectorWords
  <2>1. regs[here] \in TaskFile
    BY <1>1, <1>2 DEF TypeOK, BusTypeOK
  <2>2. QED BY <1>3, <2>1, Params DEF TaskFile
<1>5. /\ Present(here) /\ Identifying(here) /\ drive[here].phase \notin {"accepted", "busy"} /\ type = "ATA"
  BY <1>1 DEF Together, PlaceInv
<1>6. IsPacketSignature(cl', ch') <=> kind[here] = "atapi"
  <2>1. CASE kind[here] = "atapi"
    <3>1. cl' = 20 /\ ch' = 235
      BY <1>3, <1>5, <2>1 DEF Identifying
    <3>2. QED BY <2>1, <3>1 DEF IsPacketSignature
  <2>2. CASE kind[here] = "ata"
    <3>1. <<cl', ch'>> \in Leftover
      BY <1>2, <1>3, <2>2 DEF Sound
    <3>2. <<cl', ch'>>[1] = cl' /\ <<cl', ch'>>[2] = ch'
      OBVIOUS
    <3>3. ~IsPacketSignature(cl', ch')
      BY <3>1, <3>2 DEF Unsigned
    <3>4. QED BY <2>2, <3>3
  <2>3. QED BY <1>5, <2>1, <2>2 DEF Present
<1>7. CASE kind[here] = "atapi"
  <2>1. type' = "ATAPI" /\ pc' = "packet" /\ UNCHANGED loop
    BY <1>6, <1>7 DEF ReadSignature
  <2>2. /\ TypeOK' /\ PlaceInv' /\ PositionsInv' /\ EntriesInv' /\ here' = here
        /\ UNCHANGED <<kind, selected, regs, drive, disk, dirty>>
    BY <1>1, <1>3, <1>4, <2>1, Looks DEF AfterSelect
  <2>3. Together'
    BY <1>1, <1>5, <1>7, <2>1, <2>2 DEF Together, Identifying
  <2>4. QED BY <2>2, <2>3 DEF IInv
<1>8. CASE kind[here] = "ata" /\ (cl' # 0 \/ ch' # 0)
  <2>1. type' = type /\ NextDrive
    BY <1>6, <1>8 DEF ReadSignature
  <2>2. Stale(here)
    BY <1>3, <1>8 DEF Stale
  <2>3. QED BY <1>1, <1>4, <1>5, <2>1, <2>2, Skips DEF Settled
<1>9. CASE kind[here] = "ata" /\ ~(cl' # 0 \/ ch' # 0)
  <2>1. type' = type /\ pc' = "read" /\ UNCHANGED loop
    BY <1>6, <1>9 DEF ReadSignature
  <2>2. /\ TypeOK' /\ PlaceInv' /\ PositionsInv' /\ EntriesInv' /\ here' = here
        /\ UNCHANGED <<kind, selected, regs, drive, disk, dirty>>
    BY <1>1, <1>4, <1>5, <2>1, Looks DEF AfterSelect
  <2>3. Reading(here)'
    <3>1. \A w \in Word : ~(w < 0)
      BY Params DEF Word
    <3>2. 0 < SectorWords /\ SectorWords - 0 = SectorWords
      BY Params
    <3>3. (drive[here].phase = "dataIn" /\ drive[here].left = SectorWords)
            \/ (drive[here].phase = "idle" /\ Fails(here))
      BY <1>5, <1>9 DEF Identifying
    <3>4. QED BY <1>3, <2>2, <3>1, <3>2, <3>3 DEF Reading, Fails
  <2>4. Together'
    BY <1>5, <1>9, <2>1, <2>2, <2>3 DEF Together, Present
  <2>5. QED BY <2>2, <2>4 DEF IInv
<1>10. QED BY <1>5, <1>7, <1>8, <1>9 DEF Present

\* IDENTIFY PACKET goes to the packet drive that aborted IDENTIFY.
LEMMA SendIdentifyPacketKeeps == ASSUME IInv, SendIdentifyPacket PROVE IInv'
<1>1. TypeOK /\ PlaceInv /\ PositionsInv /\ Together /\ EntriesInv /\ pc = "packet" /\ pc' = "packetWait"
  BY DEF IInv, SendIdentifyPacket
<1>2. /\ UNCHANGED <<kind, selected, regs, disk, dirty, loop, listing, type, cl, ch, identify_buffer, n,
                     nIEN, stray>>
      /\ IssueCommand(channel, "IDENTIFY_PACKET")
  BY DEF SendIdentifyPacket, locals
<1>3. here \in Pos /\ Turn = Order(here) /\ Selected(channel) = here
  BY <1>1, Current DEF AfterSelect
<1>4. /\ EntriesInv' /\ Turn' = Turn /\ here' = here
      /\ UNCHANGED <<channel, number, ide_devices, device_count>>
      /\ \A p \in Pos : (Has(p)' <=> Has(p)) /\ Own(p)' = Own(p) /\ (Present(p)' <=> Present(p))
  BY <1>1, <1>2, Within
<1>5. Sound(here) /\ drive[here].phase = "idle" /\ kind[here] = "atapi" /\ Present(here)
  BY <1>1, <1>3 DEF PositionsInv, Together, Present
<1>6. /\ drive' \in [Pos -> DriveState]
      /\ \A p \in Pos : p # here => drive'[p] = drive[p]
      /\ drive'[here].phase = "accepted" /\ drive'[here].cmd = "IDENTIFY_PACKET"
  BY <1>1, <1>2, <1>3, <1>5, Issued
<1>7. TypeOK'
  BY <1>1, <1>2, <1>4, <1>6 DEF TypeOK, BusTypeOK
<1>8. PlaceInv'
  BY <1>1, <1>2, <1>4 DEF PlaceInv, AfterSelect
<1>9. Sound(here)' /\ ~Untouched(here)'
  <2>1. ~Untouched(here)'
    BY <1>1, <1>3, <1>4, Positions DEF Untouched, Order
  <2>2. QED BY <1>2, <1>3, <1>4, <1>5, <1>6, <2>1 DEF Sound, Present, Own, OwnCommand
<1>10. PositionsInv'
  BY <1>1, <1>2, <1>4, <1>6, <1>9, PositionsStay
<1>11. Together'
  BY <1>1, <1>2, <1>3, <1>4, <1>5, <1>6 DEF Together, Packing
<1>12. QED BY <1>4, <1>7, <1>8, <1>10, <1>11 DEF IInv

\* After the wait the drive offers its words, has failed, or is late.
LEMMA WaitPacketKeeps == ASSUME IInv, WaitPacket PROVE IInv'
<1>1. /\ TypeOK /\ PlaceInv /\ PositionsInv /\ Together /\ EntriesInv /\ pc = "packetWait" /\ pc' = "read"
      /\ UNCHANGED <<bus, loop, type, cl, ch, identify_buffer, n, listing, nIEN, stray>>
  BY DEF IInv, WaitPacket, locals
<1>2. here \in Pos /\ Selected(channel) = here
  BY <1>1, Current DEF AfterSelect
<1>3. /\ type \in {"ATA", "ATAPI"} /\ cl \in Byte /\ ch \in Byte /\ n \in 0 .. SectorWords /\ n = 0
      /\ kind[here] = "atapi" /\ Packing(here)
  BY <1>1 DEF TypeOK, PlaceInv, Together
<1>4. drive[here].phase # "accepted" /\ (drive[here].phase = "busy" => Late(here))
  BY <1>2, <1>3 DEF WaitPacket, Late
<1>5. /\ TypeOK' /\ PlaceInv' /\ PositionsInv' /\ EntriesInv' /\ here' = here
      /\ UNCHANGED <<kind, selected, regs, drive, disk, dirty>>
  BY <1>1, <1>3, Looks DEF AfterSelect
<1>6. Reading(here)'
  <2>1. \A w \in Word : ~(w < 0)
    BY Params DEF Word
  <2>2. 0 < SectorWords /\ SectorWords - 0 = SectorWords
    BY Params
  <2>3. \/ drive[here].phase = "dataIn" /\ drive[here].left = SectorWords
        \/ drive[here].phase = "idle" /\ Fails(here)
        \/ Late(here) /\ drive[here].phase # "dataIn"
    BY <1>3, <1>4 DEF Packing
  <2>4. QED BY <1>1, <1>3, <1>5, <2>1, <2>2, <2>3 DEF Reading, Fails, Late
<1>7. Together'
  BY <1>1, <1>3, <1>5, <1>6 DEF Together, Present
<1>8. QED BY <1>5, <1>7 DEF IInv

\* What a read of the data port returns, and what it does to the drive.
LEMMA PortRead ==
    ASSUME TypeOK, here \in Pos, Selected(channel) = here, Sound(here), ReadDataPort(channel)
    PROVE  /\ drive' \in [Pos -> DriveState]
           /\ \A p \in Pos : p # here => drive'[p] = drive[p]
           /\ DataWord(channel) \in Words
           /\ \/ drive[here].phase # "dataIn" /\ drive' = drive /\ DataWord(channel) = Junk
              \/ /\ drive[here].phase = "dataIn"
                 /\ SectorWords - drive[here].left \in Word
                 /\ DataWord(channel) = Own(here)[SectorWords - drive[here].left]
                 /\ \/ drive[here].left = 1 /\ drive'[here].phase = "idle"
                    \/ /\ drive[here].left > 1 /\ drive'[here].phase = "dataIn"
                       /\ drive'[here].left = drive[here].left - 1
                       /\ drive'[here].buf = drive[here].buf /\ drive'[here].cmd = drive[here].cmd
<1>1. drive \in [Pos -> DriveState] /\ drive[here] \in DriveState
  BY DEF TypeOK, BusTypeOK
<1>2. CASE drive[here].phase # "dataIn"
  BY <1>1, <1>2, OwnWords DEF ReadDataPort, DataWord
<1>3. CASE drive[here].phase = "dataIn"
  <2>1. drive[here].buf = Own(here) /\ drive[here].left \in 1 .. SectorWords
    BY <1>3 DEF Sound
  <2>2. SectorWords - drive[here].left \in Word
    BY <2>1, Params DEF Word
  <2>3. DataWord(channel) = Own(here)[SectorWords - drive[here].left]
    BY <1>3, <2>1 DEF DataWord
  <2>4. DataWord(channel) \in Words
    BY <2>2, <2>3, OwnWords
  <2>5. CASE drive[here].left = 1
    <3> DEFINE e == [IdleDrive EXCEPT !.fault = drive[here].fault]
    <3>1. e \in DriveState /\ e.phase = "idle"
      BY <1>1, BusAssumption DEF IdleDrive, DriveState, JunkBlock, Content
    <3>2. drive' = [drive EXCEPT ![here] = e]
      BY <1>3, <2>5 DEF ReadDataPort
    <3> HIDE DEF e
    <3>3. drive' \in [Pos -> DriveState] /\ drive'[here] = e /\ \A p \in Pos : p # here => drive'[p] = drive[p]
      BY <1>1, <3>1, <3>2
    <3>4. QED BY <1>3, <2>2, <2>3, <2>4, <2>5, <3>1, <3>3
  <2>6. CASE drive[here].left # 1
    <3>1. drive[here].left > 1 /\ drive[here].left - 1 \in 0 .. SectorWords
      BY <2>1, <2>6, Params
    <3> DEFINE m == drive[here].left - 1
               e == [drive[here] EXCEPT !.left = m]
    <3>2. drive' = [drive EXCEPT ![here] = e]
      BY <1>3, <2>6 DEF ReadDataPort
    <3>3. /\ e \in DriveState /\ e.phase = drive[here].phase /\ e.left = m
          /\ e.buf = drive[here].buf /\ e.cmd = drive[here].cmd
      <4> HIDE DEF m
      <4>1. m \in 0 .. SectorWords
        BY <3>1 DEF m
      <4>2. QED BY <1>1, <4>1 DEF DriveState
    <3> HIDE DEF e
    <3>4. drive' \in [Pos -> DriveState] /\ drive'[here] = e /\ \A p \in Pos : p # here => drive'[p] = drive[p]
      BY <1>1, <3>2, <3>3
    <3>5. QED BY <1>3, <2>2, <2>3, <2>4, <3>1, <3>3, <3>4
  <2>7. QED BY <2>5, <2>6
<1>4. QED BY <1>2, <1>3

\* Reading a word keeps the buffer in step with the drive.
LEMMA ReadIdentifyWordKeeps == ASSUME IInv, ReadIdentifyWord PROVE IInv'
<1>1. /\ TypeOK /\ PlaceInv /\ PositionsInv /\ Together /\ EntriesInv /\ pc = "read" /\ pc' = "read"
      /\ UNCHANGED <<kind, selected, regs, disk, dirty, loop, type, cl, ch, listing, nIEN, stray>>
      /\ n' = n + 1 /\ n \in 0 .. SectorWords /\ n < SectorWords
      /\ identify_buffer' = [identify_buffer EXCEPT ![n] = DataWord(channel)]
      /\ ReadDataPort(channel)
  BY DEF IInv, ReadIdentifyWord, TypeOK
<1>2. here \in Pos /\ Selected(channel) = here /\ Turn = Order(here) /\ Sound(here)
  BY <1>1, Current DEF AfterSelect, PositionsInv
<1>3. /\ EntriesInv' /\ Turn' = Turn /\ here' = here
      /\ UNCHANGED <<channel, number, ide_devices, device_count>>
      /\ \A p \in Pos : /\ (Has(p)' <=> Has(p)) /\ Own(p)' = Own(p) /\ (Present(p)' <=> Present(p))
                        /\ (Late(p)' <=> Late(p))
  BY <1>1, Within
<1>4. /\ drive' \in [Pos -> DriveState]
      /\ \A p \in Pos : p # here => drive'[p] = drive[p]
      /\ DataWord(channel) \in Words
      /\ \/ drive[here].phase # "dataIn" /\ drive' = drive /\ DataWord(channel) = Junk
         \/ /\ drive[here].phase = "dataIn"
            /\ SectorWords - drive[here].left \in Word
            /\ DataWord(channel) = Own(here)[SectorWords - drive[here].left]
            /\ \/ drive[here].left = 1 /\ drive'[here].phase = "idle"
               \/ /\ drive[here].left > 1 /\ drive'[here].phase = "dataIn"
                  /\ drive'[here].left = drive[here].left - 1
                  /\ drive'[here].buf = drive[here].buf /\ drive'[here].cmd = drive[here].cmd
  BY <1>1, <1>2, PortRead
<1>5. n \in Word /\ n' \in 0 .. SectorWords /\ n' = n + 1
  BY <1>1, Params DEF Word
<1>6. /\ identify_buffer' \in [Word -> Words] /\ identify_buffer' \in [Word -> Content]
      /\ identify_buffer'[n] = DataWord(channel)
      /\ \A w \in Word : w < n => identify_buffer'[w] = identify_buffer[w]
  <2>1. identify_buffer \in [Word -> Words] /\ Words \subseteq Content
    BY <1>1, <1>2, OwnWords DEF PlaceInv
  <2>2. \A w \in Word : w < n => w # n
    BY <1>5 DEF Word
  <2> DEFINE word == DataWord(channel)
  <2>3. word \in Words /\ identify_buffer' = [identify_buffer EXCEPT ![n] = word]
    BY <1>1, <1>4
  <2> HIDE DEF word
  <2>4. identify_buffer' \in [Word -> Words] /\ identify_buffer'[n] = word
    BY <1>5, <2>1, <2>3
  <2>5. QED BY <1>5, <2>1, <2>2, <2>3, <2>4 DEF word
<1>7. TypeOK'
  BY <1>1, <1>3, <1>4, <1>5, <1>6, Zenon DEF TypeOK, BusTypeOK
<1>8. PlaceInv'
  BY <1>1, <1>3, <1>6 DEF PlaceInv, AfterSelect
<1>9. Sound(here)' /\ ~Untouched(here)'
  <2>1. ~Untouched(here)'
    BY <1>1, <1>2, <1>3, Positions DEF Untouched, Order
  <2>2. drive[here].phase = "dataIn" => drive[here].left \in 1 .. SectorWords
    BY <1>2 DEF Sound
  <2>3. drive[here].left > 1 /\ drive[here].left \in 1 .. SectorWords
          => drive[here].left - 1 \in 1 .. SectorWords
    BY Params
  <2>4. QED BY <1>1, <1>2, <1>3, <1>4, <2>1, <2>2, <2>3 DEF Sound, Present
<1>10. PositionsInv'
  BY <1>1, <1>3, <1>4, <1>9, PositionsStay
<1>11. Present(here) /\ Reading(here)
  BY <1>1 DEF Together
<1>12. Reading(here)'
  <2>1. \A w \in Word : w < n' <=> w < n \/ w = n
    BY <1>5 DEF Word
  <2>2. CASE /\ drive[here].phase = "dataIn" /\ drive[here].left = SectorWords - n
             /\ \A w \in Word : w < n => identify_buffer[w] = Own(here)[w]
    <3>1. SectorWords - drive[here].left = n
      BY <1>1, <2>2, Params
    <3>2. \A w \in Word : w < n' => identify_buffer'[w] = Own(here)[w]
      BY <1>4, <1>6, <2>1, <2>2, <3>1
    <3>3. CASE drive[here].left = 1
      <4>1. n' = SectorWords /\ drive'[here].phase = "idle"
        BY <1>1, <1>4, <2>2, <3>3, Params
      <4>2. \A w \in Word : w < n'
        BY <4>1, Params DEF Word
      <4>3. QED BY <1>3, <1>2, <3>2, <4>1, <4>2 DEF Reading
    <3>4. CASE drive[here].left # 1
      <4>1. /\ n' < SectorWords /\ drive'[here].phase = "dataIn"
            /\ drive'[here].left = SectorWords - n'
        BY <1>1, <1>4, <2>2, <3>4, Params
      <4>2. QED BY <1>2, <1>3, <3>2, <4>1 DEF Reading
    <3>5. QED BY <3>3, <3>4
  <2>3. CASE /\ Fails(here) /\ drive[here].phase = "idle"
             /\ \A w \in Word : w < n => identify_buffer[w] = Junk
    <3>1. \A w \in Word : w < n' => identify_buffer'[w] = Junk
      BY <1>4, <1>6, <2>1, <2>3
    <3>2. drive'[here].phase = "idle"
      BY <1>4, <2>3
    <3>3. QED BY <1>3, <2>3, <3>1, <3>2 DEF Reading, Fails
  <2>4. CASE /\ Late(here)
             /\ drive[here].phase = "dataIn" => SectorWords - drive[here].left <= n
             /\ \A w \in Word : w < n =>
                  identify_buffer[w] \in {Junk} \cup {Own(here)[v] : v \in 0 .. w}
    <3>1. DataWord(channel) \in {Junk} \cup {Own(here)[v] : v \in 0 .. n}
      <4>1. drive[here].phase = "dataIn" => SectorWords - drive[here].left \in 0 .. n
        BY <1>4, <2>4, Params DEF Word
      <4>2. QED BY <1>4, <4>1, Zenon
    <3>2. \A w \in Word : w < n' =>
            identify_buffer'[w] \in {Junk} \cup {Own(here)[v] : v \in 0 .. w}
      BY <1>6, <2>1, <2>4, <3>1, Zenon
    <3>3. drive'[here].phase = "dataIn" => SectorWords - drive'[here].left <= n'
      <4>1. drive[here].phase = "dataIn" => drive[here].left \in 1 .. SectorWords
        BY <1>2 DEF Sound
      <4>2. CASE drive[here].phase = "dataIn" /\ drive[here].left > 1
        <5>1. drive'[here].left = drive[here].left - 1
          BY <1>4, <4>2
        <5>2. SectorWords - drive[here].left <= n
          BY <2>4, <4>2
        <5>3. n \in Nat /\ n' = n + 1 /\ drive[here].left \in Nat
          BY <1>1, <4>1, <4>2
        <5>4. QED BY <5>1, <5>2, <5>3, Params
      <4>3. CASE ~(drive[here].phase = "dataIn" /\ drive[here].left > 1)
        BY <1>4, <4>3
      <4>4. QED BY <4>2, <4>3
    <3>4. Late(here)' /\ Own(here)' = Own(here) /\ here' = here
      BY <1>1, <1>2, <1>3, <2>4 DEF Late, Own, OwnCommand
    <3>5. QED BY <3>2, <3>3, <3>4 DEF Reading
  <2>5. QED BY <1>1, <1>11, <2>2, <2>3, <2>4 DEF Reading
<1>13. Together'
  BY <1>1, <1>2, <1>3, <1>11, <1>12 DEF Together
<1>14. QED BY <1>3, <1>7, <1>8, <1>10, <1>13 DEF IInv

\* The entry is filled from the words of the drive it names.
LEMMA FillSlotKeeps == ASSUME IInv, FillSlot PROVE IInv'
<1> DEFINE e == [ide_devices[device_count] EXCEPT
                   !.type = type, !.info = identify_buffer, !.size = SizeOf(identify_buffer),
                   !.model = ide_string_copy(identify_buffer)]
           Entry == [channel : Channels, drive : Drives,
                     type : {"ATA", "ATAPI"}, info : [Word -> Content],
                     size : Content \cup {Zero},
                     model : Seq({"ff", "NUL"} \cup UNION {Range(NameOf[p]) : p \in Pos})]
<1>1. /\ TypeOK /\ PlaceInv /\ PositionsInv /\ Together /\ EntriesInv /\ pc = "read"
      /\ UNCHANGED <<kind, selected, regs, drive, disk, dirty, type, cl, ch, identify_buffer, n, nIEN, stray>>
      /\ n = SectorWords /\ NextDrive /\ device_count' = device_count + 1
      /\ ide_devices' = [ide_devices EXCEPT ![device_count].type = type,
                                            ![device_count].info = identify_buffer,
                                            ![device_count].size = SizeOf(identify_buffer),
                                            ![device_count].model = ide_string_copy(identify_buffer)]
  BY DEF IInv, FillSlot, bus, locals
<1>2. /\ here \in Pos /\ Turn = Order(here) /\ Turn \in 0 .. 3 /\ device_count \in Slots
      /\ Present(here) /\ Reading(here) /\ Sound(here)
      /\ kind[here] = (IF type = "ATA" THEN "ata" ELSE "atapi")
  BY <1>1, Current DEF Together, PositionsInv
<1>3. /\ pc' \in {"slot", "done"} /\ here' \in Pos /\ Turn' \in Nat /\ Turn < Turn'
      /\ \A p \in Pos : Tried(p)' <=> Tried(p) \/ p = here
  BY <1>1, Advance
<1>4. ide_devices \in [Slots -> Entry] /\ ide_devices[device_count] \in Entry
  BY <1>1, <1>2 DEF TypeOK
<1>5. /\ e \in Entry /\ e.channel = channel /\ e.drive = number /\ e.type = type
      /\ e.info = identify_buffer /\ e.model = ide_string_copy(identify_buffer)
  <2> DEFINE Models == Seq({"ff", "NUL"} \cup UNION {Range(NameOf[p]) : p \in Pos})
             model == ide_string_copy(identify_buffer)
             size == SizeOf(identify_buffer)
  <2>1. model \in Models
    BY <1>1, CopyType DEF PlaceInv
  <2>2. size \in Content \cup {Zero} /\ identify_buffer \in [Word -> Content] /\ type \in {"ATA", "ATAPI"}
    <3>1. identify_buffer \in [Word -> Content] /\ type \in {"ATA", "ATAPI"}
      BY <1>1 DEF TypeOK
    <3>2. SectorWords - 1 \in Word
      BY Params DEF Word
    <3>3. CapacityWord(identify_buffer) \in Content
      BY <3>1, <3>2 DEF CapacityWord
    <3>4. QED BY <3>1, <3>3, Zenon DEF SizeOf
  <2>3. ide_devices[device_count].channel = channel /\ ide_devices[device_count].drive = number
    BY <1>1 DEF PlaceInv, AfterSelect
  <2> HIDE DEF Models, model, size
  <2>4. ide_devices[device_count] \in [channel : Channels, drive : Drives,
                     type : {"ATA", "ATAPI"}, info : [Word -> Content],
                     size : Content \cup {Zero}, model : Models]
    BY <1>4, Zenon DEF Models
  <2>5. QED BY <2>1, <2>2, <2>3, <2>4 DEF Models, model, size
<1>6. ide_devices' = [ide_devices EXCEPT ![device_count] = e]
  BY <1>1, <1>2, <1>4
<1> HIDE DEF e, Entry
<1>7. /\ ide_devices' \in [Slots -> Entry] /\ ide_devices'[device_count] = e
      /\ \A s \in 0 .. device_count - 1 : ide_devices'[s] = ide_devices[s]
  <2>1. ide_devices' \in [Slots -> Entry] /\ ide_devices'[device_count] = e
    BY <1>2, <1>4, <1>5, <1>6
  <2>2. \A s \in 0 .. device_count - 1 : s \in Slots /\ s # device_count
    BY <1>2 DEF Slots
  <2>3. QED BY <1>4, <1>6, <2>1, <2>2
<1>8. PosOf(e) = here /\ Rank(e) = Turn /\ KindOf(e) = kind[here]
  BY <1>2, <1>5 DEF PosOf, Rank, KindOf, here, Order
<1>9. device_count \in Nat /\ device_count \in 0 .. 3 /\ device_count \in 0 .. Turn
  BY <1>1, <1>2 DEF PlaceInv, Slots
<1>10. TypeOK'
  <2>1. device_count' \in 0 .. 4
    BY <1>1, <1>9
  <2>2. QED BY <1>1, <1>3, <1>7, <2>1, Zenon DEF TypeOK, BusTypeOK, Entry
<1>11. PlaceInv'
  <2>1. device_count' \in 0 .. Turn'
    BY <1>1, <1>2, <1>3, <1>9
  <2>2. QED BY <1>1, <1>3, <2>1 DEF PlaceInv, AfterSelect
<1>12. \A p \in Pos : Own(p)' = Own(p) /\ (Late(p)' <=> Late(p))
  BY <1>1 DEF Own, OwnCommand, Late
<1>13. PICK d \in Slots, q \in Pos : d = device_count /\ q = here
  BY <1>2
<1>14. /\ PosOf(ide_devices[d])' = q /\ Rank(ide_devices[d])' = Turn /\ KindOf(ide_devices[d])' = kind[q]
       /\ ide_devices'[d].info = identify_buffer /\ ide_devices'[d].model = ide_string_copy(identify_buffer)
  BY <1>5, <1>7, <1>8, <1>13 DEF PosOf, Rank, KindOf
<1>15. /\ drive[q].phase = "idle" \/ Late(q)
       /\ \/ identify_buffer = Own(q) /\ Shown(ide_string_copy(identify_buffer)) = Unpadded(NameOf[q])
          \/ Fails(q) /\ identify_buffer = JunkBlock
          \/ Late(q) /\ \A w \in Word : identify_buffer[w] \in {Junk} \cup {Own(q)[v] : v \in 0 .. w}
  <2>1. identify_buffer \in [Word -> Words] /\ Own(q) \in [Word -> Words] /\ JunkBlock \in [Word -> {Junk}]
    BY <1>1, OwnWords DEF PlaceInv, JunkBlock
  <2>2. \A w \in Word : w < n
    BY <1>1, Params DEF Word
  <2>3. ~(n < SectorWords)
    BY <1>1, Params
  <2>4. CASE drive[q].phase = "idle" /\ \A w \in Word : identify_buffer[w] = Own(q)[w]
    <3>1. identify_buffer = Own(q)
      BY <2>1, <2>4
    <3>2. QED BY <2>4, <3>1, OwnName
  <2>5. CASE Fails(q) /\ drive[q].phase = "idle" /\ \A w \in Word : identify_buffer[w] = Junk
    <3>1. identify_buffer = JunkBlock
      BY <2>1, <2>5 DEF JunkBlock
    <3>2. QED BY <2>5, <3>1
  <2>6. CASE Late(q) /\ \A w \in Word : identify_buffer[w] \in {Junk} \cup {Own(q)[v] : v \in 0 .. w}
    BY <2>6
  <2>7. QED BY <1>2, <1>13, <2>2, <2>3, <2>4, <2>5, <2>6 DEF Reading
<1>16. Truthful(ide_devices[d])'
  <2>1. Tried(q)' /\ kind' = kind
    BY <1>1, <1>3, <1>13
  <2>2. PosOf(ide_devices'[d]) = q /\ KindOf(ide_devices'[d]) = kind'[q]
    BY <1>14, <2>1 DEF PosOf, KindOf
  <2>3. \/ ide_devices'[d].info = Own(q)' /\ Shown(ide_devices'[d].model) = Unpadded(NameOf[q])
        \/ Fails(q) /\ ide_devices'[d].info = JunkBlock
        \/ Late(q)' /\ \A w \in Word : ide_devices'[d].info[w] \in {Junk} \cup {Own(q)'[v] : v \in 0 .. w}
    BY <1>12, <1>14, <1>15, Zenon
  <2>4. QED BY <2>1, <2>2, <2>3, Zenon DEF Truthful, PosOf, KindOf, Fails
<1>17. EntriesInv'
  <2>1. \A s \in 0 .. device_count' - 1 : s \in 0 .. device_count - 1 \/ s = d
    BY <1>1, <1>9, <1>13
  <2>2. ASSUME NEW s \in 0 .. device_count - 1
        PROVE  Truthful(ide_devices[s])' /\ ide_devices'[s] = ide_devices[s] /\ Rank(ide_devices[s]) < Turn
    <3>1. Truthful(ide_devices[s]) /\ ide_devices'[s] = ide_devices[s]
      BY <1>1, <1>7 DEF EntriesInv
    <3>2. Rank(ide_devices[s]) < Turn
      BY <3>1 DEF Truthful, Tried, Rank, Order, PosOf
    <3>3. QED BY <1>1, <1>3, <3>1, <3>2, EntryStays
  <2>3. \A s \in 0 .. device_count' - 1 : Truthful(ide_devices[s])'
    BY <1>16, <2>1, <2>2, Zenon
  <2>4. ASSUME NEW s \in 0 .. device_count' - 1, NEW t \in 0 .. device_count' - 1, s < t
        PROVE  Rank(ide_devices[s])' < Rank(ide_devices[t])'
    <3>1. s \in 0 .. device_count - 1
      BY <1>1, <1>9, <2>4
    <3>2. Rank(ide_devices[s])' = Rank(ide_devices[s])
      BY <2>2, <3>1 DEF Rank
    <3>3. CASE t = d
      BY <1>14, <2>2, <3>1, <3>2, <3>3
    <3>4. CASE t \in 0 .. device_count - 1
      <4>1. Rank(ide_devices[t])' = Rank(ide_devices[t])
        BY <2>2, <3>4 DEF Rank
      <4>2. Rank(ide_devices[s]) < Rank(ide_devices[t])
        BY <1>1, <2>4, <3>1, <3>4 DEF EntriesInv
      <4>3. QED BY <3>2, <4>1, <4>2
    <3>5. QED BY <2>1, <3>3, <3>4
  <2>5. QED BY <2>3, <2>4, Zenon DEF EntriesInv
<1>18. (\A p \in Pos : Has(p) => Has(p)') /\ Has(q)'
  <2>1. \A s \in 0 .. device_count - 1 : s \in 0 .. device_count' - 1 /\ PosOf(ide_devices[s])' = PosOf(ide_devices[s])
    <3>1. \A s \in 0 .. device_count - 1 : s \in 0 .. device_count' - 1
      BY <1>1, <1>9
    <3>2. QED BY <1>7, <3>1, Zenon DEF PosOf
  <2>2. d \in 0 .. device_count' - 1
    BY <1>1, <1>9, <1>13
  <2>3. QED BY <1>14, <2>1, <2>2, Zenon DEF Has
<1>19. PositionsInv' /\ Together'
  <2>1. \A p \in Pos : p = here => Settled(p) /\ (Present(p) => Stale(p) \/ Has(p)')
    BY <1>13, <1>15, <1>18, Zenon DEF Settled
  <2>2. QED BY <1>1, <1>18, <2>1, Moves
<1>20. QED BY <1>10, <1>11, <1>17, <1>19 DEF IInv

(***************************************************************************)
(* The theorems.                                                           *)
(***************************************************************************)

\* Every step preserves the invariant.
LEMMA StepKeeps == ASSUME Unsigned PROVE IInv /\ [Next]_vars => IInv'
<1> SUFFICES ASSUME IInv, [Next]_vars PROVE IInv'
  OBVIOUS
<1>1. CASE DisableInterrupts
  BY <1>1, DisableInterruptsKeeps
<1>2. CASE PrepareSlot
  BY <1>2, PrepareSlotKeeps
<1>3. CASE Select
  BY <1>3, SelectKeeps
<1>4. CASE SendIdentify
  BY <1>4, SendIdentifyKeeps
<1>5. CASE CheckPresence
  BY <1>5, CheckPresenceKeeps
<1>6. CASE Poll
  BY <1>6, PollKeeps
<1>7. CASE ReadSignature
  BY <1>7, ReadSignatureKeeps
<1>8. CASE SendIdentifyPacket
  BY <1>8, SendIdentifyPacketKeeps
<1>9. CASE WaitPacket
  BY <1>9, WaitPacketKeeps
<1>10. CASE ReadIdentifyWord
  BY <1>10, ReadIdentifyWordKeeps
<1>11. CASE FillSlot
  BY <1>11, FillSlotKeeps
<1>12. ASSUME NEW p \in Pos, Drive(p) PROVE IInv'
  BY <1>12, DriveKeeps DEF Drive
<1>13. CASE UNCHANGED vars
  <2>1. UNCHANGED <<kind, selected, regs, drive, disk, dirty, pc, channel, number, type, cl, ch, identify_buffer,
                    n, ide_devices, device_count, nIEN, stray>>
    BY <1>13 DEF vars, bus, detector
  <2>2. TypeOK' /\ PlaceInv'
    BY <2>1, Zenon DEF IInv, TypeOK, BusTypeOK, here, PlaceInv, Turn
  <2>3. /\ here' = here /\ Turn' = Turn
        /\ \A p \in Pos : /\ (Tried(p)' <=> Tried(p)) /\ (Untouched(p)' <=> Untouched(p))
                          /\ (Sound(p)' <=> Sound(p)) /\ (Late(p)' <=> Late(p)) /\ (Stale(p)' <=> Stale(p))
                          /\ (Present(p)' <=> Present(p)) /\ Own(p)' = Own(p)
    BY <2>1 DEF here, Turn, Tried, Order, Untouched, Sound, Late, Stale, Present, Own, OwnCommand
  <2>4. EntriesInv' /\ \A p \in Pos : Has(p)' <=> Has(p)
    BY <2>1, <2>3, EntriesStay DEF IInv
  <2>5. PositionsInv'
    BY <2>1, <2>3, <2>4, Zenon DEF IInv, PositionsInv, Settled
  <2>6. Together'
    <3>1. PICK p \in Pos : p = here /\ p = here'
      BY <2>3 DEF IInv, TypeOK
    <3>2. /\ Identifying(p)' <=> Identifying(p)
          /\ Packing(p)' <=> Packing(p)
          /\ Reading(p)' <=> Reading(p)
      BY <2>1, <2>3, Zenon DEF Identifying, Packing, Reading, Fails
    <3>3. (Identifying(here)' <=> Identifying(here)) /\ (Packing(here)' <=> Packing(here))
            /\ (Reading(here)' <=> Reading(here)) /\ (Present(here)' <=> Present(here))
      BY <3>1, <3>2, <2>3
    <3>4. QED BY <2>1, <2>3, <3>3, Zenon DEF IInv, Together
  <2>7. QED BY <2>2, <2>4, <2>5, <2>6 DEF IInv
<1>14. QED
  BY <1>1, <1>2, <1>3, <1>4, <1>5, <1>6, <1>7, <1>8, <1>9, <1>10, <1>11, <1>12, <1>13 DEF Next, Detector

\* The invariant holds of every state of the detection.
LEMMA Invariance == ASSUME Unsigned PROVE Spec => []IInv
<1>1. Init => IInv
  BY InitIInv
<1>2. IInv /\ [Next]_vars => IInv'
  BY StepKeeps
<1>3. QED BY <1>1, <1>2, PTL DEF Spec

\* The driver's variables and the registers of the bus keep their types, whatever
\* drives the two channels carry: no step leaves the four slots or the buffer.
THEOREM TypeCorrect == ASSUME Unsigned PROVE Spec => []TypeOK
<1>1. IInv => TypeOK
  BY DEF IInv
<1>2. QED BY <1>1, Invariance, PTL

\* Every entry of ide_devices[] names a position where a drive of the entry's type is
\* attached, no position twice, and the slot in use is one of the four.
THEOREM EntriesAttached == ASSUME Unsigned PROVE Spec => []ListedAreAttached
<1>1. ASSUME IInv PROVE ListedAreAttached
  <2>1. TypeOK /\ PlaceInv /\ EntriesInv
    BY <1>1 DEF IInv
  <2>2. \A s \in 0 .. device_count - 1 :
          /\ kind[PosOf(ide_devices[s])] = KindOf(ide_devices[s])
          /\ Rank(ide_devices[s]) < Turn
    BY <2>1, Zenon DEF EntriesInv, Truthful, Tried, Order, Rank, PosOf
  <2>3. pc # "done" => device_count \in Slots
    <3>1. CASE pc = "init"
      BY <2>1, <3>1 DEF PlaceInv, Turn, Slots
    <3>2. CASE pc \notin {"init", "done"}
      BY <2>1, <3>2, Current
    <3>3. QED BY <3>1, <3>2
  <2>4. ASSUME NEW s \in 0 .. device_count - 1, pc # "done"
        PROVE  Rank(ide_devices[s]) < 2 * channel + number
    <3>1. pc # "init"
      BY <2>1, <2>4 DEF PlaceInv, Turn
    <3>2. Turn = 2 * channel + number
      BY <2>4, <3>1 DEF Turn
    <3>3. QED BY <2>2, <3>2
  <2>5. QED BY <2>1, <2>2, <2>3, <2>4, Zenon DEF ListedAreAttached, Listed, EntriesInv
<1>2. QED BY <1>1, Invariance, PTL

\* The identification words and the model of an entry are the named drive's own, by
\* the command for its type; those of a failed drive are junk, and those of a late
\* one are junk or its own, out of place.
THEOREM EntriesIdentify == ASSUME Unsigned PROVE Spec => []ListedIdentity
<1>1. ASSUME IInv PROVE ListedIdentity
  <2> DEFINE Named(e) == [w \in Word |-> IdentifyWord(PosOf(e), IdentifyCommand(e), w)]
             Told(e) ==
               \/ e.info = Named(e) /\ Shown(e.model) = Unpadded(NameOf[PosOf(e)])
               \/ Fails(PosOf(e)) /\ e.info = JunkBlock
               \/ Late(PosOf(e)) /\ \A w \in Word : e.info[w] \in {Junk} \cup {Named(e)[v] : v \in 0 .. w}
  <2>1. ASSUME NEW s \in 0 .. device_count - 1 PROVE Told(ide_devices[s])
    <3> DEFINE e == ide_devices[s]
    <3>1. Truthful(e)
      BY <1>1 DEF IInv, EntriesInv
    <3>2. OwnCommand(PosOf(e)) = IdentifyCommand(e)
      BY <3>1 DEF Truthful, OwnCommand, IdentifyCommand, KindOf
    <3>3. Own(PosOf(e)) = [w \in Word |-> IdentifyWord(PosOf(e), IdentifyCommand(e), w)]
      BY <3>2 DEF Own
    <3>4. QED BY <3>1, <3>3, Zenon DEF Truthful
  <2>2. \A e \in Listed : \E s \in 0 .. device_count - 1 : e = ide_devices[s]
    BY DEF Listed
  <2>3. \A e \in Listed : Told(e)
    <3> HIDE DEF Told
    <3>1. QED BY <2>1, <2>2, Zenon
  <2>4. QED BY <2>3, Zenon DEF ListedIdentity
<1>2. QED BY <1>1, Invariance, PTL

\* When detection is over every attached drive but the stale disks is listed.
THEOREM EveryDriveListed == ASSUME Unsigned PROVE Spec => []ListComplete
<1>1. ASSUME IInv PROVE ListComplete
  <2>1. ASSUME pc = "done", NEW p \in Pos, Present(p)
        PROVE  Stale(p) \/ \E e \in Listed : PosOf(e) = p
    <3>1. Tried(p)
      BY <2>1, Positions DEF Tried, Turn
    <3>2. Stale(p) \/ Has(p)
      BY <1>1, <2>1, <3>1 DEF IInv, PositionsInv
    <3>3. QED BY <3>2, Zenon DEF Has, Listed
  <2>2. QED BY <2>1 DEF ListComplete
<1>2. QED BY <1>1, Invariance, PTL

\* Detection leaves every drive idle but the late and the stale ones.
THEOREM DrivesIdleAfterwards == ASSUME Unsigned PROVE Spec => []DrivesLeftIdle
<1>1. ASSUME IInv PROVE DrivesLeftIdle
  <2>1. ASSUME pc = "done", NEW p \in Pos
        PROVE  drive[p].phase = "idle" \/ Late(p) \/ Stale(p)
    <3>1. Tried(p)
      BY <2>1, Positions DEF Tried, Turn
    <3>2. QED BY <1>1, <3>1 DEF IInv, PositionsInv, Settled
  <2>2. QED BY <2>1 DEF DrivesLeftIdle
<1>2. QED BY <1>1, Invariance, PTL
=============================================================================
