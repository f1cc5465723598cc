----------------------------- MODULE SerialPort -----------------------------
(***************************************************************************)
(* src/kernel/serial.c on the UART behind COM1.  The driver polls: there   *)
(* is one byte in flight from serial_writechar at a time, and the UART     *)
(* sends in its own time.                                                  *)
(***************************************************************************)
EXTENDS Integers, Sequences, FiniteSets

CONSTANTS Texts,       \* the strings callers print: sequences of characters
          FifoDepth,   \* bytes the transmitter holds (16, or 1 without FIFO)
          Faulty,      \* whether the chip may fail its loopback test
          MaxAsked     \* a bound: bytes callers ask for

ASSUME SerialAssumption ==
    /\ Texts \subseteq Seq(STRING)
    /\ FifoDepth \in Nat \ {0}
    /\ Faulty \in BOOLEAN
    /\ MaxAsked \in Nat

VARIABLES pc,                  \* "init", "test", "idle" or "write"
          serial_initialized,
          text,                \* what serial_write has still to send
          cr,                  \* the '\r' before the next '\n' was sent
          broken,              \* the chip never loops a byte back
          looping,             \* the modem control register is in loopback mode
          received,            \* the test byte has arrived
          fifo,                \* bytes in the transmitter
          line,                \* bytes sent
          asked                \* history: the bytes the calls were to send

driver == <<pc, serial_initialized, text, cr, asked>>
chip == <<broken, looping, received, fifo, line>>
vars == <<driver, chip>>

\* How a string goes over the line, '\r' before every '\n': a character comes after
\* those before it and a '\r' for every line end up to it.
LineEnds(t, i) == {j \in 1 .. i : t[j] = "\n"}
PlaceOf(t, i) == i + Cardinality(LineEnds(t, i))
Expand(t) ==
    [k \in 1 .. PlaceOf(t, Len(t)) |->
       IF \E i \in 1 .. Len(t) : PlaceOf(t, i) = k
       THEN t[CHOOSE i \in 1 .. Len(t) : PlaceOf(t, i) = k]
       ELSE "\r"]

Init ==
    /\ pc = "init" /\ serial_initialized = FALSE
    /\ text = <<>> /\ cr = FALSE /\ asked = <<>>
    /\ broken \in (IF Faulty THEN BOOLEAN ELSE {FALSE})
    /\ looping = FALSE /\ received = FALSE
    /\ fifo = <<>> /\ line = <<>>

\* init_serial up to the test byte: the FIFO is cleared, loopback is on.
StartTest ==
    /\ pc = "init"
    /\ pc' = "test"
    /\ looping' = TRUE /\ received' = FALSE /\ fifo' = <<>>
    /\ UNCHANGED <<serial_initialized, text, cr, asked, broken, line>>

\* Mutant of ReadTestByte: the port is left in loopback mode.
ReadTestByteOnly ==
    /\ pc = "test"
    /\ serial_initialized' = received
    /\ pc' = "idle"
    /\ UNCHANGED <<text, cr, asked, broken, looping, received, fifo, line>>

\* The read of COM1 that decides whether the chip is faulty.  It comes right
\* after the write: a sound chip may not have looped the byte back yet, and then
\* counts as faulty.  A chip that failed is left in loopback mode.
ReadTestByte ==
    /\ pc = "test"
    /\ serial_initialized' = received
    /\ looping' = ~received
    /\ pc' = "idle"
    /\ UNCHANGED <<text, cr, asked, broken, received, fifo, line>>

\* serial_write: nothing happens unless the port was initialized.
serial_write(t) ==
    /\ pc = "idle" /\ serial_initialized
    /\ Len(asked) + Len(Expand(t)) <= MaxAsked
    /\ pc' = "write"
    /\ text' = t
    /\ asked' = asked \o Expand(t)
    /\ UNCHANGED <<serial_initialized, cr, chip>>

SkipWrite ==
    /\ pc = "idle" /\ ~serial_initialized
    /\ UNCHANGED vars

\* Mutant of TransmitEmpty: does not look.
TransmitAlways == TRUE

\* Mutant of TransmitEmpty: the test is the wrong way round.
TransmitFull == fifo # <<>>

\* is_transmit_empty: the transmitter holds nothing any more.
TransmitEmpty == fifo = <<>>

\* outb(COM1, c): a byte that does not fit is lost.
Out(c) == fifo' = IF Len(fifo) < FifoDepth THEN Append(fifo, c) ELSE fifo

\* serial_writechar: wait, then hand the byte over.
WriteChar(c) ==
    /\ TransmitEmpty
    /\ Out(c)
    /\ UNCHANGED <<serial_initialized, asked, broken, looping, received, line>>

WriteReturn ==
    /\ pc = "write" /\ text # <<>> /\ Head(text) = "\n" /\ ~cr
    /\ WriteChar("\r")
    /\ cr' = TRUE
    /\ UNCHANGED <<pc, text>>

WriteNext ==
    /\ pc = "write" /\ text # <<>> /\ (Head(text) = "\n" => cr)
    /\ WriteChar(Head(text))
    /\ text' = Tail(text)
    /\ cr' = FALSE
    /\ UNCHANGED pc

EndWrite ==
    /\ pc = "write" /\ text = <<>>
    /\ pc' = "idle"
    /\ UNCHANGED <<serial_initialized, text, cr, asked, chip>>

Driver ==
    \/ StartTest \/ ReadTestByte
    \/ WriteReturn \/ WriteNext \/ EndWrite

\* The chip loops the test byte back, or sends a byte.
LoopBack ==
    /\ looping /\ ~broken /\ ~received
    /\ received' = TRUE
    /\ UNCHANGED <<driver, broken, looping, fifo, line>>

Send ==
    /\ ~looping /\ fifo # <<>>
    /\ line' = Append(line, Head(fifo))
    /\ fifo' = Tail(fifo)
    /\ UNCHANGED <<driver, broken, looping, received>>

Chip == LoopBack \/ Send

Next == Driver \/ SkipWrite \/ (\E t \in Texts : serial_write(t)) \/ Chip

Spec == Init /\ [][Next]_vars

\* The processor keeps running the call, and the chip keeps sending.
FairSpec == Spec /\ WF_vars(Driver) /\ WF_vars(Chip)

(***************************************************************************)
(* Properties.                                                             *)
(***************************************************************************)

\* Type correctness, and an initialized port is out of loopback mode.
TypeOK ==
    /\ pc \in {"init", "test", "idle", "write"}
    /\ serial_initialized \in BOOLEAN /\ cr \in BOOLEAN
    /\ Len(fifo) <= FifoDepth
    /\ serial_initialized => ~looping

\* Nothing is lost, repeated or reordered on the way to the line, whatever the
\* speed of the chip: what was sent, what the chip holds and what the call has
\* still to send are together what was asked for.
Lossless ==
    line \o fifo \o (IF cr THEN Tail(Expand(text)) ELSE Expand(text)) = asked

\* Every serial_write returns: the loop of serial_writechar ends because the
\* chip keeps sending.
WritesReturn == (pc = "write") ~> (pc = "idle")
=============================================================================
