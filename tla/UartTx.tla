------------------------------- MODULE UartTx -------------------------------
(***************************************************************************)
(* The transmit side of the boot ROM's console: putchar and fflush of      *)
(* zforth-riscv/libc.c gather a line in write_buf, uart_write of           *)
(* zforth-riscv/udma.c copies the line into one half of copyout_buf and    *)
(* queues a uDMA transfer of that half while the other one may still be    *)
(* on the wire.  The processor never waits for a transfer to end, only for *)
(* the channel's shadow slot.                                              *)
(*                                                                         *)
(* The uDMA channel is hardware outside this repository; it is modelled    *)
(* from how udma_v3.h uses it: one transfer in progress, one in the shadow *)
(* slot, bytes fetched from memory one at a time and late.  A transfer of  *)
(* size 0 (fflush of an empty line) is taken to end without a byte.        *)
(***************************************************************************)
EXTENDS Integers, Sequences

CONSTANTS
  Chars,      \* the characters a program prints
  Newline,    \* '\n', the one that flushes
  LineMax,    \* sizeof(write_buf), 16
  MaxBytes    \* bound: bytes printed in a behaviour

ASSUME NewlineAssumption == Newline \in Chars
ASSUME LineMaxAssumption == LineMax \in Nat \ {0}
ASSUME MaxBytesAssumption == MaxBytes \in Nat

VARIABLES
  line,       \* write_buf[0 .. write_cnt - 1]
  half,       \* copyout_buf, by halves: what was last copied into each
  whichBuf,   \* which_buf, the half the next transfer uses
  pc,         \* where the processor is in fflush / uart_write
  current,    \* the transfer in progress
  shadow,     \* the transfer in the shadow slot
  asked,      \* history: every byte given to putchar
  out         \* history: every byte that left on the wire

software == <<line, half, whichBuf, pc>>
channel  == <<current, shadow>>
vars     == <<software, channel, asked, out>>

Halves == {0, 1}

\* A transfer reads bytes sent + 1 .. size of its half; which is NoHalf when
\* the slot is free.
NoHalf == 2
Free   == [which |-> NoHalf, size |-> 0, sent |-> 0]
IsFree(t) == t.which = NoHalf
Transfer(h, n) == [which |-> h, size |-> n, sent |-> 0]

-----------------------------------------------------------------------------
(* The processor *)

\* Fault: only a newline flushes.
PutcharNoFlush(c) ==
  /\ pc = "ready"
  /\ Len(asked) < MaxBytes
  /\ asked' = Append(asked, c)
  /\ line' = IF Len(line) < LineMax THEN Append(line, c) ELSE line
  /\ pc' = IF c = Newline THEN "wait" ELSE "ready"
  /\ UNCHANGED <<half, whichBuf, channel, out>>

\* putchar: a full line or a newline goes on to fflush.  puts, EMIT and TELL
\* are sequences of these.
Putchar(c) ==
  /\ pc = "ready"
  /\ Len(asked) < MaxBytes
  /\ asked' = Append(asked, c)
  /\ line' = IF Len(line) < LineMax THEN Append(line, c) ELSE line
  /\ pc' = IF Len(line') = LineMax \/ c = Newline THEN "wait" ELSE "ready"
  /\ UNCHANGED <<half, whichBuf, channel, out>>

\* fflush called by the interpreter (EMIT, TELL), also on an empty line.
Fflush ==
  /\ pc = "ready"
  /\ pc' = "wait"
  /\ UNCHANGED <<line, half, whichBuf, channel, asked, out>>

\* Fault: the shadow slot is not polled.
WaitTxDoneSkipped ==
  /\ pc = "wait"
  /\ pc' = "copy"
  /\ UNCHANGED <<line, half, whichBuf, channel, asked, out>>

\* uart_wait_tx_done: polls until the shadow slot is free.
WaitTxDone ==
  /\ pc = "wait"
  /\ IsFree(shadow)
  /\ pc' = "copy"
  /\ UNCHANGED <<line, half, whichBuf, channel, asked, out>>

\* memcpy into the half.
Copy ==
  /\ pc = "copy"
  /\ half' = [half EXCEPT ![whichBuf] = line]
  /\ pc' = "enqueue"
  /\ UNCHANGED <<line, whichBuf, channel, asked, out>>

\* Faults: a transfer queued while another one is in progress is lost; fflush
\* does not reset write_cnt.
EnqueueIdleOnly ==
  /\ pc = "enqueue"
  /\ IF IsFree(current)
     THEN current' = Transfer(whichBuf, Len(line)) /\ UNCHANGED shadow
     ELSE UNCHANGED channel
  /\ whichBuf' = IF IsFree(current) THEN 1 - whichBuf ELSE whichBuf
  /\ line' = <<>>
  /\ pc' = "ready"
  /\ UNCHANGED <<half, asked, out>>

EnqueueKeepsLine ==
  /\ pc = "enqueue"
  /\ IF IsFree(current)
     THEN current' = Transfer(whichBuf, Len(line)) /\ UNCHANGED shadow
     ELSE shadow' = Transfer(whichBuf, Len(line)) /\ UNCHANGED current
  /\ whichBuf' = 1 - whichBuf
  /\ pc' = "ready"
  /\ UNCHANGED <<line, half, asked, out>>

\* plp_udma_enqueue: the write of CFG with EN starts the transfer if the
\* channel is idle, and puts it in the shadow slot otherwise.
Enqueue ==
  /\ pc = "enqueue"
  /\ IF IsFree(current)
     THEN current' = Transfer(whichBuf, Len(line)) /\ UNCHANGED shadow
     ELSE shadow' = Transfer(whichBuf, Len(line)) /\ UNCHANGED current
  /\ whichBuf' = 1 - whichBuf
  /\ line' = <<>>
  /\ pc' = "ready"
  /\ UNCHANGED <<half, asked, out>>

-----------------------------------------------------------------------------
(* The uDMA channel *)

SendByte ==
  /\ ~IsFree(current)
  /\ current.sent < current.size
  /\ out' = Append(out, half[current.which][current.sent + 1])
  /\ current' = [current EXCEPT !.sent = @ + 1]
  /\ UNCHANGED <<software, shadow, asked>>

Complete ==
  /\ ~IsFree(current)
  /\ current.sent = current.size
  /\ current' = shadow
  /\ shadow' = Free
  /\ UNCHANGED <<software, asked, out>>

-----------------------------------------------------------------------------
Init ==
  /\ line = <<>>
  /\ half = [h \in Halves |-> <<>>]
  /\ whichBuf = 0
  /\ pc = "ready"
  /\ current = Free
  /\ shadow = Free
  /\ asked = <<>>
  /\ out = <<>>

UartWrite == WaitTxDone \/ Copy \/ Enqueue
Udma      == SendByte \/ Complete

Next == (\E c \in Chars : Putchar(c)) \/ Fflush \/ UartWrite \/ Udma

Spec == Init /\ [][Next]_vars

\* uart_write runs on once called, and the channel keeps sending.
FairSpec == Spec /\ WF_vars(UartWrite) /\ WF_vars(Udma)

-----------------------------------------------------------------------------
(* Properties *)

TypeOK ==
  /\ line \in Seq(Chars) /\ Len(line) <= LineMax
  /\ half \in [Halves -> Seq(Chars)]
  /\ whichBuf \in Halves
  /\ pc \in {"ready", "wait", "copy", "enqueue"}
  /\ current \in [which: Halves \cup {NoHalf}, size: Nat, sent: Nat]
  /\ shadow \in [which: Halves \cup {NoHalf}, size: Nat, sent: Nat]
  /\ asked \in Seq(Chars)
  /\ out \in Seq(Chars)

InFlight == {current.which, shadow.which} \ {NoHalf}

\* uart_write never copies into a half the channel is still to read from: the
\* shadow slot it found free stays free until its own enqueue, and then the
\* only transfer in progress is of the other half.
NoOverwrite == pc \in {"copy", "enqueue"} => whichBuf \notin InFlight

\* putchar never drops its character: the line has room whenever it is called,
\* though the test for room in putchar has no other branch.
NoDrop == [][asked' # asked => line' = Append(line, asked'[Len(asked')])]_vars

\* What leaves on the wire is what was printed, in order and without gaps.
Channel == INSTANCE ByteChannel
ConsoleIsChannel == Channel!Spec

\* A line that was flushed reaches the wire.
FlushedArrives ==
  \A n \in 1..MaxBytes :
    (line = <<>> /\ Len(asked) >= n) ~> (Len(out) >= n)

-----------------------------------------------------------------------------
(* The inductive invariant behind NoOverwrite and ConsoleIsChannel *)

\* Which halves are in flight, as the two cursors see it: the shadow slot is
\* only used behind a transfer in progress; the half next in turn is the one
\* not in progress, until the shadow slot holds that one as well.
Slots ==
  /\ IsFree(current) => current = Free
  /\ IsFree(shadow) => shadow = Free
  /\ ~IsFree(shadow) => ~IsFree(current)
  /\ ~IsFree(current) => (current.which = whichBuf) = ~IsFree(shadow)
  /\ ~IsFree(shadow) => shadow.which = 1 - whichBuf /\ shadow.sent = 0
  /\ current.sent <= current.size
  /\ pc \in {"copy", "enqueue"} => IsFree(shadow)

\* Every transfer in flight reads exactly what was copied for it.
Copies ==
  /\ ~IsFree(current) => current.size = Len(half[current.which])
  /\ ~IsFree(shadow) => shadow.size = Len(half[shadow.which])
  /\ pc = "enqueue" => half[whichBuf] = line

\* The bytes printed are those sent, those still to send from the two slots,
\* and those in the line, in this order.
Left == current.size - current.sent

Stream ==
  /\ Len(asked) = Len(out) + Left + shadow.size + Len(line)
  /\ \A i \in 1..Left :
       half[current.which][current.sent + i] = asked[Len(out) + i]
  /\ \A i \in 1..shadow.size :
       half[shadow.which][i] = asked[Len(out) + Left + i]
  /\ \A i \in 1..Len(line) :
       line[i] = asked[Len(out) + Left + shadow.size + i]

\* A full line is on its way out: between calls there is room for a character.
Room == pc = "ready" => Len(line) < LineMax

\* The bookkeeping of the console is right at every point of a flush.
IInv == TypeOK /\ Slots /\ Copies /\ Stream /\ Room

=============================================================================
