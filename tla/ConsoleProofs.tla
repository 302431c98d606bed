---------------------------- MODULE ConsoleProofs ---------------------------
(* Proofs about UartTx for every character set, every line length and every *)
(* number of bytes; then about Console, where what the transmitter promises *)
(* still holds beside the receiver.                                         *)
EXTENDS Console, SequenceTheorems, TLAPS

USE NewlineAssumption, LineMaxAssumption, MaxBytesAssumption

Xfer == [which: Halves \cup {NoHalf}, size: Nat, sent: Nat]

LEMMA FreeIsXfer == Free \in Xfer /\ IsFree(Free)
BY DEF Free, Xfer, IsFree

LEMMA TransferIsXfer ==
  ASSUME NEW h \in Halves, NEW n \in Nat
  PROVE  /\ Transfer(h, n) \in Xfer
         /\ Transfer(h, n).which = h
         /\ Transfer(h, n).size = n
         /\ Transfer(h, n).sent = 0
         /\ ~IsFree(Transfer(h, n))
BY DEF Transfer, Xfer, IsFree, Halves, NoHalf

(***************************************************************************)
(* Appending a byte to both ends of the stream.                            *)
(***************************************************************************)
LEMMA AppendFacts ==
  ASSUME NEW S, NEW s \in Seq(S), NEW c \in S
  PROVE  /\ Append(s, c) \in Seq(S)
         /\ Len(s) \in Nat
         /\ Len(Append(s, c)) = Len(s) + 1
         /\ Append(s, c)[Len(s) + 1] = c
         /\ \A i \in 1..Len(s) : Append(s, c)[i] = s[i]
OBVIOUS

LEMMA InitIInv == Init => IInv
<1> SUFFICES ASSUME Init PROVE IInv
  OBVIOUS
<1>1. TypeOK
  BY FreeIsXfer DEF Init, TypeOK, Xfer, Halves
<1>2. Slots /\ Copies /\ Room
  BY FreeIsXfer DEF Init, Slots, Copies, Room, Free
<1>3. Stream
  BY DEF Init, Stream, Left, Free
<1>4. QED
  BY <1>1, <1>2, <1>3 DEF IInv

LEMMA PutcharIInv ==
  ASSUME IInv, NEW c \in Chars, Putchar(c)
  PROVE  IInv'
<1> USE DEF IInv
<1>1. /\ line' = Append(line, c)
      /\ asked' = Append(asked, c)
      /\ UNCHANGED <<half, whichBuf, current, shadow, out>>
      /\ pc = "ready"
      /\ pc' = IF Len(line') = LineMax \/ c = Newline THEN "wait" ELSE "ready"
  BY DEF Putchar, Room, channel
<1>2. /\ line' \in Seq(Chars) /\ Len(line') = Len(line) + 1
      /\ asked' \in Seq(Chars) /\ Len(asked') = Len(asked) + 1
      /\ \A i \in 1..Len(line) : line'[i] = line[i]
      /\ \A i \in 1..Len(asked) : asked'[i] = asked[i]
      /\ line'[Len(line) + 1] = c
      /\ asked'[Len(asked) + 1] = c
      /\ Len(line) \in Nat /\ Len(asked) \in Nat /\ Len(out) \in Nat
  BY <1>1, AppendFacts DEF TypeOK
<1>3. Len(line') <= LineMax
  BY <1>1, <1>2 DEF Room
<1>9. /\ Len(line') = Len(line) + 1 /\ Len(asked') = Len(asked) + 1
      /\ Len(line) \in Nat /\ Len(asked) \in Nat /\ Len(out) \in Nat
  BY <1>2
<1>4. TypeOK'
  BY <1>1, <1>2, <1>3 DEF TypeOK
<1>5. Slots' /\ Copies'
  BY <1>1 DEF Slots, Copies, IsFree
<1>6. Room'
  BY <1>1, <1>2, <1>3 DEF Room
<1>7. Stream'
  <2>1. Left' = Left /\ Left \in Nat /\ shadow.size \in Nat
    BY <1>1 DEF Left, Slots, TypeOK
  <2>2. Len(asked) = Len(out) + Left + shadow.size + Len(line)
    BY DEF Stream
  <2>3. Len(asked') = Len(out') + Left' + shadow'.size + Len(line')
    <3>1. shadow' = shadow /\ out' = out
      BY <1>1
    <3>2. QED
      BY <3>1, <1>9, <2>1, <2>2
  <2>4. \A i \in 1..Left :
          half[current.which][current.sent + i] = asked'[Len(out) + i]
    BY <1>2, <2>1, <2>2 DEF Stream
  <2>5. \A i \in 1..shadow.size :
          half[shadow.which][i] = asked'[Len(out) + Left + i]
    <3> SUFFICES ASSUME NEW i \in 1..shadow.size
                 PROVE  half[shadow.which][i] = asked'[Len(out) + Left + i]
      OBVIOUS
    <3>1. half[shadow.which][i] = asked[Len(out) + Left + i]
      BY DEF Stream
    <3>2. Len(out) + Left + i \in 1..Len(asked)
      BY <1>9, <2>1, <2>2
    <3>3. QED
      BY <3>1, <3>2, <1>2
  <2>6. \A i \in 1..Len(line') :
          line'[i] = asked'[Len(out) + Left + shadow.size + i]
    <3> SUFFICES ASSUME NEW i \in 1..Len(line')
                 PROVE  line'[i] = asked'[Len(out) + Left + shadow.size + i]
      OBVIOUS
    <3>1. CASE i <= Len(line)
      <4>1. i \in 1..Len(line) /\ Len(out) + Left + shadow.size + i \in 1..Len(asked)
        BY <3>1, <1>9, <2>1, <2>2
      <4>2. line[i] = asked[Len(out) + Left + shadow.size + i]
        BY <4>1 DEF Stream
      <4>3. line'[i] = line[i]
        BY <4>1, <1>2
      <4> QED BY <4>1, <4>2, <4>3, <1>2
    <3>2. CASE i = Len(line) + 1
      <4>1. Len(out) + Left + shadow.size + i = Len(asked) + 1
        BY <3>2, <1>9, <2>1, <2>2
      <4>2. line'[Len(line) + 1] = c /\ asked'[Len(asked) + 1] = c
        BY <1>2
      <4> QED BY <3>2, <4>1, <4>2
    <3>3. i \in 1..Len(line) + 1
      BY <1>9
    <3>4. QED
      BY <3>1, <3>2, <3>3, <1>9
  <2>7. QED
    BY <2>1, <2>3, <2>4, <2>5, <2>6, <1>1 DEF Stream
<1>8. QED
  BY <1>4, <1>5, <1>6, <1>7

LEMMA FflushIInv ==
  ASSUME IInv, Fflush \/ WaitTxDone
  PROVE  IInv'
<1> USE DEF IInv
<1>1. UNCHANGED <<line, half, whichBuf, current, shadow, asked, out>>
  BY DEF Fflush, WaitTxDone, channel
<1>2. pc' \in {"wait", "copy"} /\ (pc' = "copy" => IsFree(shadow))
  BY DEF Fflush, WaitTxDone
<1>3. QED
  BY <1>1, <1>2 DEF TypeOK, Slots, Copies, Stream, Left, Room, IsFree

LEMMA CopyIInv ==
  ASSUME IInv, Copy
  PROVE  IInv'
<1> USE DEF IInv
<1>1. /\ UNCHANGED <<line, whichBuf, current, shadow, asked, out>>
      /\ half' = [half EXCEPT ![whichBuf] = line]
      /\ pc = "copy" /\ pc' = "enqueue"
  BY DEF Copy, channel
<1>2. half' \in [Halves -> Seq(Chars)] /\ half'[whichBuf] = line
  BY <1>1 DEF TypeOK
<1>3. IsFree(shadow) /\ shadow.size = 0
  BY <1>1 DEF Slots, Free
<1>4. ~IsFree(current) => half'[current.which] = half[current.which]
  BY <1>1, <1>3 DEF Slots, TypeOK, IsFree
<1>5. IsFree(current) => Left = 0
  BY DEF Slots, Free, Left
<1>6. TypeOK' /\ Slots' /\ Room'
  BY <1>1, <1>2, <1>3 DEF TypeOK, Slots, Room, IsFree
<1>7. Copies'
  BY <1>1, <1>2, <1>3, <1>4 DEF Copies, IsFree
<1>8. Stream'
  <2>1. Left' = Left
    BY <1>1 DEF Left
  <2>2. \A i \in 1..Left :
          half'[current.which][current.sent + i] = asked[Len(out) + i]
    BY <1>4, <1>5 DEF Stream
  <2>3. QED
    BY <1>1, <1>3, <2>1, <2>2 DEF Stream
<1>9. QED
  BY <1>6, <1>7, <1>8

LEMMA EnqueueIInv ==
  ASSUME IInv, Enqueue
  PROVE  IInv'
<1> USE DEF IInv
<1> DEFINE new == Transfer(whichBuf, Len(line))
<1>1. /\ pc = "enqueue" /\ pc' = "ready"
      /\ whichBuf' = 1 - whichBuf
      /\ line' = <<>>
      /\ UNCHANGED <<half, asked, out>>
      /\ IsFree(shadow) /\ shadow = Free
      /\ half[whichBuf] = line
  BY DEF Enqueue, Slots, Copies
<1>2. /\ new \in Xfer /\ new.which = whichBuf /\ new.size = Len(line)
      /\ new.sent = 0 /\ ~IsFree(new) /\ Len(line) \in Nat
  BY TransferIsXfer DEF TypeOK
<1>3. whichBuf' \in Halves /\ whichBuf = 1 - whichBuf' /\ whichBuf # whichBuf'
  BY <1>1 DEF TypeOK, Halves
<1>4. line' \in Seq(Chars) /\ Len(line') = 0
  BY <1>1
<1>5. Free.size = 0 /\ Free.sent = 0 /\ Free.which = NoHalf
  BY DEF Free
<1>6. CASE IsFree(current)
  <2>1. current' = new /\ shadow' = Free /\ current = Free
    BY <1>1, <1>6 DEF Enqueue, Slots
  <2>2. TypeOK'
    BY <1>1, <1>3, <1>4, <2>1, <1>2, FreeIsXfer DEF TypeOK, Xfer
  <2>3. Slots'
    BY <1>1, <1>2, <1>3, <2>1, FreeIsXfer DEF Slots
  <2>4. Copies'
    BY <1>1, <1>2, <2>1, FreeIsXfer DEF Copies
  <2>5. Stream'
    <3>1. Left = 0 /\ Left' = Len(line)
      BY <1>2, <1>5, <2>1 DEF Left
    <3>2. Len(asked) = Len(out) + Len(line)
      BY <3>1, <1>1, <1>2, <1>5 DEF Stream, TypeOK
    <3>3. \A i \in 1..Len(line) : half[whichBuf][i] = asked[Len(out) + i]
      BY <3>1, <1>1, <1>2, <1>5 DEF Stream, TypeOK
    <3>4. QED
      BY <1>1, <1>2, <1>4, <1>5, <2>1, <3>1, <3>2, <3>3 DEF Stream, TypeOK
  <2>6. QED
    BY <2>2, <2>3, <2>4, <2>5, <1>1, <1>4 DEF Room
<1>7. CASE ~IsFree(current)
  <2>1. shadow' = new /\ current' = current /\ current.which # whichBuf
    BY <1>1, <1>7 DEF Enqueue, Slots
  <2>2. TypeOK'
    BY <1>1, <1>3, <1>4, <2>1, <1>2 DEF TypeOK, Xfer
  <2>3. current.which = 1 - whichBuf
    BY <2>1, <1>7 DEF TypeOK, Halves, IsFree
  <2>4. Slots'
    BY <1>1, <1>2, <1>3, <1>7, <2>1, <2>3 DEF Slots, IsFree
  <2>5. Copies'
    BY <1>1, <1>2, <2>1 DEF Copies
  <2>6. Stream'
    <3>1. Left' = Left /\ Left \in Nat
      BY <2>1 DEF Left, Slots, TypeOK
    <3>2. Len(asked) = Len(out) + Left + Len(line)
      BY <3>1, <1>1, <1>2, <1>5 DEF Stream, TypeOK
    <3>3. \A i \in 1..Len(line) : half[whichBuf][i] = asked[Len(out) + Left + i]
      BY <3>1, <1>1, <1>2, <1>5 DEF Stream, TypeOK
    <3>4. /\ shadow'.size = Len(line) /\ half'[shadow'.which] = half[whichBuf]
          /\ Len(line') = 0 /\ asked' = asked /\ out' = out /\ half' = half
          /\ current' = current
      BY <1>1, <1>2, <1>4, <2>1
    <3>5. Len(asked') = Len(out') + Left' + shadow'.size + Len(line')
      BY <3>1, <3>2, <3>4, <1>2 DEF TypeOK
    <3>6. \A i \in 1..Left' :
            half'[current'.which][current'.sent + i] = asked'[Len(out') + i]
      BY <3>1, <3>4 DEF Stream
    <3>7. \A i \in 1..shadow'.size :
            half'[shadow'.which][i] = asked'[Len(out') + Left' + i]
      BY <3>1, <3>3, <3>4
    <3>8. \A i \in 1..Len(line') :
            line'[i] = asked'[Len(out') + Left' + shadow'.size + i]
      BY <3>4
    <3>9. QED
      BY <3>5, <3>6, <3>7, <3>8 DEF Stream
  <2>7. QED
    BY <2>2, <2>4, <2>5, <2>6, <1>1, <1>4 DEF Room
<1>8. QED
  BY <1>6, <1>7

(***************************************************************************)
(* The byte the channel sends is the next byte that was printed.           *)
(***************************************************************************)
LEMMA SendByteEmits ==
  ASSUME IInv, SendByte
  PROVE  /\ Left \in Nat \ {0}
         /\ Len(out) < Len(asked)
         /\ half[current.which][current.sent + 1] = asked[Len(out) + 1]
         /\ asked[Len(out) + 1] \in Chars
         /\ out' = Append(out, asked[Len(out) + 1])
<1> USE DEF IInv
<1>1. Left \in Nat \ {0} /\ shadow.size \in Nat /\ Len(line) \in Nat
  BY DEF SendByte, Left, TypeOK, Slots
<1>2. Len(out) \in Nat /\ Len(asked) \in Nat
  BY DEF TypeOK
<1>3. Len(out) < Len(asked)
  BY <1>1, <1>2 DEF Stream
<1>4. half[current.which][current.sent + 1] = asked[Len(out) + 1]
  BY <1>1 DEF Stream
<1>5. asked[Len(out) + 1] \in Chars
  BY <1>2, <1>3 DEF TypeOK
<1>6. QED
  BY <1>1, <1>3, <1>4, <1>5 DEF SendByte

LEMMA SendByteIInv ==
  ASSUME IInv, SendByte
  PROVE  IInv'
<1> USE DEF IInv
<1> DEFINE b == asked[Len(out) + 1]
<1>1. /\ UNCHANGED <<line, half, whichBuf, pc, shadow, asked>>
      /\ current' = [current EXCEPT !.sent = @ + 1]
      /\ out' = Append(out, b) /\ b \in Chars
      /\ ~IsFree(current) /\ current.sent < current.size
      /\ Left \in Nat \ {0}
  BY SendByteEmits DEF SendByte, software
<1>2. /\ current' \in Xfer /\ current'.which = current.which
      /\ current'.size = current.size /\ current'.sent = current.sent + 1
      /\ current.sent \in Nat /\ current.size \in Nat
      /\ ~IsFree(current')
  <2>1. current \in Xfer
    BY DEF TypeOK, Xfer
  <2>2. /\ current'.which = current.which /\ current'.size = current.size
        /\ current'.sent = current.sent + 1 /\ current' \in Xfer
    BY <2>1, <1>1 DEF Xfer
  <2>3. QED
    BY <2>1, <2>2, <1>1 DEF Xfer, IsFree
<1>3. out' \in Seq(Chars) /\ Len(out') = Len(out) + 1 /\ Len(out) \in Nat
  BY <1>1, AppendFacts DEF TypeOK
<1>4. TypeOK'
  BY <1>1, <1>2, <1>3 DEF TypeOK, Xfer
<1>5. Slots'
  BY <1>1, <1>2 DEF Slots, IsFree
<1>6. Copies' /\ Room'
  BY <1>1, <1>2 DEF Copies, Room, IsFree
<1>7. Stream'
  <2>0. /\ current'.size = current.size /\ current'.sent = current.sent + 1
        /\ current.sent \in Nat /\ current.size \in Nat
        /\ Len(out') = Len(out) + 1 /\ Len(out) \in Nat
    BY <1>2, <1>3
  <2>1. Left' = Left - 1 /\ Len(out') + Left' = Len(out) + Left
    BY <2>0 DEF Left
  <2>2. \A i \in 1..Left' :
          half[current.which][current'.sent + i] = asked[Len(out') + i]
    <3> SUFFICES ASSUME NEW i \in 1..Left'
                 PROVE  half[current.which][current'.sent + i] = asked[Len(out') + i]
      OBVIOUS
    <3>1. i + 1 \in 1..Left
      BY <1>1, <2>1
    <3>2. half[current.which][current.sent + (i + 1)] = asked[Len(out) + (i + 1)]
      BY <3>1 DEF Stream
    <3>3. current.sent + (i + 1) = current'.sent + i /\ Len(out) + (i + 1) = Len(out') + i
      BY <2>0, <3>1
    <3>4. QED
      BY <3>2, <3>3
  <2>3. QED
    BY <1>1, <1>2, <2>1, <2>2 DEF Stream
<1>8. QED
  BY <1>4, <1>5, <1>6, <1>7

LEMMA CompleteIInv ==
  ASSUME IInv, Complete
  PROVE  IInv'
<1> USE DEF IInv
<1>1. /\ UNCHANGED <<line, half, whichBuf, pc, asked, out>>
      /\ current' = shadow /\ shadow' = Free
      /\ ~IsFree(current) /\ current.sent = current.size
  BY DEF Complete, software
<1>2. Free.size = 0 /\ Free.sent = 0 /\ Free.which = NoHalf
  BY DEF Free
<1>3. TypeOK'
  BY <1>1, FreeIsXfer DEF TypeOK, Xfer
<1>4. Slots'
  <2>1. CASE IsFree(shadow)
    BY <2>1, <1>1, <1>2, FreeIsXfer DEF Slots, IsFree
  <2>2. CASE ~IsFree(shadow)
    <3>1. shadow.which = 1 - whichBuf /\ shadow.which # whichBuf /\ shadow.sent = 0
      BY <2>2 DEF Slots, TypeOK, Halves
    <3>2. QED
      BY <3>1, <2>2, <1>1, <1>2, FreeIsXfer DEF Slots, IsFree, TypeOK
  <2>3. QED
    BY <2>1, <2>2
<1>5. Copies' /\ Room'
  BY <1>1, FreeIsXfer DEF Copies, Room, IsFree
<1>6. Stream'
  <2>1. Left = 0 /\ shadow.size \in Nat
    BY <1>1 DEF Left, TypeOK
  <2>2. shadow.sent = 0
    BY <1>2 DEF Slots
  <2>3. Left' = shadow.size
    BY <1>1, <2>1, <2>2 DEF Left
  <2>4. Len(out) \in Nat /\ Len(line) \in Nat
    BY DEF TypeOK
  <2>5. \A i \in 1..shadow.size : half[shadow.which][i] = asked[Len(out) + i]
    BY <2>1, <2>4 DEF Stream
  <2>6. \A i \in 1..Len(line) : line[i] = asked[Len(out) + shadow.size + i]
    BY <2>1, <2>4 DEF Stream
  <2>7. Len(asked) = Len(out) + shadow.size + Len(line)
    BY <2>1, <2>4 DEF Stream
  <2>8. QED
    BY <1>1, <1>2, <2>1, <2>2, <2>3, <2>4, <2>5, <2>6, <2>7 DEF Stream
<1>7. QED
  BY <1>3, <1>4, <1>5, <1>6

(***************************************************************************)
(* The bookkeeping invariant holds throughout.                             *)
(***************************************************************************)
THEOREM Bookkeeping == Spec => []IInv
<1>1. IInv /\ [Next]_vars => IInv'
  <2> SUFFICES ASSUME IInv, [Next]_vars PROVE IInv'
    OBVIOUS
  <2>1. CASE UNCHANGED vars
    BY <2>1 DEF vars, software, channel, IInv, TypeOK, Slots, Copies, Stream,
                Left, Room, IsFree
  <2>2. QED
    BY <2>1, PutcharIInv, FflushIInv, CopyIInv, EnqueueIInv, SendByteIInv,
       CompleteIInv DEF Next, UartWrite, Udma
<1>2. QED
  BY <1>1, InitIInv, PTL DEF Spec

(***************************************************************************)
(* uart_write never touches bytes the channel has still to read.           *)
(***************************************************************************)
THEOREM HalvesAreSafe == Spec => []NoOverwrite
<1>1. IInv => NoOverwrite
  BY DEF IInv, TypeOK, Slots, NoOverwrite, InFlight, IsFree, Halves, NoHalf
<1>2. QED
  BY <1>1, Bookkeeping, PTL

(***************************************************************************)
(* putchar never drops a character.                                        *)
(***************************************************************************)
THEOREM NothingDropped == Spec => NoDrop
<1> DEFINE Kept == asked' # asked => line' = Append(line, asked'[Len(asked')])
<1>1. IInv /\ [Next]_vars => [Kept]_vars
  <2> SUFFICES ASSUME IInv, Next PROVE Kept
    OBVIOUS
  <2>1. ASSUME NEW c \in Chars, Putchar(c) PROVE Kept
    <3>1. line' = Append(line, c) /\ asked' = Append(asked, c)
      BY <2>1 DEF Putchar, IInv, Room
    <3>2. asked \in Seq(Chars)
      BY DEF IInv, TypeOK
    <3>3. asked'[Len(asked')] = c
      BY <3>1, <3>2, AppendFacts
    <3>4. QED
      BY <3>1, <3>3
  <2>2. CASE ~ \E c \in Chars : Putchar(c)
    BY <2>2 DEF Next, Fflush, UartWrite, WaitTxDone, Copy, Enqueue, Udma,
                SendByte, Complete
  <2>3. QED
    BY <2>1, <2>2
<1>2. QED
  BY <1>1, Bookkeeping, PTL DEF Spec, NoDrop

(***************************************************************************)
(* The double-buffered console implements the byte channel: every step     *)
(* puts one byte, sends the next one, or leaves both ends alone.           *)
(***************************************************************************)
THEOREM ConsoleImplementsChannel == Spec => ConsoleIsChannel
<1>1. Init => Channel!Init
  BY DEF Init, Channel!Init
<1>2. IInv /\ [Next]_vars => [Channel!Next]_(Channel!vars)
  <2> SUFFICES ASSUME IInv, [Next]_vars PROVE [Channel!Next]_(Channel!vars)
    OBVIOUS
  <2>1. ASSUME NEW c \in Chars, Putchar(c) PROVE Channel!Put
    BY <2>1 DEF Putchar, Channel!Put
  <2>2. CASE SendByte
    <3>1. Channel!Emit
      BY <2>2, SendByteEmits DEF SendByte, Channel!Emit
    <3>2. QED
      BY <3>1 DEF Channel!Next
  <2>3. CASE Fflush \/ UartWrite \/ Complete \/ UNCHANGED vars
    BY <2>3 DEF Fflush, UartWrite, WaitTxDone, Copy, Enqueue, Complete, vars,
                Channel!vars
  <2>4. QED
    BY <2>1, <2>2, <2>3 DEF Next, Udma, Channel!Next
<1>3. QED
  BY <1>1, <1>2, Bookkeeping, PTL DEF Spec, ConsoleIsChannel, Channel!Spec

USE DepthAssumption, MaxTypedAssumption

(***************************************************************************)
(* A step of the console is a step of its transmitter, or none of it.      *)
(***************************************************************************)
LEMMA ConsoleStepIsTxStep == [ConsoleNext]_cvars => [Next]_vars
BY DEF ConsoleNext, Type, Open, Read, Disable, Call, PrintByte, Transmit, cvars, Next

THEOREM ConsoleHasTransmitter == ConsoleSpec => Spec
<1>1. ConsoleInit => Init
  BY DEF ConsoleInit
<1>2. QED
  BY <1>1, ConsoleStepIsTxStep, PTL DEF ConsoleSpec, Spec

\* uart_write never copies over bytes still to be sent, with a receiver too.
THEOREM ConsoleHalvesAreSafe == ConsoleSpec => []NoOverwrite
BY ConsoleHasTransmitter, HalvesAreSafe

\* putchar never drops a character, with a receiver on the UART too.
THEOREM ConsoleDropsNothing == ConsoleSpec => NoDrop
BY ConsoleHasTransmitter, NothingDropped

\* What leaves on the wire is what was printed, with a receiver too.
THEOREM ConsoleOutputIsChannel == ConsoleSpec => ConsoleIsChannel
BY ConsoleHasTransmitter, ConsoleImplementsChannel

-----------------------------------------------------------------------------
(* The receiver *)

\* SETUP is written once before the first overflow.  Until then nothing is
\* received and nothing printed.
Opened ==
  /\ setup \in {{}, Rx!Configured} \/ "PARITY_ENA" \in setup
  /\ rxPc = "closed" => setup = {} /\ got = <<>>
  /\ rxPc = "cleared" => "PARITY_ENA" \in setup
  /\ setup = {} => /\ rxPc \in {"closed", "disabled"}
                   /\ buffer = <<>>
                   /\ pc = "ready" /\ IsFree(current)

\* Only a byte that found the receiver full raises the flag, and so starts the
\* recovery that spoils SETUP.
Recovery ==
  /\ overflow => overflowed
  /\ rxPc \in {"clear", "cleared"} => overflowed
  /\ "PARITY_ENA" \in setup => overflowed
  /\ mixed => overflowed

\* What was returned and what is still in the buffer: bytes already typed, in
\* the order of typing, and garbage only after SETUP was spoilt.
Order ==
  /\ \A i \in 1..Len(got) : got[i] <= sent
  /\ \A i \in 1..Len(buffer) : buffer[i] <= sent
  /\ \A i, j \in 1..Len(buffer) :
       i < j /\ buffer[i] # 0 /\ buffer[j] # 0 => buffer[i] < buffer[j]
  /\ \A i \in 1..Len(got), j \in 1..Len(buffer) :
       got[i] # 0 /\ buffer[j] # 0 => got[i] < buffer[j]
  /\ setup = Rx!Configured => /\ \A i \in 1..Len(got) : got[i] # 0
                              /\ \A i \in 1..Len(buffer) : buffer[i] # 0

RxIInv == Rx!TypeOK /\ Rx!InOrder /\ Opened /\ Recovery /\ Order

(***************************************************************************)
(* The values SETUP takes.                                                 *)
(***************************************************************************)
LEMMA SetupFacts ==
  /\ Rx!Configured \subseteq Rx!Bits
  /\ "PARITY_ENA" \notin Rx!Configured
  /\ "CLEAN_FIFO" \notin Rx!Configured
  /\ Rx!Configured # {}
  /\ Rx!RegSet("CLEAN_FIFO", 1) = {"CLEAN_FIFO"}
  /\ Rx!RegSet("TX_ENA", 0) = {}
  /\ Rx!RegSet("RX_ENA", 0) = {}
BY DEF Rx!Configured, Rx!RegSet, Rx!Bits

LEMMA TailFacts ==
  ASSUME NEW S, NEW s \in Seq(S), s # <<>>
  PROVE  /\ Tail(s) \in Seq(S) /\ Len(Tail(s)) = Len(s) - 1
         /\ Head(s) = s[1] /\ Head(s) \in S /\ Len(s) \in Nat \ {0}
         /\ \A i \in 1..Len(Tail(s)) : Tail(s)[i] = s[i + 1]
OBVIOUS

LEMMA EmptyFacts ==
  ASSUME NEW S, NEW s, s = <<>>
  PROVE  s \in Seq(S) /\ Len(s) = 0
OBVIOUS

LEMMA InitRxIInv == ConsoleInit => RxIInv
<1> SUFFICES ASSUME ConsoleInit PROVE RxIInv
  OBVIOUS
<1>1. /\ setup = {} /\ buffer = <<>> /\ overflow = FALSE /\ sent = 0 /\ got = <<>>
      /\ rxPc = "closed" /\ mixed = FALSE /\ overflowed = FALSE /\ pc = "ready" /\ IsFree(current)
  BY FreeIsXfer DEF ConsoleInit, Init, Rx!Init
<1>2. Len(buffer) = 0 /\ Len(got) = 0
  BY <1>1
<1>3. Rx!TypeOK /\ Rx!InOrder
  <2>1. Rx!InOrder
    BY <1>2 DEF Rx!InOrder
  <2>2. Rx!TypeOK
    <3>1. buffer \in Seq(0..MaxTyped) /\ got \in Seq(0..MaxTyped)
      BY <1>1, EmptyFacts, Zenon
    <3>2. sent \in 0..MaxTyped /\ Len(buffer) <= Depth
      BY <1>1, <1>2
    <3>3. overflow \in BOOLEAN
      BY <1>1
    <3>4. QED
      BY <1>1, <3>1, <3>2, <3>3 DEF Rx!TypeOK
  <2>3. QED
    BY <2>1, <2>2
<1>4. Opened /\ Recovery /\ Order
  BY <1>1, <1>2 DEF Opened, Recovery, Order
<1>5. QED
  BY <1>3, <1>4 DEF RxIInv

(***************************************************************************)
(* A byte arrives.                                                         *)
(***************************************************************************)
LEMMA ReceiveRxIInv ==
  ASSUME RxIInv, Type
  PROVE  RxIInv'
<1> USE DEF RxIInv
<1>1. /\ sent < MaxTyped /\ sent' = sent + 1 /\ sent \in Nat
      /\ UNCHANGED <<setup, got, rxPc, mixed, pc, current>>
      /\ buffer \in Seq(0..MaxTyped) /\ Len(buffer) \in Nat
  BY DEF Type, Rx!Receive, Rx!TypeOK, vars, software, channel
<1>0. /\ overflowed => overflowed'
      /\ setup = Rx!Configured /\ Len(buffer) >= Depth => overflowed'
  BY DEF Type
<1>2. ASSUME NEW b \in {0, sent'}, buffer' = Append(buffer, b), UNCHANGED overflow,
             Len(buffer) < Depth, setup # {}, b = 0 => setup # Rx!Configured
      PROVE  RxIInv'
  <2>1. /\ buffer' \in Seq(0..MaxTyped) /\ Len(buffer') = Len(buffer) + 1
        /\ buffer'[Len(buffer) + 1] = b
        /\ \A i \in 1..Len(buffer) : buffer'[i] = buffer[i]
    BY <1>1, <1>2, AppendFacts
  <2>2. Rx!TypeOK' /\ Rx!InOrder' /\ Opened'
    BY <1>1, <1>2, <2>1 DEF Rx!TypeOK, Rx!InOrder, Opened
  <2>3. Recovery'
    BY <1>0, <1>1, <1>2 DEF Recovery
  <2>4. Order'
    <3>1. \A i \in 1..Len(buffer') : i \in 1..Len(buffer) \/ i = Len(buffer) + 1
      BY <1>1, <2>1
    <3>2. \A i \in 1..Len(got) : got[i] <= sent /\ got[i] \in Nat
      BY DEF Order, Rx!TypeOK
    <3>3. \A i \in 1..Len(buffer) : buffer[i] <= sent /\ buffer[i] \in Nat
      BY DEF Order, Rx!TypeOK
    <3>4. \A i \in 1..Len(got) : got[i] <= sent'
      BY <1>1, <3>2
    <3>5. ASSUME NEW i \in 1..Len(buffer') PROVE buffer'[i] <= sent'
      <4>1. CASE i \in 1..Len(buffer)
        <5>1. buffer'[i] = buffer[i] /\ buffer[i] <= sent /\ buffer[i] \in Nat
          BY <4>1, <2>1, <3>3
        <5>2. QED
          BY <5>1, <1>1
      <4>2. CASE i = Len(buffer) + 1
        BY <4>2, <1>1, <2>1
      <4>3. QED
        BY <4>1, <4>2, <3>1
    <3>6. ASSUME NEW i \in 1..Len(buffer'), NEW j \in 1..Len(buffer'), i < j,
                 buffer'[i] # 0, buffer'[j] # 0
          PROVE  buffer'[i] < buffer'[j]
      <4>1. i \in 1..Len(buffer)
        BY <3>1, <3>6, <2>1, <1>1
      <4>2. CASE j \in 1..Len(buffer)
        BY <4>1, <4>2, <2>1, <3>6 DEF Order
      <4>3. CASE j = Len(buffer) + 1
        BY <4>1, <4>3, <2>1, <3>6, <3>3, <1>1
      <4>4. QED
        BY <4>2, <4>3, <3>1
    <3>7. ASSUME NEW i \in 1..Len(got), NEW j \in 1..Len(buffer'),
                 got[i] # 0, buffer'[j] # 0
          PROVE  got[i] < buffer'[j]
      <4>1. CASE j \in 1..Len(buffer)
        BY <4>1, <2>1, <3>7 DEF Order
      <4>2. CASE j = Len(buffer) + 1
        BY <4>2, <2>1, <3>7, <3>2, <1>1
      <4>3. QED
        BY <4>1, <4>2, <3>1
    <3>8. setup = Rx!Configured => /\ \A i \in 1..Len(got) : got[i] # 0
                                   /\ \A i \in 1..Len(buffer') : buffer'[i] # 0
      BY <1>1, <1>2, <2>1, <3>1 DEF Order
    <3>9. QED
      BY <1>1, <3>4, <3>5, <3>6, <3>7, <3>8 DEF Order
  <2>5. QED
    BY <2>2, <2>3, <2>4
<1>3. ASSUME buffer' = buffer, overflow' \in BOOLEAN,
             overflow' => overflow \/ (setup = Rx!Configured /\ Len(buffer) >= Depth)
      PROVE  RxIInv'
  <2>1. Rx!TypeOK' /\ Rx!InOrder' /\ Opened'
    BY <1>1, <1>3 DEF Rx!TypeOK, Rx!InOrder, Opened
  <2>2. Recovery'
    BY <1>0, <1>1, <1>3 DEF Recovery
  <2>3. Order'
    <3>1. \A i \in 1..Len(got) : got[i] <= sent'
      BY <1>1 DEF Order, Rx!TypeOK
    <3>2. \A i \in 1..Len(buffer) : buffer[i] <= sent'
      BY <1>1 DEF Order, Rx!TypeOK
    <3>3. QED
      BY <1>1, <1>3, <3>1, <3>2 DEF Order
  <2>4. QED
    BY <2>1, <2>2, <2>3
<1>4. QED
  <2>1. CASE /\ setup = Rx!Configured /\ Len(buffer) < Depth
             /\ buffer' = Append(buffer, sent') /\ UNCHANGED overflow
    BY <2>1, <1>1, <1>2, SetupFacts
  <2>2. CASE setup = Rx!Configured /\ ~(Len(buffer) < Depth) /\ overflow' = TRUE /\ buffer' = buffer
    <3>1. Len(buffer) >= Depth
      BY <2>2, <1>1, DepthAssumption
    <3>2. QED
      BY <2>2, <3>1, <1>3
  <2>3. CASE /\ setup # Rx!Configured /\ "RX_ENA" \in setup /\ Len(buffer) < Depth
             /\ buffer' = Append(buffer, 0) /\ UNCHANGED overflow
    BY <2>3, <1>2
  <2>4. CASE setup # Rx!Configured /\ buffer' = buffer /\ overflow' = overflow
    BY <2>4, <1>3 DEF Rx!TypeOK
  <2>5. QED
    BY <2>1, <2>2, <2>3, <2>4 DEF Type, Rx!Receive, Rx!Garbage

(***************************************************************************)
(* The buffer is emptied or left alone, and nothing is returned.           *)
(***************************************************************************)
LEMMA OrderKept ==
  ASSUME RxIInv, UNCHANGED <<sent, got>>, buffer' \in {buffer, <<>>},
         setup' = Rx!Configured => setup = Rx!Configured \/ (got = <<>> /\ buffer = <<>>)
  PROVE  Order' /\ Rx!InOrder'
<1> USE DEF RxIInv
<1>1. Rx!InOrder'
  BY DEF Rx!InOrder
<1>2. sent \in Nat /\ Len(<<>>) = 0
  BY DEF Rx!TypeOK
<1>3. CASE buffer' = buffer
  BY <1>1, <1>3 DEF Order
<1>4. CASE buffer' = <<>>
  BY <1>1, <1>2, <1>4 DEF Order
<1>5. QED
  BY <1>3, <1>4

LEMMA SetupRxIInv ==
  ASSUME RxIInv, UNCHANGED <<vars, history>>,
         Rx!UartOpen \/ Rx!CheckOverflow \/ Rx!ClearRxFifo1 \/ Rx!ClearRxFifo2
           \/ Rx!UartDisable
  PROVE  RxIInv'
<1> USE SetupFacts DEF RxIInv
<1>0. UNCHANGED <<pc, current, mixed, overflowed>>
  BY DEF vars, software, channel, history
<1>1. /\ UNCHANGED <<sent, got>>
      /\ buffer' \in {buffer, <<>>}
      /\ setup' \subseteq Rx!Bits
  BY DEF Rx!UartOpen, Rx!CheckOverflow, Rx!ClearRxFifo1, Rx!ClearRxFifo2, Rx!UartDisable,
         Rx!WriteSetup, Rx!TypeOK
<1>a. overflow' \in BOOLEAN /\ (overflow' => overflow)
  <2>1. overflow' \in {overflow, FALSE}
    BY DEF Rx!UartOpen, Rx!CheckOverflow, Rx!ClearRxFifo1, Rx!ClearRxFifo2, Rx!UartDisable
  <2>2. overflow \in BOOLEAN
    BY DEF Rx!TypeOK
  <2>3. CASE overflow' = FALSE
    BY <2>3
  <2>4. CASE overflow' = overflow
    BY <2>2, <2>4
  <2>5. QED
    BY <2>1, <2>3, <2>4
<1>b. buffer' \in Seq(0..MaxTyped) /\ Len(buffer') <= Depth
  <2>1. <<>> \in Seq(0..MaxTyped) /\ Len(<<>>) = 0
    OBVIOUS
  <2>2. CASE buffer' = <<>>
    BY <2>1, <2>2
  <2>3. CASE buffer' = buffer
    BY <2>3 DEF Rx!TypeOK
  <2>4. QED
    BY <1>1, <2>2, <2>3
<1>2. CASE Rx!UartOpen
  <2>1. setup' = Rx!Configured /\ rxPc' = "check" /\ rxPc = "closed" /\ buffer = <<>>
    BY <1>2 DEF Rx!UartOpen, Rx!WriteSetup, Opened
  <2>2. Order' /\ Rx!InOrder'
    BY <1>1, <2>1, OrderKept DEF Opened
  <2>3. Rx!TypeOK'
    BY <1>1, <1>a, <1>b, <2>1 DEF Rx!TypeOK
  <2>4. Opened' /\ Recovery'
    BY <1>0, <1>1, <1>a, <2>1, <2>2 DEF Opened, Recovery
  <2>5. QED
    BY <2>2, <2>3, <2>4
<1>3. CASE Rx!CheckOverflow
  <2>1. setup' = setup /\ rxPc = "check" /\ rxPc' = IF overflow THEN "clear" ELSE "poll"
    BY <1>3 DEF Rx!CheckOverflow
  <2>2. Order' /\ Rx!InOrder'
    BY <1>1, <2>1, OrderKept
  <2>3. Rx!TypeOK'
    BY <1>1, <1>a, <1>b, <2>1 DEF Rx!TypeOK
  <2>4. Opened' /\ Recovery'
    BY <1>0, <1>1, <1>a, <2>1, <2>2 DEF Opened, Recovery
  <2>5. QED
    BY <2>2, <2>3, <2>4
<1>4. CASE Rx!ClearRxFifo1 \/ Rx!ClearRxFifo2
  <2>1. setup # {}
    BY <1>4 DEF Rx!ClearRxFifo1, Rx!ClearRxFifo2, Opened
  <2>2. "PARITY_ENA" \in setup' /\ rxPc \in {"clear", "cleared"} /\ rxPc' \in {"cleared", "poll"}
    <3>1. CASE Rx!ClearRxFifo1
      BY <3>1 DEF Rx!ClearRxFifo1, Rx!WriteSetup, Rx!Bits
    <3>2. CASE Rx!ClearRxFifo2
      BY <3>2 DEF Rx!ClearRxFifo2, Rx!WriteSetup, Rx!Bits, Opened
    <3>3. QED
      BY <1>4, <3>1, <3>2
  <2>3. Order' /\ Rx!InOrder'
    BY <1>1, <2>2, OrderKept
  <2>4. Rx!TypeOK'
    BY <1>1, <1>a, <1>b, <2>2 DEF Rx!TypeOK
  <2>5. Opened' /\ Recovery'
    BY <1>0, <1>1, <1>a, <2>1, <2>2, <2>3 DEF Opened, Recovery
  <2>6. QED
    BY <2>3, <2>4, <2>5
<1>5. CASE Rx!UartDisable
  <2>1. setup' = setup /\ rxPc' = "disabled" /\ overflow' = overflow
    BY <1>5 DEF Rx!UartDisable, Rx!WriteSetup
  <2>2. Order' /\ Rx!InOrder'
    BY <1>1, <2>1, OrderKept
  <2>3. Rx!TypeOK'
    BY <1>1, <1>a, <1>b, <2>1 DEF Rx!TypeOK
  <2>4. Opened' /\ Recovery'
    BY <1>0, <1>1, <1>a, <2>1, <2>2 DEF Opened, Recovery
  <2>5. QED
    BY <2>2, <2>3, <2>4
<1>6. QED
  BY <1>2, <1>3, <1>4, <1>5

(***************************************************************************)
(* uart_read_char returns the byte that has been in the buffer longest.    *)
(***************************************************************************)
LEMMA ReadDataRxIInv ==
  ASSUME RxIInv, Rx!ReadData, UNCHANGED <<vars, history>>
  PROVE  RxIInv'
<1> USE DEF RxIInv
<1> DEFINE b == Head(buffer)
<1>1. /\ rxPc = "poll" /\ rxPc' = "check" /\ buffer # <<>>
      /\ got' = Append(got, b) /\ buffer' = Tail(buffer)
      /\ UNCHANGED <<setup, overflow, sent, mixed, overflowed, pc, current>>
  BY DEF Rx!ReadData, vars, software, channel, history
<1>2. /\ buffer \in Seq(0..MaxTyped) /\ got \in Seq(0..MaxTyped)
      /\ sent \in Nat /\ Len(got) \in Nat
  BY DEF Rx!TypeOK
<1>3. /\ buffer' \in Seq(0..MaxTyped) /\ Len(buffer') = Len(buffer) - 1
      /\ b = buffer[1] /\ b \in 0..MaxTyped /\ Len(buffer) \in Nat \ {0}
      /\ \A i \in 1..Len(buffer') : buffer'[i] = buffer[i + 1]
  BY <1>1, <1>2, TailFacts
<1>4. /\ got' \in Seq(0..MaxTyped) /\ Len(got') = Len(got) + 1
      /\ got'[Len(got) + 1] = b
      /\ \A i \in 1..Len(got) : got'[i] = got[i]
  BY <1>1, <1>2, <1>3, AppendFacts
<1>5. \A i \in 1..Len(got') : i \in 1..Len(got) \/ i = Len(got) + 1
  BY <1>2, <1>4
<1>6. \A i \in 1..Len(buffer') : i + 1 \in 1..Len(buffer) /\ 1 < i + 1
  BY <1>3
<1>7. 1 \in 1..Len(buffer)
  BY <1>3
<1>8. Rx!TypeOK'
  BY <1>1, <1>3, <1>4 DEF Rx!TypeOK
<1>9. Opened' /\ Recovery'
  BY <1>1, <1>2, <1>3 DEF Opened, Recovery
<1>10. Rx!InOrder'
  <2> SUFFICES ASSUME NEW i \in 1..Len(got'), NEW j \in 1..Len(got'), i < j,
                      got'[i] # 0, got'[j] # 0
               PROVE  got'[i] < got'[j]
    BY DEF Rx!InOrder, Rx!Garbage
  <2>1. i \in 1..Len(got)
    BY <1>2, <1>4
  <2>2. CASE j \in 1..Len(got)
    BY <1>4, <2>1, <2>2 DEF Rx!InOrder, Rx!Garbage
  <2>3. CASE j = Len(got) + 1
    BY <1>3, <1>4, <1>7, <2>1, <2>3 DEF Order
  <2>4. QED
    BY <1>5, <2>2, <2>3
<1>11. Order'
  <2>1. ASSUME NEW i \in 1..Len(got')
        PROVE  got'[i] <= sent /\ (setup = Rx!Configured => got'[i] # 0)
    <3>1. CASE i \in 1..Len(got)
      BY <1>4, <3>1 DEF Order
    <3>2. CASE i = Len(got) + 1
      BY <1>3, <1>4, <1>7, <3>2 DEF Order
    <3>3. QED
      BY <1>5, <3>1, <3>2
  <2>2. ASSUME NEW i \in 1..Len(buffer')
        PROVE  buffer'[i] <= sent /\ (setup = Rx!Configured => buffer'[i] # 0)
    BY <1>3, <1>6 DEF Order
  <2>3. ASSUME NEW i \in 1..Len(buffer'), NEW j \in 1..Len(buffer'), i < j,
               buffer'[i] # 0, buffer'[j] # 0
        PROVE  buffer'[i] < buffer'[j]
    <3>1. i + 1 \in 1..Len(buffer) /\ j + 1 \in 1..Len(buffer) /\ i + 1 < j + 1
      BY <1>6, <2>3
    <3>2. QED
      BY <1>3, <2>3, <3>1 DEF Order
  <2>4. ASSUME NEW i \in 1..Len(got'), NEW j \in 1..Len(buffer'),
               got'[i] # 0, buffer'[j] # 0
        PROVE  got'[i] < buffer'[j]
    <3>1. j + 1 \in 1..Len(buffer) /\ 1 < j + 1 /\ buffer'[j] = buffer[j + 1]
      BY <1>3, <1>6
    <3>2. CASE i \in 1..Len(got)
      BY <1>4, <2>4, <3>1, <3>2 DEF Order
    <3>3. CASE i = Len(got) + 1
      BY <1>3, <1>4, <1>7, <2>4, <3>1, <3>3 DEF Order
    <3>4. QED
      BY <1>5, <3>2, <3>3
  <2>5. QED
    BY <1>1, <2>1, <2>2, <2>3, <2>4 DEF Order
<1>12. QED
  BY <1>8, <1>9, <1>10, <1>11

(***************************************************************************)
(* Printing leaves the receiver alone; a byte can only leave after         *)
(* uart_open, so that it leaves with another SETUP only after an overflow. *)
(***************************************************************************)
LEMMA TxRxIInv ==
  ASSUME RxIInv, Call \/ PrintByte \/ Transmit
  PROVE  RxIInv'
<1> USE DEF RxIInv
<1>1. UNCHANGED <<setup, buffer, overflow, sent, got, rxPc, overflowed>>
  BY DEF Call, PrintByte, Transmit, receiver, history
<1>2. Rx!TypeOK' /\ Rx!InOrder' /\ Order'
  BY <1>1 DEF Rx!TypeOK, Rx!InOrder, Order
<1>3. CASE Call \/ PrintByte
  <2>1. setup # {} /\ mixed' = mixed
    BY <1>3 DEF Call, PrintByte, Printing, Opened, history
  <2>2. Opened' /\ Recovery'
    BY <1>1, <2>1 DEF Opened, Recovery
  <2>3. QED
    BY <1>2, <2>2
<1>4. CASE Transmit
  <2>1. CASE setup = {}
    BY <1>4, <2>1 DEF Transmit, Udma, SendByte, Complete, Opened
  <2>2. CASE setup # {}
    <3>1. mixed' => mixed \/ setup # Rx!Configured
      BY <1>4 DEF Transmit
    <3>2. Opened' /\ Recovery'
      BY <1>1, <2>2, <3>1 DEF Opened, Recovery
    <3>3. QED
      BY <1>2, <3>2
  <2>3. QED
    BY <2>1, <2>2
<1>5. QED
  BY <1>3, <1>4

LEMMA RxIInvHolds == ConsoleSpec => []RxIInv
<1>1. RxIInv /\ [ConsoleNext]_cvars => RxIInv'
  <2> SUFFICES ASSUME RxIInv, [ConsoleNext]_cvars PROVE RxIInv'
    OBVIOUS
  <2>1. CASE Type \/ Open \/ Read \/ Disable
    BY <2>1, ReceiveRxIInv, SetupRxIInv, ReadDataRxIInv
       DEF Type, Open, Read, Disable, Rx!ReadChar
  <2>2. CASE Call \/ PrintByte \/ Transmit
    BY <2>2, TxRxIInv
  <2>3. CASE UNCHANGED cvars
    BY <2>3 DEF cvars, vars, software, channel, receiver, history, RxIInv, Rx!TypeOK, Rx!InOrder,
                Opened, Recovery, Order
  <2>4. QED
    BY <2>1, <2>2, <2>3 DEF ConsoleNext
<1>2. QED
  BY <1>1, InitRxIInv, PTL DEF ConsoleSpec

(***************************************************************************)
(* What is read: bytes in the order they were typed and none twice, and in *)
(* a console whose SETUP was not spoilt nothing else.                      *)
(***************************************************************************)
THEOREM TypedBytesAreRead == ConsoleSpec => []ReadAsTyped
<1>1. RxIInv => ReadAsTyped
  BY DEF RxIInv, ReadAsTyped, Order, Rx!NoGarbage, Rx!Garbage
<1>2. QED
  BY <1>1, RxIInvHolds, PTL

(***************************************************************************)
(* A byte leaves with another SETUP than uart_open's only after a byte     *)
(* found the receiver full (uart_read_char, hal_uart_clear_rx_fifo).       *)
(***************************************************************************)
THEOREM OnlyOverflowsDisturb == ConsoleSpec => []SentAsConfigured
<1>1. RxIInv => SentAsConfigured
  BY DEF RxIInv, SentAsConfigured, Recovery
<1>2. QED
  BY <1>1, RxIInvHolds, PTL

=============================================================================
