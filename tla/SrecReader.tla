----------------------------- MODULE SrecReader -----------------------------
(***************************************************************************)
(* The S-record reader of sw/bootcode/kk_srec.c, one step per character    *)
(* handed to srec_read_byte.  A character is "S", a hexadecimal digit, or  *)
(* any other, which is ignored.  The low nibble of flags is readState, the *)
(* high one recordType; callback holds the arguments of the srec_data_read *)
(* call a step makes, or NoCall.                                           *)
(***************************************************************************)
EXTENDS Integers, Sequences

CONSTANTS
  LineMax,   \* SREC_LINE_MAX_BYTE_COUNT, 37
  Digits     \* the digits that occur, of 0 .. 15

VARIABLES recordType, readState, byteCount, length, data, callback

reader == <<recordType, readState, byteCount, length, data>>
rvars  == <<reader, callback>>

Byte   == 0..255
States == {"START", "TYPE", "COUNT_HIGH", "COUNT_LOW", "DATA_HIGH", "DATA_LOW"}
NoCall == [called |-> FALSE]

-----------------------------------------------------------------------------
(* srec_end_read *)

AddressBytes(t) == IF t % 2 = 1 \/ t = 0 THEN (IF (t \div 2) % 2 = 1 THEN 4 ELSE 2)
                   ELSE 3

IsData(t)        == t \in 1..3
IsTermination(t) == t >= 7

Prefix(d, n) == [i \in 1..n |-> d[i - 1]]

\* The sum of a sequence of bytes, as the loop makes it.
Total(q) ==
  LET sums[i \in 0..Len(q)] == IF i = 0 THEN 0 ELSE sums[i - 1] + q[i]
  IN  sums[Len(q)]

\* Fault: the sum is kept in four bits.
SumErrorNibble(d, n) == (n + Total(Prefix(d, n)) + 1) % 16 # 0

\* The checksum byte makes the 8-bit sum of all bytes, the count included,
\* all ones.
SumError(d, n) == (n + Total(Prefix(d, n)) + 1) % 256 # 0

\* The callback for a record of type t announcing c bytes of which n are in
\* d.  The address is taken from the front of d even when n is too small.
EndRead(t, c, n, d) ==
  LET a == AddressBytes(t) IN
  [called  |-> TRUE,
   type    |-> t,
   address |-> Prefix(d, a),
   payload |-> IF n > a THEN SubSeq(Prefix(d, n), a + 1, n - 1) ELSE <<>>,
   sumError   |-> SumError(d, n),
   countError |-> n # c]

\* srec_end_read on the state t, c, n, d, and then readState := s.  With no
\* byte count there is nothing to end, and length is left as it is.
Finish(t, c, n, d, s) ==
  /\ readState' = s
  /\ data' = d
  /\ IF c = 0
     THEN recordType' = t /\ byteCount' = 0 /\ length' = n /\ callback' = NoCall
     ELSE /\ recordType' = 0 /\ byteCount' = 0 /\ length' = 0
          /\ callback' = EndRead(t, c, n, d)

-----------------------------------------------------------------------------
(* srec_read_byte *)

\* "S" synchronises to a new record in every state.
ReadS == Finish(recordType, byteCount, length, data, "TYPE")

ReadType(b) ==
  /\ readState = "TYPE"
  /\ recordType' = b
  /\ readState' = "COUNT_HIGH"
  /\ callback' = NoCall
  /\ UNCHANGED <<byteCount, length, data>>

\* The first nibble of a byte waits at the end of the data.
ReadHigh(b) ==
  /\ readState \in {"COUNT_HIGH", "DATA_HIGH"}
  /\ data' = [data EXCEPT ![length] = 16 * b]
  /\ readState' = IF readState = "COUNT_HIGH" THEN "COUNT_LOW" ELSE "DATA_LOW"
  /\ callback' = NoCall
  /\ UNCHANGED <<recordType, byteCount, length>>

\* In the low positions the waiting byte's low nibble is 0, so |= adds b.
Combined(b) == [data EXCEPT ![length] = @ + b]

\* Fault: any byte count is accepted.
ReadCountLowUnlimited(b) ==
  /\ readState = "COUNT_LOW"
  /\ byteCount' = Combined(b)[length]
  /\ data' = Combined(b)
  /\ readState' = "DATA_HIGH"
  /\ callback' = NoCall
  /\ UNCHANGED <<recordType, length>>

ReadCountLow(b) ==
  /\ readState = "COUNT_LOW"
  /\ LET c == Combined(b)[length] IN
     IF c > LineMax
     THEN Finish(recordType, c, length, Combined(b), "START")
     ELSE /\ byteCount' = c
          /\ data' = Combined(b)
          /\ readState' = "DATA_HIGH"
          /\ callback' = NoCall
          /\ UNCHANGED <<recordType, length>>

ReadDataLow(b) ==
  /\ readState = "DATA_LOW"
  /\ IF length + 1 < byteCount
     THEN /\ length' = length + 1
          /\ data' = Combined(b)
          /\ readState' = "DATA_HIGH"
          /\ callback' = NoCall
          /\ UNCHANGED <<recordType, byteCount>>
     ELSE Finish(recordType, byteCount, length + 1, Combined(b), "START")

\* Between records a digit changes only the byte after the data, which the
\* next record overwrites before it uses it.
SkipDigit(b) ==
  /\ readState = "START"
  /\ callback' = NoCall
  /\ UNCHANGED reader

ReadDigit(b) ==
  \/ ReadType(b) \/ ReadHigh(b) \/ ReadCountLow(b) \/ ReadDataLow(b) \/ SkipDigit(b)

ReadOther == callback' = NoCall /\ UNCHANGED reader

-----------------------------------------------------------------------------
ReaderInit ==
  /\ recordType = 0
  /\ readState = "START"
  /\ byteCount = 0
  /\ length = 0
  /\ data = [i \in 0..LineMax |-> 0]
  /\ callback = NoCall
=============================================================================
