----------------------------- MODULE SrecProofs -----------------------------
(***************************************************************************)
(* Proofs about the S-record boot, for every set of files, every number of *)
(* damaged characters and every timing of ignored ones: the reader stays   *)
(* in its buffer, and what is started is what was sent; one damaged        *)
(* character never goes unnoticed.  BootRomProofs carries the results over *)
(* to the boot ROM.                                                        *)
(***************************************************************************)
EXTENDS SrecBoot, SequenceTheorems, WellFoundedInduction, TLAPS

\* What BootRom assumes of the constants.
Framed ==
  /\ LineMax \in Nat /\ LineMax >= 6
  /\ Digits \subseteq 0..15
  /\ \A f \in Files : FileOK(f)

\* The line does not damage the "S", the type or the count of a record.  What
\* is said about damaged records needs it: a count that arrives as 0 leaves
\* length behind (run srec_sync).
HeadsIntact == Exposed \cap 1..4 = {}

-----------------------------------------------------------------------------
(* The inductive invariant *)

Nibble == 0..15

SenderInv ==
  /\ file \in Files
  /\ record \in Nat \ {0}
  /\ position \in Nat
  /\ IF Sending THEN position < Len(Current) ELSE position = 0

\* What the reader is doing at each of the first positions of a record, and
\* what its registers hold from state to state, whatever the line did to the
\* characters behind the count.
ReaderInv ==
  /\ recordType \in Nibble
  /\ data \in [0..LineMax -> Byte]
  /\ entry \in Nat \cup {NoEntry}
  /\ byteCount \in 0..LineMax /\ length \in 0..LineMax
  /\ position = 1 => readState = "TYPE"
  /\ position = 2 => readState = "COUNT_HIGH"
  /\ position = 3 => readState = "COUNT_LOW" /\ data[0] = 16 * Current[3]
  /\ position \notin 1..3 => readState \in {"START", "DATA_HIGH", "DATA_LOW"}
  /\ IF readState \in {"DATA_HIGH", "DATA_LOW"} THEN length < byteCount
     ELSE byteCount = 0 /\ length = 0
  /\ readState = "DATA_LOW" => \E x \in Nibble : data[length] = 16 * x

\* On a line without faults the reader is where the sender is: behind the
\* type it has the type, behind the count the bytes sent so far, or it skips
\* a record that is too long.
Count(r) == Len(r.address) + Len(r.payload) + 1
InStep ==
  IF position > 3 /\ Count(file[record]) <= LineMax
  THEN /\ recordType = file[record].type
       /\ byteCount = Count(file[record])
       /\ \/ readState = "DATA_HIGH" /\ position = 4 + 2 * length
          \/ /\ readState = "DATA_LOW" /\ position = 5 + 2 * length
             /\ data[length] = 16 * Current[position]
       /\ \A i \in 1..length : data[i - 1] = Bytes(file[record])[i + 1]
  ELSE /\ position \in {2, 3} => recordType = file[record].type
       /\ position \notin 1..3 => readState = "START"

\* The data records behind the reader are in memory, and none of them is
\* above the ones to come.
Stands(r) == \A i \in 1..Len(r.payload) :
               /\ Address(r.address) + i - 1 \in DOMAIN mem
               /\ mem[Address(r.address) + i - 1] = r.payload[i]
MemoryInv ==
  /\ \A i \in 1..Len(file) : i < record /\ IsData(file[i].type) /\ Fits(file[i]) =>
       Stands(file[i])
  /\ entry # NoEntry => record >= Len(file) /\ IsTermination(file[Len(file)].type)

FollowedInv == ReaderInv /\ (faults = 0 => InStep /\ MemoryInv)

SrecIInv ==
  /\ SenderInv /\ faults \in Nat
  /\ HeadsIntact \/ faults = 0 => FollowedInv

-----------------------------------------------------------------------------
(* Records and their characters *)

\* A byte is its two digits.
LEMMA ByteIsTwoNibbles ==
  ASSUME NEW b \in Byte
  PROVE  b \div 16 \in Nibble /\ b % 16 \in Nibble /\ 16 * (b \div 16) + (b % 16) = b
<1>1. b \in Nat /\ b < 256
  BY DEF Byte
<1>2. b % 16 \in 0..15 /\ b \div 16 \in Int
  BY <1>1
<1>3. b = 16 * (b \div 16) + (b % 16)
  BY <1>1
<1> DEFINE high == b \div 16
           low == b % 16
<1> HIDE DEF high, low
<1>4. high \in Int /\ low \in 0..15 /\ b = 16 * high + low
  BY <1>2, <1>3 DEF high, low
<1>5. high \in 0..15
  BY <1>1, <1>4
<1> QED BY <1>4, <1>5 DEF high, low, Nibble

\* Where the digits of the k-th byte are in a record.
LEMMA Places ==
  ASSUME NEW k \in Nat \ {0}
  PROVE  /\ (2 * k - 1) % 2 = 1 /\ (2 * k) % 2 = 0
         /\ (2 * k - 1 + 1) \div 2 = k /\ (2 * k) \div 2 = k
  OBVIOUS

\* The bytes behind the count, and the last of them.
EndsInChecksum(r) ==
  LET body == r.address \o r.payload
      n    == Len(body) + 1
  IN  /\ body \in Seq(Byte) /\ n = Len(r.address) + Len(r.payload) + 1
      /\ \A i \in 1..n - 1 : Bytes(r)[i + 1] = body[i]
      /\ Bytes(r)[n + 1] = 255 - ((n + Total(body)) % 256)

\* The bytes of a record: the count, the address, the payload, the checksum.
LEMMA PartsOfRecord ==
  ASSUME Framed, NEW r \in Records
  PROVE  /\ r \in Record
         /\ Bytes(r) \in Seq(Byte)
         /\ Len(r.address) = AddressBytes(r.type)
         /\ AddressBytes(r.type) \in 2..4
         /\ Len(Bytes(r)) = Len(r.address) + Len(r.payload) + 2
         /\ Bytes(r)[1] = Len(r.address) + Len(r.payload) + 1
         /\ \A i \in 1..Len(r.address) : Bytes(r)[i + 1] = r.address[i]
         /\ \A i \in 1..Len(r.payload) :
              Bytes(r)[i + 1 + Len(r.address)] = r.payload[i]
         /\ EndsInChecksum(r)
<1>1. r \in Record /\ Bytes(r) \in Seq(Byte) /\ Len(r.address) = AddressBytes(r.type)
  BY DEF Framed, FileOK, Records
<1>2. AddressBytes(r.type) \in 2..4
  <2> DEFINE odd == r.type % 2 = 1 \/ r.type = 0
             two == (r.type \div 2) % 2 = 1
  <2>1. AddressBytes(r.type) = IF odd THEN (IF two THEN 4 ELSE 2) ELSE 3
    BY DEF AddressBytes
  <2> HIDE DEF odd, two
  <2> QED BY <2>1
<1>3. PICK x :
             /\ Bytes(r) = <<Len(r.address \o r.payload) + 1>> \o (r.address \o r.payload) \o <<x>>
             /\ x = 255 - ((Len(r.address \o r.payload) + 1 + Total(r.address \o r.payload)) % 256)
  BY DEF Bytes
<1>4. r.address \in Seq(Byte) /\ r.payload \in Seq(Byte)
  BY <1>1 DEF Record
<1> DEFINE a == r.address
           p == r.payload
           body == a \o p
           size == Len(a) + Len(p)
<1> HIDE DEF a, p
<1>5. /\ a \in Seq(Byte) /\ p \in Seq(Byte)
      /\ Len(a) \in Nat /\ Len(p) \in Nat /\ size \in Nat
  <2>1. a \in Seq(Byte) /\ p \in Seq(Byte)
    BY <1>4 DEF a, p
  <2>2. Len(a) \in Nat /\ Len(p) \in Nat
    BY <2>1, LenProperties
  <2> QED BY <2>1, <2>2
<1>6. /\ body \in Seq(Byte) /\ Len(body) = size
      /\ \A i \in 1..Len(a) : body[i] = a[i]
      /\ \A i \in 1..Len(p) : body[i + Len(a)] = p[i]
  BY <1>5, ConcatProperties
<1> HIDE DEF body, size
<1>7. /\ Bytes(r) = <<size + 1>> \o body \o <<x>>
      /\ x = 255 - ((size + 1 + Total(body)) % 256)
  BY <1>3, <1>6 DEF body, a, p
<1> DEFINE Values == Byte \cup Nat \cup {x}
           first == <<size + 1>>
           last == <<x>>
<1>8. body \in Seq(Values)
  BY <1>6, SeqMonotonic
<1>9. first \in Seq(Values) /\ Len(first) = 1 /\ first[1] = size + 1
  BY <1>5
<1>10. last \in Seq(Values) /\ Len(last) = 1 /\ last[1] = x
  OBVIOUS
<1> HIDE DEF Values, first, last
<1> DEFINE front == first \o body
<1>11. /\ front \in Seq(Values) /\ Len(front) = 1 + size
       /\ \A i \in 1..1 + size : front[i] = IF i <= 1 THEN first[i] ELSE body[i - 1]
  <2>1. front \in Seq(Values) /\ Len(front) = Len(first) + Len(body)
    BY <1>8, <1>9, ConcatProperties
  <2>2. \A i \in 1..Len(first) + Len(body) :
          front[i] = IF i <= Len(first) THEN first[i] ELSE body[i - Len(first)]
    BY <1>8, <1>9, ConcatProperties
  <2> QED BY <1>5, <1>6, <1>9, <2>1, <2>2
<1> HIDE DEF front
<1>12. /\ Len(front \o last) = size + 2
       /\ \A i \in 1..1 + size : (front \o last)[i] = front[i]
       /\ (front \o last)[size + 2] = x
  <2>1. Len(front \o last) = Len(front) + Len(last)
    BY <1>10, <1>11, ConcatProperties
  <2>2. \A i \in 1..Len(front) + Len(last) :
          (front \o last)[i] = IF i <= Len(front) THEN front[i] ELSE last[i - Len(front)]
    BY <1>10, <1>11, ConcatProperties
  <2> QED BY <1>5, <1>10, <1>11, <2>1, <2>2
<1>13. /\ Len(Bytes(r)) = size + 2
       /\ Bytes(r)[1] = size + 1
       /\ \A i \in 1..size : Bytes(r)[i + 1] = body[i]
      /\ Bytes(r)[size + 2] = x
  BY <1>5, <1>7, <1>9, <1>11, <1>12 DEF first, last, front
<1>14. \A i \in 1..Len(a) : Bytes(r)[i + 1] = a[i]
  BY <1>5, <1>6, <1>13 DEF size
<1>15. \A i \in 1..Len(p) : Bytes(r)[i + 1 + Len(a)] = p[i]
  <2> SUFFICES ASSUME NEW i \in 1..Len(p) PROVE Bytes(r)[i + 1 + Len(a)] = p[i]
    OBVIOUS
  <2>1. i + Len(a) \in 1..size /\ i + Len(a) + 1 = i + 1 + Len(a)
    BY <1>5 DEF size
  <2> QED BY <1>6, <1>13, <2>1
<1>16. LET n == Len(body) + 1
       IN  /\ body \in Seq(Byte) /\ n = size + 1
           /\ \A i \in 1..n - 1 : Bytes(r)[i + 1] = body[i]
           /\ Bytes(r)[n + 1] = 255 - ((n + Total(body)) % 256)
  <2> DEFINE n == Len(body) + 1
  <2>1. n = size + 1 /\ n - 1 = size /\ n + 1 = size + 2 /\ body \in Seq(Byte)
    BY <1>5, <1>6
  <2> HIDE DEF n
  <2>2. /\ \A i \in 1..n - 1 : Bytes(r)[i + 1] = body[i]
        /\ Bytes(r)[n + 1] = 255 - ((n + Total(body)) % 256)
    BY <1>7, <1>13, <2>1
  <2> QED BY <2>1, <2>2 DEF n
<1>17. EndsInChecksum(r)
  BY <1>16 DEF EndsInChecksum, size, a, p, body
<1> QED
  BY <1>1, <1>2, <1>13, <1>14, <1>15, <1>17 DEF size, a, p

LEMMA BytesOfRecord ==
  ASSUME Framed, NEW r \in Records
  PROVE  /\ r \in Record
         /\ Bytes(r) \in Seq(Byte)
         /\ Len(r.address) = AddressBytes(r.type)
         /\ AddressBytes(r.type) \in 2..4
         /\ Len(Bytes(r)) = Len(r.address) + Len(r.payload) + 2
         /\ Bytes(r)[1] = Len(r.address) + Len(r.payload) + 1
         /\ \A i \in 1..Len(r.address) : Bytes(r)[i + 1] = r.address[i]
         /\ \A i \in 1..Len(r.payload) :
              Bytes(r)[i + 1 + Len(r.address)] = r.payload[i]
  BY PartsOfRecord

\* What the sender sends: an S, the type, and two digits for each byte.
LEMMA CharactersOfRecord ==
  ASSUME Framed, NEW r \in Records
  PROVE  /\ r.type \in Nibble
         /\ Count(r) \in 3..255 /\ Bytes(r)[1] = Count(r)
         /\ Bytes(r) \in Seq(Byte) /\ Len(Bytes(r)) = Count(r) + 1
         /\ Len(Coded[r]) = 2 * Count(r) + 4
         /\ Coded[r][1] = S /\ Coded[r][2] = r.type
         /\ \A k \in 1..Count(r) + 1 :
              /\ Coded[r][2 * k + 1] \in Nibble /\ Coded[r][2 * k + 2] \in Nibble
              /\ 16 * Coded[r][2 * k + 1] + Coded[r][2 * k + 2] = Bytes(r)[k]
<1> DEFINE b == Bytes(r)
           n == Len(b)
<1>1. /\ r \in Record /\ b \in Seq(Byte)
      /\ AddressBytes(r.type) \in 2..4
      /\ Len(r.address) = AddressBytes(r.type)
      /\ n = Len(r.address) + Len(r.payload) + 2
      /\ b[1] = Len(r.address) + Len(r.payload) + 1
  BY BytesOfRecord
<1>2. r.type \in Nibble /\ Len(r.payload) \in Nat /\ Count(r) = b[1]
  <2>1. Count(r) = Len(r.address) + Len(r.payload) + 1
    BY DEF Count
  <2> HIDE DEF b
  <2>2. r.type \in Nibble /\ r.payload \in Seq(Byte)
    BY <1>1 DEF Record, Nibble
  <2> QED BY <1>1, <2>1, <2>2, LenProperties
<1>3. n \in Nat /\ \A k \in 1..n : b[k] \in Byte
  <2> HIDE DEF b
  <2> QED BY <1>1, LenProperties, ElementOfSeq
<1>4. Count(r) \in 3..255 /\ n = Count(r) + 1
  <2> DEFINE la == Len(r.address)
             lp == Len(r.payload)
  <2>1. la \in 2..4 /\ lp \in Nat /\ n = la + lp + 2 /\ b[1] = la + lp + 1
    BY <1>1, <1>2
  <2> HIDE DEF la, lp, n, b
  <2>2. 1 \in 1..n
    BY <2>1
  <2>3. b[1] \in 0..255
    BY <1>3, <2>2 DEF Byte
  <2> QED BY <1>2, <2>1, <2>3
<1>5. Coded[r] = Encode(r)
  BY DEF Coded
<1> DEFINE digits == [i \in 1..2 * n |-> IF i % 2 = 1 THEN b[(i + 1) \div 2] \div 16
                                       ELSE b[i \div 2] % 16]
           first == <<S, r.type>>
<1>6. Coded[r] = first \o digits
  BY <1>5 DEF Encode
<1>7. \A k \in 1..n : digits[2 * k - 1] = b[k] \div 16 /\ digits[2 * k] = b[k] % 16
  <2> SUFFICES ASSUME NEW k \in 1..n
               PROVE  digits[2 * k - 1] = b[k] \div 16 /\ digits[2 * k] = b[k] % 16
    OBVIOUS
  <2>1. 2 * k - 1 \in 1..2 * n /\ 2 * k \in 1..2 * n /\ k \in Nat \ {0}
    BY <1>3
  <2>2. digits[2 * k - 1] = IF (2 * k - 1) % 2 = 1 THEN b[(2 * k - 1 + 1) \div 2] \div 16
                            ELSE b[(2 * k - 1) \div 2] % 16
    BY <2>1
  <2>3. digits[2 * k] = IF (2 * k) % 2 = 1 THEN b[(2 * k + 1) \div 2] \div 16
                        ELSE b[(2 * k) \div 2] % 16
    BY <2>1
  <2> HIDE DEF digits, b
  <2>4. (2 * k - 1) % 2 = 1 /\ (2 * k) % 2 = 0 /\ (2 * k - 1 + 1) \div 2 = k /\ (2 * k) \div 2 = k
    BY <2>1, Places
  <2>5. (2 * k) % 2 # 1
    BY <2>4
  <2> QED BY <2>2, <2>3, <2>4, <2>5, Zenon
<1>8. \A k \in 1..n : /\ digits[2 * k - 1] \in Nibble /\ digits[2 * k] \in Nibble
                       /\ 16 * digits[2 * k - 1] + digits[2 * k] = b[k]
  <2> HIDE DEF digits, b
  <2> QED BY <1>3, <1>7, ByteIsTwoNibbles
<1>9. digits \in Seq(Nibble) /\ Len(digits) = 2 * n
  <2>1. \A i \in 1..2 * n : digits[i] \in Nibble
    <3> SUFFICES ASSUME NEW i \in 1..2 * n PROVE digits[i] \in Nibble
      OBVIOUS
    <3> HIDE DEF digits, b
    <3>1. PICK k \in 1..n : i = 2 * k - 1 \/ i = 2 * k
      <4>1. i \in Nat /\ n \in Nat
        BY <1>3
      <4> DEFINE h == (i + 1) \div 2
      <4>2. h \in Int /\ (2 * h = i + 1 \/ 2 * h = i)
        BY <4>1
      <4> HIDE DEF h
      <4>3. h \in 1..n /\ (i = 2 * h - 1 \/ i = 2 * h)
        BY <4>1, <4>2
      <4> QED BY <4>3
    <3> QED BY <3>1, <1>8
  <2>2. DOMAIN digits = 1..2 * n /\ digits = [i \in DOMAIN digits |-> digits[i]]
    OBVIOUS
  <2> HIDE DEF digits, b
  <2>3. digits \in [1..2 * n -> Nibble] /\ 2 * n \in Nat
    BY <1>3, <2>1, <2>2
  <2> QED BY <2>3
<1> HIDE DEF digits, b
<1>10. Nibble \subseteq Nibble \cup {S} /\ first \in Seq(Nibble \cup {S}) /\ Len(first) = 2
       /\ first[1] = S /\ first[2] = r.type
  BY <1>2
<1>11. digits \in Seq(Nibble \cup {S})
  BY <1>9, <1>10, SeqMonotonic
<1> HIDE DEF first
<1>12. Len(first \o digits) = Len(first) + Len(digits)
  BY <1>10, <1>11, ConcatProperties
<1>13. \A i \in 1..Len(first) + Len(digits) :
         (first \o digits)[i] = IF i <= Len(first) THEN first[i] ELSE digits[i - Len(first)]
  BY <1>10, <1>11, ConcatProperties
<1>14. /\ Len(Coded[r]) = 2 * Count(r) + 4
       /\ Coded[r][1] = S /\ Coded[r][2] = r.type
       /\ \A i \in 1..2 * n : Coded[r][i + 2] = digits[i]
  <2> DEFINE c == first \o digits
  <2>1. n \in Nat /\ Len(c) = 2 + 2 * n
    BY <1>3, <1>9, <1>10, <1>12
  <2>2. \A i \in 1..2 + 2 * n : c[i] = IF i <= 2 THEN first[i] ELSE digits[i - 2]
    BY <1>9, <1>10, <1>13
  <2> HIDE DEF c, n
  <2>3. c[1] = S /\ c[2] = r.type
    BY <1>10, <2>1, <2>2
  <2>4. \A i \in 1..2 * n : c[i + 2] = digits[i]
    BY <2>1, <2>2
  <2>5. Coded[r] = c
    BY <1>6 DEF c
  <2>6. Len(Coded[r]) = 2 * Count(r) + 4
    <3> DEFINE k == Count(r)
               l == Len(c)
    <3>1. k \in Int
      BY <1>4
    <3>2. n = k + 1
      BY <1>4
    <3>3. l = 2 + 2 * n
      BY <2>1
    <3> HIDE DEF k, l
    <3>4. l = 2 * k + 4
      BY <3>1, <3>2, <3>3
    <3> QED BY <2>5, <3>4 DEF k, l
  <2> QED BY <2>3, <2>4, <2>5, <2>6
<1>15. \A k \in 1..n : /\ Coded[r][2 * k + 1] = digits[2 * k - 1]
                        /\ Coded[r][2 * k + 2] = digits[2 * k]
  <2> SUFFICES ASSUME NEW k \in 1..n
               PROVE  /\ Coded[r][2 * k + 1] = digits[2 * k - 1]
                      /\ Coded[r][2 * k + 2] = digits[2 * k]
    OBVIOUS
  <2>1. /\ 2 * k - 1 \in 1..2 * n /\ 2 * k \in 1..2 * n
        /\ 2 * k - 1 + 2 = 2 * k + 1
    BY <1>3
  <2> QED BY <1>14, <2>1
<1>16. \A k \in 1..Count(r) + 1 :
         /\ Coded[r][2 * k + 1] \in Nibble /\ Coded[r][2 * k + 2] \in Nibble
         /\ 16 * Coded[r][2 * k + 1] + Coded[r][2 * k + 2] = b[k]
  BY <1>4, <1>8, <1>15
<1> QED
  BY <1>1, <1>2, <1>4, <1>14, <1>16 DEF b

-----------------------------------------------------------------------------
(* What srec_end_read and srec_data_read do *)

LEMMA AddressIsNatural ==
  ASSUME NEW q \in Seq(Byte), Len(q) \in 2..4
  PROVE  Address(q) \in Nat
<1> DEFINE a == Len(q)
           two == 256 * q[1] + q[2]
<1>1. a \in {2, 3, 4}
  OBVIOUS
<1>2. \A i \in 1..a : q[i] \in Nat
  <2>1. Byte \subseteq Nat
    BY DEF Byte
  <2>2. \A i \in 1..Len(q) : q[i] \in Byte
    BY ElementOfSeq
  <2> QED BY <2>1, <2>2
<1>3. Address(q) = CASE a = 2 -> two
                     [] a = 3 -> 256 * two + q[3]
                     [] a = 4 -> 65536 * two + 256 * q[3] + q[4]
  BY DEF Address
<1> HIDE DEF a
<1>4. two \in Nat
  <2>1. q[1] \in Nat /\ q[2] \in Nat
    BY <1>1, <1>2
  <2> QED BY <2>1
<1> HIDE DEF two
<1>5. CASE a = 2
  BY <1>3, <1>4, <1>5
<1>6. CASE a = 3
  <2>1. q[3] \in Nat /\ Address(q) = 256 * two + q[3]
    BY <1>2, <1>3, <1>6
  <2> QED BY <1>4, <2>1
<1>7. CASE a = 4
  <2>1. q[3] \in Nat /\ q[4] \in Nat /\ Address(q) = 65536 * two + 256 * q[3] + q[4]
    BY <1>2, <1>3, <1>7
  <2> QED BY <1>4, <2>1
<1> QED BY <1>1, <1>5, <1>6, <1>7

LEMMA AddressTypes ==
  ASSUME Framed, NEW t \in Nibble, NEW d \in [0..LineMax -> Byte], NEW c, NEW n
  PROVE  Address(EndRead(t, c, n, d).address) \in Nat
<1> DEFINE a == AddressBytes(t)
           q == Prefix(d, a)
<1>1. a \in 2..4
  <2> DEFINE odd == t % 2 = 1 \/ t = 0
             two == (t \div 2) % 2 = 1
  <2>1. a = IF odd THEN (IF two THEN 4 ELSE 2) ELSE 3
    BY DEF AddressBytes
  <2> HIDE DEF odd, two, a
  <2> QED BY <2>1
<1>2. EndRead(t, c, n, d).address = q
  BY DEF EndRead
<1>3. q = [i \in 1..a |-> d[i - 1]]
  BY DEF Prefix
<1> HIDE DEF a, q
<1>4. LineMax \in Nat /\ LineMax >= 6
  BY DEF Framed
<1>5. \A i \in 1..a : i - 1 \in 0..LineMax
  BY <1>1, <1>4
<1>6. q \in Seq(Byte) /\ Len(q) = a
  BY <1>1, <1>3, <1>5
<1> QED BY <1>1, <1>2, <1>6, AddressIsNatural

\* A record that is read as it was sent is passed on as it was sent.
LEMMA RecordPassedOn ==
  ASSUME Framed, NEW r \in Records, NEW d \in [0..LineMax -> Byte], NEW n \in 1..LineMax,
         n = Len(r.address) + Len(r.payload) + 1,
         \A i \in 1..n : d[i - 1] = Bytes(r)[i + 1]
  PROVE  LET c == EndRead(r.type, n, n, d)
         IN  c.called /\ c.type = r.type /\ c.address = r.address /\ c.payload = r.payload
<1> DEFINE a == AddressBytes(r.type)
           whole == Prefix(d, n)
<1>1. /\ r.address \in Seq(Byte) /\ r.payload \in Seq(Byte)
      /\ Len(r.address) = a /\ a \in 2..4
      /\ \A i \in 1..a : Bytes(r)[i + 1] = r.address[i]
      /\ \A i \in 1..Len(r.payload) : Bytes(r)[i + 1 + a] = r.payload[i]
  BY BytesOfRecord DEF Record
<1>2. Len(r.payload) \in Nat /\ n = a + Len(r.payload) + 1
  BY <1>1, LenProperties
<1>0. LineMax \in Nat /\ n \in Nat /\ \A i \in 1..n : d[i - 1] \in Byte
  <2>1. LineMax \in Nat
    BY DEF Framed
  <2> QED BY <2>1
<1>3. /\ EndRead(r.type, n, n, d).called
      /\ EndRead(r.type, n, n, d).type = r.type
      /\ EndRead(r.type, n, n, d).address = Prefix(d, a)
      /\ EndRead(r.type, n, n, d).payload =
           IF n > a THEN SubSeq(whole, a + 1, n - 1) ELSE <<>>
  BY DEF EndRead
<1> HIDE DEF a
<1>4. Prefix(d, a) = r.address
  <2>1. Prefix(d, a) = [i \in 1..a |-> d[i - 1]]
    BY DEF Prefix
  <2>2. \A i \in 1..a : d[i - 1] = r.address[i]
    BY <1>1, <1>2
  <2>3. r.address = [i \in 1..a |-> r.address[i]]
    BY <1>1
  <2> QED BY <2>1, <2>2, <2>3
<1>5. SubSeq(whole, a + 1, n - 1) = r.payload
  <2>1. whole = [i \in 1..n |-> d[i - 1]]
    BY DEF Prefix
  <2>2. \A i \in 1..n : whole[i] = d[i - 1]
    BY <2>1
  <2>3. \A i \in 1..n : whole[i] \in Byte
    BY <1>0, <2>2
  <2> HIDE DEF whole
  <2> DEFINE part == SubSeq(whole, a + 1, n - 1)
             lp   == Len(r.payload)
  <2>4. lp \in Nat /\ n = a + lp + 1 /\ a \in 2..4
    BY <1>1, <1>2
  <2> HIDE DEF lp
  <2> DEFINE low  == a + 1
             high == n - 1
  <2>5. /\ low \in Int /\ high \in Int /\ high - low + 1 = lp
        /\ lp = IF low <= high THEN high - low + 1 ELSE 0
        /\ \A i \in low..high : i \in 1..n
        /\ \A i \in 1..lp : low + i - 1 = i + a /\ i + a \in 1..n /\ i + a + 1 = i + 1 + a
    BY <1>0, <2>4
  <2> HIDE DEF low, high
  <2>6. /\ part \in Seq(Byte)
        /\ Len(part) = IF low <= high THEN high - low + 1 ELSE 0
        /\ \A i \in 1..high - low + 1 : part[i] = whole[low + i - 1]
    <3>1. \A i \in low..high : whole[i] \in Byte
      BY <2>3, <2>5
    <3>2. part = SubSeq(whole, low, high)
      BY DEF low, high
    <3> HIDE DEF part
    <3> QED BY <2>5, <3>1, <3>2, SubSeqProperties
  <2> HIDE DEF part
  <2>7. Len(part) = lp
    BY <2>5, <2>6
  <2>8. \A i \in 1..lp : part[i] = whole[i + a] /\ i + a \in 1..n /\ i + a + 1 = i + 1 + a
    BY <2>5, <2>6
  <2>9. \A i \in 1..lp : part[i] = Bytes(r)[i + 1 + a]
    BY <2>2, <2>8
  <2>10. \A i \in 1..lp : part[i] = r.payload[i]
    BY <1>1, <2>9 DEF lp
  <2> QED BY <1>1, <2>6, <2>7, <2>10, SeqEqual DEF lp, part
<1>6. n > a
  BY <1>1, <1>2
<1> HIDE DEF whole
<1> QED BY <1>3, <1>4, <1>5, <1>6

\* Storing a payload puts every byte at its place and keeps what is below.
LEMMA StoredPayload ==
  ASSUME NEW m, NEW a \in Nat, NEW p \in Seq(Byte)
  PROVE  /\ \A i \in 1..Len(p) : /\ a + i - 1 \in DOMAIN Stored(m, a, p)
                                 /\ Stored(m, a, p)[a + i - 1] = p[i]
         /\ \A x \in DOMAIN m : x \in Nat /\ x < a =>
              x \in DOMAIN Stored(m, a, p) /\ Stored(m, a, p)[x] = m[x]
<1>1. CASE p = <<>>
  BY <1>1 DEF Stored
<1>2. CASE p # <<>>
  <2> DEFINE n == Len(p)
             st == [x \in DOMAIN m \cup (a .. a + n + 2) |->
                     IF x \in a .. a + n - 1 THEN p[x - a + 1]
                     ELSE IF x \in a + n .. a + n + 2 THEN 0 ELSE m[x]]
  <2>1. Stored(m, a, p) = st
    BY <1>2 DEF Stored
  <2>2. n \in Nat
    BY LenProperties
  <2> HIDE DEF n
  <2>3. \A i \in 1..n : a + i - 1 \in DOMAIN st /\ st[a + i - 1] = p[i]
    BY <2>2
  <2>4. \A x \in DOMAIN m : x \in Nat /\ x < a => x \in DOMAIN st /\ st[x] = m[x]
    BY <2>2
  <2> QED BY <2>1, <2>3, <2>4 DEF n
<1> QED BY <1>1, <1>2

-----------------------------------------------------------------------------
(* Steps: what is assumed of the constants, and the sender *)

LEMMA Bounds ==
  ASSUME Framed
  PROVE  /\ LineMax \in Nat /\ LineMax >= 6
         /\ Digits \subseteq Nibble /\ S \notin Digits /\ Other \notin Digits /\ S # Other
         /\ S \notin Nibble /\ Other \notin Nibble
  BY DEF Framed, Nibble, S, Other

LEMMA SentRecord ==
  ASSUME Framed, SenderInv
  PROVE  /\ file \in Seq(Record) /\ Len(file) \in Nat
         /\ Sending => file[record] \in Records /\ Current = Coded[file[record]]
<1>1. file \in Seq(Record) /\ Len(file) \in Nat
  BY DEF Framed, FileOK, SenderInv
<1> QED BY <1>1 DEF SenderInv, Sending, Records, Current

\* The sender goes on to the next character, or to the next record behind the
\* last one.
LEMMA SenderGoesOn ==
  ASSUME Framed, SenderInv, Sending, Advance
  PROVE  /\ SenderInv'
         /\ file' = file
         /\ \/ position' = position + 1 /\ record' = record
            \/ position' = 0 /\ record' = record + 1 /\ position + 1 = Len(Current)
<1> DEFINE c == Len(Current)
<1>1. c \in Nat /\ c >= 10
  <2>1. Current = Coded[file[record]] /\ file[record] \in Records
    BY SentRecord
  <2> DEFINE k == Count(file[record])
  <2>2. k \in 3..255 /\ c = 2 * k + 4
    BY <2>1, CharactersOfRecord
  <2> HIDE DEF k, c
  <2> QED BY <2>2
<1>2. position \in Nat /\ position < c /\ record \in Nat \ {0}
  BY DEF SenderInv
<1> HIDE DEF c
<1>3. /\ file' = file
      /\ \/ position + 1 < c /\ position' = position + 1 /\ record' = record
         \/ position + 1 = c /\ position' = 0 /\ record' = record + 1
  BY <1>1, <1>2 DEF Advance, c
<1>4. CASE position + 1 < c
  <2>1. position' = position + 1 /\ record' = record /\ file' = file
    BY <1>1, <1>2, <1>3, <1>4
  <2>2. Sending' /\ Len(Current') = c
    BY <2>1 DEF Sending, Current, c
  <2> QED BY <1>2, <1>4, <2>1, <2>2 DEF SenderInv
<1>5. CASE position + 1 = c
  <2>1. position' = 0 /\ record' = record + 1 /\ file' = file
    BY <1>1, <1>2, <1>3, <1>5
  <2>2. Sending' => 0 < Len(Current')
    <3> SUFFICES ASSUME Sending' PROVE 0 < Len(Current')
      OBVIOUS
    <3>1. Len(file) \in Nat
      BY SentRecord
    <3>2. record + 1 \in 1..Len(file)
      BY <1>2, <2>1, <3>1 DEF Sending
    <3> DEFINE r == file[record + 1]
    <3>3. r \in Records
      BY <3>2 DEF SenderInv, Records
    <3>4. Current' = Coded[r]
      BY <2>1 DEF Current
    <3> HIDE DEF r
    <3>5. Count(r) \in 3..255 /\ Len(Coded[r]) = 2 * Count(r) + 4
      BY <3>3, CharactersOfRecord
    <3> DEFINE k == Count(r)
    <3>6. k \in 3..255 /\ Len(Current') = 2 * k + 4
      BY <3>4, <3>5
    <3> HIDE DEF k
    <3> QED BY <3>6
  <2> QED BY <1>2, <1>5, <2>1, <2>2 DEF SenderInv, c
<1> QED BY <1>1, <1>2, <1>3, <1>4, <1>5 DEF c

-----------------------------------------------------------------------------
(* Steps: the reader *)

\* The registers that have a type of their own.
RegistersOK ==
  /\ recordType \in Nibble
  /\ data \in [0..LineMax -> Byte]
  /\ entry \in Nat \cup {NoEntry}
  /\ byteCount \in 0..LineMax /\ length \in 0..LineMax

\* Without a call nothing is loaded.
LEMMA NothingRead ==
  ASSUME callback' = NoCall, DataRead(callback')
  PROVE  mem' = mem /\ entry' = entry
  BY DEF NoCall, DataRead, loaded

\* The end of a record empties the reader; entry becomes an address at most.
LEMMA FinishEmpties ==
  ASSUME Framed, NEW t \in Nibble, NEW c \in Nat, NEW n, c = 0 => n = 0,
         NEW d \in [0..LineMax -> Byte], NEW s,
         Finish(t, c, n, d, s), DataRead(callback'), entry \in Nat \cup {NoEntry}
  PROVE  /\ recordType' \in Nibble /\ readState' = s /\ data' = d
         /\ byteCount' = 0 /\ length' = 0
         /\ entry' \in Nat \cup {NoEntry}
<1>1. /\ recordType' \in Nibble /\ readState' = s /\ data' = d
      /\ byteCount' = 0 /\ length' = 0
      /\ callback' = NoCall \/ callback' = EndRead(t, c, n, d)
  BY DEF Finish, Nibble
<1>2. CASE callback' = NoCall
  BY <1>1, <1>2, NothingRead
<1>3. CASE callback' = EndRead(t, c, n, d)
  <2>1. callback'.called
    BY <1>3 DEF EndRead
  <2>2. entry' = IF IsTermination(callback'.type) THEN Address(callback'.address) ELSE entry
    BY <2>1 DEF DataRead
  <2> QED BY <1>1, <1>3, <2>2, AddressTypes
<1> QED BY <1>1, <1>2, <1>3

\* Both nibbles of a byte fit the buffer.
LEMMA NibblesStored ==
  ASSUME Framed, RegistersOK, NEW b \in Nibble
  PROVE  /\ [data EXCEPT ![length] = 16 * b] \in [0..LineMax -> Byte]
         /\ [data EXCEPT ![length] = 16 * b][length] = 16 * b
         /\ (\E x \in Nibble : data[length] = 16 * x) =>
              /\ Combined(b) \in [0..LineMax -> Byte]
              /\ Combined(b)[length] = data[length] + b
<1>1. length \in 0..LineMax /\ data \in [0..LineMax -> Byte]
  BY DEF RegistersOK
<1>2. 16 * b \in Byte
  BY DEF Nibble, Byte
<1>3. ASSUME NEW x \in Nibble, data[length] = 16 * x
      PROVE  data[length] + b \in Byte
  BY <1>3 DEF Nibble, Byte
<1>4. Combined(b) = [data EXCEPT ![length] = data[length] + b]
  BY DEF Combined
<1> QED BY <1>1, <1>2, <1>3, <1>4

\* Behind the count a digit never leaves the buffer, whatever it is.
LEMMA DigitStaysInBuffer ==
  ASSUME Framed, ReaderInv, position \notin 1..3, position' \notin 1..3,
         NEW b \in Digits, ReadDigit(b), DataRead(callback')
  PROVE  ReaderInv'
<1> USE Bounds
<1>1. b \in Nibble /\ RegistersOK /\ readState \in {"START", "DATA_HIGH", "DATA_LOW"}
  BY DEF ReaderInv, RegistersOK
<1>2. CASE readState = "START"
  <2>1. UNCHANGED reader /\ callback' = NoCall
    BY <1>2 DEF ReadDigit, ReadType, ReadHigh, ReadCountLow, ReadDataLow, SkipDigit
  <2> QED BY <1>1, <1>2, <2>1, NothingRead DEF reader, ReaderInv
<1>3. CASE readState = "DATA_HIGH"
  <2>1. ReadHigh(b)
    BY <1>3 DEF ReadDigit, ReadType, ReadHigh, ReadCountLow, ReadDataLow, SkipDigit
  <2>2. /\ data' = [data EXCEPT ![length] = 16 * b]
        /\ readState' = "DATA_LOW"
        /\ callback' = NoCall
        /\ UNCHANGED <<recordType, byteCount, length>>
    BY <1>3, <2>1 DEF ReadHigh
  <2>3. entry' = entry
    BY <2>2, NothingRead
  <2>4. data' \in [0..LineMax -> Byte] /\ data'[length] = 16 * b
    BY <1>1, <2>2, NibblesStored
  <2> QED BY <1>1, <1>3, <2>2, <2>3, <2>4 DEF ReaderInv, RegistersOK
<1>4. CASE readState = "DATA_LOW"
  <2>1. ReadDataLow(b)
    BY <1>4 DEF ReadDigit, ReadType, ReadHigh, ReadCountLow, ReadDataLow, SkipDigit
  <2>2. Combined(b) \in [0..LineMax -> Byte]
    BY <1>1, <1>4, NibblesStored DEF ReaderInv
  <2>3. byteCount \in 0..LineMax /\ length \in 0..LineMax /\ length < byteCount
    BY <1>1, <1>4 DEF ReaderInv
  <2>4. CASE length + 1 < byteCount
    <3>1. /\ length' = length + 1
          /\ data' = Combined(b)
          /\ readState' = "DATA_HIGH"
          /\ callback' = NoCall
          /\ UNCHANGED <<recordType, byteCount>>
      BY <2>1, <2>4 DEF ReadDataLow
    <3>2. entry' = entry
      BY <3>1, NothingRead
    <3>3. length' \in 0..LineMax /\ length' < byteCount'
      BY <2>3, <2>4, <3>1
    <3> QED BY <1>1, <2>2, <2>3, <3>1, <3>2, <3>3 DEF ReaderInv, RegistersOK
  <2>5. CASE ~(length + 1 < byteCount)
    <3>1. Finish(recordType, byteCount, length + 1, Combined(b), "START")
      BY <2>1, <2>5 DEF ReadDataLow
    <3>2. byteCount \in Nat /\ byteCount # 0
      BY <2>3
    <3>3. /\ recordType' \in Nibble /\ readState' = "START" /\ data' = Combined(b)
          /\ byteCount' = 0 /\ length' = 0
          /\ entry' \in Nat \cup {NoEntry}
      BY <1>1, <2>2, <3>1, <3>2, FinishEmpties DEF RegistersOK
    <3> QED BY <2>2, <3>3 DEF ReaderInv
  <2> QED BY <2>4, <2>5
<1> QED BY <1>1, <1>2, <1>3, <1>4

\* The "S": whatever was being read ends, and an idle reader makes no call.
LEMMA StartOfRecord ==
  ASSUME Framed, ReaderInv, position = 0, position' = 1, ReadS, DataRead(callback')
  PROVE  ReaderInv' /\ (readState = "START" => mem' = mem /\ entry' = entry)
<1>1. /\ recordType \in Nibble /\ data \in [0..LineMax -> Byte]
      /\ entry \in Nat \cup {NoEntry} /\ byteCount \in 0..LineMax /\ length \in 0..LineMax
      /\ byteCount = 0 => length = 0
      /\ readState = "START" => byteCount = 0
  BY Bounds DEF ReaderInv
<1>2. Finish(recordType, byteCount, length, data, "TYPE")
  BY DEF ReadS
<1>3. byteCount \in Nat
  BY <1>1, Bounds
<1>4. /\ recordType' \in Nibble /\ readState' = "TYPE" /\ data' = data
      /\ byteCount' = 0 /\ length' = 0
      /\ entry' \in Nat \cup {NoEntry}
  BY <1>1, <1>2, <1>3, FinishEmpties
<1>5. ReaderInv'
  BY <1>1, <1>4, Bounds DEF ReaderInv
<1>6. readState = "START" => callback' = NoCall
  BY <1>1, <1>2 DEF Finish
<1> QED BY <1>5, <1>6, NothingRead

LEMMA TypeOfRecord ==
  ASSUME Framed, ReaderInv, position = 1, position' = 2,
         NEW b \in Digits, ReadDigit(b), DataRead(callback')
  PROVE  ReaderInv' /\ recordType' = b /\ mem' = mem /\ entry' = entry
<1>1. ReadType(b)
  BY DEF ReaderInv, ReadDigit, ReadType, ReadHigh, ReadCountLow, ReadDataLow, SkipDigit
<1>2. mem' = mem /\ entry' = entry
  BY <1>1, NothingRead DEF ReadType
<1>3. b \in Nibble
  BY Bounds
<1> QED BY <1>1, <1>2, <1>3 DEF ReadType, ReaderInv

LEMMA CountHighOfRecord ==
  ASSUME Framed, ReaderInv, position = 2, position' = 3, Current' = Current,
         NEW b \in Digits, b = Current[3], ReadDigit(b), DataRead(callback')
  PROVE  ReaderInv' /\ recordType' = recordType /\ mem' = mem /\ entry' = entry
<1>1. ReadHigh(b)
  BY DEF ReaderInv, ReadDigit, ReadType, ReadHigh, ReadCountLow, ReadDataLow, SkipDigit
<1>2. /\ data' = [data EXCEPT ![length] = 16 * b]
      /\ readState' = "COUNT_LOW"
      /\ callback' = NoCall
      /\ UNCHANGED <<recordType, byteCount, length>>
  BY <1>1 DEF ReadHigh, ReaderInv
<1>3. mem' = mem /\ entry' = entry
  BY <1>2, NothingRead
<1>4. b \in Nibble /\ RegistersOK /\ byteCount = 0 /\ length = 0
  BY Bounds DEF ReaderInv, RegistersOK
<1>5. data' \in [0..LineMax -> Byte] /\ data'[0] = 16 * Current[3]
  BY <1>2, <1>4, NibblesStored
<1> QED BY <1>2, <1>3, <1>4, <1>5 DEF ReaderInv, RegistersOK

\* The count: the reader takes it, or skips the record.
LEMMA CountOfRecord ==
  ASSUME Framed, ReaderInv, position = 3, position' = 4, Current[3] \in Nibble,
         NEW b \in Digits, ReadDigit(b), DataRead(callback'),
         NEW n \in 1..255, n = 16 * Current[3] + b
  PROVE  /\ ReaderInv'
         /\ n <= LineMax => /\ readState' = "DATA_HIGH" /\ byteCount' = n /\ length' = 0
                            /\ recordType' = recordType /\ mem' = mem /\ entry' = entry
         /\ ~(n <= LineMax) => /\ readState' = "START" /\ mem' = mem
                               /\ entry' = entry \/ IsTermination(recordType)
<1>1. ReadCountLow(b)
  BY DEF ReaderInv, ReadDigit, ReadType, ReadHigh, ReadCountLow, ReadDataLow, SkipDigit
<1>2. /\ b \in Nibble /\ RegistersOK /\ byteCount = 0 /\ length = 0
      /\ data[length] = 16 * Current[3]
  BY Bounds DEF ReaderInv, RegistersOK
<1>3. Combined(b) \in [0..LineMax -> Byte] /\ Combined(b)[length] = n
  BY <1>2, NibblesStored
<1>4. CASE n <= LineMax
  <2>1. /\ byteCount' = n /\ data' = Combined(b) /\ readState' = "DATA_HIGH"
        /\ callback' = NoCall /\ UNCHANGED <<recordType, length>>
    <3>1. ~(n > LineMax)
      BY <1>4, Bounds
    <3> QED BY <1>1, <1>3, <3>1 DEF ReadCountLow
  <2>2. mem' = mem /\ entry' = entry
    BY <2>1, NothingRead
  <2>3. n \in 0..LineMax /\ length' = 0 /\ length' \in 0..LineMax /\ length' < n
    BY <1>2, <1>4, <2>1, Bounds
  <2>4. ReaderInv'
    BY <1>2, <1>3, <2>1, <2>2, <2>3 DEF ReaderInv, RegistersOK
  <2> QED BY <1>4, <2>1, <2>2, <2>3, <2>4
<1>5. CASE ~(n <= LineMax)
  <2>1. Finish(recordType, n, length, Combined(b), "START")
    <3>1. n > LineMax
      BY <1>5, Bounds
    <3> QED BY <1>1, <1>3, <3>1 DEF ReadCountLow
  <2>2. /\ recordType' \in Nibble /\ readState' = "START" /\ data' = Combined(b)
        /\ byteCount' = 0 /\ length' = 0
        /\ entry' \in Nat \cup {NoEntry}
    <3> DEFINE d == Combined(b)
    <3>1. d \in [0..LineMax -> Byte] /\ Finish(recordType, n, length, d, "START")
      BY <1>3, <2>1
    <3> HIDE DEF d
    <3>2. recordType \in Nibble /\ entry \in Nat \cup {NoEntry}
      BY <1>2 DEF RegistersOK
    <3>3. n \in Nat /\ n # 0
      OBVIOUS
    <3>4. /\ recordType' \in Nibble /\ readState' = "START" /\ data' = d
          /\ byteCount' = 0 /\ length' = 0
          /\ entry' \in Nat \cup {NoEntry}
      BY <3>1, <3>2, <3>3, FinishEmpties
    <3> QED BY <3>4 DEF d
  <2>3. ReaderInv'
    BY <1>3, <2>2, Bounds DEF ReaderInv
  <2>4. callback' = EndRead(recordType, n, 0, Combined(b))
    BY <1>2, <2>1 DEF Finish
  <2>5. callback'.called /\ callback'.type = recordType /\ callback'.payload = <<>>
    <3>1. ~(0 > AddressBytes(recordType))
      BY DEF AddressBytes
    <3> QED BY <2>4, <3>1 DEF EndRead
  <2>6. mem' = mem /\ (entry' = entry \/ IsTermination(recordType))
    BY <2>5 DEF DataRead, Stored
  <2> QED BY <1>5, <2>2, <2>3, <2>6
<1> QED BY <1>4, <1>5

-----------------------------------------------------------------------------
(* Steps: a line without faults *)

\* One turn of the loop, by the character.
LEMMA OneTurn ==
  ASSUME Framed, NEW c, ReadByte(c)
  PROVE  /\ entry = NoEntry /\ DataRead(callback')
         /\ c = S => ReadS
         /\ c = Other => ReadOther
         /\ c \in Nibble => c \in Digits /\ ReadDigit(c)
  BY Bounds DEF ReadByte

\* The last character of a record that fits: its payload is stored, or its
\* address is jumped to, and what was in memory stays.
LEMMA RecordArrives ==
  ASSUME Framed, SenderInv, MemoryInv, Sending, entry = NoEntry,
         file' = file, record' = record + 1,
         NEW d \in [0..LineMax -> Byte], NEW n \in 1..LineMax, n = Count(file[record]),
         \A i \in 1..n : d[i - 1] = Bytes(file[record])[i + 1],
         Finish(file[record].type, n, n, d, "START"), DataRead(callback')
  PROVE  MemoryInv'
<1> DEFINE r == file[record]
<1>1. /\ file \in Seq(Record) /\ Len(file) \in Nat /\ record \in 1..Len(file)
      /\ r \in Records /\ file \in Files
  BY SentRecord DEF SenderInv, Sending
<1>2. n = Count(r) /\ \A i \in 1..n : d[i - 1] = Bytes(r)[i + 1]
  OBVIOUS
<1>3. callback' = EndRead(r.type, n, n, d)
  <2>1. n # 0
    BY Bounds
  <2> QED BY <2>1 DEF Finish
<1> HIDE DEF r
<1>4. /\ callback'.called /\ callback'.type = r.type
      /\ callback'.address = r.address /\ callback'.payload = r.payload
  <2>1. n = Len(r.address) + Len(r.payload) + 1
    BY <1>2 DEF Count
  <2> DEFINE c == EndRead(r.type, n, n, d)
  <2>2. c.called /\ c.type = r.type /\ c.address = r.address /\ c.payload = r.payload
    BY <1>1, <1>2, <2>1, RecordPassedOn
  <2> HIDE DEF c
  <2> QED BY <1>3, <2>2 DEF c
<1> DEFINE a == Address(r.address)
<1>5. /\ mem' = IF IsData(r.type) THEN Stored(mem, a, r.payload) ELSE mem
      /\ IsTermination(r.type) \/ entry' = NoEntry
  BY <1>4 DEF DataRead
<1>6. \A i \in 1..Len(file) :
        /\ file[i] \in Records
        /\ file[i].address \in Seq(Byte) /\ file[i].payload \in Seq(Byte)
        /\ Address(file[i].address) \in Nat /\ Len(file[i].payload) \in Nat
        /\ IsTermination(file[i].type) => i = Len(file)
  <2> SUFFICES ASSUME NEW i \in 1..Len(file)
               PROVE  /\ file[i] \in Records
                      /\ file[i].address \in Seq(Byte) /\ file[i].payload \in Seq(Byte)
                      /\ Address(file[i].address) \in Nat /\ Len(file[i].payload) \in Nat
                      /\ IsTermination(file[i].type) => i = Len(file)
    OBVIOUS
  <2> DEFINE q == file[i]
  <2>1. q \in Records /\ (IsTermination(q.type) => i = Len(file))
    BY <1>1 DEF Records, Framed, FileOK
  <2> HIDE DEF q
  <2>2. q \in Record /\ Len(q.address) = AddressBytes(q.type) /\ AddressBytes(q.type) \in 2..4
    BY <2>1, BytesOfRecord
  <2>3. q.address \in Seq(Byte) /\ q.payload \in Seq(Byte)
    BY <2>2 DEF Record
  <2>4. Address(q.address) \in Nat /\ Len(q.payload) \in Nat
    BY <2>2, <2>3, AddressIsNatural, LenProperties
  <2> QED BY <2>1, <2>3, <2>4 DEF q
<1>7. a \in Nat /\ r.payload \in Seq(Byte)
  BY <1>1, <1>6 DEF r
<1>8. ASSUME NEW i \in 1..Len(file), i < record + 1, IsData(file[i].type), Fits(file[i])
      PROVE  Stands(file[i])'
  <2>1. CASE ~IsData(r.type)
    <3>1. i # record /\ i < record
      BY <1>1, <1>8, <2>1 DEF r
    <3>2. Stands(file[i])
      BY <1>8, <3>1 DEF MemoryInv
    <3> QED BY <1>5, <2>1, <3>2 DEF Stands
  <2>2. CASE IsData(r.type) /\ i = record
    <3>1. mem' = Stored(mem, a, r.payload)
      BY <1>5, <2>2
    <3> DEFINE q == file[i]
    <3>2. q = r
      BY <2>2 DEF r
    <3> HIDE DEF q
    <3>3. Address(q.address) = a /\ q.payload = r.payload
      BY <3>2
    <3> DEFINE p == q.payload
               c == Address(q.address)
    <3>4. c \in Nat /\ p \in Seq(Byte) /\ mem' = Stored(mem, c, p)
      BY <1>7, <3>1, <3>3
    <3> HIDE DEF c, p
    <3>5. \A k \in 1..Len(p) : c + k - 1 \in DOMAIN mem' /\ mem'[c + k - 1] = p[k]
      BY <3>4, StoredPayload
    <3> QED BY <3>5 DEF Stands, c, p, q
  <2>3. CASE IsData(r.type) /\ i # record
    <3> DEFINE q == file[i]
               b == Address(q.address)
               l == Len(q.payload)
    <3>1. i < record
      BY <1>1, <1>8, <2>3
    <3>2. Stands(q)
      BY <1>8, <3>1 DEF MemoryInv
    <3>3. b + l <= a
      <4>1. FileOK(file)
        BY <1>1 DEF Framed
      <4>2. i \in 1..record - 1
        BY <1>1, <3>1
      <4>3. \A k \in 1..Len(file) : \A j \in 1..k - 1 :
              IsData(file[j].type) /\ IsData(file[k].type) =>
                Address(file[j].address) + Len(file[j].payload) <= Address(file[k].address)
        BY <4>1 DEF FileOK
      <4> QED BY <1>1, <1>8, <2>3, <4>2, <4>3 DEF r
    <3>4. mem' = Stored(mem, a, r.payload) /\ file' = file
      BY <1>5, <2>3
    <3>5. b \in Nat /\ l \in Nat
      BY <1>6
    <3>6. \A k \in 1..l : b + k - 1 \in DOMAIN mem /\ mem[b + k - 1] = q.payload[k]
      BY <3>2 DEF Stands
    <3> HIDE DEF a, b, l, q
    <3>7. \A k \in 1..l : b + k - 1 \in Nat /\ b + k - 1 < a
      BY <1>7, <3>3, <3>5
    <3>8. \A k \in 1..l : b + k - 1 \in DOMAIN mem' /\ mem'[b + k - 1] = q.payload[k]
      BY <1>7, <3>4, <3>6, <3>7, StoredPayload
    <3> QED BY <3>4, <3>8 DEF Stands, b, l, q
  <2> QED BY <2>1, <2>2, <2>3
<1>9. ASSUME entry' # NoEntry
      PROVE  record + 1 >= Len(file) /\ IsTermination(file[Len(file)].type)
  <2>1. IsTermination(r.type) /\ record = Len(file)
    BY <1>1, <1>5, <1>6, <1>9 DEF r
  <2> QED BY <1>1, <2>1 DEF r
<1> QED BY <1>8, <1>9 DEF MemoryInv, Stands, Fits

\* Memory and sender when nothing is stored and the record goes on, or is
\* skipped because it does not fit.
LEMMA MemoryStays ==
  ASSUME Framed, SenderInv, MemoryInv, file' = file, mem' = mem, entry = NoEntry,
         \/ record' = record
         \/ record' = record + 1 /\ ~Fits(file[record]),
         entry' = entry \/ (Sending /\ IsTermination(file[record].type))
  PROVE  MemoryInv'
<1>1. record \in Nat \ {0} /\ file \in Seq(Record) /\ Len(file) \in Nat
  BY SentRecord DEF SenderInv
<1>2. ASSUME NEW i \in 1..Len(file), i < record', IsData(file[i].type), Fits(file[i])
      PROVE  Stands(file[i])'
  <2>1. i < record
    BY <1>1, <1>2
  <2> QED BY <1>2, <2>1 DEF MemoryInv, Stands
<1>3. ASSUME entry' # NoEntry
      PROVE  record' >= Len(file) /\ IsTermination(file[Len(file)].type)
  <2>1. record \in 1..Len(file) /\ IsTermination(file[record].type)
    BY <1>1, <1>3 DEF Sending
  <2>2. record = Len(file)
    BY <2>1 DEF Framed, FileOK, SenderInv
  <2> QED BY <1>1, <2>1, <2>2
<1> QED BY <1>2, <1>3 DEF MemoryInv, Stands, Fits

\* Behind the count of a record that fits, the reader follows the sender.
LEMMA ReaderFollows ==
  ASSUME Framed, SenderInv, ReaderInv, InStep, MemoryInv, Sending,
         position > 3, Count(file[record]) <= LineMax,
         ReadByte(Current[position + 1]), Advance
  PROVE  InStep' /\ MemoryInv'
<1> DEFINE r == file[record]
           n == Count(r)
           c == Current
<1>1. /\ file' = file
      /\ \/ position' = position + 1 /\ record' = record
         \/ position' = 0 /\ record' = record + 1 /\ position + 1 = Len(c)
  BY SenderGoesOn
<1>2. r \in Records /\ c = Coded[r] /\ position \in Nat
  BY SentRecord DEF SenderInv
<1> HIDE DEF c
<1>3. /\ n \in 3..255 /\ r.type \in Nibble
      /\ Len(c) = 2 * n + 4
      /\ \A k \in 1..n + 1 :
           /\ c[2 * k + 1] \in Nibble /\ c[2 * k + 2] \in Nibble
           /\ 16 * c[2 * k + 1] + c[2 * k + 2] = Bytes(r)[k]
  <2> HIDE DEF r
  <2> QED BY <1>2, CharactersOfRecord
<1>4. /\ recordType = r.type /\ byteCount = n
      /\ \/ readState = "DATA_HIGH" /\ position = 4 + 2 * length
         \/ /\ readState = "DATA_LOW" /\ position = 5 + 2 * length
            /\ data[length] = 16 * c[position]
      /\ \A i \in 1..length : data[i - 1] = Bytes(r)[i + 1]
  BY DEF InStep, c
<1>5. RegistersOK /\ length \in Nat /\ length < n /\ n <= LineMax /\ LineMax \in Nat
  <2>1. RegistersOK /\ LineMax \in Nat
    BY Bounds DEF ReaderInv, RegistersOK
  <2>2. n <= LineMax
    OBVIOUS
  <2> HIDE DEF n
  <2>3. readState \in {"DATA_HIGH", "DATA_LOW"} /\ byteCount = n
    BY <1>4
  <2>4. length < n
    BY <2>3 DEF ReaderInv
  <2>5. length \in Nat
    BY <2>1 DEF RegistersOK
  <2> QED BY <2>1, <2>2, <2>4, <2>5
<1> DEFINE k == length + 2
           b == c[position + 1]
<1> HIDE DEF r, n
<1>6. k \in 1..n + 1 /\ 2 * k + 1 = 5 + 2 * length /\ 2 * k + 2 = 6 + 2 * length
  <2>1. n \in Nat
    BY <1>3
  <2> QED BY <1>5, <2>1
<1>7. CASE readState = "DATA_HIGH"
  <2>1. position = 4 + 2 * length /\ position + 1 = 2 * k + 1
    BY <1>2, <1>4, <1>5, <1>6, <1>7
  <2>2. b \in Nibble
    BY <1>3, <1>6, <2>1
  <2>3. /\ entry = NoEntry /\ DataRead(callback') /\ ReadDigit(b)
    BY <2>2, OneTurn DEF c
  <2> HIDE DEF b
  <2>4. /\ data' = [data EXCEPT ![length] = 16 * b]
        /\ readState' = "DATA_LOW" /\ callback' = NoCall
        /\ UNCHANGED <<recordType, byteCount, length>>
    BY <1>7, <2>3 DEF ReadDigit, ReadType, ReadHigh, ReadCountLow, ReadDataLow, SkipDigit
  <2>5. mem' = mem /\ entry' = entry
    BY <2>3, <2>4, NothingRead
  <2>6. position' = position + 1 /\ record' = record
    <3>1. position + 1 # Len(c)
      BY <1>3, <1>5, <1>6, <2>1
    <3> QED BY <1>1, <3>1
  <2>7. MemoryInv'
    BY <1>1, <2>3, <2>5, <2>6, MemoryStays
  <2>8. c' = c /\ r' = r /\ n' = n
    BY <1>1, <2>6 DEF c, r, n, Current
  <2>9. data'[length] = 16 * b /\ \A i \in 1..length : data'[i - 1] = data[i - 1]
    <3>1. data \in [0..LineMax -> Byte] /\ length \in 0..LineMax
      BY <1>5 DEF RegistersOK
    <3> QED BY <1>5, <2>4, <3>1
  <2>10. position' = 5 + 2 * length /\ position' > 3 /\ b = c[position']
    <3>1. position' = 5 + 2 * length /\ position' > 3
      BY <1>5, <2>1, <2>6
    <3> QED BY <2>6, <3>1 DEF b
  <2>11. InStep'
    BY <1>4, <1>5, <2>4, <2>6, <2>8, <2>9, <2>10 DEF InStep, c, r, n
  <2> QED BY <2>7, <2>11
<1>8. CASE readState = "DATA_LOW"
  <2>1. position = 5 + 2 * length /\ position + 1 = 2 * k + 2 /\ data[length] = 16 * c[2 * k + 1]
    BY <1>2, <1>4, <1>5, <1>6, <1>8
  <2>2. b \in Nibble /\ data[length] + b = Bytes(r)[k]
    BY <1>3, <1>6, <2>1
  <2>3. /\ entry = NoEntry /\ DataRead(callback') /\ ReadDigit(b)
    BY <2>2, OneTurn DEF c
  <2> DEFINE d == Combined(b)
  <2>4. d \in [0..LineMax -> Byte] /\ d[length] = Bytes(r)[k]
    BY <1>5, <1>8, <2>2, NibblesStored DEF ReaderInv
  <2>5. \A i \in 1..length : d[i - 1] = data[i - 1]
    <3>1. data \in [0..LineMax -> Byte] /\ length \in 0..LineMax
      BY <1>5 DEF RegistersOK
    <3> QED BY <1>5, <3>1 DEF Combined
  <2> HIDE DEF b, d
  <2>6. \A i \in 1..length + 1 : d[i - 1] = Bytes(r)[i + 1]
    <3> SUFFICES ASSUME NEW i \in 1..length + 1 PROVE d[i - 1] = Bytes(r)[i + 1]
      OBVIOUS
    <3>1. CASE i = length + 1
      <4>1. i - 1 = length /\ i + 1 = k
        BY <1>5, <3>1
      <4> QED BY <2>4, <4>1
    <3>2. CASE i # length + 1
      <4>1. i \in 1..length
        BY <1>5, <3>2
      <4> QED BY <1>4, <2>5, <4>1
    <3> QED BY <3>1, <3>2
  <2>7. ReadDataLow(b)
    BY <1>8, <2>3 DEF ReadDigit, ReadType, ReadHigh, ReadCountLow, ReadDataLow, SkipDigit
  <2>8. CASE length + 1 < n
    <3>1. /\ length' = length + 1 /\ data' = d
          /\ readState' = "DATA_HIGH" /\ callback' = NoCall
          /\ UNCHANGED <<recordType, byteCount>>
      BY <1>4, <2>7, <2>8 DEF ReadDataLow, d
    <3>2. mem' = mem /\ entry' = entry
      BY <2>3, <3>1, NothingRead
    <3>3. position' = position + 1 /\ record' = record
      <4>1. position + 1 # Len(c)
        BY <1>3, <1>5, <1>6, <2>1, <2>8
      <4> QED BY <1>1, <4>1
    <3>4. MemoryInv'
      BY <1>1, <2>3, <3>2, <3>3, MemoryStays
    <3>5. c' = c /\ r' = r /\ n' = n
      BY <1>1, <3>3 DEF c, r, n, Current
    <3>6. position' = 4 + 2 * length' /\ position' > 3
      BY <1>5, <2>1, <3>1, <3>3
    <3>7. \A i \in 1..length' : data'[i - 1] = Bytes(r)[i + 1]
      BY <2>6, <3>1
    <3>8. InStep'
      BY <1>4, <1>5, <3>1, <3>3, <3>5, <3>6, <3>7 DEF InStep, c, r, n
    <3> QED BY <3>4, <3>8
  <2>9. CASE ~(length + 1 < n)
    <3>1. length + 1 = n /\ n \in 1..LineMax
      BY <1>3, <1>5, <2>9
    <3>2. Finish(r.type, n, n, d, "START")
      BY <1>4, <2>7, <2>9, <3>1 DEF ReadDataLow, d
    <3>3. position' = 0 /\ record' = record + 1
      <4>1. position + 1 = 2 * n + 4
        BY <1>3, <1>5, <1>6, <2>1, <3>1
      <4>2. Sending /\ position' # position + 1
        <5>1. position + 1 = Len(c)
          BY <1>3, <4>1
        <5>2. ~(position + 1 < Len(c))
          BY <1>3, <5>1
        <5> QED BY <1>2, <5>2 DEF Advance, c
      <4> QED BY <1>1, <4>2
    <3>4. n = Count(file[record]) /\ \A i \in 1..n : d[i - 1] = Bytes(file[record])[i + 1]
      BY <2>6, <3>1 DEF n, r
    <3>5. Finish(file[record].type, n, n, d, "START")
      BY <3>2 DEF r
    <3>6. MemoryInv'
      BY <1>1, <2>3, <2>4, <3>1, <3>3, <3>4, <3>5, RecordArrives
    <3>7. InStep'
      BY <3>2, <3>3 DEF InStep, Finish
    <3> QED BY <3>6, <3>7
  <2> QED BY <2>8, <2>9
<1> QED BY <1>4, <1>7, <1>8

-----------------------------------------------------------------------------
(* The invariant is inductive *)

LEMMA SrecInit == Framed /\ Init => SrecIInv
<1> SUFFICES ASSUME Framed, Init PROVE SrecIInv
  OBVIOUS
<1>1. Sending => 0 < Len(Current)
  <2> SUFFICES ASSUME Sending PROVE 0 < Len(Current)
    OBVIOUS
  <2>1. file \in Seq(Record) /\ record = 1 /\ file \in Files
    BY DEF Init, Framed, FileOK
  <2> DEFINE r == file[record]
  <2>2. r \in Records /\ Current = Coded[r]
    BY <2>1 DEF Sending, Records, Current
  <2> HIDE DEF r
  <2> DEFINE k == Count(r)
             l == Len(Current)
  <2>3. k \in 3..255 /\ l = 2 * k + 4
    BY <2>2, CharactersOfRecord
  <2> HIDE DEF k, l
  <2>4. l > 0
    BY <2>3
  <2> QED BY <2>4 DEF l
<1>2. SenderInv
  BY <1>1 DEF Init, SenderInv
<1>3. ReaderInv
  BY Bounds DEF Init, ReaderInit, ReaderInv, Byte, Nibble, NoEntry
<1>4. InStep /\ MemoryInv
  BY DEF Init, ReaderInit, InStep, MemoryInv
<1> QED BY <1>2, <1>3, <1>4 DEF Init, SrecIInv, FollowedInv

\* A character that arrives as it was sent.
LEMMA SendKeeps ==
  ASSUME Framed, SenderInv, faults \in Nat, FollowedInv, Send
  PROVE  FollowedInv'
<1> DEFINE r == file[record]
           c == Current[position + 1]
<1>1. SenderInv /\ ReaderInv /\ Sending /\ Advance /\ ReadByte(c) /\ faults' = faults /\ faults \in Nat
  BY DEF FollowedInv, Send
<1>2. faults = 0 => InStep /\ MemoryInv
  BY DEF FollowedInv
<1>3. /\ SenderInv' /\ file' = file
      /\ \/ position' = position + 1 /\ record' = record
         \/ position' = 0 /\ record' = record + 1 /\ position + 1 = Len(Current)
  BY <1>1, SenderGoesOn
<1>4. r \in Records /\ Current = Coded[r] /\ position \in Nat /\ position < Len(Current)
  BY <1>1, SentRecord DEF SenderInv
<1> HIDE DEF r
<1> DEFINE n == Count(r)
<1>5. /\ n \in 3..255 /\ r.type \in Nibble /\ Bytes(r)[1] = n
      /\ Len(Current) = 2 * n + 4
      /\ Current[1] = S /\ Current[2] = r.type
      /\ \A k \in 1..n + 1 :
           /\ Current[2 * k + 1] \in Nibble /\ Current[2 * k + 2] \in Nibble
           /\ 16 * Current[2 * k + 1] + Current[2 * k + 2] = Bytes(r)[k]
  BY <1>4, CharactersOfRecord
<1> HIDE DEF n
<1>6. position < 4 => position' = position + 1 /\ record' = record /\ Current' = Current
  <2> SUFFICES ASSUME position < 4
               PROVE  position' = position + 1 /\ record' = record /\ Current' = Current
    OBVIOUS
  <2>1. position + 1 # Len(Current)
    BY <1>4, <1>5
  <2> QED BY <1>3, <2>1 DEF Current
<1>7. CASE position = 0
  <2>1. c = S /\ position' = 1 /\ record' = record
    BY <1>5, <1>6, <1>7
  <2>2. ReadS /\ DataRead(callback') /\ entry = NoEntry
    BY <1>1, <2>1, OneTurn
  <2>3. ReaderInv' /\ (readState = "START" => mem' = mem /\ entry' = entry)
    BY <1>1, <1>7, <2>1, <2>2, StartOfRecord
  <2>4. InStep'
    BY <2>1 DEF InStep
  <2>5. InStep => readState = "START"
    BY <1>7 DEF InStep
  <2>6. faults = 0 => MemoryInv'
    BY <1>1, <1>2, <1>3, <2>1, <2>2, <2>3, <2>5, MemoryStays
  <2> QED BY <1>1, <1>3, <2>3, <2>4, <2>6 DEF FollowedInv
<1>8. CASE position = 1
  <2>1. c = r.type /\ c \in Nibble /\ position' = 2 /\ record' = record
    <3>1. position + 1 = 2 /\ position' = 2 /\ record' = record
      BY <1>6, <1>8
    <3> QED BY <1>5, <3>1
  <2>2. c \in Digits /\ ReadDigit(c) /\ DataRead(callback') /\ entry = NoEntry
    BY <1>1, <2>1, OneTurn
  <2>3. ReaderInv' /\ recordType' = c /\ mem' = mem /\ entry' = entry
    BY <1>1, <1>8, <2>1, <2>2, TypeOfRecord
  <2>4. InStep'
    BY <1>3, <2>1, <2>3 DEF InStep, r
  <2>5. faults = 0 => MemoryInv'
    BY <1>1, <1>2, <1>3, <2>1, <2>2, <2>3, MemoryStays
  <2> QED BY <1>1, <1>3, <2>3, <2>4, <2>5 DEF FollowedInv
<1> DEFINE high == Current[3]
           low  == Current[4]
<1>9. high \in Nibble /\ low \in Nibble /\ n = 16 * high + low
  <2>1. 1 \in 1..n + 1
    BY <1>5
  <2>2. 2 * 1 + 1 = 3 /\ 2 * 1 + 2 = 4
    OBVIOUS
  <2> QED BY <1>5, <2>1, <2>2
<1>10. CASE position = 2
  <2>1. c = high /\ position' = 3 /\ record' = record /\ Current' = Current
    BY <1>6, <1>10
  <2>2. c \in Digits /\ ReadDigit(c) /\ DataRead(callback') /\ entry = NoEntry
    BY <1>1, <1>9, <2>1, OneTurn
  <2>3. ReaderInv' /\ recordType' = recordType /\ mem' = mem /\ entry' = entry
    BY <1>1, <1>10, <2>1, <2>2, CountHighOfRecord
  <2>4. InStep => InStep'
    BY <1>3, <1>10, <2>1, <2>3 DEF InStep
  <2>5. faults = 0 => MemoryInv'
    BY <1>1, <1>2, <1>3, <2>1, <2>2, <2>3, MemoryStays
  <2> QED BY <1>1, <1>2, <1>3, <2>3, <2>4, <2>5 DEF FollowedInv
<1>11. CASE position = 3
  <2>1. c = low /\ position' = 4 /\ record' = record /\ Current' = Current
    BY <1>6, <1>11
  <2>2. low \in Digits /\ ReadDigit(low) /\ DataRead(callback') /\ entry = NoEntry
    BY <1>1, <1>9, <2>1, OneTurn
  <2>3. n \in 1..255
    BY <1>5
  <2> HIDE DEF c, low
  <2>4. /\ ReaderInv'
        /\ n <= LineMax => /\ readState' = "DATA_HIGH" /\ byteCount' = n /\ length' = 0
                           /\ recordType' = recordType /\ mem' = mem /\ entry' = entry
        /\ ~(n <= LineMax) => /\ readState' = "START" /\ mem' = mem
                              /\ entry' = entry \/ IsTermination(recordType)
    BY <1>1, <1>9, <1>11, <2>1, <2>2, <2>3, CountOfRecord
  <2>5. InStep => recordType = r.type
    BY <1>11 DEF InStep, r
  <2>6. n = Count(file[record]) /\ file[record]' = file[record]
    BY <1>3, <2>1 DEF n, r
  <2>7. InStep => InStep'
    BY <2>1, <2>4, <2>5, <2>6 DEF InStep, r
  <2>8. faults = 0 => MemoryInv'
    <3> SUFFICES ASSUME faults = 0 PROVE MemoryInv'
      OBVIOUS
    <3>1. mem' = mem /\ (entry' = entry \/ IsTermination(file[record].type))
      BY <1>2, <2>4, <2>5 DEF r
    <3> QED BY <1>1, <1>2, <1>3, <2>1, <2>2, <3>1, MemoryStays
  <2> QED BY <1>1, <1>2, <1>3, <2>4, <2>7, <2>8 DEF FollowedInv
<1>12. CASE position > 3
  <2>1. position \notin 1..3 /\ position' \notin 1..3
    BY <1>3, <1>4, <1>12
  <2>2. c \in Nibble
    <3>1. PICK k \in 1..n + 1 : position + 1 = 2 * k + 1 \/ position + 1 = 2 * k + 2
      <4> DEFINE k == position \div 2
      <4>1. k \in Int /\ (position = 2 * k \/ position = 2 * k + 1)
        BY <1>4
      <4> HIDE DEF k
      <4> DEFINE l == Len(Current)
      <4>2. l = 2 * n + 4 /\ position < l /\ n \in 3..255
        BY <1>4, <1>5
      <4> HIDE DEF l
      <4>3. CASE position = 2 * k
        <5>1. k \in 1..n + 1 /\ position + 1 = 2 * k + 1
          BY <1>4, <1>12, <4>1, <4>2, <4>3
        <5> QED BY <5>1
      <4>4. CASE position = 2 * k + 1
        <5>1. k \in 1..n + 1 /\ position + 1 = 2 * k + 2
          BY <1>4, <1>12, <4>1, <4>2, <4>4
        <5> QED BY <5>1
      <4> QED BY <4>1, <4>3, <4>4
    <3> QED BY <1>5, <3>1
  <2>3. c \in Digits /\ ReadDigit(c) /\ DataRead(callback') /\ entry = NoEntry
    BY <1>1, <2>2, OneTurn
  <2>4. ReaderInv'
    BY <1>1, <2>1, <2>3, DigitStaysInBuffer
  <2>5. ASSUME faults = 0, n <= LineMax
        PROVE  InStep' /\ MemoryInv'
    <3>1. Count(file[record]) <= LineMax
      BY <2>5 DEF n, r
    <3> QED BY <1>1, <1>2, <1>12, <2>5, <3>1, ReaderFollows
  <2>6. ASSUME faults = 0, ~(n <= LineMax)
        PROVE  InStep' /\ MemoryInv'
    <3>1. readState = "START"
      BY <1>2, <2>1, <2>6 DEF InStep, n, r
    <3>2. UNCHANGED reader /\ callback' = NoCall
      BY <2>3, <3>1 DEF ReadDigit, ReadType, ReadHigh, ReadCountLow, ReadDataLow, SkipDigit
    <3>3. mem' = mem /\ entry' = entry
      BY <2>3, <3>2, NothingRead
    <3>4. ~Fits(file[record])
      BY <1>5, <2>6 DEF Fits, r
    <3>5. MemoryInv'
      BY <1>1, <1>2, <1>3, <2>3, <2>6, <3>3, <3>4, MemoryStays
    <3>6. record' = record => Count(file[record])' = n
      BY <1>3 DEF n, r, Count
    <3>7. position' = position + 1 => record' = record
      BY <1>3, <1>4
    <3>8. InStep'
      BY <1>3, <2>1, <2>6, <3>1, <3>2, <3>6 DEF InStep, reader
    <3> QED BY <3>5, <3>8
  <2> QED BY <1>1, <1>3, <2>4, <2>5, <2>6 DEF FollowedInv
<1> QED BY <1>4, <1>7, <1>8, <1>10, <1>11, <1>12

\* A character that is damaged or lost: it is one behind the count.
LEMMA DamageKeeps ==
  ASSUME Framed, HeadsIntact, SenderInv, faults \in Nat, FollowedInv, Corrupt \/ Lose
  PROVE  FollowedInv'
<1>1. /\ SenderInv /\ ReaderInv /\ Sending /\ Advance /\ faults \in Nat
      /\ faults' = faults + 1 /\ position + 1 \in Exposed
  BY DEF FollowedInv, Corrupt, Lose, Damage
<1>2. /\ SenderInv'
      /\ position' = position + 1 \/ position' = 0
  BY <1>1, SenderGoesOn
<1>3. position \in Nat
  BY DEF SenderInv
<1>4. position > 3
  <2>1. position + 1 \notin 1..4
    BY <1>1 DEF HeadsIntact
  <2> QED BY <1>3, <2>1
<1>5. position \notin 1..3 /\ position' \notin 1..3
  BY <1>2, <1>3, <1>4
<1>6. ReaderInv'
  <2>1. CASE Corrupt
    <3>1. PICK d \in Digits : ReadByte(d)
      BY <2>1 DEF Corrupt
    <3>2. ReadDigit(d) /\ DataRead(callback')
      BY <3>1, Bounds, OneTurn
    <3> QED BY <1>1, <1>5, <3>2, DigitStaysInBuffer
  <2>2. CASE Lose
    <3>1. UNCHANGED <<reader, loaded>>
      BY <2>2 DEF Lose
    <3> QED BY <1>1, <1>5, <3>1 DEF reader, loaded, ReaderInv
  <2> QED BY <2>1, <2>2
<1>7. faults' \in Nat /\ faults' # 0
  BY <1>1
<1> QED BY <1>2, <1>6, <1>7 DEF FollowedInv

\* An ignored character changes nothing but the callback.
LEMMA NothingChanges ==
  ASSUME Framed, SendOther \/ UNCHANGED bvars
  PROVE  /\ SenderInv => SenderInv'
         /\ faults' = faults
         /\ FollowedInv => FollowedInv'
<1>1. UNCHANGED <<reader, loaded, file, record, position, faults>>
  <2>1. CASE SendOther
    <3>1. ReadOther /\ DataRead(callback') /\ UNCHANGED <<file, record, position, faults>>
      BY <2>1, OneTurn DEF SendOther
    <3> QED BY <3>1, NothingRead DEF ReadOther, loaded
  <2>2. CASE UNCHANGED bvars
    BY <2>2 DEF bvars, rvars, sender, loaded
  <2> QED BY <2>1, <2>2
<1>2. (SenderInv => SenderInv') /\ (ReaderInv => ReaderInv')
  BY <1>1 DEF SenderInv, ReaderInv, Sending, Current, reader, loaded
<1>3. (InStep => InStep') /\ (MemoryInv => MemoryInv')
  BY <1>1 DEF InStep, MemoryInv, Stands, Fits, Current, reader, loaded
<1> QED BY <1>1, <1>2, <1>3 DEF FollowedInv

LEMMA SrecInductive == ASSUME Framed, SrecIInv, [Next]_bvars PROVE SrecIInv'
<1>1. /\ SenderInv /\ faults \in Nat
      /\ HeadsIntact \/ faults = 0 => FollowedInv
  BY DEF SrecIInv
<1>2. CASE Send
  <2>1. SenderInv' /\ faults' = faults
    BY <1>1, <1>2, SenderGoesOn DEF Send
  <2> QED BY <1>1, <1>2, <2>1, SendKeeps DEF SrecIInv
<1>3. CASE Corrupt \/ Lose
  <2>1. SenderInv' /\ faults' = faults + 1
    BY <1>1, <1>3, SenderGoesOn DEF Corrupt, Lose, Damage
  <2>2. faults' \in Nat /\ faults' # 0
    BY <1>1, <2>1
  <2> QED BY <1>1, <1>3, <2>1, <2>2, DamageKeeps DEF SrecIInv
<1>4. CASE SendOther \/ UNCHANGED bvars
  BY <1>1, <1>4, NothingChanges DEF SrecIInv
<1> QED BY <1>2, <1>3, <1>4 DEF Next

-----------------------------------------------------------------------------
(* Sums of bytes *)

\* A set of numbers has a least one: this is how a sum is followed.
LEMMA LeastCounterexample ==
  ASSUME NEW T, T \subseteq Nat, T # {}
  PROVE  \E n \in T : \A k \in T : n <= k
<1> DEFINE R == OpToRel(<, Nat)
<1>1. IsWellFoundedOn(R, Nat)
  BY NatLessThanWellFounded
<1>2. \A x, y \in Nat : x < y => << x, y >> \in R
  BY DEF OpToRel
<1> HIDE DEF R
<1>3. PICK n \in T : \A k \in T : ~ (<< k, n >> \in R)
  BY <1>1, WFMin
<1>4. ASSUME NEW k \in T PROVE n <= k
  <2>1. n \in Nat /\ k \in Nat /\ ~ (<< k, n >> \in R)
    BY <1>3
  <2>2. ~ (k < n)
    BY <1>2, <2>1
  <2> QED BY <2>1, <2>2
<1> QED BY <1>4

\* The sums of the first 0, 1, ... m of q.
Adds(q, s, m) ==
  /\ s \in [0..m -> Nat]
  /\ s[0] = 0
  /\ \A i \in 1..m : s[i] = s[i - 1] + q[i]

\* Where two sequences agree their sums do.
Agree(q, p, k) == \A i \in 1..k : q[i] = p[i]

LEMMA SumsAgree ==
  ASSUME NEW m \in Nat, NEW n \in Nat, NEW k \in 0..m, k <= n,
         NEW q, NEW p, NEW s, NEW t, Adds(q, s, m), Adds(p, t, n),
         Agree(q, p, k)
  PROVE  s[k] = t[k]
<1> DEFINE T == {i \in 0..k : s[i] # t[i]}
<1> SUFFICES ASSUME T # {} PROVE FALSE
  OBVIOUS
<1>1. PICK i \in T : \A j \in T : i <= j
  <2>1. T \subseteq Nat
    OBVIOUS
  <2> HIDE DEF T
  <2> QED BY <2>1, LeastCounterexample
<1>2. i \in 0..k /\ s[i] # t[i]
  BY <1>1
<1>3. i # 0
  BY <1>2 DEF Adds
<1>4. i - 1 \in 0..k /\ i \in 1..k /\ i \in 1..m /\ i \in 1..n
  BY <1>2, <1>3
<1>5. s[i - 1] = t[i - 1]
  BY <1>1, <1>4
<1>6. s[i] = s[i - 1] + q[i] /\ t[i] = t[i - 1] + p[i] /\ q[i] = p[i]
  BY <1>4 DEF Adds, Agree
<1> QED BY <1>2, <1>5, <1>6

\* Every sequence of numbers has its sums, and Total is the last of them.
LEMMA SumsExist ==
  ASSUME NEW n \in Nat, NEW q, \A i \in 1..n : q[i] \in Nat
  PROVE  \E s : Adds(q, s, n)
<1> DEFINE T == {m \in 0..n : ~ \E s : Adds(q, s, m)}
<1> SUFFICES ASSUME T # {} PROVE FALSE
  BY DEF Adds
<1>1. PICK m \in T : \A j \in T : m <= j
  <2>1. T \subseteq Nat
    OBVIOUS
  <2> HIDE DEF T
  <2> QED BY <2>1, LeastCounterexample
<1>2. m \in 0..n /\ ~ \E s : Adds(q, s, m)
  BY <1>1
<1>3. CASE m = 0
  <2>1. Adds(q, [i \in 0..0 |-> 0], 0)
    BY DEF Adds
  <2> QED BY <1>2, <1>3, <2>1
<1>4. CASE m # 0
  <2>1. m - 1 \in 0..n /\ m - 1 \notin T /\ m \in 1..n
    BY <1>1, <1>2, <1>4
  <2>2. PICK s : Adds(q, s, m - 1)
    BY <2>1
  <2> DEFINE t == [i \in 0..m |-> IF i = m THEN s[m - 1] + q[m] ELSE s[i]]
  <2>3. q[m] \in Nat /\ m - 1 \in 0..m - 1
    BY <2>1
  <2>4. s \in [0..m - 1 -> Nat] /\ s[0] = 0 /\ \A i \in 1..m - 1 : s[i] = s[i - 1] + q[i]
    BY <2>2 DEF Adds
  <2>5. t \in [0..m -> Nat]
    BY <2>1, <2>3, <2>4
  <2>6. t[0] = 0
    BY <2>1, <2>4
  <2>7. ASSUME NEW i \in 1..m PROVE t[i] = t[i - 1] + q[i]
    BY <2>1, <2>4, <2>7
  <2>8. Adds(q, t, m)
    <3> HIDE DEF t
    <3> QED BY <2>5, <2>6, <2>7 DEF Adds
  <2> QED BY <1>2, <2>8
<1> QED BY <1>3, <1>4

LEMMA TotalIsSum ==
  ASSUME NEW n \in Nat, NEW q, Len(q) = n, NEW s, Adds(q, s, n)
  PROVE  Total(q) = s[n]
<1> DEFINE Walk(f) == [i \in 0..n |-> IF i = 0 THEN 0 ELSE f[i - 1] + q[i]]
           g == CHOOSE f : f = Walk(f)
<1>1. Total(q) = g[n]
  BY DEF Total
<1>2. s = Walk(s)
  <2>1. \A i \in 0..n : s[i] = IF i = 0 THEN 0 ELSE s[i - 1] + q[i]
    BY DEF Adds
  <2>2. s = [i \in 0..n |-> s[i]]
    BY DEF Adds
  <2> QED BY <2>1, <2>2
<1>3. g = Walk(g)
  <2> HIDE DEF Walk
  <2> QED BY <1>2
<1> HIDE DEF g
<1>4. \A i \in 0..n : g[i] = IF i = 0 THEN 0 ELSE g[i - 1] + q[i]
  <2>1. \A i \in 0..n : Walk(g)[i] = IF i = 0 THEN 0 ELSE g[i - 1] + q[i]
    BY Zenon
  <2> HIDE DEF Walk
  <2> QED BY <1>3, <2>1
<1> HIDE DEF Walk
<1> DEFINE T == {i \in 0..n : g[i] # s[i]}
<1>5. T = {}
  <2> SUFFICES ASSUME T # {} PROVE FALSE
    OBVIOUS
  <2>1. PICK i \in T : \A j \in T : i <= j
    <3>1. T \subseteq Nat
      OBVIOUS
    <3> HIDE DEF T
    <3> QED BY <3>1, LeastCounterexample
  <2>2. i \in 0..n /\ g[i] # s[i]
    BY <2>1
  <2>3. i # 0
    BY <1>4, <2>2 DEF Adds
  <2>4. i - 1 \in 0..n /\ i \in 1..n
    BY <2>2, <2>3
  <2>5. g[i - 1] = s[i - 1]
    BY <2>1, <2>4
  <2>6. g[i] = g[i - 1] + q[i] /\ s[i] = s[i - 1] + q[i]
    BY <1>4, <2>3, <2>4 DEF Adds
  <2> QED BY <2>2, <2>5, <2>6
<1> QED BY <1>1, <1>5

\* The total of a sequence of numbers, and of one that differs from it in one
\* place.
LEMMA TotalIsNatural ==
  ASSUME NEW n \in Nat, NEW q, Len(q) = n, \A i \in 1..n : q[i] \in Nat
  PROVE  Total(q) \in Nat
<1>1. PICK s : Adds(q, s, n)
  BY SumsExist
<1>2. Total(q) = s[n]
  BY <1>1, TotalIsSum
<1>3. s[n] \in Nat
  BY <1>1 DEF Adds
<1> QED BY <1>2, <1>3

Numbers(q, n) == Len(q) = n /\ \A i \in 1..n : q[i] \in Nat
Apart(q, p, n, k) == \A i \in 1..n : i # k => q[i] = p[i]

LEMMA OneApart ==
  ASSUME NEW n \in Nat, NEW k \in 1..n, NEW q, NEW p,
         Numbers(q, n), Numbers(p, n), Apart(q, p, n, k)
  PROVE  Total(q) + p[k] = Total(p) + q[k]
<1> USE DEF Numbers, Apart
<1>1. PICK s : Adds(q, s, n)
  BY SumsExist
<1>2. PICK t : Adds(p, t, n)
  BY SumsExist
<1> DEFINE T == {i \in 0..n : i >= k /\ s[i] + p[k] # t[i] + q[k]}
<1>3. T = {}
  <2> SUFFICES ASSUME T # {} PROVE FALSE
    OBVIOUS
  <2>1. PICK i \in T : \A j \in T : i <= j
    <3>1. T \subseteq Nat
      OBVIOUS
    <3> HIDE DEF T
    <3> QED BY <3>1, LeastCounterexample
  <2>2. i \in 0..n /\ i >= k /\ s[i] + p[k] # t[i] + q[k]
    BY <2>1
  <2>3. i \in 1..n /\ i - 1 \in 0..n
    BY <2>2
  <2>4. s[i] = s[i - 1] + q[i] /\ t[i] = t[i - 1] + p[i]
    BY <1>1, <1>2, <2>3 DEF Adds
  <2>5. s[i - 1] \in Nat /\ t[i - 1] \in Nat /\ q[i] \in Nat /\ p[i] \in Nat
        /\ q[k] \in Nat /\ p[k] \in Nat
    BY <1>1, <1>2, <2>3 DEF Adds
  <2>6. CASE i = k
    <3>1. s[i - 1] = t[i - 1]
      <4> DEFINE h == i - 1
      <4>1. h \in 0..n /\ h <= n /\ Agree(q, p, h)
        BY <2>3, <2>6 DEF Agree
      <4> HIDE DEF h
      <4>2. s[h] = t[h]
        BY <1>1, <1>2, <4>1, SumsAgree
      <4> QED BY <4>2 DEF h
    <3>2. s[i] + p[k] = t[i] + q[k]
      BY <2>4, <2>5, <2>6, <3>1
    <3> QED BY <2>2, <3>2
  <2>7. CASE i # k
    <3>1. i - 1 >= k /\ q[i] = p[i]
      BY <2>2, <2>3, <2>7
    <3>2. s[i - 1] + p[k] = t[i - 1] + q[k]
      BY <2>1, <2>3, <3>1
    <3> DEFINE a == s[i - 1]
               b == t[i - 1]
               u == q[i]
               v == p[k]
               w == q[k]
    <3>3. /\ a \in Nat /\ b \in Nat /\ u \in Nat /\ v \in Nat /\ w \in Nat
          /\ a + v = b + w /\ s[i] = a + u /\ t[i] = b + u
      BY <2>4, <2>5, <3>1, <3>2
    <3> HIDE DEF a, b, u, v, w
    <3>4. s[i] + v = t[i] + w
      BY <3>3
    <3> USE DEF v, w
    <3> QED BY <2>2, <3>4
  <2> QED BY <2>6, <2>7
<1>4. n \in 0..n /\ n >= k
  OBVIOUS
<1>5. s[n] + p[k] = t[n] + q[k]
  BY <1>3, <1>4
<1> QED BY <1>1, <1>2, <1>5, TotalIsSum

\* Equal sequences have equal totals, and one byte more adds its value.
LEMMA TotalGrows ==
  ASSUME NEW n \in Nat, NEW q, NEW p, Len(q) = n, Len(p) = n + 1,
         \A i \in 1..n : q[i] \in Nat, p[n + 1] \in Nat, \A i \in 1..n : p[i] = q[i]
  PROVE  Total(p) = Total(q) + p[n + 1]
<1>1. PICK s : Adds(q, s, n)
  BY SumsExist
<1>2. \A i \in 1..n + 1 : p[i] \in Nat
  OBVIOUS
<1>3. PICK t : Adds(p, t, n + 1)
  <2>1. n + 1 \in Nat
    OBVIOUS
  <2> QED BY <1>2, <2>1, SumsExist
<1>4. s[n] = t[n]
  <2>1. n + 1 \in Nat /\ n \in 0..n /\ n <= n + 1 /\ Agree(q, p, n)
    BY DEF Agree
  <2> QED BY <1>1, <1>3, <2>1, SumsAgree
<1>5. t[n + 1] = t[n] + p[n + 1]
  <2>1. n + 1 \in 1..n + 1 /\ n + 1 - 1 = n
    OBVIOUS
  <2> QED BY <1>3, <2>1 DEF Adds
<1>6. Total(q) = s[n]
  BY <1>1, TotalIsSum
<1>7. Total(p) = t[n + 1]
  <2>1. n + 1 \in Nat
    OBVIOUS
  <2> QED BY <1>3, <2>1, TotalIsSum
<1> QED BY <1>4, <1>5, <1>6, <1>7

-----------------------------------------------------------------------------
(* The checksum *)

\* A record that arrives whole sums up to all ones.
LEMMA ChecksumAgrees ==
  ASSUME Framed, NEW r \in Records, NEW q, Len(q) = Count(r),
         \A i \in 1..Count(r) : q[i] = Bytes(r)[i + 1]
  PROVE  (Count(r) + Total(q) + 1) % 256 = 0
<1> DEFINE body == r.address \o r.payload
           n == Count(r)
           m == Len(body)
           t == Total(body)
           y == n + t
<1>1. /\ body \in Seq(Byte) /\ n = m + 1
      /\ \A i \in 1..m : Bytes(r)[i + 1] = body[i]
      /\ Bytes(r)[n + 1] = 255 - (y % 256)
  <2>1. EndsInChecksum(r)
    BY PartsOfRecord
  <2>2. n = Len(r.address) + Len(r.payload) + 1
    BY DEF Count
  <2> HIDE DEF n, t
  <2> DEFINE l == Len(body) + 1
  <2>3. /\ body \in Seq(Byte) /\ l = n
        /\ \A i \in 1..l - 1 : Bytes(r)[i + 1] = body[i]
        /\ Bytes(r)[l + 1] = 255 - ((l + Total(body)) % 256)
    BY <2>1, <2>2 DEF EndsInChecksum
  <2>4. m \in Nat /\ l = m + 1 /\ l - 1 = m
    <3>1. m \in Nat /\ l = m + 1
      BY <2>3, LenProperties
    <3> HIDE DEF l, m
    <3> QED BY <3>1
  <2> HIDE DEF l, m, body
  <2> QED BY <2>3, <2>4 DEF t
<1>2. m \in Nat /\ \A i \in 1..m : body[i] \in Nat
  <2> HIDE DEF body
  <2>1. Byte \subseteq Nat
    BY DEF Byte
  <2>2. m \in Nat /\ \A i \in 1..m : body[i] \in Byte
    BY <1>1, LenProperties, ElementOfSeq
  <2> QED BY <2>1, <2>2
<1>3. \A i \in 1..n : q[i] = Bytes(r)[i + 1]
  OBVIOUS
<1>4. Len(q) = n
  OBVIOUS
<1> HIDE DEF body, m, n
<1>5. t \in Nat
  BY <1>2, TotalIsNatural DEF m
<1> HIDE DEF t
<1>6. y \in Nat /\ y % 256 \in 0..255
  BY <1>1, <1>2, <1>5
<1> HIDE DEF y
<1>7. q[m + 1] = 255 - (y % 256) /\ q[m + 1] \in Nat /\ \A i \in 1..m : q[i] = body[i]
  BY <1>1, <1>2, <1>3, <1>6
<1>8. Total(q) = t + q[m + 1]
  <2>1. Len(body) = m /\ Len(q) = m + 1
    BY <1>1, <1>4 DEF m
  <2> HIDE DEF body
  <2> DEFINE u == m
  <2>2. /\ u \in Nat /\ Len(body) = u /\ Len(q) = u + 1
        /\ \A i \in 1..u : body[i] \in Nat
        /\ q[u + 1] \in Nat
        /\ \A i \in 1..u : q[i] = body[i]
    BY <1>2, <1>7, <2>1
  <2> HIDE DEF u
  <2>3. Total(q) = Total(body) + q[u + 1]
    BY <2>2, TotalGrows
  <2> QED BY <2>3 DEF t, u
<1>9. n + Total(q) + 1 = y + 256 - (y % 256)
  BY <1>1, <1>2, <1>5, <1>6, <1>7, <1>8 DEF y
<1>10. (y + 256 - (y % 256)) % 256 = 0
  BY <1>6
<1> QED BY <1>9, <1>10 DEF n

\* Two sums that differ by less than 256 do not agree in their low bytes.
LEMMA LowBytesDiffer ==
  ASSUME NEW x \in Nat, NEW y \in Nat, NEW a \in 0..255, NEW b \in 0..255, a # b,
         y + a = x + b, x % 256 = 0
  PROVE  y % 256 # 0
<1> DEFINE u == x \div 256
           v == y \div 256
<1>1. u \in Int /\ v \in Int /\ x = 256 * u /\ y = 256 * v + (y % 256)
  OBVIOUS
<1> HIDE DEF u, v
<1> SUFFICES ASSUME y % 256 = 0 PROVE FALSE
  OBVIOUS
<1>2. 256 * v + a = 256 * u + b
  BY <1>1
<1> QED BY <1>1, <1>2

\* The bytes among the first m that are not those of the record.
Bad(r, d, m) == {i \in 1..m : d[i - 1] # Bytes(r)[i + 1]}

\* One wrong byte always shows in the sum.
LEMMA OneWrongShows ==
  ASSUME Framed, NEW r \in Records, Count(r) <= LineMax,
         NEW d \in [0..LineMax -> Byte], NEW k \in Nat, Bad(r, d, Count(r)) = {k}
  PROVE  SumError(d, Count(r))
<1> DEFINE n == Count(r)
           p == [i \in 1..n |-> Bytes(r)[i + 1]]
           q == Prefix(d, n)
<1>1. /\ n \in 3..255 /\ LineMax \in Nat
      /\ \A i \in 1..n : Bytes(r)[i + 1] \in Byte
  <2>1. /\ n \in 3..255 /\ n <= LineMax /\ Bytes(r) \in Seq(Byte) /\ Len(Bytes(r)) = n + 1
    BY CharactersOfRecord
  <2> HIDE DEF n
  <2>2. \A i \in 1..n : Bytes(r)[i + 1] \in Byte
    <3> DEFINE b == Bytes(r)
    <3> SUFFICES ASSUME NEW i \in 1..n PROVE b[i + 1] \in Byte
      OBVIOUS
    <3> HIDE DEF b
    <3>1. i + 1 \in 1..Len(b) /\ b \in Seq(Byte)
      BY <2>1 DEF b
    <3> QED BY <3>1, ElementOfSeq
  <2> QED BY <2>1, <2>2, Bounds
<1>0. Bad(r, d, n) = {k} /\ n <= LineMax
  OBVIOUS
<1> HIDE DEF n
<1>2. \A i \in 1..n : d[i - 1] \in Byte
  BY <1>0, <1>1
<1>3. k \in 1..n /\ d[k - 1] # Bytes(r)[k + 1]
      /\ \A i \in 1..n : i # k => d[i - 1] = Bytes(r)[i + 1]
  BY <1>0 DEF Bad
<1>4. /\ Len(p) = n /\ Len(q) = n
      /\ \A i \in 1..n : p[i] = Bytes(r)[i + 1] /\ q[i] = d[i - 1]
  <2>1. q = [i \in 1..n |-> d[i - 1]]
    BY DEF Prefix
  <2>2. n \in Nat
    BY <1>1
  <2>3. DOMAIN p = 1..n /\ DOMAIN q = 1..n
    BY <2>1
  <2>4. Len(p) = n /\ Len(q) = n
    <3>1. p \in [1..n -> Byte] /\ q \in [1..n -> Byte]
      BY <1>1, <1>2, <2>1
    <3>2. p \in Seq(Byte) /\ q \in Seq(Byte)
      BY <2>2, <3>1
    <3> HIDE DEF p, q
    <3> QED BY <2>2, <2>3, <3>2, LenProperties
  <2>5. \A i \in 1..n : p[i] = Bytes(r)[i + 1] /\ q[i] = d[i - 1]
    BY <2>1
  <2> QED BY <2>4, <2>5
<1> HIDE DEF p, q
<1>5. (n + Total(p) + 1) % 256 = 0
  BY <1>4, ChecksumAgrees DEF n
<1>6. n \in Nat /\ Len(q) = n /\ Len(p) = n /\ \A i \in 1..n : q[i] \in Nat /\ p[i] \in Nat
  <2>1. Byte \subseteq Nat
    BY DEF Byte
  <2>2. n \in Nat
    BY <1>1
  <2>3. \A i \in 1..n : q[i] \in Byte /\ p[i] \in Byte
    BY <1>1, <1>2, <1>4
  <2> QED BY <1>4, <2>1, <2>2, <2>3
<1>7. Total(q) + p[k] = Total(p) + q[k]
  <2>1. \A i \in 1..n : i # k => q[i] = p[i]
    BY <1>3, <1>4
  <2>2. k \in 1..n
    BY <1>3
  <2>3. Numbers(q, n) /\ Numbers(p, n) /\ Apart(q, p, n, k)
    BY <1>6, <2>1 DEF Numbers, Apart
  <2> QED BY <1>6, <2>2, <2>3, OneApart
<1>8. Total(p) \in Nat /\ Total(q) \in Nat
  BY <1>4, <1>6, TotalIsNatural
<1>9. p[k] \in 0..255 /\ q[k] \in 0..255 /\ p[k] # q[k]
  BY <1>1, <1>2, <1>3, <1>4 DEF Byte
<1> DEFINE tp == Total(p)
           tq == Total(q)
           a == p[k]
           b == q[k]
<1>10. /\ n \in Nat /\ tp \in Nat /\ tq \in Nat /\ a \in 0..255 /\ b \in 0..255 /\ a # b
       /\ tq + a = tp + b /\ (n + tp + 1) % 256 = 0
  BY <1>5, <1>6, <1>7, <1>8, <1>9
<1> HIDE DEF tp, tq, a, b
<1> DEFINE x == n + tp + 1
           y == n + tq + 1
<1>11. /\ x \in Nat /\ y \in Nat /\ x % 256 = 0 /\ y + a = x + b
       /\ a \in 0..255 /\ b \in 0..255 /\ a # b
  BY <1>10
<1> HIDE DEF x, y
<1>12. y % 256 # 0
  BY <1>11, LowBytesDiffer
<1>13. (n + Total(q) + 1) % 256 # 0
  BY <1>12 DEF y, tq
<1> QED BY <1>13 DEF SumError, q, n

-----------------------------------------------------------------------------
(* One damaged character *)

\* The bytes of the record that have arrived, and the high digit of one that
\* is arriving, which are not as they were sent.
Wrong ==
  Bad(file[record], data, length) \cup
    {i \in {length + 1} : readState = "DATA_LOW" /\ data[length] # 16 * Current[position]}

\* The reader has read every character of the record so far, or all but one.
Aligned == \/ readState = "DATA_HIGH" /\ position = 4 + 2 * length
           \/ readState = "DATA_LOW" /\ position = 5 + 2 * length
Behind  == \/ readState = "DATA_HIGH" /\ position = 5 + 2 * length
           \/ readState = "DATA_LOW" /\ position = 6 + 2 * length

\* What one damaged character has done to the record that is being read: it
\* made one byte wrong, or left the reader one character behind.
Arriving ==
  IF position > 3 /\ Count(file[record]) <= LineMax
  THEN /\ recordType = file[record].type
       /\ byteCount = Count(file[record])
       /\ \/ Aligned /\ Wrong = {}
          \/ Aligned /\ faults # 0 /\ \E k \in Nat : Wrong = {k}
          \/ Behind /\ faults # 0
  ELSE /\ position \in {2, 3} => recordType = file[record].type
       /\ position > 3 => readState = "START"

\* A call without an error passes on a record of the file.
Noticed ==
  callback'.called /\ ~callback'.sumError /\ ~callback'.countError =>
    \E i \in 1..Len(file) :
      file[i] = [type |-> callback'.type, address |-> callback'.address,
                 payload |-> callback'.payload]

LEMMA NoCallIsNoticed == callback' = NoCall => Noticed
  BY DEF NoCall, Noticed

LEMMA CountShows == callback' = NoCall \/ callback'.countError => Noticed
  BY DEF NoCall, Noticed

\* A record whose bytes arrive as they were sent is passed on as it was sent,
\* and one with a wrong byte with an error.
LEMMA WholeRecordIsNoticed ==
  ASSUME Framed, SenderInv, Sending,
         NEW n \in Nat, n = Count(file[record]), n <= LineMax,
         NEW d \in [0..LineMax -> Byte],
         \/ Bad(file[record], d, n) = {}
         \/ \E k \in Nat : Bad(file[record], d, n) = {k},
         callback' = EndRead(file[record].type, n, n, d)
  PROVE  Noticed
<1> DEFINE r == file[record]
<1>1. r \in Records /\ file \in Seq(Record) /\ record \in 1..Len(file)
  BY SentRecord DEF SenderInv, Sending
<1>2. /\ Count(r) = n /\ n <= LineMax
      /\ callback' = EndRead(r.type, n, n, d)
      /\ Bad(r, d, n) = {} \/ \E k \in Nat : Bad(r, d, n) = {k}
  OBVIOUS
<1>3. CASE Bad(r, d, n) = {}
  <2> HIDE DEF r
  <2>1. n \in 1..LineMax /\ n = Len(r.address) + Len(r.payload) + 1
    <3>1. Count(r) \in 3..255
      BY <1>1, CharactersOfRecord
    <3> QED BY <1>2, <3>1, Bounds DEF Count
  <2>2. \A i \in 1..n : d[i - 1] = Bytes(r)[i + 1]
    BY <1>3 DEF Bad
  <2> DEFINE c == EndRead(r.type, n, n, d)
  <2>3. c.called /\ c.type = r.type /\ c.address = r.address /\ c.payload = r.payload
    BY <1>1, <2>1, <2>2, RecordPassedOn
  <2> HIDE DEF c
  <2>4. r = [type |-> r.type, address |-> r.address, payload |-> r.payload]
    <3>1. r \in Record
      BY <1>1, BytesOfRecord
    <3> QED BY <3>1 DEF Record
  <2>5. callback' = c
    BY <1>2 DEF c
  <2>6. r = [type |-> callback'.type, address |-> callback'.address,
             payload |-> callback'.payload]
    BY <2>3, <2>4, <2>5
  <2> QED BY <1>1, <2>6 DEF Noticed, r
<1>4. ASSUME NEW k \in Nat, Bad(r, d, n) = {k}
      PROVE  Noticed
  <2> HIDE DEF r
  <2>1. Bad(r, d, Count(r)) = {k} /\ Count(r) <= LineMax
    BY <1>2, <1>4
  <2>2. SumError(d, n)
    BY <1>1, <1>2, <2>1, OneWrongShows
  <2>3. callback'.sumError
    BY <1>2, <2>2 DEF EndRead
  <2> QED BY <2>3 DEF Noticed
<1> QED BY <1>2, <1>3, <1>4

\* The sets a step of the reader leaves behind.
AtMostOne(w) == w = {} \/ (faults' # 0 /\ \E k \in Nat : w = {k})

\* A high digit waits at the end of the data, right or wrong.
LEMMA HighDigitWaits ==
  ASSUME Framed, RegistersOK, readState = "DATA_HIGH", faults \in Nat,
         NEW b \in Nibble,
         data' = [data EXCEPT ![length] = 16 * b], length' = length,
         readState' = "DATA_LOW", Current' = Current, position' = position + 1,
         file' = file, record' = record,
         Wrong = {} \/ (faults # 0 /\ \E k \in Nat : Wrong = {k}),
         (b = Current[position + 1] /\ faults' = faults) \/ (Wrong = {} /\ faults' # 0)
  PROVE  AtMostOne(Wrong')
<1> DEFINE l == length
           c == Current[position + 1]
           r == file[record]
<1>1. l \in Nat /\ data'[l] = 16 * b /\ \A i \in 1..l : data'[i - 1] = data[i - 1]
  BY Bounds DEF RegistersOK
<1>2. Wrong = Bad(r, data, l)
  BY DEF Wrong
<1>3. Bad(r, data', l) = Bad(r, data, l)
  BY <1>1 DEF Bad
<1>4. Wrong' = Bad(r, data', l) \cup {i \in {l + 1} : 16 * b # 16 * c}
  <2>1. Wrong' = Bad(r, data', l) \cup {i \in {l + 1} : data'[l] # 16 * c}
    BY DEF Wrong, Bad
  <2> QED BY <1>1, <2>1
<1> HIDE DEF l
<1>5. CASE b = c /\ faults' = faults
  <2>1. Wrong' = Wrong
    BY <1>2, <1>3, <1>4, <1>5
  <2> QED BY <1>5, <2>1 DEF AtMostOne
<1>6. CASE Wrong = {} /\ faults' # 0
  <2>1. Wrong' = {} \/ Wrong' = {l + 1}
    BY <1>2, <1>3, <1>4, <1>6
  <2>2. l + 1 \in Nat
    BY <1>1
  <2> QED BY <1>6, <2>1, <2>2 DEF AtMostOne
<1> QED BY <1>5, <1>6

\* The low digit completes the byte, which is right if both its digits are.
LEMMA LowDigitCompletes ==
  ASSUME Framed, RegistersOK, readState = "DATA_LOW", faults \in Nat,
         NEW b \in Nibble, NEW c \in Nibble, Current[position] \in Nibble,
         16 * Current[position] + c = Bytes(file[record])[length + 2],
         Combined(b) \in [0..LineMax -> Byte], Combined(b)[length] = data[length] + b,
         Wrong = {} \/ (faults # 0 /\ \E k \in Nat : Wrong = {k}),
         (b = c /\ faults' = faults) \/ (Wrong = {} /\ faults' # 0)
  PROVE  AtMostOne(Bad(file[record], Combined(b), length + 1))
<1> DEFINE r == file[record]
           h == Current[position]
           l == length
           d == Combined(b)
           w == Bad(r, d, l + 1)
<1>1. l \in Nat /\ d[l] = data[l] + b /\ data[l] \in Nat
      /\ \A i \in 1..l : d[i - 1] = data[i - 1]
  <2>1. data \in [0..LineMax -> Byte] /\ length \in 0..LineMax /\ LineMax \in Nat
    BY Bounds DEF RegistersOK
  <2>2. \A i \in 1..l : d[i - 1] = data[i - 1]
    BY <2>1 DEF Combined
  <2>3. data[l] \in Nat /\ l \in Nat
    <3>1. Byte \subseteq Nat
      BY DEF Byte
    <3>2. data[length] \in Byte
      BY <2>1
    <3>3. length \in Nat
      BY <2>1
    <3> QED BY <3>1, <3>2, <3>3
  <2>4. d[l] = data[l] + b
    OBVIOUS
  <2> HIDE DEF l, d
  <2> QED BY <2>2, <2>3, <2>4
<1>2. Wrong = Bad(r, data, l) \cup {i \in {l + 1} : data[l] # 16 * h}
  BY DEF Wrong
<1>3. 16 * h + c = Bytes(r)[l + 2] /\ h \in Nibble
  OBVIOUS
<1> HIDE DEF l, d, h, r
<1>4. Bad(r, d, l) = Bad(r, data, l)
  BY <1>1 DEF Bad
<1>5. w = Bad(r, d, l) \cup {i \in {l + 1} : d[l] # 16 * h + c}
  <2>1. l + 1 - 1 = l /\ l + 1 + 1 = l + 2 /\ 1..l + 1 = 1..l \cup {l + 1}
    BY <1>1
  <2>2. w = Bad(r, d, l) \cup {i \in {l + 1} : d[i - 1] # Bytes(r)[i + 1]}
    BY <2>1 DEF Bad
  <2>3. \A i \in {l + 1} : d[i - 1] = d[l] /\ Bytes(r)[i + 1] = 16 * h + c
    <3> SUFFICES ASSUME NEW i \in {l + 1}
                 PROVE  d[i - 1] = d[l] /\ Bytes(r)[i + 1] = 16 * h + c
      OBVIOUS
    <3>1. i = l + 1
      OBVIOUS
    <3>2. i - 1 = l /\ i + 1 = l + 2
      BY <1>1, <3>1
    <3> QED BY <1>3, <3>2
  <2> QED BY <2>2, <2>3
<1> HIDE DEF w
<1>6. CASE b = c /\ faults' = faults
  <2>1. d[l] # 16 * h + c <=> data[l] # 16 * h
    <3> DEFINE x == data[l]
               y == d[l]
    <3>1. x \in Nat /\ y = x + b /\ b \in 0..15 /\ h \in 0..15 /\ b = c
      BY <1>1, <1>3, <1>6 DEF Nibble
    <3> HIDE DEF x, y
    <3>2. y # 16 * h + b <=> x # 16 * h
      BY <3>1
    <3> QED BY <3>1, <3>2 DEF x, y
  <2>2. w = Wrong
    BY <1>2, <1>4, <1>5, <2>1
  <2> QED BY <1>6, <2>2 DEF AtMostOne, w, d, l, r
<1>7. CASE Wrong = {} /\ faults' # 0
  <2>1. w = {} \/ w = {l + 1}
    BY <1>2, <1>4, <1>5, <1>7
  <2>2. l + 1 \in Nat
    BY <1>1
  <2> QED BY <1>7, <2>1, <2>2 DEF AtMostOne, w, d, l, r
<1> QED BY <1>6, <1>7

\* Where the sender is behind the count of a record.
LEMMA BehindCount ==
  ASSUME Framed, SenderInv, Sending, position > 3
  PROVE  LET r == file[record]
             n == Count(r)
         IN  /\ n \in 3..255 /\ position \in Nat /\ position < 2 * n + 4
             /\ Len(Current) = 2 * n + 4
             /\ Current[position + 1] \in Nibble
             /\ \A l \in Nat : position = 5 + 2 * l /\ l < n =>
                  /\ Current[position] \in Nibble
                  /\ 16 * Current[position] + Current[position + 1] = Bytes(r)[l + 2]
<1> DEFINE r == file[record]
           n == Count(r)
           c == Current
<1>1. r \in Records /\ c = Coded[r] /\ position \in Nat /\ position < Len(c)
  BY SentRecord DEF SenderInv
<1> HIDE DEF r, c
<1>2. /\ n \in 3..255 /\ Len(c) = 2 * n + 4
      /\ \A k \in 1..n + 1 :
           /\ c[2 * k + 1] \in Nibble /\ c[2 * k + 2] \in Nibble
           /\ 16 * c[2 * k + 1] + c[2 * k + 2] = Bytes(r)[k]
  BY <1>1, CharactersOfRecord
<1> HIDE DEF n
<1>3. position < 2 * n + 4 /\ position > 3
  BY <1>1, <1>2
<1>4. c[position + 1] \in Nibble
  <2> DEFINE k == position \div 2
  <2>1. k \in Int /\ (position = 2 * k \/ position = 2 * k + 1)
    BY <1>1
  <2> HIDE DEF k
  <2>2. k \in 1..n + 1 /\ (position + 1 = 2 * k + 1 \/ position + 1 = 2 * k + 2)
    BY <1>1, <1>2, <1>3, <2>1
  <2> QED BY <1>2, <2>2
<1>5. ASSUME NEW l \in Nat, position = 5 + 2 * l, l < n
      PROVE  c[position] \in Nibble /\ 16 * c[position] + c[position + 1] = Bytes(r)[l + 2]
  <2>1. l + 2 \in 1..n + 1 /\ position = 2 * (l + 2) + 1 /\ position + 1 = 2 * (l + 2) + 2
    BY <1>2, <1>5
  <2> QED BY <1>2, <2>1
<1> QED BY <1>1, <1>2, <1>3, <1>4, <1>5 DEF r, c, n

\* The digit that was sent, or the first damage.
Heard(b) == \/ b = Current[position + 1] /\ faults' = faults
            \/ faults = 0 /\ faults' # 0

\* Behind the count of a record that fits, a digit is a right or a wrong one;
\* a call is made for the last one only.
LEMMA DigitIsNoticed ==
  ASSUME Framed, SenderInv, ReaderInv, Arriving, faults \in Nat, Sending,
         position > 3, Count(file[record]) <= LineMax, Advance,
         NEW b \in Digits, ReadDigit(b), Heard(b)
  PROVE  Arriving' /\ Noticed
<1> DEFINE r == file[record]
           n == Count(r)
           c == Current[position + 1]
           m == Len(Current)
<1>1. /\ n \in 3..255 /\ n <= LineMax /\ position \in Nat /\ position < m /\ m = 2 * n + 4
      /\ c \in Nibble /\ b \in Nibble /\ LineMax \in Nat
  <2>1. /\ n \in 3..255 /\ position \in Nat /\ position < 2 * n + 4 /\ m = 2 * n + 4
        /\ c \in Nibble
    BY BehindCount
  <2> QED BY <2>1, Bounds
<1>2. /\ file' = file
      /\ \/ position' = position + 1 /\ record' = record
         \/ position' = 0 /\ record' = record + 1 /\ position + 1 = m
  BY SenderGoesOn
<1>3. /\ RegistersOK /\ length \in Nat
      /\ readState \in {"DATA_HIGH", "DATA_LOW"} => length < n
      /\ readState = "DATA_LOW" => \E x \in Nibble : data[length] = 16 * x
  BY <1>1 DEF ReaderInv, RegistersOK, Arriving
<1>4. /\ recordType = r.type /\ byteCount = n
      /\ \/ Aligned /\ Wrong = {}
         \/ Aligned /\ faults # 0 /\ \E k \in Nat : Wrong = {k}
         \/ Behind /\ faults # 0
  BY DEF Arriving
<1> DEFINE right == b = c /\ faults' = faults
           first == faults = 0 /\ faults' # 0
<1>5. right \/ first
  BY DEF Heard
<1>6. ASSUME position' = 0 PROVE Arriving'
  BY <1>6 DEF Arriving
<1>7. position' > 3 \/ position' = 0
  BY <1>1, <1>2
<1>8. position' # 0 => /\ position' = position + 1 /\ record' = record /\ file' = file
                       /\ r' = r /\ n' = n /\ Current' = Current
  BY <1>1, <1>2 DEF Current, Count
<1> HIDE DEF r, n, c, m, right, first
<1>9. CASE readState = "DATA_HIGH" /\ Aligned
  <2>1. /\ data' = [data EXCEPT ![length] = 16 * b]
        /\ readState' = "DATA_LOW" /\ callback' = NoCall
        /\ UNCHANGED <<recordType, byteCount, length>>
    BY <1>9 DEF ReadDigit, ReadType, ReadHigh, ReadCountLow, ReadDataLow, SkipDigit
  <2>2. position = 4 + 2 * length
    BY <1>9 DEF Aligned
  <2>3. position' = position + 1
    BY <1>1, <1>2, <1>3, <1>9, <2>2
  <2>4. position' = 5 + 2 * length' /\ Aligned'
    BY <1>3, <2>1, <2>2, <2>3 DEF Aligned
  <2>5. ~Behind
    BY <1>3, <1>9, <2>2 DEF Behind
  <2>6. Wrong = {} \/ (faults # 0 /\ \E k \in Nat : Wrong = {k})
    BY <1>4, <2>5
  <2>7. (b = c /\ faults' = faults) \/ (Wrong = {} /\ faults' # 0)
    BY <1>5, <2>6 DEF right, first
  <2>8. /\ record' = record /\ file' = file /\ Current' = Current /\ r' = r /\ n' = n
        /\ position' # 0 /\ position' > 3
    BY <1>1, <1>7, <1>8, <2>3
  <2>9. AtMostOne(Wrong')
    BY <1>1, <1>3, <1>9, <2>1, <2>3, <2>6, <2>7, <2>8, HighDigitWaits DEF c
  <2>10. /\ recordType' = r'.type /\ byteCount' = n'
         /\ \/ Aligned' /\ Wrong' = {}
            \/ Aligned' /\ faults' # 0 /\ \E k \in Nat : Wrong' = {k}
    BY <1>4, <2>1, <2>4, <2>8, <2>9 DEF AtMostOne
  <2>11. Arriving'
    BY <2>8, <2>10 DEF Arriving, r, n
  <2> QED BY <2>1, <2>11, NoCallIsNoticed
<1>10. CASE readState = "DATA_LOW" /\ Aligned
  <2> DEFINE d == Combined(b)
             w == Bad(r, d, length + 1)
             h == Current[position]
  <2>1. ReadDataLow(b)
    BY <1>10 DEF ReadDigit, ReadType, ReadHigh, ReadCountLow, ReadDataLow, SkipDigit
  <2>2. position = 5 + 2 * length /\ length < n
    BY <1>3, <1>10 DEF Aligned
  <2>3. d \in [0..LineMax -> Byte] /\ d[length] = data[length] + b
    BY <1>1, <1>3, <1>10, NibblesStored
  <2>4. h \in Nibble /\ 16 * h + c = Bytes(r)[length + 2]
    <3>1. \A l \in Nat : position = 5 + 2 * l /\ l < n =>
            Current[position] \in Nibble /\
            16 * Current[position] + c = Bytes(r)[l + 2]
      BY BehindCount DEF n, r, c
    <3> QED BY <1>3, <2>2, <3>1
  <2>5. ~Behind
    BY <1>3, <1>10, <2>2 DEF Behind
  <2>6. Wrong = {} \/ (faults # 0 /\ \E k \in Nat : Wrong = {k})
    BY <1>4, <2>5
  <2>7. (b = c /\ faults' = faults) \/ (Wrong = {} /\ faults' # 0)
    BY <1>5, <2>6 DEF right, first
  <2>8. AtMostOne(w)
    BY <1>1, <1>3, <1>10, <2>3, <2>4, <2>6, <2>7, LowDigitCompletes DEF r
  <2> HIDE DEF d, w
  <2>9. CASE length + 1 < n
    <3>1. /\ length' = length + 1 /\ data' = d
          /\ readState' = "DATA_HIGH" /\ callback' = NoCall
          /\ UNCHANGED <<recordType, byteCount>>
      BY <1>4, <2>1, <2>9 DEF ReadDataLow, d
    <3>2. position' = position + 1
      BY <1>1, <1>2, <1>3, <2>2, <2>9
    <3>3. /\ record' = record /\ file' = file /\ Current' = Current /\ r' = r /\ n' = n
          /\ position' # 0 /\ position' > 3
      BY <1>1, <1>7, <1>8, <3>2
    <3>4. Aligned'
      BY <1>3, <2>2, <3>1, <3>2 DEF Aligned
    <3>5. Wrong' = w
      <4>1. Wrong' = Bad(r, data', length') \cup {}
        BY <3>1, <3>3 DEF Wrong, Bad, r
      <4> QED BY <3>1, <4>1 DEF w
    <3>6. /\ recordType' = r'.type /\ byteCount' = n'
          /\ \/ Aligned' /\ Wrong' = {}
             \/ Aligned' /\ faults' # 0 /\ \E k \in Nat : Wrong' = {k}
      BY <1>4, <2>8, <3>1, <3>3, <3>4, <3>5 DEF AtMostOne
    <3>7. Arriving'
      BY <3>3, <3>6 DEF Arriving, r, n
    <3> QED BY <3>1, <3>7, NoCallIsNoticed
  <2>10. CASE ~(length + 1 < n)
    <3>1. length + 1 = n /\ n # 0
      BY <1>1, <1>3, <2>2, <2>10
    <3>2. Finish(r.type, n, n, d, "START")
      BY <1>4, <2>1, <2>10, <3>1 DEF ReadDataLow, d
    <3>3. callback' = EndRead(r.type, n, n, d)
      BY <3>1, <3>2 DEF Finish
    <3>4. position' = 0
      <4>1. position + 1 = m
        BY <1>1, <1>3, <2>2, <3>1
      <4>2. ~(position + 1 < m)
        BY <1>1, <4>1
      <4> QED BY <4>2 DEF Advance, m
    <3>5. Bad(r, d, n) = {} \/ \E k \in Nat : Bad(r, d, n) = {k}
      BY <2>8, <3>1 DEF AtMostOne, w
    <3>6. Noticed
      <4>1. n \in Nat /\ n <= LineMax
        BY <1>1
      <4>2. n = Count(file[record]) /\ r = file[record]
        BY DEF n, r
      <4> HIDE DEF r, n, h
      <4>3. /\ callback' = EndRead(file[record].type, n, n, d)
            /\ Bad(file[record], d, n) = {} \/ \E k \in Nat : Bad(file[record], d, n) = {k}
        BY <3>3, <3>5, <4>2
      <4>4. d \in [0..LineMax -> Byte]
        BY <2>3
      <4> QED BY <4>1, <4>2, <4>3, <4>4, WholeRecordIsNoticed
    <3> QED BY <1>6, <3>4, <3>6
  <2> QED BY <2>9, <2>10
<1>11. CASE Behind
  <2>1. faults # 0 \/ Aligned
    BY <1>4
  <2>2. ~Aligned
    BY <1>3, <1>11 DEF Aligned, Behind
  <2>3. faults # 0 /\ faults' = faults
    BY <1>5, <2>1, <2>2 DEF right, first
  <2>4. CASE readState = "DATA_HIGH"
    <3>1. /\ readState' = "DATA_LOW" /\ callback' = NoCall
          /\ UNCHANGED <<recordType, byteCount, length>>
      BY <2>4 DEF ReadDigit, ReadType, ReadHigh, ReadCountLow, ReadDataLow, SkipDigit
    <3>2. position = 5 + 2 * length
      BY <1>3, <1>11, <2>4 DEF Behind
    <3>3. position' = position + 1 => Behind'
      BY <1>3, <3>1, <3>2 DEF Behind
    <3>4. Arriving'
      BY <1>4, <1>6, <1>7, <1>8, <2>3, <3>1, <3>3 DEF Arriving, r, n
    <3> QED BY <3>1, <3>4, NoCallIsNoticed
  <2>5. CASE readState = "DATA_LOW"
    <3>1. position = 6 + 2 * length
      BY <1>3, <1>11, <2>5 DEF Behind
    <3>2. length + 1 < n
      BY <1>1, <1>3, <3>1
    <3>3. /\ length' = length + 1 /\ readState' = "DATA_HIGH" /\ callback' = NoCall
          /\ UNCHANGED <<recordType, byteCount>>
      <4>1. ReadDataLow(b)
        BY <2>5 DEF ReadDigit, ReadType, ReadHigh, ReadCountLow, ReadDataLow, SkipDigit
      <4> QED BY <1>4, <3>2, <4>1 DEF ReadDataLow
    <3>4. position' = position + 1 => Behind'
      BY <1>3, <3>1, <3>3 DEF Behind
    <3>5. Arriving'
      BY <1>4, <1>6, <1>7, <1>8, <2>3, <3>3, <3>4 DEF Arriving, r, n
    <3> QED BY <3>3, <3>5, NoCallIsNoticed
  <2> QED BY <1>11, <2>4, <2>5 DEF Behind
<1> QED BY <1>4, <1>9, <1>10, <1>11 DEF Aligned

\* A reader that skips a record goes on skipping it.
LEMMA SkippedIsNoticed ==
  ASSUME Framed, SenderInv, Sending, Advance, Arriving,
         position > 3, ~(Count(file[record]) <= LineMax),
         UNCHANGED reader, callback' = NoCall
  PROVE  Arriving' /\ Noticed
<1>1. position \in Nat /\ readState' = "START"
  BY DEF SenderInv, Arriving, reader
<1>2. /\ file' = file
      /\ \/ position' = position + 1 /\ record' = record
         \/ position' = 0 /\ record' = record + 1
  BY SenderGoesOn
<1>3. CASE position' = 0
  BY <1>3, NoCallIsNoticed DEF Arriving
<1>4. CASE position' = position + 1 /\ record' = record
  <2>1. position' > 3 /\ position' \notin {2, 3}
    BY <1>1, <1>4
  <2>2. ~(Count(file[record]) <= LineMax)'
    BY <1>2, <1>4 DEF Count
  <2> QED BY <1>1, <2>1, <2>2, NoCallIsNoticed DEF Arriving
<1> QED BY <1>2, <1>3, <1>4

\* The "S" ends what is left of a record, which is one byte short or more.
LEMMA StartIsNoticed ==
  ASSUME Framed, ReaderInv, ReadS, position' = 1
  PROVE  Arriving' /\ Noticed
<1>1. Finish(recordType, byteCount, length, data, "TYPE")
  BY DEF ReadS
<1>2. byteCount # 0 => length # byteCount
  <2>1. byteCount \in Nat /\ length \in Nat
    BY Bounds DEF ReaderInv
  <2> QED BY <2>1 DEF ReaderInv
<1>3. \/ callback' = NoCall
      \/ byteCount # 0 /\ callback' = EndRead(recordType, byteCount, length, data)
  BY <1>1 DEF Finish
<1>4. callback' = NoCall \/ callback'.countError
  <2> SUFFICES ASSUME byteCount # 0, callback' = EndRead(recordType, byteCount, length, data)
               PROVE  callback'.countError
    BY <1>3
  <2>1. callback'.countError = (length # byteCount)
    BY DEF EndRead
  <2> QED BY <1>2, <2>1
<1>5. Arriving'
  BY DEF Arriving
<1> QED BY <1>4, <1>5, CountShows

\* The type and the count of a record arrive as they were sent.
LEMMA HeadIsNoticed ==
  ASSUME Framed, SenderInv, ReaderInv, Arriving, Send, position \in 1..3
  PROVE  Arriving' /\ Noticed
<1> DEFINE r == file[record]
           n == Count(r)
           c == Current[position + 1]
<1>1. /\ Sending /\ Advance /\ ReadByte(c) /\ file' = file
      /\ \/ position' = position + 1 /\ record' = record
         \/ position' = 0 /\ record' = record + 1 /\ position + 1 = Len(Current)
  BY SenderGoesOn DEF Send
<1>2. r \in Records /\ Current = Coded[r]
  BY <1>1, SentRecord
<1> HIDE DEF r
<1>3. /\ n \in 3..255 /\ r.type \in Nibble
      /\ Len(Current) = 2 * n + 4
      /\ Current[2] = r.type
      /\ \A k \in 1..n + 1 :
           /\ Current[2 * k + 1] \in Nibble /\ Current[2 * k + 2] \in Nibble
           /\ 16 * Current[2 * k + 1] + Current[2 * k + 2] = Bytes(r)[k]
      /\ Bytes(r)[1] = n
  BY <1>2, CharactersOfRecord
<1> HIDE DEF n
<1>4. /\ Current[3] \in Nibble /\ Current[4] \in Nibble
      /\ n = 16 * Current[3] + Current[4]
  <2>1. 1 \in 1..n + 1 /\ 2 * 1 + 1 = 3 /\ 2 * 1 + 2 = 4
    BY <1>3
  <2> QED BY <1>3, <2>1
<1>5. /\ position' = position + 1 /\ record' = record /\ Current' = Current
      /\ r' = r /\ n' = n
  <2>1. position + 1 # Len(Current)
    BY <1>3
  <2>2. position' = position + 1 /\ record' = record
    BY <1>1, <2>1
  <2> QED BY <1>1, <2>2 DEF Current, r, n, Count
<1>6. c \in Nibble
  <2>1. position + 1 = 2 \/ position + 1 = 3 \/ position + 1 = 4
    OBVIOUS
  <2> QED BY <1>3, <1>4, <2>1
<1>7. c \in Digits /\ ReadDigit(c) /\ DataRead(callback')
  BY <1>1, <1>6, OneTurn
<1>8. CASE position = 1
  <2>1. position' = 2 /\ c = r.type
    BY <1>3, <1>5, <1>8
  <2>2. ReadType(c)
    BY <1>7, <1>8 DEF ReaderInv, ReadDigit, ReadType, ReadHigh, ReadCountLow, ReadDataLow, SkipDigit
  <2>3. recordType' = r'.type /\ callback' = NoCall
    BY <1>5, <2>1, <2>2 DEF ReadType
  <2> QED BY <2>1, <2>3, NoCallIsNoticed DEF Arriving, r
<1>9. CASE position = 2
  <2>1. position' = 3
    BY <1>5, <1>9
  <2>2. ReadHigh(c)
    BY <1>7, <1>9 DEF ReaderInv, ReadDigit, ReadType, ReadHigh, ReadCountLow, ReadDataLow, SkipDigit
  <2>3. recordType = r.type
    BY <1>9 DEF Arriving, r
  <2>4. recordType' = r'.type /\ callback' = NoCall
    BY <1>5, <2>2, <2>3 DEF ReadHigh
  <2> QED BY <2>1, <2>4, NoCallIsNoticed DEF Arriving, r
<1>10. CASE position = 3
  <2>1. position' = 4 /\ c = Current[4] /\ recordType = r.type
    BY <1>5, <1>10 DEF Arriving, r
  <2>2. ReadCountLow(c)
    BY <1>7, <1>10 DEF ReaderInv, ReadDigit, ReadType, ReadHigh, ReadCountLow, ReadDataLow, SkipDigit
  <2>3. /\ c \in Nibble /\ RegistersOK /\ byteCount = 0 /\ length = 0
        /\ data[length] = 16 * Current[3]
    BY <1>6, <1>10 DEF ReaderInv, RegistersOK
  <2>4. Combined(c)[length] = n
    BY <1>4, <2>1, <2>3, NibblesStored
  <2>5. n \in Nat /\ n # 0 /\ LineMax \in Nat
    BY <1>3, Bounds
  <2>6. CASE n <= LineMax
    <3>1. ~(n > LineMax)
      BY <2>5, <2>6
    <3>2. /\ byteCount' = n /\ readState' = "DATA_HIGH" /\ callback' = NoCall
          /\ recordType' = recordType /\ length' = 0
      BY <2>2, <2>3, <2>4, <3>1 DEF ReadCountLow
    <3>3. Wrong' = {}
      BY <3>2 DEF Wrong, Bad
    <3>4. Aligned'
      BY <2>1, <3>2 DEF Aligned
    <3>5. recordType' = r'.type /\ byteCount' = n' /\ n' <= LineMax
      BY <1>5, <2>1, <2>6, <3>2
    <3> QED BY <2>1, <3>2, <3>3, <3>4, <3>5, NoCallIsNoticed DEF Arriving, r, n
  <2>7. CASE ~(n <= LineMax)
    <3>1. n > LineMax
      BY <2>5, <2>7
    <3> DEFINE d == Combined(c)
    <3>2. Finish(recordType, n, 0, d, "START")
      BY <2>2, <2>3, <2>4, <3>1 DEF ReadCountLow
    <3> HIDE DEF d
    <3>3. readState' = "START" /\ callback' = EndRead(recordType, n, 0, d)
      BY <2>5, <3>2 DEF Finish
    <3>4. callback'.countError
      BY <2>5, <3>3 DEF EndRead
    <3>5. ~(n' <= LineMax)
      BY <1>5, <2>7
    <3> QED BY <2>1, <3>3, <3>4, <3>5, CountShows DEF Arriving, r, n
  <2> QED BY <2>6, <2>7
<1> QED BY <1>8, <1>9, <1>10

\* A character as it was sent.
LEMMA SendIsNoticed ==
  ASSUME Framed, SenderInv, ReaderInv, Arriving, faults \in Nat, Send
  PROVE  Arriving' /\ Noticed
<1> DEFINE c == Current[position + 1]
<1>1. /\ Sending /\ Advance /\ ReadByte(c) /\ faults' = faults
      /\ position \in Nat
  BY DEF Send, SenderInv
<1>2. CASE position = 0
  <2>1. Current[1] = S /\ Len(Current) > 6
    <3> DEFINE r == file[record]
               n == Count(r)
    <3>1. r \in Records /\ Current = Coded[r]
      BY <1>1, SentRecord
    <3> HIDE DEF r
    <3>2. n \in 3..255 /\ Len(Current) = 2 * n + 4 /\ Current[1] = S
      BY <3>1, CharactersOfRecord
    <3> HIDE DEF n
    <3> QED BY <3>2
  <2>2. position' = 1
    <3> DEFINE m == Len(Current)
    <3>1. position + 1 # m
      <4>1. m > 6
        BY <2>1
      <4> HIDE DEF m
      <4> QED BY <1>2, <4>1
    <3>2. position' = position + 1
      BY <1>1, <3>1, SenderGoesOn
    <3> QED BY <1>2, <3>2
  <2>3. ReadS
    BY <1>1, <1>2, <2>1, OneTurn
  <2> QED BY <2>2, <2>3, StartIsNoticed
<1>3. CASE position \in 1..3
  BY <1>3, HeadIsNoticed
<1>4. CASE position > 3
  <2>1. c \in Nibble
    BY <1>1, <1>4, BehindCount
  <2>2. c \in Digits /\ ReadDigit(c)
    BY <1>1, <2>1, OneTurn
  <2>3. CASE Count(file[record]) <= LineMax
    <3>1. Heard(c)
      BY <1>1 DEF Heard
    <3> QED BY <1>1, <1>4, <2>2, <2>3, <3>1, DigitIsNoticed
  <2>4. CASE ~(Count(file[record]) <= LineMax)
    <3>1. readState = "START"
      BY <1>4, <2>4 DEF Arriving
    <3>2. UNCHANGED reader /\ callback' = NoCall
      BY <2>2, <3>1 DEF ReadDigit, ReadType, ReadHigh, ReadCountLow, ReadDataLow, SkipDigit
    <3> QED BY <1>1, <1>4, <2>4, <3>2, SkippedIsNoticed
  <2> QED BY <2>3, <2>4
<1> QED BY <1>1, <1>2, <1>3, <1>4

\* A damaged character, the first one of a record's address, payload or
\* checksum.
LEMMA DamageIsHeard ==
  ASSUME Framed, HeadsIntact, MaxFaults \in 0..1,
         SenderInv, ReaderInv, Arriving, faults \in Nat, Corrupt \/ Lose
  PROVE  Arriving' /\ Noticed
<1>1. /\ Sending /\ Advance /\ position \in Nat /\ position + 1 \in Exposed
      /\ faults < MaxFaults /\ faults' = faults + 1
  BY DEF Corrupt, Lose, Damage, SenderInv
<1>2. position > 3
  <2>1. position + 1 \notin 1..4
    BY <1>1 DEF HeadsIntact
  <2> QED BY <1>1, <2>1
<1>3. faults = 0 /\ faults' # 0
  BY <1>1
<1>4. CASE ~(Count(file[record]) <= LineMax)
  <2>1. readState = "START"
    BY <1>2, <1>4 DEF Arriving
  <2>2. UNCHANGED reader /\ callback' = NoCall
    <3>1. CASE Corrupt
      <4>1. PICK d \in Digits : ReadByte(d)
        BY <3>1 DEF Corrupt
      <4>2. ReadDigit(d)
        BY <4>1, Bounds, OneTurn
      <4> QED BY <2>1, <4>2 DEF ReadDigit, ReadType, ReadHigh, ReadCountLow, ReadDataLow, SkipDigit
    <3> QED BY <3>1 DEF Lose
  <2> QED BY <1>1, <1>2, <1>4, <2>2, SkippedIsNoticed
<1>5. CASE Count(file[record]) <= LineMax /\ Corrupt
  <2>1. PICK d \in Digits : ReadByte(d)
    BY <1>5 DEF Corrupt
  <2>2. ReadDigit(d)
    BY <2>1, Bounds, OneTurn
  <2>3. Heard(d)
    BY <1>3 DEF Heard
  <2> QED BY <1>1, <1>2, <1>5, <2>2, <2>3, DigitIsNoticed
<1>6. CASE Count(file[record]) <= LineMax /\ Lose
  <2>1. callback' = NoCall /\ UNCHANGED reader
    BY <1>6 DEF Lose
  <2>2. Aligned /\ recordType = file[record].type /\ byteCount = Count(file[record])
    BY <1>2, <1>3, <1>6 DEF Arriving
  <2>3. /\ file' = file
        /\ \/ position' = position + 1 /\ record' = record
           \/ position' = 0 /\ record' = record + 1
    BY <1>1, SenderGoesOn
  <2>4. CASE position' = 0
    BY <2>1, <2>4, NoCallIsNoticed DEF Arriving
  <2>5. CASE position' = position + 1 /\ record' = record
    <3>1. length \in Nat /\ length' = length /\ readState' = readState
      BY <2>1, Bounds DEF ReaderInv, reader
    <3>2. Behind'
      BY <1>1, <2>2, <2>5, <3>1 DEF Aligned, Behind
    <3>3. position' > 3
      BY <1>1, <1>2, <2>5
    <3>4. Arriving'
      BY <1>3, <1>6, <2>1, <2>2, <2>3, <2>5, <3>2, <3>3 DEF Arriving, Count, reader
    <3> QED BY <2>1, <3>4, NoCallIsNoticed
  <2> QED BY <2>3, <2>4, <2>5
<1> QED BY <1>4, <1>5, <1>6

LEMMA StepIsNoticed ==
  ASSUME Framed, HeadsIntact, MaxFaults \in 0..1, SrecIInv, Arriving, [Next]_bvars
  PROVE  Arriving' /\ [Noticed]_bvars
<1>1. SenderInv /\ ReaderInv /\ faults \in Nat
  BY DEF SrecIInv, FollowedInv
<1>2. CASE Send
  BY <1>1, <1>2, SendIsNoticed
<1>3. CASE Corrupt \/ Lose
  BY <1>1, <1>3, DamageIsHeard
<1>4. CASE SendOther
  <2>1. ReadOther /\ UNCHANGED <<file, record, position, faults>>
    BY <1>4, OneTurn DEF SendOther
  <2>2. callback' = NoCall
    BY <2>1 DEF ReadOther
  <2>3. Arriving'
    BY <2>1 DEF ReadOther, Arriving, Aligned, Behind, Wrong, Bad, Current, reader
  <2> QED BY <2>2, <2>3, NoCallIsNoticed
<1>5. CASE UNCHANGED bvars
  <2>1. UNCHANGED <<reader, file, record, position, faults>>
    BY <1>5 DEF bvars, rvars, sender, loaded
  <2>2. Arriving'
    BY <2>1 DEF Arriving, Aligned, Behind, Wrong, Bad, Current, reader
  <2> QED BY <1>5, <2>2
<1> QED BY <1>2, <1>3, <1>4, <1>5 DEF Next

-----------------------------------------------------------------------------
(* Theorems *)

\* kk_srec.c stays in its buffer, with its states and nibbles in range, and
\* an entry is an address: whatever the line does to the characters behind
\* the counts.
THEOREM ReaderStaysInBuffer == ASSUME Framed, HeadsIntact PROVE Spec => []TypeOK
<1>1. Init => SrecIInv
  BY SrecInit
<1>2. SrecIInv /\ [Next]_bvars => SrecIInv'
  BY SrecInductive
<1>3. SrecIInv => TypeOK
  <2> SUFFICES ASSUME SrecIInv PROVE TypeOK
    OBVIOUS
  <2>1. ReaderInv
    BY DEF SrecIInv, FollowedInv
  <2>2. readState \in States
    <3>1. CASE position \in 1..3
      BY <2>1, <3>1 DEF ReaderInv, States
    <3>2. CASE position \notin 1..3
      BY <2>1, <3>2 DEF ReaderInv, States
    <3> QED BY <3>1, <3>2
  <2> QED BY <2>1, <2>2 DEF ReaderInv, TypeOK, Nibble
<1> QED BY <1>1, <1>2, <1>3, PTL DEF Spec

\* After an "S" a record begins with an empty buffer: srec_end_read, which
\* returns early on a count of zero, is never left with a length.
THEOREM RecordsBeginEmpty == ASSUME Framed, HeadsIntact PROVE Spec => []SyncAtS
<1>1. Init => SrecIInv
  BY SrecInit
<1>2. SrecIInv /\ [Next]_bvars => SrecIInv'
  BY SrecInductive
<1>3. SrecIInv => SyncAtS
  BY DEF SrecIInv, FollowedInv, ReaderInv, SyncAtS
<1> QED BY <1>1, <1>2, <1>3, PTL DEF Spec

\* The program that boot_srec_uart starts is the one that was sent, though
\* srec_data_read stores each of its bytes as a word.
THEOREM ProgramIsLoaded == ASSUME Framed PROVE Spec => []LoadedAtEntry
<1>1. Init => SrecIInv
  BY SrecInit
<1>2. SrecIInv /\ [Next]_bvars => SrecIInv'
  BY SrecInductive
<1>3. SrecIInv => LoadedAtEntry
  <2> SUFFICES ASSUME SrecIInv, entry # NoEntry, faults = 0,
                      NEW r \in DataRecords, NEW i \in 1..Len(r.payload)
               PROVE  mem[Address(r.address) + i - 1] = r.payload[i]
    BY DEF LoadedAtEntry
  <2>1. /\ SenderInv /\ MemoryInv
        /\ record >= Len(file) /\ IsTermination(file[Len(file)].type)
    BY DEF SrecIInv, FollowedInv, MemoryInv
  <2>2. PICK k \in 1..Len(file) : r = file[k] /\ IsData(r.type) /\ Fits(r)
    BY DEF DataRecords
  <2>3. Len(file) \in Nat /\ record \in Nat
    BY <2>1, SentRecord DEF SenderInv
  <2>4. k < record
    <3>1. k # Len(file)
      BY <2>1, <2>2 DEF IsData, IsTermination
    <3> QED BY <2>1, <2>3, <3>1
  <2>5. Stands(file[k])
    BY <2>1, <2>2, <2>4 DEF MemoryInv
  <2> QED BY <2>2, <2>5 DEF Stands
<1> QED BY <1>1, <1>2, <1>3, PTL DEF Spec

\* One damaged character behind the count of a record never goes unnoticed:
\* srec_end_read passes on a record without an error only as it was sent.
THEOREM DamageIsNoticed ==
  ASSUME Framed, HeadsIntact, MaxFaults \in 0..1
  PROVE  Spec => NothingSilent
<1>1. Init => SrecIInv
  BY SrecInit
<1>2. Init => Arriving
  BY DEF Init, Arriving
<1>3. SrecIInv /\ [Next]_bvars => SrecIInv'
  BY SrecInductive
<1>4. SrecIInv /\ Arriving /\ [Next]_bvars => Arriving' /\ [Noticed]_bvars
  BY StepIsNoticed
<1> QED BY <1>1, <1>2, <1>3, <1>4, PTL DEF Spec, NothingSilent, Noticed

=============================================================================
