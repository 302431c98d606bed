------------------------------ MODULE SrecBoot ------------------------------
(***************************************************************************)
(* Booting from the UART: boot_srec_uart of boot_code.c hands every        *)
(* character to the S-record reader, whose callback srec_data_read writes  *)
(* memory and jumps.  The other side sends one of Files, each a sequence   *)
(* of records, and may put ignored characters (line ends) in between.  The *)
(* line may damage up to MaxFaults characters, at the Exposed positions of *)
(* a record: a digit arrives as another one, or not at all.                *)
(***************************************************************************)
EXTENDS SrecReader

CONSTANTS
  Files,      \* the files, sequences of [type, address, payload]
  Exposed,    \* positions in a record the line may damage; 1 is the "S"
  MaxFaults,  \* bound: damaged characters
  MaxIgnored  \* bound: ignored characters

VARIABLES
  file,      \* the file being sent
  record,    \* number of the record being sent
  position,  \* characters of it already sent
  faults, ignored,  \* damaged and ignored characters so far
  mem,       \* memory written, by address
  entry      \* address jumped to, or NoEntry

sender == <<file, record, position, faults, ignored>>
loaded == <<mem, entry>>
bvars  == <<rvars, sender, loaded>>

NoEntry == -1

-----------------------------------------------------------------------------
(* The characters of a record *)

S     == 16
Other == 17

Bytes(r) ==
  LET body == r.address \o r.payload
      n    == Len(body) + 1
  IN  <<n>> \o body \o <<255 - ((n + Total(body)) % 256)>>

Encode(r) ==
  LET b == Bytes(r) IN
  <<S, r.type>> \o
    [i \in 1..2 * Len(b) |-> IF i % 2 = 1 THEN b[(i + 1) \div 2] \div 16
                             ELSE b[i \div 2] % 16]

Records == UNION {{f[i] : i \in 1..Len(f)} : f \in Files}

\* The characters of every record that may be sent.
Coded == [r \in Records |-> Encode(r)]

\* The big-endian number of two, three or four bytes: srec_end_read combines
\* as many as the type of the record has.
Address(bytes) ==
  LET two == 256 * bytes[1] + bytes[2] IN
  CASE Len(bytes) = 2 -> two
    [] Len(bytes) = 3 -> 256 * two + bytes[3]
    [] Len(bytes) = 4 -> 65536 * two + 256 * bytes[3] + bytes[4]

-----------------------------------------------------------------------------
(* srec_data_read *)

\* Fault: the payload is written from its last byte to its first.
StoredDownwards(m, a, p) ==
  IF p = <<>> THEN m
  ELSE [x \in DOMAIN m \cup (a .. a + Len(p) + 2) |->
          IF x = a THEN p[1] ELSE IF x \in a .. a + Len(p) + 2 THEN 0 ELSE m[x]]

\* Each byte is stored as a 32-bit word at its own address, in ascending
\* order, so the three bytes behind the payload become 0.
Stored(m, a, p) ==
  IF p = <<>> THEN m
  ELSE [x \in DOMAIN m \cup (a .. a + Len(p) + 2) |->
          IF x \in a .. a + Len(p) - 1 THEN p[x - a + 1]
          ELSE IF x \in a + Len(p) .. a + Len(p) + 2 THEN 0 ELSE m[x]]

\* Errors are only printed; the record is used all the same.
DataRead(c) ==
  IF ~c.called THEN UNCHANGED loaded
  ELSE /\ mem' = IF IsData(c.type) THEN Stored(mem, Address(c.address), c.payload)
                 ELSE mem
       /\ entry' = IF IsTermination(c.type) THEN Address(c.address) ELSE entry

\* One turn of the loop of boot_srec_uart.
ReadByte(c) ==
  /\ entry = NoEntry
  /\ \/ c = S /\ ReadS
     \/ c = Other /\ ReadOther
     \/ c \in Digits /\ ReadDigit(c)
  /\ DataRead(callback')

-----------------------------------------------------------------------------
(* The other side and the line *)

Sending == record <= Len(file)
Current == Coded[file[record]]

Advance ==
  /\ IF position + 1 < Len(Current)
     THEN position' = position + 1 /\ UNCHANGED record
     ELSE position' = 0 /\ record' = record + 1
  /\ UNCHANGED file

Send ==
  /\ Sending
  /\ ReadByte(Current[position + 1])
  /\ Advance
  /\ UNCHANGED <<faults, ignored>>

SendOther ==
  /\ ignored < MaxIgnored
  /\ ReadByte(Other)
  /\ ignored' = ignored + 1
  /\ UNCHANGED <<file, record, position, faults>>

Damage ==
  /\ Sending
  /\ faults < MaxFaults
  /\ position + 1 \in Exposed
  /\ faults' = faults + 1
  /\ UNCHANGED ignored
  /\ Advance

Corrupt == Damage /\ \E d \in Digits \ {Current[position + 1]} : ReadByte(d)

Lose == Damage /\ entry = NoEntry /\ callback' = NoCall /\ UNCHANGED <<reader, loaded>>

Init ==
  /\ ReaderInit
  /\ file \in Files
  /\ record = 1
  /\ position = 0
  /\ faults = 0
  /\ ignored = 0
  /\ mem = <<>>
  /\ entry = NoEntry

Next == Send \/ SendOther \/ Corrupt \/ Lose

Spec == Init /\ [][Next]_bvars

-----------------------------------------------------------------------------
(* Properties *)

\* What a file of S-records is: the count and the checksum fit in a byte, the
\* address has the length of the record's type, the data ascends, and only
\* the last record ends the file.
Record == [type : 0..15, address : Seq(Byte), payload : Seq(Byte)]
FileOK(f) ==
  /\ f \in Seq(Record) /\ f # <<>>
  /\ \A i \in 1..Len(f) :
       /\ Bytes(f[i]) \in Seq(Byte)
       /\ Len(f[i].address) = AddressBytes(f[i].type)
       /\ IsTermination(f[i].type) => i = Len(f)
       /\ \A j \in 1..i - 1 : IsData(f[j].type) /\ IsData(f[i].type) =>
            Address(f[j].address) + Len(f[j].payload) <= Address(f[i].address)

\* Types: the reader stays in its buffer.
TypeOK ==
  /\ recordType \in 0..15
  /\ readState \in States
  /\ byteCount \in 0..LineMax
  /\ length \in 0..LineMax
  /\ data \in [0..LineMax -> Byte]
  /\ entry \in Nat \cup {NoEntry}

Fits(r) == Bytes(r)[1] <= LineMax
DataRecords == {r \in {file[i] : i \in 1..Len(file)} : IsData(r.type) /\ Fits(r)}

\* The program that is started is the one that was sent: with ascending
\* records on a line without faults, every byte of every data record that
\* fits the reader is at its address, though each is stored as a word.
LoadedAtEntry ==
  entry # NoEntry /\ faults = 0 =>
    \A r \in DataRecords : \A i \in 1..Len(r.payload) :
      mem[Address(r.address) + i - 1] = r.payload[i]

\* A file sent on a line without faults has been started, at the address of
\* its termination record.
Started == faults > 0 \/ entry = Address(file[Len(file)].address)

\* One damaged character of an address, a payload or a checksum never goes
\* unnoticed: a record passed on without an error is the one that was sent.
NothingSilent ==
  [][callback'.called /\ ~callback'.sumError /\ ~callback'.countError =>
       \E i \in 1..Len(file) :
         file[i] = [type |-> callback'.type, address |-> callback'.address,
                    payload |-> callback'.payload]]_bvars

\* After an "S" the reader begins the record with an empty buffer.
SyncAtS == readState = "TYPE" => length = 0

=============================================================================
