----------------------------- MODULE ForthCells -----------------------------
(***************************************************************************)
(* The cells of the zForth dictionary (sw/bootcode/zforth/zforth.c): a     *)
(* 32-bit cell is stored in one, two or five bytes of dict, and every      *)
(* access is checked against the size of dict.  A dictionary is a function *)
(* from 0 .. DictSize - 1 to bytes.                                        *)
(***************************************************************************)
EXTENDS Integers, Sequences, TLC

CONSTANT DictSize

Byte == 0 .. 255
Address == 0 .. DictSize - 1
MaxCell == 2147483647
Cell == -MaxCell - 1 .. MaxCell

\* ZF_DICT_SIZE is 4096: there is room behind the user variables for the header of a word, and
\* an address is a cell.
ASSUME DictSizeAssumption == DictSize \in Nat /\ DictSize >= 24 /\ DictSize <= MaxCell

\* CHECK(addr < ZF_DICT_SIZE - len): the last byte is never accepted.
Fits(a, len) == a \in 0 .. DictSize - len - 1

PutBytes(d, a, bytes) ==
  LET places == a .. a + Len(bytes) - 1 IN
  [i \in DOMAIN d \cup places |-> IF i \in places THEN bytes[i - a + 1] ELSE d[i]]

\* A raw copy of a cell, little endian.
Raw(v) == << v % 256, (v \div 256) % 256, (v \div 65536) % 256, (v \div 16777216) % 256 >>

RawValue(b0, b1, b2, b3) ==
  b0 + 256 * b1 + 65536 * b2 + 16777216 * (IF b3 < 128 THEN b3 ELSE b3 - 256)

Encode(v) ==
  IF v >= 0 /\ v < 128 THEN << v >>
  ELSE IF v >= 0 /\ v < 16384 THEN << v \div 256 + 128, v % 256 >>
  ELSE << 255 >> \o Raw(v)

\* dict_get_bytes always takes two bytes first, even for a cell of one.
Readable(d, a) == Fits(a, 2) /\ (d[a] = 255 => Fits(a + 1, 4))

Width(d, a) == IF d[a] < 128 THEN 1 ELSE IF d[a] < 255 THEN 2 ELSE 5

Value(d, a) ==
  IF d[a] < 128 THEN d[a]
  ELSE IF d[a] < 255 THEN (d[a] % 64) * 256 + d[a + 1]
  ELSE RawValue(d[a + 1], d[a + 2], d[a + 3], d[a + 4])

\* The user variables are the first words of dict.
Var(d, i) == RawValue(d[4 * i], d[4 * i + 1], d[4 * i + 2], d[4 * i + 3])
SetVar(d, i, v) == PutBytes(d, 4 * i, Raw(v))
=============================================================================
