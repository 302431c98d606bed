------------------------------ MODULE MCBootRom ------------------------------
(* Images and files for TLC.  The flash has blocks of 4 bytes, words of 2,  *)
(* and L2 is from 8 to 27.  With LineMax = 7 an S-record with a 16-bit     *)
(* address carries up to four bytes and one of 24 bits up to three.         *)
EXTENDS BootRom

AllEvents == {SpiEot, UartTx, UartRx}

\* PERIPH_FREQUENCY of the chip's build, and two others.
TheFrequencies == {18000000, 5000000, 50000000}

\* The FLL's reset values.
FllResetValues == [mode |-> 0, mult |-> 1525, div |-> 1]

-----------------------------------------------------------------------------
Area(start, ptr, size) ==
  [start |-> start, ptr |-> ptr, size |-> size, blocks |-> RoundUp(size, BlockSize) \div BlockSize]

Image(areas) == [entry |-> 9, bootaddr |-> 10, areas |-> areas]

AllImages == {
  Image(<<>>),
  \* one area at the start of L2, its last block short and of odd size
  Image(<<Area(40, 8, 7)>>),
  \* an area outside L2 that ends at L2, one behind where the data would be
  Image(<<Area(40, 2, 6), Area(50, 12, 4)>>),
  \* one area behind L2
  Image(<<Area(40, 28, 3)>>),
  \* two areas with a gap too small for the data, and a full table
  Image(<<Area(40, 8, 3), Area(50, 16, 6)>>),
  \* a gap just large enough
  Image(<<Area(40, 2, 5), Area(50, 14, 4)>>),
  \* an empty area between the bytes of the data
  Image(<<Area(40, 10, 0), Area(50, 20, 1)>>) }

Blank == [entry |-> 0, bootaddr |-> 0, areas |-> <<>>]

OneLeftover  == {Blank}
TwoLeftovers == {Blank, [Blank EXCEPT !.areas = <<Area(60, 1, 2)>>]}
OneImage     == {Image(<<Area(40, 8, 7)>>)}

-----------------------------------------------------------------------------
Rec(t, a, p) == [type |-> t, address |-> a, payload |-> p]

\* Adjacent 16-bit records, the second at the end of the first.
Adjacent == <<Rec(1, <<0, 4>>, <<17, 2>>), Rec(1, <<0, 6>>, <<255>>),
              Rec(9, <<0, 4>>, <<>>)>>

\* A header, 24-bit records with a gap, a record count, an empty record.
Mixed == <<Rec(0, <<0, 0>>, <<72>>), Rec(2, <<0, 0, 1>>, <<1, 16, 240>>),
           Rec(2, <<0, 0, 9>>, <<7>>), Rec(1, <<0, 32>>, <<>>),
           Rec(5, <<0, 2>>, <<>>), Rec(8, <<0, 0, 1>>, <<>>)>>

\* A record of exactly LineMax bytes, and one that is one byte too long.
Long == <<Rec(1, <<0, 0>>, <<1, 2, 3, 4>>), Rec(1, <<0, 4>>, <<5, 6, 7, 8, 9>>),
          Rec(1, <<0, 9>>, <<1>>), Rec(9, <<0, 2>>, <<>>)>>

AllFiles  == {Adjacent, Mixed, Long}
ShortFile == {Adjacent}

\* The characters of the count, and those behind it.
Count == 3..4
Body  == 5..20
AnyDigit == 0..15
=============================================================================
