-------------------------- MODULE MCDebugBusLoader --------------------------
(* Files for TLC: ROM from 16 to 32, of which 16 .. 23 moves to L2, which   *)
(* is 40 .. 47, and the result location at 60 and 64.                       *)
EXTENDS DebugBusLoader

Line(t, a, d) == [type |-> t, length |-> 5 + Len(d), address |-> a, data |-> d]

AllFiles == {
  \* nothing to load
  <<Line(0, 0, <<>>), Line(7, 16, <<>>)>>,
  \* two words in the ROM, the second of one byte; a short S9
  <<Line(0, 0, <<>>), Line(3, 16, <<1, 2, 3, 4, 5>>),
    [type |-> 9, length |-> 3, address |-> 20, data |-> <<>>]>>,
  \* an unaligned record over another, the end of the part that moves, and
  \* behind it; the entry behind it too
  <<Line(3, 41, <<6, 7>>), Line(3, 42, <<8>>), Line(3, 23, <<9, 10>>),
    Line(3, 24, <<11>>), Line(9, 24, <<>>)>> }
=============================================================================
