----------------------------- MODULE ByteChannel -----------------------------
(***************************************************************************)
(* What a console promises: the bytes put into it come out in the same     *)
(* order, each once, with none in between that nobody put.                 *)
(***************************************************************************)
EXTENDS Integers, Sequences

CONSTANT Chars

VARIABLES asked,    \* every byte given to putchar
          out       \* every byte that left on the wire

vars == <<asked, out>>

Init == asked = <<>> /\ out = <<>>

Put == (\E c \in Chars : asked' = Append(asked, c)) /\ UNCHANGED out

Emit ==
  /\ Len(out) < Len(asked)
  /\ out' = Append(out, asked[Len(out) + 1])
  /\ UNCHANGED asked

Next == Put \/ Emit

Spec == Init /\ [][Next]_vars
=============================================================================
