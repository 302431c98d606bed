------------------------------ MODULE MCZForth ------------------------------
(***************************************************************************)
(* Instances of ZForth.  Characters are their codes; a primitive whose     *)
(* name has several characters gets a letter of its own.                   *)
(***************************************************************************)
EXTENDS ZForth

colon == 58  semi == 59  paren == 40  close == 41  tick == 39  comma == 44
plus == 43  minus == 45  times == 42  over == 47  modulo == 37  equal == 61  and == 38
less == 60  peek == 64  poke == 33  width == 35
a == 97  b == 98  c == 99  unknown == 63
drop == 120  dup == 100  swap == 119  rot == 114  pick == 112  pickr == 113
pushr == 62  popr == 82  key == 107  sys == 115  imm == 73  jmp == 74  jmp0 == 90
lit == 76  lits == 83  exit == 69  rpeek == 80  rpoke == 81
h == 72  latest == 108  trace == 116  compiling == 67  postpone == 95

P(name, op) == [name |-> name, op |-> op, imm |-> FALSE]
Imm(name, op) == [name |-> name, op |-> op, imm |-> TRUE]

AllPrims ==
  << P(exit, Op.EXIT), P(lit, Op.LIT), P(less, Op.LTZ), P(colon, Op.COL), Imm(semi, Op.SEMICOL),
     P(plus, Op.ADD), P(minus, Op.SUB), P(times, Op.MUL), P(over, Op.DIV), P(modulo, Op.MOD),
     P(drop, Op.DROP), P(dup, Op.DUP), P(pickr, Op.PICKR), Imm(imm, Op.IMMEDIATE),
     P(peek, Op.PEEK), P(poke, Op.POKE), P(swap, Op.SWAP), P(rot, Op.ROT), P(jmp, Op.JMP),
     P(jmp0, Op.JMP0), P(tick, Op.TICK), Imm(paren, Op.COMMENT), P(pushr, Op.PUSHR),
     P(popr, Op.POPR), P(equal, Op.EQUAL), P(sys, Op.SYS), P(pick, Op.PICKD), P(comma, Op.COMMA),
     P(key, Op.KEY), P(lits, Op.LITS), P(width, Op.LEN), P(and, Op.AND),
     P(rpeek, Op.RAW_PEEK), P(rpoke, Op.RAW_POKE) >>

AllUserVars == << h, latest, trace, compiling, postpone >>

AllDigits == [ch \in 48 .. 57 |-> ch - 48]
N(n) == 48 + n

\* A word, its use, a word that calls itself, and an empty line.
Definitions == { << colon, a, N(5), semi >>, << a, drop >>, << colon, b, a, drop, b, semi >>,
                 << b >>, << >> }

\* Primitives that wait for input: at the end of a line, in a word, and given it at once.
Inputs == { << colon >>, << colon, a, key, key, semi >>, << key >>, << paren, a, close, N(1) >>,
            << paren, colon >> }

\* Immediate words, and the postpone flag set as "postpone" does.
Flagged == { << imm >>, << N(1), postpone, N(0), poke >>, << imm, a >> }

\* The primitives of the stacks, of the program and of the memory, and the system calls.
Work ==
  { << N(7), N(2), minus, N(3), times, N(4), over, N(2), modulo, N(1), and, less >>,
    << N(1), N(2), N(3), rot, swap, dup, N(0), pick >>,
    << N(9), h, N(0), peek, N(0), poke, h, N(0), width, N(1), equal >>,
    << colon, b, N(1), pushr, N(0), pickr, popr, plus, lits, exit, semi, b >>,
    << colon, b, N(0), jmp0, a, semi, b >>, << colon, b, jmp, exit, tick, a, lit, a, semi, b >>,
    << N(0), rpeek, N(1), rpoke, N(6), N(0), comma, N(1), N(0), sys, N(1), sys >>,
    << N(3), sys >> }

\* A definition that stops in the middle.
Aborted == << colon, a, N(1), unknown >>

\* The last line runs a word that was cut off, also into the header of a word defined behind it.
FourLines == << Definitions \cup Inputs \cup Flagged, Definitions \cup Inputs,
                 {Aborted} \cup Definitions \cup Flagged \cup Work,
                 {<< a >>, << b, b >>, << imm >>, << colon, b, N(5), semi, a >>} >>

\* ": . 1 sys ;", ": tell 2 sys ;" and their use.
TellLines == << {<< colon, a, N(1), sys, semi >>, << colon, a, N(2), sys, semi >>},
                {<< N(6), a >>, << N(6), N(1), a >>} >>
=============================================================================
