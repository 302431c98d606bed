------------------------------- MODULE ZForth -------------------------------
(***************************************************************************)
(* The zForth interpreter of the boot console: sw/bootcode/zforth/zforth.c *)
(* with its host, sw/bootcode/zforth-riscv/zforth-main.c.                  *)
(*                                                                         *)
(* The console hands over one line at a time; zf_eval takes it character   *)
(* by character, and the inner interpreter executes one primitive or one   *)
(* call per step.  The dictionary is the byte array of the code.  A word's *)
(* name is one character, so a line is given by its words and handed over  *)
(* as <<word, ' ', word, ' ', ..., word, NUL>>.                            *)
(***************************************************************************)
EXTENDS ForthCells, SequencesExt, TLC

CONSTANTS DStackSize, RStackSize,
          Prims,      \* the primitives: a sequence of [name, op, imm]
          UserVars,   \* the names of the user variables
          Digits,     \* the characters that are numbers: [character -> value]
          Session,    \* the lines somebody may type first, second, ...: a sequence of sets
          MaxTurns    \* bound on the turns of one zf_eval

ASSUME StackSizesAssumption == DStackSize \in Nat /\ RStackSize \in Nat \ {0}
ASSUME UserVarsAssumption == Len(UserVars) = 5

Op == [EXIT |-> 0, LIT |-> 1, LTZ |-> 2, COL |-> 3, SEMICOL |-> 4, ADD |-> 5, SUB |-> 6,
       MUL |-> 7, DIV |-> 8, MOD |-> 9, DROP |-> 10, DUP |-> 11, PICKR |-> 12,
       IMMEDIATE |-> 13, PEEK |-> 14, POKE |-> 15, SWAP |-> 16, ROT |-> 17, JMP |-> 18,
       JMP0 |-> 19, TICK |-> 20, COMMENT |-> 21, PUSHR |-> 22, POPR |-> 23, EQUAL |-> 24,
       SYS |-> 25, PICKD |-> 26, COMMA |-> 27, KEY |-> 28, LITS |-> 29, LEN |-> 30,
       AND |-> 31, RAW_PEEK |-> 32, RAW_POKE |-> 33]
PrimCount == 34  \* PICKD is PRIM_PICK: PICK is a word of TLA+

Sys == [EMIT |-> 0, PRINT |-> 1, TELL |-> 2, BOOT_UART |-> 3, BOOT_JTAG |-> 4, BOOT_FLASH |-> 5]

ImmediateFlag == 64
PrimFlag == 32
Space == 32
Nul == 0
Paren == 41
None == -1

VARIABLES vm,        \* the interpreter: see Machine
          control,   \* "boot" (in zf_bootstrap), "idle", "eval" (in zf_eval), "run" (in run), "booted"
          line, pos, \* the line in zf_eval and the character it is at
          word,      \* handle_char's buf: the word being read, or None
          input,     \* the argument of run: a character or None
          typed,     \* lines typed so far
          turns      \* characters taken and turns of run since the line was typed

vars == << vm, control, line, pos, word, input, typed, turns >>

Here(d) == Var(d, 0)
Latest(d) == Var(d, 1)
Compiling(d) == Var(d, 3) # 0
Postpone(d) == Var(d, 4) # 0

-----------------------------------------------------------------------------
(* A machine m is [dict, data, ret, ip, ask, ok]; ok is false once a CHECK *)
(* has failed, and stays false until zf_eval has dealt with the abort.     *)

Fail(m) == [m EXCEPT !.ok = FALSE]

Drop(m, n) ==
  IF m.ok /\ Len(m.data) >= n THEN [m EXCEPT !.data = SubSeq(@, 1, Len(@) - n)] ELSE Fail(m)

\* Fault: dstack without its overrun check.
PushUnchecked(m, values) == IF m.ok THEN [m EXCEPT !.data = @ \o values] ELSE m

Push(m, values) ==
  IF m.ok /\ Len(m.data) + Len(values) <= DStackSize THEN [m EXCEPT !.data = @ \o values]
  ELSE Fail(m)

\* Fault: a full return stack overwrites its top.
PushROver(m, v) ==
  IF ~m.ok THEN m
  ELSE [m EXCEPT !.ret = Append(IF Len(@) < RStackSize THEN @ ELSE Front(@), v)]

PushR(m, v) ==
  IF m.ok /\ Len(m.ret) < RStackSize THEN [m EXCEPT !.ret = Append(@, v)] ELSE Fail(m)

\* The i-th cell from the top.
Top(m, i) == m.data[Len(m.data) + 1 - i]

\* dict_put_cell_typed; a cell of five bytes is put in two parts.
PutCell(m, a, v) ==
  IF ~m.ok THEN m
  ELSE IF Fits(a, Len(Encode(v))) THEN [m EXCEPT !.dict = PutBytes(@, a, Encode(v))]
  ELSE Fail([m EXCEPT !.dict = IF Len(Encode(v)) = 5 /\ Fits(a, 1) THEN PutBytes(@, a, << 255 >>)
                               ELSE @])

Allot(m, n) == IF m.ok THEN [m EXCEPT !.dict = SetVar(@, 0, Here(@) + n)] ELSE m

AddCell(m, v) == Allot(PutCell(m, Here(m.dict), v), Len(Encode(v)))

AddLit(m, v) == AddCell(AddCell(m, Op.LIT), v)

\* Fault: LATEST is set before the header is there.
CreateEarly(m, name, flags) ==
  LET linked == AddCell(AddCell(m, 1 + flags), Latest(m.dict))
      early == [linked EXCEPT !.dict = SetVar(@, 1, Here(m.dict))]
      h == Here(early.dict)
  IN  IF early.ok /\ Fits(h, 1) THEN Allot([early EXCEPT !.dict = PutBytes(@, h, << name >>)], 1)
      ELSE Fail(early)

\* HERE advances with each part; LATEST follows when the header is whole.
Create(m, name, flags) ==
  LET header == AddCell(AddCell(m, 1 + flags), Latest(m.dict))
      h == Here(header.dict)
      named == IF header.ok /\ Fits(h, 1)
               THEN Allot([header EXCEPT !.dict = PutBytes(@, h, << name >>)], 1)
               ELSE Fail(header)
  IN  IF named.ok THEN [named EXCEPT !.dict = SetVar(@, 1, Here(m.dict))] ELSE named

Flags(d, w) == Value(d, w)
LinkAt(d, w) == w + Width(d, w)
Link(d, w) == Value(d, LinkAt(d, w))
NameAt(d, w) == LinkAt(d, w) + Width(d, LinkAt(d, w))
CodeAt(d, w) == NameAt(d, w) + (Flags(d, w) % 32)
HasFlag(d, w, flag) == (Flags(d, w) \div flag) % 2 = 1

\* The address of the newest word of that name, or 0; None if a header cannot be read.
FindWord(d, name) ==
  LET find[w \in Nat] ==
        IF w = 0 THEN 0
        ELSE IF ~(Readable(d, w) /\ Readable(d, LinkAt(d, w))) THEN None
        ELSE IF Flags(d, w) % 32 = 1 /\ d[NameAt(d, w)] = name THEN w
        ELSE find[Link(d, w)]
  IN  find[Latest(d)]

\* Fault: the flag is toggled.
MakeImmediateToggles(m) ==
  LET w == Latest(m.dict)
  IN  IF ~Readable(m.dict, w) THEN Fail(m)
      ELSE PutCell(m, w, IF HasFlag(m.dict, w, ImmediateFlag)
                         THEN Flags(m.dict, w) - ImmediateFlag
                         ELSE Flags(m.dict, w) + ImmediateFlag)

\* The flag is put back into the byte it was read from.
MakeImmediate(m) ==
  LET w == Latest(m.dict)
  IN  IF ~Readable(m.dict, w) THEN Fail(m)
      ELSE PutCell(m, w, IF HasFlag(m.dict, w, ImmediateFlag) THEN Flags(m.dict, w)
                         ELSE Flags(m.dict, w) + ImmediateFlag)

-----------------------------------------------------------------------------
(* do_prim *)

Bool(b) == IF b THEN 1 ELSE 0
Magnitude(a) == IF a < 0 THEN -a ELSE a
Quotient(a, b) ==  \* truncated, as in C
  IF (a < 0) = (b < 0) THEN Magnitude(a) \div Magnitude(b) ELSE -(Magnitude(a) \div Magnitude(b))

\* Bitwise and of two cells that are not negative.
BitAnd(a, b) ==
  LET bits[x \in Nat, y \in Nat] ==
        IF x = 0 \/ y = 0 THEN 0 ELSE 2 * bits[x \div 2, y \div 2] + (x % 2) * (y % 2)
  IN  bits[a, b]

\* What a primitive that only works on the data stack pops.
OfOne == {Op.LTZ, Op.DROP, Op.DUP}
OfTwo == {Op.ADD, Op.SUB, Op.MUL, Op.DIV, Op.MOD, Op.SWAP, Op.EQUAL, Op.AND}
Pops  == [op \in OfOne \cup OfTwo \cup {Op.ROT} |->
            IF op \in OfOne THEN 1 ELSE IF op \in OfTwo THEN 2 ELSE 3]

\* What it pushes for the cells a (the top), b and c.  Cells are as wide as needed:
\* the wrap of sums, differences and products at 32 bits is left out.
Pushes(op, m) ==
  LET a == Top(m, 1)  b == Top(m, 2)  c == Top(m, 3)
  IN  CASE op = Op.LTZ   -> << Bool(a < 0) >>
        [] op = Op.DROP  -> << >>
        [] op = Op.DUP   -> << a, a >>
        [] op = Op.ROT   -> << b, a, c >>
        [] op = Op.SWAP  -> << a, b >>
        [] op = Op.ADD   -> << a + b >>
        [] op = Op.SUB   -> << b - a >>
        [] op = Op.MUL   -> << a * b >>
        [] op = Op.DIV   -> << Quotient(b, a) >>
        [] op = Op.MOD   -> << b - a * Quotient(b, a) >>
        [] op = Op.EQUAL -> << Bool(a = b) >>
        [] op = Op.AND   -> << BitAnd(a, b) >>

StackOp(op, m) ==
  IF Len(m.data) < Pops[op] \/ (op \in {Op.DIV, Op.MOD} /\ Top(m, 1) = 0) THEN Fail(m)
  ELSE Push(Drop(m, Pops[op]), Pushes(op, m))

\* pick and pickr count from the top of their stack after the pop.
Picked(m, n, cells) ==
  IF m.ok /\ n \in 0 .. Len(cells) - 1 THEN Push(m, << cells[Len(cells) - n] >>) ELSE Fail(m)

StackMove(op, m) ==
  CASE op = Op.PICKD ->
         LET p == Drop(m, 1) IN IF p.ok THEN Picked(p, Top(m, 1), p.data) ELSE p
    [] op = Op.PICKR ->
         LET p == Drop(m, 1) IN IF p.ok THEN Picked(p, Top(m, 1), p.ret) ELSE p
    [] op = Op.PUSHR -> LET p == Drop(m, 1) IN IF p.ok THEN PushR(p, Top(m, 1)) ELSE p
    [] op = Op.POPR ->
         IF m.ret = << >> THEN Fail(m) ELSE Push([m EXCEPT !.ret = Front(@)], << Last(m.ret) >>)

\* Primitives with a cell behind them in the program.
ProgramOp(op, m) ==
  IF op = Op.EXIT
  THEN IF m.ret = << >> THEN Fail(m) ELSE [m EXCEPT !.ret = Front(@), !.ip = Last(m.ret)]
  ELSE IF ~Readable(m.dict, m.ip) THEN Fail(m)
  ELSE LET v == Value(m.dict, m.ip)
           next == [m EXCEPT !.ip = @ + Width(m.dict, m.ip)]
       IN  CASE op \in {Op.LIT, Op.TICK} -> Push(next, << v >>)
             [] op = Op.JMP  -> [m EXCEPT !.ip = v]
             [] op = Op.JMP0 -> LET p == Drop(next, 1)
                                IN  IF p.ok /\ Top(m, 1) = 0 THEN [p EXCEPT !.ip = v] ELSE p
             [] op = Op.LITS -> LET p == Push(next, << next.ip, v >>) IN [p EXCEPT !.ip = @ + v]

\* Memory: addresses 0 .. 4 are the user variables, and the only size is 0.
MemoryOp(op, m) ==
  LET size == Top(m, 1)
      a == Top(m, 2)
      isVar == a \in 0 .. Len(UserVars) - 1
      cell == size = 0 /\ Readable(m.dict, a)
      p == Drop(m, IF op = Op.POKE THEN 3 ELSE 2)
  IN  IF ~p.ok THEN p
      ELSE CASE op = Op.PEEK ->
                  IF isVar THEN Push(p, << Var(m.dict, a) >>)
                  ELSE IF cell THEN Push(p, << Value(m.dict, a) >>) ELSE Fail(p)
             [] op = Op.LEN ->
                  IF isVar THEN Push(p, << 1 >>)
                  ELSE IF cell THEN Push(p, << Width(m.dict, a) >>) ELSE Fail(p)
             [] op = Op.POKE ->
                  IF isVar THEN [p EXCEPT !.dict = SetVar(@, a, Top(m, 3))]
                  ELSE IF size = 0 THEN PutCell(p, a, Top(m, 3)) ELSE Fail(p)
             [] op = Op.COMMA -> IF size = 0 THEN AddCell(p, a) ELSE Fail(p)

\* Primitives that take their argument from what is typed next.
InputOp(op, m, in) ==
  CASE op = Op.COL ->
         IF in = None THEN [m EXCEPT !.ask = "word"]
         ELSE LET c == Create(m, in, 0) IN IF c.ok THEN [c EXCEPT !.dict = SetVar(@, 3, 1)] ELSE c
    [] op = Op.KEY -> IF in = None THEN [m EXCEPT !.ask = "char"] ELSE Push(m, << in >>)
    [] op = Op.COMMENT -> IF in # Paren THEN [m EXCEPT !.ask = "char"] ELSE m

CompileOp(op, m) ==
  CASE op = Op.SEMICOL ->
         LET a == AddCell(m, Op.EXIT) IN IF a.ok THEN [a EXCEPT !.dict = SetVar(@, 3, 0)] ELSE a
    [] op = Op.IMMEDIATE -> MakeImmediate(m)

\* zf_host_sys pops the arguments of the call; BootsBy says which calls do not come back.
SysCall(m) ==
  LET p == Drop(m, 1)
  IN  IF ~p.ok THEN p
      ELSE CASE Top(m, 1) \in {Sys.EMIT, Sys.PRINT} -> Drop(p, 1)
             [] Top(m, 1) = Sys.TELL -> Drop(p, 2)
             [] OTHER -> p

\* The case for TELL ends in the next case, BOOT_UART.
BootsBy(id) == id \in {Sys.TELL, Sys.BOOT_UART, Sys.BOOT_JTAG, Sys.BOOT_FLASH}

\* p@ and p! go to the bus, outside the interpreter; a load there reads 0.
RawOp(op, m) ==
  IF op = Op.RAW_PEEK THEN Push(Drop(m, 1), << 0 >>) ELSE Drop(m, 2)

DoPrim(op, m, in) ==
  CASE op \in DOMAIN Pops -> StackOp(op, m)
    [] op \in {Op.PICKD, Op.PICKR, Op.PUSHR, Op.POPR} -> StackMove(op, m)
    [] op \in {Op.EXIT, Op.LIT, Op.TICK, Op.JMP, Op.JMP0, Op.LITS} -> ProgramOp(op, m)
    [] op \in {Op.PEEK, Op.POKE, Op.LEN, Op.COMMA} -> MemoryOp(op, m)
    [] op \in {Op.COL, Op.KEY, Op.COMMENT} -> InputOp(op, m, in)
    [] op \in {Op.SEMICOL, Op.IMMEDIATE} -> CompileOp(op, m)
    [] op = Op.SYS -> SysCall(m)
    [] op \in {Op.RAW_PEEK, Op.RAW_POKE} -> RawOp(op, m)
    [] op = PrimCount -> Fail(m)

-----------------------------------------------------------------------------
(* The outer interpreter *)

\* zf_init and zf_bootstrap: the primitives and the user variables become words.
AddPrim(m, p) ==
  LET w == AddCell(AddCell(Create(m, p.name, PrimFlag), p.op), Op.EXIT)
  IN  IF p.imm THEN MakeImmediate(w) ELSE w

AddUserVar(m, name, i) == AddCell(AddLit(Create(m, name, 0), i), Op.EXIT)

Machine(d) == [dict |-> d, data |-> << >>, ret |-> << >>, ip |-> 0, ask |-> "none", ok |-> TRUE]

\* zf_init
Initial == Machine(SetVar([a \in Address |-> 0], 0, 4 * Len(UserVars)))

\* One turn of zf_bootstrap.
Bootstrap ==
  /\ control = "boot"
  /\ vm' = IF pos <= Len(Prims) THEN AddPrim(vm, Prims[pos])
           ELSE AddUserVar(vm, UserVars[pos - Len(Prims)], pos - Len(Prims) - 1)
  /\ IF pos = Len(Prims) + Len(UserVars)
     THEN control' = "idle" /\ pos' = 1
     ELSE pos' = pos + 1 /\ UNCHANGED control
  /\ UNCHANGED << line, word, input, typed, turns >>

\* Fault: an abort while compiling takes the space of the definition back.
RecoverSpace(m) ==
  LET d == IF Compiling(m.dict) THEN SetVar(m.dict, 0, Latest(m.dict)) ELSE m.dict
  IN  [m EXCEPT !.dict = SetVar(d, 3, 0), !.data = << >>, !.ret = << >>, !.ok = TRUE]

\* zf_eval at an abort: the rest of the line is dropped with both stacks.
Recover(m) ==
  [m EXCEPT !.dict = SetVar(@, 3, 0), !.data = << >>, !.ret = << >>, !.ok = TRUE]

\* Characters of the line in zf_eval: each word with its delimiter.
Char(p) ==
  IF p % 2 = 1 /\ line # << >> THEN line[(p + 1) \div 2]
  ELSE IF p >= 2 * Len(line) THEN Nul ELSE Space

\* zf_eval goes on behind handle_char, or returns at the end of the line.
Proceed(m) ==
  /\ vm' = IF m.ok THEN m ELSE Recover(m)
  /\ IF m.ok /\ Char(pos) # Nul
     THEN control' = "eval" /\ pos' = pos + 1
     ELSE control' = "idle" /\ pos' = 1

\* run(in), from the place ip points at.
Run(m, in) == control' = "run" /\ vm' = m /\ input' = in /\ UNCHANGED pos

\* A primitive is compiled as its number, another word as the address of its code.
Compile(m, w) ==
  LET c == CodeAt(m.dict, w)
      isPrim == HasFlag(m.dict, w, PrimFlag)
      added == AddCell(m, IF isPrim THEN Value(m.dict, c) ELSE c)
  IN  IF isPrim /\ ~Readable(m.dict, c) THEN Fail(m)
      ELSE IF added.ok THEN [added EXCEPT !.dict = SetVar(@, 4, 0)] ELSE added

\* A word that is not in the dictionary is a number, or nothing at all.
Number(m, name) ==
  IF name \notin DOMAIN Digits THEN Fail(m)
  ELSE IF Compiling(m.dict) THEN AddLit(m, Digits[name]) ELSE Push(m, << Digits[name] >>)

HandleWord(name) ==
  LET w == FindWord(vm.dict, name)
      d == vm.dict
  IN  IF vm.ask = "word" THEN Run([vm EXCEPT !.ask = "none"], name)
      ELSE /\ UNCHANGED input
           /\ IF w = None THEN Proceed(Fail(vm))
              ELSE IF w = 0 THEN Proceed(Number(vm, name))
              ELSE IF Compiling(d) /\ (Postpone(d) \/ ~HasFlag(d, w, ImmediateFlag))
              THEN Proceed(Compile(vm, w))
              ELSE /\ control' = "run"
                   /\ vm' = [vm EXCEPT !.ip = CodeAt(d, w), !.ret = << 0 >>]
                   /\ UNCHANGED pos

\* handle_char, for the character at pos.
HandleChar ==
  /\ control = "eval"
  /\ turns' = turns + 1
  /\ UNCHANGED << line, typed >>
  /\ \/ vm.ask = "char" /\ Run([vm EXCEPT !.ask = "none"], Char(pos)) /\ UNCHANGED word
     \/ /\ vm.ask # "char" /\ Char(pos) \notin {Space, Nul}
        /\ word' = Char(pos) /\ Proceed(vm) /\ UNCHANGED input
     \/ /\ vm.ask # "char" /\ Char(pos) \in {Space, Nul} /\ word = None
        /\ Proceed(vm) /\ UNCHANGED << word, input >>
     \/ /\ vm.ask # "char" /\ Char(pos) \in {Space, Nul} /\ word # None
        /\ word' = None /\ HandleWord(word)

\* Fault: ip stays behind the primitive.
SuspendBehind(m, ip) == m

\* A primitive that has asked for input is executed again when the input is there.
Suspend(m, ip) == [m EXCEPT !.ip = ip]

\* One turn of run: a primitive, or a call.
RunStep ==
  LET code == Value(vm.dict, vm.ip)
      at == [vm EXCEPT !.ip = @ + Width(vm.dict, vm.ip)]
      m == IF ~Readable(vm.dict, vm.ip) THEN Fail(vm)
           ELSE IF code \in 0 .. PrimCount THEN DoPrim(code, at, input)
           ELSE LET called == PushR(at, at.ip)
                IN  IF called.ok THEN [called EXCEPT !.ip = code] ELSE called
      sys == m.ok /\ code = Op.SYS /\ BootsBy(Top(vm, 1))
  IN  /\ control = "run"
      /\ turns' = turns + 1
      /\ input' = None
      /\ UNCHANGED << line, word, typed >>
      /\ CASE sys -> control' = "booted" /\ vm' = m /\ UNCHANGED pos
           [] m.ok /\ m.ask # "none" -> Proceed(Suspend(m, vm.ip))
           [] m.ok /\ m.ask = "none" /\ m.ip # 0 -> vm' = m /\ UNCHANGED << control, pos >>
           [] OTHER -> Proceed(m)

\* zforth_main has read a line up to CR or LF and calls zf_eval.
TypeLine ==
  /\ control = "idle" /\ typed < Len(Session)
  /\ line' \in Session[typed + 1]
  /\ control' = "eval" /\ pos' = 1 /\ typed' = typed + 1 /\ turns' = 0
  /\ UNCHANGED << vm, word, input >>

Init ==
  /\ vm = Initial
  /\ control = "boot" /\ line = << >> /\ pos = 1
  /\ word = None /\ input = None /\ typed = 0 /\ turns = 0

Next == Bootstrap \/ TypeLine \/ HandleChar \/ RunStep

Spec == Init /\ [][Next]_vars

-----------------------------------------------------------------------------
(* Properties *)

\* The interpreter stays in its three arrays: a byte is only stored at an address of dict, and
\* neither stack grows beyond its size.
StaysInMemory ==
  DOMAIN vm.dict = Address /\ Len(vm.data) <= DStackSize /\ Len(vm.ret) <= RStackSize

\* Every byte is a byte, every cell a cell, and nothing is left failing.
TypeOK ==
  /\ vm \in [dict : [Address -> Byte], data : Seq(Cell), ret : Seq(Cell), ip : Cell,
             ask : {"none", "char", "word"}, ok : {TRUE}]
  /\ StaysInMemory
  /\ vm.ask # "none" => vm.ret # << >>
  /\ control \in {"boot", "idle", "eval", "run", "booted"}
  /\ line \in UNION Range(Session) \cup {<< >>} /\ pos \in 1 .. 2 * Len(line) + Len(Prims) + Len(UserVars)
  /\ word \in Byte \cup {None} /\ input \in Byte \cup {None}
  /\ typed \in 0 .. Len(Session) /\ turns \in Nat

\* The headers from LATEST down to 0 lie one below the other, each wholly below HERE and
\* readable, also when a definition stopped in the middle for lack of room: find_word always
\* ends and sees only whole headers.
ChainSound ==
  LET d == vm.dict
      sound[w \in Nat] ==
        w = 0 \/ /\ w >= 4 * Len(UserVars)
                 /\ Readable(d, w) /\ Readable(d, LinkAt(d, w))
                 /\ Link(d, w) \in 0 .. w - 1 /\ sound[Link(d, w)]
                 /\ Link(d, w) # 0 => CodeAt(d, Link(d, w)) <= w
  IN  /\ Here(d) \in Address
      /\ Latest(d) \in Address /\ sound[Latest(d)]
      /\ Latest(d) # 0 => CodeAt(d, Latest(d)) <= Here(d)

\* Input that was asked for goes to the primitive that asked: while the console waits, ip is
\* still at a ":" that waits for its name, or at a "key" or "(" that waits for a character.
AskerWaits ==
  LET asker == Value(vm.dict, vm.ip) IN
  /\ vm.ask = "word" => asker = Op.COL
  /\ vm.ask = "char" => asker \in {Op.KEY, Op.COMMENT}

\* zf_eval comes back from every line, unless a boot was asked for: a word that calls itself
\* for ever, and one left without an exit, run into a stack's end and not into a loop.
EveryLineEnds == turns <= MaxTurns

\* The words of d from the oldest to the newest, as a list.
WordsIn(d) ==
  LET words[w \in Nat] ==
        IF w = 0 \/ Link(d, w) \notin 0 .. w - 1 THEN << >>
        ELSE Append(words[Link(d, w)],
                    [name |-> d[NameAt(d, w)], immediate |-> HasFlag(d, w, ImmediateFlag)])
  IN  words[Latest(d)]

WordsFrom == WordsIn(vm.dict)

WordListOf == INSTANCE WordList WITH words <- WordsFrom

\* The bytes of dict implement a list of words that only grows, in which only the last word can
\* become immediate: no definition, complete or cut off, loses, renames or flags another word.
DictionaryIsWordList == WordListOf!Spec

\* A store of the program itself: "!!" to the dictionary.
Poking == control = "run" /\ Readable(vm.dict, vm.ip) /\ Value(vm.dict, vm.ip) = Op.POKE

\* Compiled code is final: the bytes below HERE change only in the header of the last word and
\* by a store of the program, and HERE never goes back.
CodeIsKept ==
  [][ /\ Here(vm'.dict) >= Here(vm.dict)
      /\ \A i \in 4 * Len(UserVars) .. Here(vm.dict) - 1 :
           vm'.dict[i] = vm.dict[i] \/ i = Latest(vm.dict) \/ Poking ]_vars

\* The calls of zf_host_sys that only print come back: the console leaves for a boot only when
\* a boot was asked for.  zforth-main.c:157 prints a text with "tell" and goes on.
PrintsReturn ==
  [][ control' = "booted" /\ control # "booted"
      => Top(vm, 1) \in {Sys.BOOT_UART, Sys.BOOT_JTAG, Sys.BOOT_FLASH} ]_vars
=============================================================================
