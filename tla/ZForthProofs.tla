---------------------------- MODULE ZForthProofs ----------------------------
(***************************************************************************)
(* Proofs about the zForth interpreter, for every session, every list of   *)
(* primitives and every size of the dictionary and the stacks.             *)
(*                                                                         *)
(* Whatever is typed, the interpreter stays in its three arrays, and the   *)
(* input a primitive asks for goes to that primitive.  While the stores of *)
(* the programs spare the headers of the words, the chain of the headers   *)
(* stays whole, the dictionary is a list of words that only grows, and     *)
(* compiled code is final.                                                 *)
(*                                                                         *)
(* The second part follows the bytes of dict.  Each operation either adds  *)
(* bytes at HERE (Grows), adds a whole header and links it (New), or flags *)
(* the last word (Marked).  The words are the least set that holds LATEST  *)
(* and what its members are linked to; each of the three keeps their       *)
(* headers.  The recursive functions that walk the chain are then shown    *)
(* to agree with that set: a walk that never ends would have a least place *)
(* where it fails.                                                         *)
(***************************************************************************)
EXTENDS ZForth, SequenceTheorems, WellFoundedInduction, TLAPS

-----------------------------------------------------------------------------
(* The inductive invariant *)

\* A stack of at most n cells, whatever the cells are.
IsStack(s, n) == (\E S : s \in Seq(S)) /\ Len(s) <= n

\* A machine in its arrays.
Safe(m) ==
  /\ DOMAIN m = {"dict", "data", "ret", "ip", "ask", "ok"}
  /\ m.ok \in BOOLEAN
  /\ DOMAIN m.dict = Address
  /\ IsStack(m.data, DStackSize)
  /\ IsStack(m.ret, RStackSize)

\* n is what an operation that asks for nothing makes of m.
After(m, n) == Safe(n) /\ n.ask = m.ask

\* Nothing runs while input is awaited, and what failed has not run since.
AskIInv ==
  /\ Safe(vm)
  /\ vm.ask \in {"none", "word", "char"}
  /\ control \in {"boot", "run"} => vm.ask = "none"
  /\ control = "boot" => word = None
  /\ ~vm.ok => vm.ask = "none" /\ word = None /\ control \in {"boot", "idle", "eval"}
  /\ AskerWaits

-----------------------------------------------------------------------------
(* The arrays *)

\* What is dropped from a stack leaves a stack.
LEMMA ShorterStack ==
  ASSUME NEW n, NEW s, IsStack(s, n), NEW k \in 0..Len(s), n \in Nat
  PROVE  IsStack(SubSeq(s, 1, Len(s) - k), n)
<1>1. PICK S : s \in Seq(S)
  BY DEF IsStack
<1>2. Len(s) \in Nat /\ Len(s) <= n
  BY <1>1 DEF IsStack
<1>3. SubSeq(s, 1, Len(s) - k) \in Seq(S) /\ Len(SubSeq(s, 1, Len(s) - k)) = Len(s) - k
  BY <1>1, <1>2
<1>4. Len(s) - k <= n
  BY <1>2
<1>5. Len(SubSeq(s, 1, Len(s) - k)) <= n
  BY <1>3, <1>4
<1> HIDE DEF IsStack
<1> QED BY <1>3, <1>5, Zenon DEF IsStack

\* What fits on a stack leaves a stack.
LEMMA LongerStack ==
  ASSUME NEW n, NEW s, IsStack(s, n), n \in Nat,
         NEW T, NEW t \in Seq(T), Len(s) + Len(t) <= n
  PROVE  IsStack(s \o t, n)
<1>1. PICK S : s \in Seq(S)
  BY DEF IsStack
<1>2. s \in Seq(S \cup T) /\ t \in Seq(S \cup T)
  BY <1>1, SeqMonotonic
<1>3. s \o t \in Seq(S \cup T) /\ Len(s \o t) = Len(s) + Len(t)
  BY <1>2, ConcatProperties
<1> QED BY <1>3 DEF IsStack

\* Small steps of a stack.
LEMMA StackFacts ==
  /\ \A n, s : IsStack(s, n) => Len(s) \in Nat
  /\ \A n \in Nat : IsStack(<< >>, n)
  /\ \A n \in Nat \ {0} : \A v : IsStack(<<v>>, n)
  /\ \A n \in Nat : \A s, v : IsStack(s, n) /\ Len(s) < n => IsStack(Append(s, v), n)
  /\ \A n \in Nat : \A s : IsStack(s, n) /\ s # << >> => IsStack(Front(s), n)
<1>1. \A n, s : IsStack(s, n) => Len(s) \in Nat
  BY DEF IsStack
<1>2. \A n \in Nat : IsStack(<< >>, n)
  <2>1. << >> \in Seq({}) /\ Len(<< >>) = 0
    OBVIOUS
  <2> QED BY <2>1 DEF IsStack
<1>3. ASSUME NEW n \in Nat \ {0}, NEW v
      PROVE  IsStack(<<v>>, n)
  <2>1. <<v>> \in Seq({v}) /\ Len(<<v>>) = 1
    OBVIOUS
  <2>2. Len(<<v>>) <= n
    BY <2>1
  <2> QED BY <2>1, <2>2, Zenon DEF IsStack
<1>4. ASSUME NEW n \in Nat, NEW s, NEW v, IsStack(s, n), Len(s) < n
      PROVE  IsStack(Append(s, v), n)
  <2>1. PICK S : s \in Seq(S)
    BY <1>4 DEF IsStack
  <2>2. s \in Seq(S \cup {v}) /\ v \in S \cup {v}
    BY <2>1, SeqMonotonic
  <2>3. Append(s, v) \in Seq(S \cup {v}) /\ Len(Append(s, v)) = Len(s) + 1 /\ Len(s) \in Nat
    BY <2>2, AppendProperties
  <2> QED BY <1>4, <2>3 DEF IsStack
<1>5. ASSUME NEW n \in Nat, NEW s, IsStack(s, n), s # << >>
      PROVE  IsStack(Front(s), n)
  <2>1. PICK S : s \in Seq(S)
    BY <1>5 DEF IsStack
  <2>2. 1 \in 0..Len(s)
    BY <1>5, <2>1, EmptySeq
  <2> QED BY <1>5, <2>2, ShorterStack DEF Front
<1> QED BY <1>1, <1>2, <1>3, <1>4, <1>5

\* An encoded cell has one, two or five bytes.
LEMMA EncodedLength ==
  ASSUME NEW v
  PROVE  Len(Encode(v)) \in {1, 2, 5}
<1>1. \A w, x, y, z : Len(<<255>> \o <<w, x, y, z>>) = 5
  <2> SUFFICES ASSUME NEW w, NEW x, NEW y, NEW z
               PROVE  Len(<<255>> \o <<w, x, y, z>>) = 5
    OBVIOUS
  <2> DEFINE S == {255, w, x, y, z}
  <2>1. <<255>> \in Seq(S) /\ <<w, x, y, z>> \in Seq(S)
    OBVIOUS
  <2>2. Len(<<255>>) = 1 /\ Len(<<w, x, y, z>>) = 4
    OBVIOUS
  <2> HIDE DEF S
  <2> QED BY <2>1, <2>2, ConcatProperties
<1>2. \A x, y : Len(<<x>>) = 1 /\ Len(<<x, y>>) = 2
  OBVIOUS
<1>3. Len(<<255>> \o Raw(v)) = 5
  BY <1>1 DEF Raw
<1> QED BY <1>2, <1>3 DEF Encode

\* What fits is written inside the dictionary.
LEMMA PutInside ==
  ASSUME NEW d, DOMAIN d = Address, NEW a, NEW bytes,
         Len(bytes) \in Nat, a \in Nat, a + Len(bytes) <= DictSize
  PROVE  DOMAIN PutBytes(d, a, bytes) = Address
<1>1. DOMAIN PutBytes(d, a, bytes) = Address \cup (a .. a + Len(bytes) - 1)
  BY DEF PutBytes
<1> QED BY <1>1, DictSizeAssumption DEF Address

\* A user variable lies in dict.
LEMMA VarInside ==
  ASSUME NEW d, DOMAIN d = Address, NEW i \in 0..4, NEW v
  PROVE  DOMAIN SetVar(d, i, v) = Address
<1>1. Len(Raw(v)) = 4
  <2>1. \A w, x, y, z : Len(<<w, x, y, z>>) = 4
    OBVIOUS
  <2> QED BY <2>1 DEF Raw
<1>2. 4 * i \in Nat /\ 4 * i + 4 <= DictSize
  BY DictSizeAssumption
<1> DEFINE r == Raw(v)
           a == 4 * i
<1>3. SetVar(d, i, v) = PutBytes(d, a, r)
  BY DEF SetVar
<1> HIDE DEF r, a
<1>4. a \in Nat /\ Len(r) = 4 /\ a + Len(r) <= DictSize
  BY <1>1, <1>2 DEF r, a
<1>5. Len(r) \in Nat
  BY <1>4
<1>6. DOMAIN PutBytes(d, a, r) = Address
  BY <1>4, <1>5, PutInside
<1> QED BY <1>3, <1>6

-----------------------------------------------------------------------------
(* The operations of a machine *)

\* Setting one part of a machine.
LEMMA SafeParts ==
  ASSUME NEW m, Safe(m)
  PROVE  /\ After(m, m)
         /\ After(m, Fail(m))
         /\ ~Fail(m).ok
         /\ \A d : DOMAIN d = Address => After(m, [m EXCEPT !.dict = d])
         /\ \A s : IsStack(s, DStackSize) => After(m, [m EXCEPT !.data = s])
         /\ \A s : IsStack(s, RStackSize) => After(m, [m EXCEPT !.ret = s])
         /\ \A a : After(m, [m EXCEPT !.ip = a])
         /\ \A q : Safe([m EXCEPT !.ask = q])
<1>0. /\ DOMAIN m = {"dict", "data", "ret", "ip", "ask", "ok"}
      /\ m.ok \in BOOLEAN
      /\ DOMAIN m.dict = Address
      /\ IsStack(m.data, DStackSize) /\ IsStack(m.ret, RStackSize)
  BY DEF Safe
<1>1. After(m, m)
  BY DEF After
<1>2. After(m, Fail(m)) /\ ~Fail(m).ok
  <2> DEFINE f == Fail(m)
  <2>1. /\ f.dict = m.dict /\ f.data = m.data /\ f.ret = m.ret
        /\ f.ip = m.ip /\ f.ask = m.ask
    BY <1>0 DEF Fail
  <2>2. f.ok = FALSE
    BY <1>0 DEF Fail
  <2>3. DOMAIN f = DOMAIN m
    BY <1>0 DEF Fail
  <2> HIDE DEF f
  <2>4. f.ok \in BOOLEAN /\ ~f.ok
    BY <2>2, Zenon
  <2>5. Safe(f) /\ f.ask = m.ask
    BY <1>0, <2>1, <2>3, <2>4, Zenon DEF Safe
  <2> QED BY <2>4, <2>5 DEF After, f
<1>3. ASSUME NEW d, DOMAIN d = Address PROVE After(m, [m EXCEPT !.dict = d])
  BY <1>0, <1>3 DEF After, Safe
<1>4. ASSUME NEW s, IsStack(s, DStackSize) PROVE After(m, [m EXCEPT !.data = s])
  BY <1>0, <1>4 DEF After, Safe
<1>5. ASSUME NEW s, IsStack(s, RStackSize) PROVE After(m, [m EXCEPT !.ret = s])
  BY <1>0, <1>5 DEF After, Safe
<1>6. ASSUME NEW a PROVE After(m, [m EXCEPT !.ip = a])
  BY <1>0 DEF After, Safe
<1>7. ASSUME NEW q PROVE Safe([m EXCEPT !.ask = q])
  BY <1>0 DEF Safe
<1> QED BY <1>1, <1>2, <1>3, <1>4, <1>5, <1>6, <1>7

\* The data stack and the return stack.
LEMMA DropSafe ==
  ASSUME NEW m, Safe(m), NEW n \in Nat
  PROVE  After(m, Drop(m, n))
<1>1. CASE m.ok /\ Len(m.data) >= n
  <2>1. Len(m.data) \in Nat /\ IsStack(m.data, DStackSize)
    BY StackFacts DEF Safe
  <2>2. n \in 0..Len(m.data)
    BY <1>1, <2>1
  <2>3. IsStack(SubSeq(m.data, 1, Len(m.data) - n), DStackSize)
    BY <2>1, <2>2, ShorterStack, StackSizesAssumption
  <2> QED BY <1>1, <2>3, SafeParts DEF Drop
<1>2. CASE ~(m.ok /\ Len(m.data) >= n)
  BY <1>2, SafeParts DEF Drop
<1> QED BY <1>1, <1>2

\* A push of several cells, of one, to the return stack, and its pop.
LEMMA PushSafe ==
  ASSUME NEW m, Safe(m), NEW T, NEW t \in Seq(T)
  PROVE  After(m, Push(m, t))
<1>1. CASE m.ok /\ Len(m.data) + Len(t) <= DStackSize
  <2>1. IsStack(m.data \o t, DStackSize)
    BY <1>1, LongerStack, StackSizesAssumption DEF Safe
  <2> QED BY <1>1, <2>1, SafeParts DEF Push
<1>2. CASE ~(m.ok /\ Len(m.data) + Len(t) <= DStackSize)
  BY <1>2, SafeParts DEF Push
<1> QED BY <1>1, <1>2

\* One cell.
LEMMA PushOneSafe ==
  ASSUME NEW m, Safe(m), NEW v
  PROVE  After(m, Push(m, <<v>>))
<1>1. <<v>> \in Seq({v})
  OBVIOUS
<1> QED BY <1>1, PushSafe

\* A return address.
LEMMA PushRSafe ==
  ASSUME NEW m, Safe(m), NEW v
  PROVE  After(m, PushR(m, v))
<1>1. CASE m.ok /\ Len(m.ret) < RStackSize
  <2>1. IsStack(Append(m.ret, v), RStackSize)
    BY <1>1, StackFacts, StackSizesAssumption DEF Safe
  <2> QED BY <1>1, <2>1, SafeParts DEF PushR
<1>2. CASE ~(m.ok /\ Len(m.ret) < RStackSize)
  BY <1>2, SafeParts DEF PushR
<1> QED BY <1>1, <1>2

\* And its pop.
LEMMA PopRSafe ==
  ASSUME NEW m, Safe(m), m.ret # << >>
  PROVE  After(m, [m EXCEPT !.ret = Front(@)])
<1>1. IsStack(Front(m.ret), RStackSize)
  BY StackFacts, StackSizesAssumption DEF Safe
<1> QED BY <1>1, SafeParts

\* The operations that write to dict.
LEMMA SetVarSafe ==
  ASSUME NEW m, Safe(m), NEW i \in 0..4, NEW v
  PROVE  After(m, [m EXCEPT !.dict = SetVar(@, i, v)])
<1>1. DOMAIN SetVar(m.dict, i, v) = Address
  BY VarInside DEF Safe
<1> QED BY <1>1, SafeParts

\* A byte that fits.
LEMMA PutByteSafe ==
  ASSUME NEW m, Safe(m), NEW a, Fits(a, 1), NEW b
  PROVE  After(m, [m EXCEPT !.dict = PutBytes(@, a, <<b>>)])
<1>1. Len(<<b>>) = 1
  OBVIOUS
<1>2. a \in Nat /\ a + 1 <= DictSize
  BY DictSizeAssumption DEF Fits
<1>3. DOMAIN PutBytes(m.dict, a, <<b>>) = Address
  BY <1>1, <1>2, PutInside DEF Safe
<1> QED BY <1>3, SafeParts

\* A cell, also one that does not fit.
LEMMA PutCellSafe ==
  ASSUME NEW m, Safe(m), NEW a, NEW v
  PROVE  After(m, PutCell(m, a, v))
<1> DEFINE e == Encode(v)
<1>1. Len(e) \in {1, 2, 5}
  BY EncodedLength
<1>0. PutCell(m, a, v) =
        IF ~m.ok THEN m
        ELSE IF Fits(a, Len(e)) THEN [m EXCEPT !.dict = PutBytes(@, a, e)]
        ELSE Fail([m EXCEPT !.dict = IF Len(e) = 5 /\ Fits(a, 1) THEN PutBytes(@, a, <<255>>)
                                     ELSE @])
  BY DEF PutCell
<1> HIDE DEF e
<1>2. CASE ~m.ok
  BY <1>2, SafeParts DEF PutCell
<1>3. CASE m.ok /\ Fits(a, Len(e))
  <2>1. a \in Nat /\ a + Len(e) <= DictSize
    BY <1>1, <1>3, DictSizeAssumption DEF Fits
  <2>2. DOMAIN PutBytes(m.dict, a, e) = Address
    BY <1>1, <2>1, PutInside DEF Safe
  <2> QED BY <1>3, <2>2, SafeParts DEF PutCell, e
<1>4. CASE m.ok /\ ~Fits(a, Len(e))
  <2> DEFINE cut == [m EXCEPT !.dict = PutBytes(@, a, <<255>>)]
             kept == [m EXCEPT !.dict = m.dict]
  <2>1. PutCell(m, a, v) = IF Len(e) = 5 /\ Fits(a, 1) THEN Fail(cut) ELSE Fail(kept)
    BY <1>0, <1>4
  <2>2. Fits(a, 1) => After(m, cut)
    BY PutByteSafe
  <2>3. After(m, kept)
    BY SafeParts DEF Safe
  <2> HIDE DEF cut, kept
  <2>4. Fits(a, 1) => After(m, Fail(cut))
    BY <2>2, SafeParts DEF After
  <2>5. After(m, Fail(kept))
    BY <2>3, SafeParts DEF After
  <2> QED BY <2>1, <2>4, <2>5
<1> QED BY <1>2, <1>3, <1>4

\* HERE is moved.
LEMMA AllotSafe ==
  ASSUME NEW m, Safe(m), NEW n
  PROVE  After(m, Allot(m, n))
BY SafeParts, SetVarSafe DEF Allot

\* A cell at HERE.
LEMMA AddCellSafe ==
  ASSUME NEW m, Safe(m), NEW v
  PROVE  After(m, AddCell(m, v))
<1>1. ASSUME NEW q, Safe(q), NEW n
      PROVE  After(q, Allot(q, n))
  BY <1>1, AllotSafe
<1>2. After(m, PutCell(m, Here(m.dict), v))
  BY PutCellSafe
<1> QED BY <1>1, <1>2 DEF AddCell, After

\* A header.
LEMMA CreateSafe ==
  ASSUME NEW m, Safe(m), NEW name, NEW flags
  PROVE  After(m, Create(m, name, flags))
<1> DEFINE header == AddCell(AddCell(m, 1 + flags), Latest(m.dict))
           h == Here(header.dict)
           named == IF header.ok /\ Fits(h, 1)
                    THEN Allot([header EXCEPT !.dict = PutBytes(@, h, << name >>)], 1)
                    ELSE Fail(header)
<1>1. After(m, header)
  BY AddCellSafe DEF After
<1> HIDE DEF header
<1>2. After(header, named)
  <2>1. CASE header.ok /\ Fits(h, 1)
    <3> DEFINE p == [header EXCEPT !.dict = PutBytes(@, h, << name >>)]
    <3>1. After(header, p)
      BY <1>1, <2>1, PutByteSafe DEF After
    <3> HIDE DEF p
    <3>2. After(p, Allot(p, 1))
      BY <3>1, AllotSafe DEF After
    <3>3. named = Allot(p, 1)
      BY <2>1 DEF p
    <3> QED BY <3>1, <3>2, <3>3 DEF After
  <2>2. CASE ~(header.ok /\ Fits(h, 1))
    BY <1>1, <2>2, SafeParts DEF After
  <2> QED BY <2>1, <2>2
<1>3. Create(m, name, flags) =
        IF named.ok THEN [named EXCEPT !.dict = SetVar(@, 1, Here(m.dict))] ELSE named
  BY DEF Create, header
<1> HIDE DEF named
<1>4. Safe(named)
  BY <1>2 DEF After
<1>5. After(named, [named EXCEPT !.dict = SetVar(@, 1, Here(m.dict))])
  BY <1>4, SetVarSafe
<1> QED BY <1>1, <1>2, <1>3, <1>4, <1>5 DEF After

\* A flag.
LEMMA MakeImmediateSafe ==
  ASSUME NEW m, Safe(m)
  PROVE  After(m, MakeImmediate(m))
BY SafeParts, PutCellSafe DEF MakeImmediate

-----------------------------------------------------------------------------
(* do_prim *)

IsTuple(t) == \E T : t \in Seq(T)

\* Tuples of cells are sequences.
LEMMA Tuples ==
  /\ IsTuple(<< >>)
  /\ \A x : IsTuple(<<x>>)
  /\ \A x, y : IsTuple(<<x, y>>)
  /\ \A x, y, z : IsTuple(<<x, y, z>>)
<1>1. << >> \in Seq({})
  OBVIOUS
<1>2. \A x : <<x>> \in Seq({x})
  OBVIOUS
<1>3. \A x, y : <<x, y>> \in Seq({x, y})
  OBVIOUS
<1>4. \A x, y, z : <<x, y, z>> \in Seq({x, y, z})
  OBVIOUS
<1> QED BY <1>1, <1>2, <1>3, <1>4, Zenon DEF IsTuple

\* What a primitive pushes is a tuple.
LEMMA PushesTuples ==
  ASSUME NEW op \in DOMAIN Pops, NEW m
  PROVE  IsTuple(Pushes(op, m))
<1>1. op \in {Op.LTZ, Op.DROP, Op.DUP, Op.ROT, Op.SWAP, Op.ADD, Op.SUB, Op.MUL,
              Op.DIV, Op.MOD, Op.EQUAL, Op.AND}
  BY DEF Pops, OfOne, OfTwo
<1>2. CASE op = Op.LTZ
  BY <1>2, Tuples DEF Pushes, Op
<1>3. CASE op = Op.DROP
  BY <1>3, Tuples DEF Pushes, Op
<1>4. CASE op = Op.DUP
  BY <1>4, Tuples DEF Pushes, Op
<1>5. CASE op = Op.ROT
  BY <1>5, Tuples DEF Pushes, Op
<1>6. CASE op = Op.SWAP
  BY <1>6, Tuples DEF Pushes, Op
<1>7. CASE op = Op.ADD
  BY <1>7, Tuples DEF Pushes, Op
<1>8. CASE op = Op.SUB
  BY <1>8, Tuples DEF Pushes, Op
<1>9. CASE op = Op.MUL
  BY <1>9, Tuples DEF Pushes, Op
<1>10. CASE op = Op.DIV
  BY <1>10, Tuples DEF Pushes, Op
<1>11. CASE op = Op.MOD
  BY <1>11, Tuples DEF Pushes, Op
<1>12. CASE op = Op.EQUAL
  BY <1>12, Tuples DEF Pushes, Op
<1>13. CASE op = Op.AND
  BY <1>13, Tuples DEF Pushes, Op
<1> QED BY <1>1, <1>2, <1>3, <1>4, <1>5, <1>6, <1>7, <1>8, <1>9, <1>10, <1>11, <1>12, <1>13

\* The primitives, by what they work on: the data stack,
LEMMA StackOpSafe ==
  ASSUME NEW m, Safe(m), NEW op \in DOMAIN Pops
  PROVE  After(m, StackOp(op, m))
<1>1. PICK T : Pushes(op, m) \in Seq(T)
  BY PushesTuples DEF IsTuple
<1>2. Pops[op] \in Nat
  BY DEF Pops
<1>3. After(m, Drop(m, Pops[op]))
  BY <1>2, DropSafe
<1>4. After(m, Push(Drop(m, Pops[op]), Pushes(op, m)))
  BY <1>1, <1>3, PushSafe DEF After
<1> QED BY <1>4, SafeParts DEF StackOp

\* both stacks,
LEMMA StackMoveSafe ==
  ASSUME NEW m, Safe(m), NEW op \in {Op.PICKD, Op.PICKR, Op.PUSHR, Op.POPR}
  PROVE  After(m, StackMove(op, m))
<1> DEFINE p == Drop(m, 1)
           pop == [m EXCEPT !.ret = Front(@)]
<1>1. After(m, p)
  BY DropSafe
<1> HIDE DEF p
<1>2. Safe(p)
  BY <1>1 DEF After
<1>3. \A n, cells : After(p, Picked(p, n, cells))
  BY <1>2, SafeParts, PushOneSafe DEF Picked
<1>4. \A v : After(p, PushR(p, v))
  BY <1>2, PushRSafe
<1>5. m.ret # << >> => After(m, pop)
  BY PopRSafe
<1>6. After(m, Fail(m))
  BY SafeParts
<1>7. CASE op = Op.PICKD
  BY <1>1, <1>3, <1>7 DEF StackMove, Op, After, p
<1>8. CASE op = Op.PICKR
  BY <1>1, <1>3, <1>8 DEF StackMove, Op, After, p
<1>9. CASE op = Op.PUSHR
  BY <1>1, <1>4, <1>9 DEF StackMove, Op, After, p
<1>10. CASE op = Op.POPR
  <2>1. StackMove(op, m) = IF m.ret = << >> THEN Fail(m) ELSE Push(pop, << Last(m.ret) >>)
    BY <1>10 DEF StackMove, Op
  <2> HIDE DEF pop
  <2>2. m.ret # << >> => After(pop, Push(pop, << Last(m.ret) >>))
    BY <1>5, PushOneSafe DEF After
  <2> QED BY <1>5, <1>6, <2>1, <2>2 DEF After
<1> QED BY <1>7, <1>8, <1>9, <1>10

\* the program,
LEMMA ProgramOpSafe ==
  ASSUME NEW m, Safe(m), NEW op \in {Op.EXIT, Op.LIT, Op.TICK, Op.JMP, Op.JMP0, Op.LITS}
  PROVE  After(m, ProgramOp(op, m))
<1> DEFINE v == Value(m.dict, m.ip)
           next == [m EXCEPT !.ip = @ + Width(m.dict, m.ip)]
           d == Drop(next, 1)
           s == Push(next, << next.ip, v >>)
           pop == [m EXCEPT !.ret = Front(@)]
<1>1. After(m, Fail(m))
  BY SafeParts
<1>2. CASE op = Op.EXIT
  <2>1. m.ret # << >> => After(m, pop)
    BY PopRSafe
  <2>2. m.ret # << >> => After(pop, [pop EXCEPT !.ip = Last(m.ret)])
    BY <2>1, SafeParts DEF After
  <2>3. [pop EXCEPT !.ip = Last(m.ret)] = [m EXCEPT !.ret = Front(@), !.ip = Last(m.ret)]
    OBVIOUS
  <2>4. ProgramOp(op, m) = IF m.ret = << >> THEN Fail(m) ELSE [pop EXCEPT !.ip = Last(m.ret)]
    BY <1>2, <2>3 DEF ProgramOp
  <2> HIDE DEF pop
  <2> QED BY <1>1, <2>1, <2>2, <2>4 DEF After
<1>3. CASE op # Op.EXIT /\ ~Readable(m.dict, m.ip)
  BY <1>1, <1>3 DEF ProgramOp
<1>4. CASE op # Op.EXIT /\ Readable(m.dict, m.ip)
  <2>1. After(m, next)
    BY SafeParts
  <2>2. ProgramOp(op, m) =
          CASE op \in {Op.LIT, Op.TICK} -> Push(next, << v >>)
            [] op = Op.JMP  -> [m EXCEPT !.ip = v]
            [] op = Op.JMP0 -> IF d.ok /\ Top(m, 1) = 0 THEN [d EXCEPT !.ip = v] ELSE d
            [] op = Op.LITS -> [s EXCEPT !.ip = @ + v]
    BY <1>4 DEF ProgramOp
  <2> HIDE DEF v, next
  <2>3. After(m, Push(next, << v >>))
    BY <2>1, PushOneSafe DEF After
  <2>4. After(m, [m EXCEPT !.ip = v])
    BY SafeParts
  <2>5. After(m, d)
    BY <2>1, DropSafe DEF After
  <2>6. After(m, s)
    <3>1. IsTuple(<< next.ip, v >>)
      BY Tuples
    <3> QED BY <2>1, <3>1, PushSafe DEF After, IsTuple
  <2> HIDE DEF d, s
  <2>7. After(m, [d EXCEPT !.ip = v])
    <3>1. After(d, [d EXCEPT !.ip = v])
      BY <2>5, SafeParts DEF After
    <3> QED BY <2>5, <3>1 DEF After
  <2>8. After(m, [s EXCEPT !.ip = @ + v])
    <3> DEFINE to == s.ip + v
    <3>1. After(s, [s EXCEPT !.ip = to])
      <4> HIDE DEF to
      <4> QED BY <2>6, SafeParts DEF After
    <3> QED BY <2>6, <3>1 DEF After
  <2> QED BY <1>4, <2>2, <2>3, <2>4, <2>5, <2>7, <2>8 DEF Op
<1> QED BY <1>2, <1>3, <1>4

\* the memory,
LEMMA MemoryOpSafe ==
  ASSUME NEW m, Safe(m), NEW op \in {Op.PEEK, Op.POKE, Op.LEN, Op.COMMA}
  PROVE  After(m, MemoryOp(op, m))
<1> DEFINE size == Top(m, 1)
           a == Top(m, 2)
           isVar == a \in 0 .. Len(UserVars) - 1
           cell == size = 0 /\ Readable(m.dict, a)
           p == Drop(m, IF op = Op.POKE THEN 3 ELSE 2)
<1>1. After(m, p)
  BY DropSafe
<1>2. MemoryOp(op, m) =
        IF ~p.ok THEN p
        ELSE CASE op = Op.PEEK ->
                    IF isVar THEN Push(p, << Var(m.dict, a) >>)
                    ELSE IF cell THEN Push(p, << Value(m.dict, a) >>) ELSE Fail(p)
               [] op = Op.LEN ->
                    IF isVar THEN Push(p, << 1 >>)
                    ELSE IF cell THEN Push(p, << Width(m.dict, a) >>) ELSE Fail(p)
               [] op = Op.POKE ->
                    IF isVar THEN [p EXCEPT !.dict = SetVar(@, a, Top(m, 3))]
                    ELSE IF size = 0 THEN PutCell(p, a, Top(m, 3)) ELSE Fail(p)
               [] op = Op.COMMA -> IF size = 0 THEN AddCell(p, a) ELSE Fail(p)
  BY DEF MemoryOp
<1> HIDE DEF size, p, cell
<1>3. Safe(p)
  BY <1>1 DEF After
<1>4. /\ \A v : After(p, Push(p, << v >>))
      /\ After(p, Fail(p))
      /\ \A x, v : After(p, PutCell(p, x, v))
      /\ \A v : After(p, AddCell(p, v))
  BY <1>3, PushOneSafe, SafeParts, PutCellSafe, AddCellSafe
<1>5. isVar => After(p, [p EXCEPT !.dict = SetVar(@, a, Top(m, 3))])
  BY <1>3, SetVarSafe, UserVarsAssumption
<1> HIDE DEF isVar, a
<1>6. \A n : After(p, n) => After(m, n)
  BY <1>1 DEF After
<1>7. CASE op = Op.PEEK
  BY <1>1, <1>2, <1>4, <1>6, <1>7 DEF Op
<1>8. CASE op = Op.LEN
  BY <1>1, <1>2, <1>4, <1>6, <1>8 DEF Op
<1>9. CASE op = Op.POKE
  BY <1>1, <1>2, <1>4, <1>5, <1>6, <1>9 DEF Op
<1>10. CASE op = Op.COMMA
  BY <1>1, <1>2, <1>4, <1>6, <1>10 DEF Op
<1> QED BY <1>7, <1>8, <1>9, <1>10

\* the compiler,
LEMMA CompileOpSafe ==
  ASSUME NEW m, Safe(m), NEW op \in {Op.SEMICOL, Op.IMMEDIATE}
  PROVE  After(m, CompileOp(op, m))
<1> DEFINE a == AddCell(m, Op.EXIT)
<1>1. After(m, a)
  BY AddCellSafe
<1>2. op = Op.SEMICOL =>
        CompileOp(op, m) = IF a.ok THEN [a EXCEPT !.dict = SetVar(@, 3, 0)] ELSE a
  BY DEF CompileOp, Op
<1>3. op = Op.IMMEDIATE => CompileOp(op, m) = MakeImmediate(m)
  BY DEF CompileOp, Op
<1> HIDE DEF a
<1>4. After(a, [a EXCEPT !.dict = SetVar(@, 3, 0)])
  BY <1>1, SetVarSafe DEF After
<1> QED BY <1>1, <1>2, <1>3, <1>4, MakeImmediateSafe DEF After

\* the host,
LEMMA SysCallSafe ==
  ASSUME NEW m, Safe(m)
  PROVE  After(m, SysCall(m)) /\ After(m, RawOp(Op.RAW_PEEK, m)) /\ After(m, RawOp(Op.RAW_POKE, m))
<1> DEFINE p == Drop(m, 1)
<1>1. After(m, p) /\ After(m, Drop(m, 2))
  BY DropSafe
<1>2. SysCall(m) =
        IF ~p.ok THEN p
        ELSE CASE Top(m, 1) \in {Sys.EMIT, Sys.PRINT} -> Drop(p, 1)
               [] Top(m, 1) = Sys.TELL -> Drop(p, 2)
               [] OTHER -> p
  BY DEF SysCall
<1>3. RawOp(Op.RAW_PEEK, m) = Push(p, << 0 >>) /\ RawOp(Op.RAW_POKE, m) = Drop(m, 2)
  BY DEF RawOp, Op
<1> HIDE DEF p
<1>4. After(p, Drop(p, 1)) /\ After(p, Drop(p, 2)) /\ After(p, Push(p, << 0 >>))
  BY <1>1, DropSafe, PushOneSafe DEF After
<1> QED BY <1>1, <1>2, <1>3, <1>4 DEF After

\* n is what primitive op makes of m: if it asks for input, nothing else has happened.
Asks(op, m, n) ==
  \/ n.ask = m.ask
  \/ /\ n.dict = m.dict /\ n.ok = m.ok
     /\ \/ op = Op.COL /\ n.ask = "word"
        \/ op \in {Op.KEY, Op.COMMENT} /\ n.ask = "char"

\* and the input.
LEMMA InputOpSafe ==
  ASSUME NEW m, Safe(m), NEW op \in {Op.COL, Op.KEY, Op.COMMENT}, NEW in
  PROVE  Safe(InputOp(op, m, in)) /\ Asks(op, m, InputOp(op, m, in))
<1> DEFINE c == Create(m, in, 0)
           w == [m EXCEPT !.ask = "word"]
           k == [m EXCEPT !.ask = "char"]
<1>1. After(m, c) /\ After(m, m) /\ After(m, Push(m, << in >>))
  BY CreateSafe, SafeParts, PushOneSafe
<1>2. op = Op.COL =>
        InputOp(op, m, in) =
          IF in = None THEN w
          ELSE IF c.ok THEN [c EXCEPT !.dict = SetVar(@, 3, 1)] ELSE c
  BY DEF InputOp, Op
<1>3. op = Op.KEY => InputOp(op, m, in) = IF in = None THEN k ELSE Push(m, << in >>)
  BY DEF InputOp, Op
<1>4. op = Op.COMMENT => InputOp(op, m, in) = IF in # Paren THEN k ELSE m
  BY DEF InputOp, Op
<1>5. /\ Safe(w) /\ w.dict = m.dict /\ w.ok = m.ok /\ w.ask = "word"
      /\ Safe(k) /\ k.dict = m.dict /\ k.ok = m.ok /\ k.ask = "char"
  BY SafeParts DEF Safe
<1> HIDE DEF c, w, k
<1>6. After(c, [c EXCEPT !.dict = SetVar(@, 3, 1)])
  BY <1>1, SetVarSafe DEF After
<1>7. CASE op = Op.COL
  BY <1>1, <1>2, <1>5, <1>6, <1>7 DEF After, Asks
<1>8. CASE op = Op.KEY
  BY <1>1, <1>3, <1>5, <1>8 DEF After, Asks
<1>9. CASE op = Op.COMMENT
  BY <1>1, <1>4, <1>5, <1>9 DEF After, Asks
<1> QED BY <1>7, <1>8, <1>9

\* The codes of the primitives.
LEMMA OpCodes ==
  /\ Op.EXIT = 0 /\ Op.LIT = 1 /\ Op.LTZ = 2 /\ Op.COL = 3 /\ Op.SEMICOL = 4 /\ Op.ADD = 5
  /\ Op.SUB = 6 /\ Op.MUL = 7 /\ Op.DIV = 8 /\ Op.MOD = 9 /\ Op.DROP = 10 /\ Op.DUP = 11
  /\ Op.PICKR = 12 /\ Op.IMMEDIATE = 13 /\ Op.PEEK = 14 /\ Op.POKE = 15 /\ Op.SWAP = 16 /\ Op.ROT = 17
  /\ Op.JMP = 18 /\ Op.JMP0 = 19 /\ Op.TICK = 20 /\ Op.COMMENT = 21 /\ Op.PUSHR = 22 /\ Op.POPR = 23
  /\ Op.EQUAL = 24 /\ Op.SYS = 25 /\ Op.PICKD = 26 /\ Op.COMMA = 27 /\ Op.KEY = 28 /\ Op.LITS = 29
  /\ Op.LEN = 30 /\ Op.AND = 31 /\ Op.RAW_PEEK = 32 /\ Op.RAW_POKE = 33
  /\ DOMAIN Pops = {2, 10, 11, 5, 6, 7, 8, 9, 16, 24, 31, 17} /\ PrimCount = 34
BY DEF Op, Pops, OfOne, OfTwo, PrimCount

\* Every primitive stays in the arrays.
LEMMA DoPrimSafe ==
  ASSUME NEW m, Safe(m), NEW op \in 0 .. PrimCount, NEW in
  PROVE  Safe(DoPrim(op, m, in)) /\ Asks(op, m, DoPrim(op, m, in))
<1> DEFINE n == DoPrim(op, m, in)
<1>2. CASE op \in DOMAIN Pops
  <2>1. n = StackOp(op, m)
    BY <1>2, OpCodes DEF DoPrim
  <2> QED BY <1>2, <2>1, StackOpSafe DEF After, Asks
<1>3. CASE op \in {Op.PICKD, Op.PICKR, Op.PUSHR, Op.POPR}
  <2>1. n = StackMove(op, m)
    BY <1>3, OpCodes DEF DoPrim
  <2> QED BY <1>3, <2>1, StackMoveSafe DEF After, Asks
<1>4. CASE op \in {Op.EXIT, Op.LIT, Op.TICK, Op.JMP, Op.JMP0, Op.LITS}
  <2>1. n = ProgramOp(op, m)
    BY <1>4, OpCodes DEF DoPrim
  <2> QED BY <1>4, <2>1, ProgramOpSafe DEF After, Asks
<1>5. CASE op \in {Op.PEEK, Op.POKE, Op.LEN, Op.COMMA}
  <2>1. n = MemoryOp(op, m)
    BY <1>5, OpCodes DEF DoPrim
  <2> QED BY <1>5, <2>1, MemoryOpSafe DEF After, Asks
<1>6. CASE op \in {Op.COL, Op.KEY, Op.COMMENT}
  <2>1. n = InputOp(op, m, in)
    BY <1>6, OpCodes DEF DoPrim
  <2> QED BY <1>6, <2>1, InputOpSafe
<1>7. CASE op \in {Op.SEMICOL, Op.IMMEDIATE}
  <2>1. n = CompileOp(op, m)
    BY <1>7, OpCodes DEF DoPrim
  <2> QED BY <1>7, <2>1, CompileOpSafe DEF After, Asks
<1>8. CASE op = Op.SYS
  <2>1. n = SysCall(m)
    BY <1>8, OpCodes DEF DoPrim
  <2> QED BY <2>1, SysCallSafe DEF After, Asks
<1>9. CASE op \in {Op.RAW_PEEK, Op.RAW_POKE}
  <2>1. n = RawOp(op, m)
    BY <1>9, OpCodes DEF DoPrim
  <2> QED BY <1>9, <2>1, SysCallSafe DEF After, Asks
<1>10. CASE op = PrimCount
  <2>1. n = Fail(m)
    BY <1>10, OpCodes DEF DoPrim
  <2> QED BY <2>1, SafeParts DEF After, Asks
<1>11. \/ op \in DOMAIN Pops
       \/ op \in {Op.PICKD, Op.PICKR, Op.PUSHR, Op.POPR}
       \/ op \in {Op.EXIT, Op.LIT, Op.TICK, Op.JMP, Op.JMP0, Op.LITS}
       \/ op \in {Op.PEEK, Op.POKE, Op.LEN, Op.COMMA}
       \/ op \in {Op.COL, Op.KEY, Op.COMMENT}
       \/ op \in {Op.SEMICOL, Op.IMMEDIATE}
       \/ op = Op.SYS
       \/ op \in {Op.RAW_PEEK, Op.RAW_POKE}
       \/ op = PrimCount
  BY OpCodes
<1> QED BY <1>2, <1>3, <1>4, <1>5, <1>6, <1>7, <1>8, <1>9, <1>10, <1>11

-----------------------------------------------------------------------------
(* The outer interpreter *)

\* Words compiled and numbers.
LEMMA WordsSafe ==
  ASSUME NEW m, Safe(m)
  PROVE  /\ \A p : After(m, AddPrim(m, p))
         /\ \A name, i : After(m, AddUserVar(m, name, i))
         /\ \A w : After(m, Compile(m, w))
         /\ \A name : After(m, Number(m, name))
<1>1. ASSUME NEW q, After(m, q), NEW v PROVE After(m, AddCell(q, v))
  BY <1>1, AddCellSafe DEF After
<1>2. ASSUME NEW p PROVE After(m, AddPrim(m, p))
  <2> DEFINE w == AddCell(AddCell(Create(m, p.name, PrimFlag), p.op), Op.EXIT)
  <2>1. After(m, w)
    BY <1>1, CreateSafe
  <2>2. AddPrim(m, p) = IF p.imm THEN MakeImmediate(w) ELSE w
    BY DEF AddPrim
  <2> HIDE DEF w
  <2> QED BY <2>1, <2>2, MakeImmediateSafe DEF After
<1>3. ASSUME NEW name, NEW i PROVE After(m, AddUserVar(m, name, i))
  BY <1>1, CreateSafe DEF AddUserVar, AddLit
<1>4. ASSUME NEW w PROVE After(m, Compile(m, w))
  <2> DEFINE c == CodeAt(m.dict, w)
             op == IF HasFlag(m.dict, w, PrimFlag) THEN Value(m.dict, c) ELSE c
             added == AddCell(m, op)
             compiled == IF added.ok THEN [added EXCEPT !.dict = SetVar(@, 4, 0)] ELSE added
  <2>1. Compile(m, w) \in {Fail(m), compiled}
    BY DEF Compile
  <2> HIDE DEF op
  <2>2. After(m, added)
    BY AddCellSafe
  <2> HIDE DEF added
  <2>3. After(added, [added EXCEPT !.dict = SetVar(@, 4, 0)])
    BY <2>2, SetVarSafe DEF After
  <2>4. After(m, compiled)
    BY <2>2, <2>3 DEF After
  <2>5. After(m, Fail(m))
    BY SafeParts
  <2> HIDE DEF compiled
  <2> QED BY <2>1, <2>4, <2>5
<1>5. ASSUME NEW name PROVE After(m, Number(m, name))
  <2>1. After(m, m) /\ After(m, Fail(m))
    BY SafeParts
  <2>2. After(m, Push(m, << Digits[name] >>))
    BY PushOneSafe
  <2>3. After(m, AddLit(m, Digits[name]))
    BY <1>1, <2>1 DEF AddLit
  <2> QED BY <2>1, <2>2, <2>3 DEF Number
<1> QED BY <1>2, <1>3, <1>4, <1>5

\* An abort leaves a machine that may go on.
LEMMA RecoverSafe ==
  ASSUME NEW m, Safe(m)
  PROVE  After(m, Recover(m)) /\ Recover(m).ok
<1> DEFINE d == SetVar(m.dict, 3, 0)
           r == Recover(m)
<1>1. DOMAIN d = Address
  BY VarInside DEF Safe
<1>2. IsStack(<< >>, DStackSize) /\ IsStack(<< >>, RStackSize)
  BY StackFacts, StackSizesAssumption
<1>3. r = [m EXCEPT !.dict = d, !.data = << >>, !.ret = << >>, !.ok = TRUE]
  BY DEF Recover
<1>4. /\ DOMAIN r = {"dict", "data", "ret", "ip", "ask", "ok"}
      /\ r.dict = d /\ r.data = << >> /\ r.ret = << >> /\ r.ok = TRUE /\ r.ask = m.ask
  <2> HIDE DEF d, r
  <2> QED BY <1>3 DEF Safe
<1> HIDE DEF d, r
<1> QED BY <1>1, <1>2, <1>4, Zenon DEF After, Safe, r

\* zf_eval goes on with a machine that is not failing, and nothing else has happened to it.
LEMMA ProceedSafe ==
  ASSUME NEW m, Safe(m), Proceed(m)
  PROVE  /\ Safe(vm') /\ vm'.ok /\ vm'.ask = m.ask
         /\ m.ok => vm' = m
         /\ control' \in {"idle", "eval"}
<1>1. vm' = IF m.ok THEN m ELSE Recover(m)
  BY DEF Proceed
<1>2. control' \in {"idle", "eval"}
  BY DEF Proceed
<1> QED BY <1>1, <1>2, RecoverSafe DEF After

-----------------------------------------------------------------------------
(* The steps *)

\* The invariant, step by step.
LEMMA AskInit == Init => AskIInv
<1> SUFFICES ASSUME Init PROVE AskIInv
  OBVIOUS
<1> DEFINE z == [a \in Address |-> 0]
           d == SetVar(z, 0, 4 * Len(UserVars))
<1>1. DOMAIN z = Address
  OBVIOUS
<1> HIDE DEF z
<1>2. DOMAIN d = Address
  BY <1>1, VarInside
<1>3. vm = Machine(d)
  BY DEF Init, Initial, z
<1> HIDE DEF d
<1>4. /\ DOMAIN vm = {"dict", "data", "ret", "ip", "ask", "ok"} /\ vm.ok = TRUE
      /\ vm.dict = d /\ vm.data = << >> /\ vm.ret = << >> /\ vm.ask = "none"
  BY <1>3 DEF Machine
<1>5. IsStack(<< >>, DStackSize) /\ IsStack(<< >>, RStackSize)
  BY StackFacts, StackSizesAssumption
<1>6. Safe(vm)
  BY <1>2, <1>4, <1>5, Zenon DEF Safe
<1>7. AskerWaits
  BY <1>4 DEF AskerWaits
<1>8. word = None /\ control = "boot"
  BY DEF Init
<1> QED BY <1>4, <1>6, <1>7, <1>8 DEF AskIInv

\* What a step shows when it leaves nothing awaited, or the machine as it is.
LEMMA AskQuiet ==
  ASSUME Safe(vm'), vm'.ask = "none", vm'.ok, control' # "boot"
  PROVE  AskIInv'
BY DEF AskIInv, AskerWaits

\* A step that changes nothing.
LEMMA AskSame ==
  ASSUME AskIInv, vm' = vm, vm.ok, control' \in {"idle", "eval"}
  PROVE  AskIInv'
BY DEF AskIInv, AskerWaits

\* A turn of zf_bootstrap.
LEMMA AskBootstrap == AskIInv /\ Bootstrap => AskIInv'
<1> SUFFICES ASSUME AskIInv, Bootstrap PROVE AskIInv'
  OBVIOUS
<1>1. Safe(vm) /\ vm.ask = "none" /\ word = None
  BY DEF AskIInv, Bootstrap
<1>2. After(vm, vm')
  <2> DEFINE p == Prims[pos]
             u == UserVars[pos - Len(Prims)]
             i == pos - Len(Prims) - 1
  <2>1. vm' = AddPrim(vm, p) \/ vm' = AddUserVar(vm, u, i)
    BY DEF Bootstrap
  <2> HIDE DEF p, u, i
  <2> QED BY <1>1, <2>1, WordsSafe
<1>3. Safe(vm') /\ vm'.ask = "none" /\ word' = None /\ control' \in {"boot", "idle"}
  BY <1>1, <1>2 DEF After, Bootstrap
<1>4. AskerWaits'
  BY <1>3 DEF AskerWaits
<1> QED BY <1>3, <1>4 DEF AskIInv

\* A line typed.
LEMMA AskTypeLine == AskIInv /\ TypeLine => AskIInv'
BY DEF AskIInv, TypeLine, AskerWaits

\* handle_word, with the input handed to the primitive that asked.
LEMMA AskHandleWord ==
  ASSUME AskIInv, control = "eval", vm.ask # "char", vm.ok, NEW name, HandleWord(name)
  PROVE  AskIInv'
<1> DEFINE w == FindWord(vm.dict, name)
           d == vm.dict
<1>1. Safe(vm) /\ vm.ask \in {"none", "word"}
  BY DEF AskIInv
<1>2. CASE vm.ask = "word"
  <2>1. Run([vm EXCEPT !.ask = "none"], name)
    BY <1>2 DEF HandleWord
  <2>2. vm' = [vm EXCEPT !.ask = "none"] /\ control' = "run"
    BY <2>1 DEF Run
  <2>3. Safe(vm') /\ vm'.ask = "none" /\ vm'.ok
    BY <1>1, <2>2, SafeParts DEF Safe
  <2> QED BY <2>2, <2>3, AskQuiet
<1>3. CASE vm.ask = "none"
  <2>1. ASSUME NEW m, After(vm, m), Proceed(m)
        PROVE  AskIInv'
    <3>1. Safe(m) /\ m.ask = "none"
      BY <1>3, <2>1 DEF After
    <3>2. Safe(vm') /\ vm'.ask = "none" /\ vm'.ok /\ control' \in {"idle", "eval"}
      BY <2>1, <3>1, ProceedSafe
    <3> QED BY <3>2, AskQuiet
  <2>2. \/ Proceed(Fail(vm))
        \/ Proceed(Number(vm, name))
        \/ Proceed(Compile(vm, w))
        \/ control' = "run" /\ vm' = [vm EXCEPT !.ip = CodeAt(d, w), !.ret = << 0 >>]
    BY <1>3 DEF HandleWord
  <2> HIDE DEF w, d
  <2>3. CASE Proceed(Fail(vm))
    BY <1>1, <2>1, <2>3, SafeParts
  <2>4. CASE Proceed(Number(vm, name))
    BY <1>1, <2>1, <2>4, WordsSafe
  <2>5. CASE Proceed(Compile(vm, w))
    BY <1>1, <2>1, <2>5, WordsSafe
  <2>6. CASE control' = "run" /\ vm' = [vm EXCEPT !.ip = CodeAt(d, w), !.ret = << 0 >>]
    <3> DEFINE c == CodeAt(d, w)
               at == [vm EXCEPT !.ip = c]
    <3>1. vm' = [at EXCEPT !.ret = << 0 >>]
      BY <2>6
    <3> HIDE DEF c
    <3>2. After(vm, at)
      BY <1>1, SafeParts
    <3>3. at.ok = vm.ok
      BY <1>1 DEF Safe
    <3> HIDE DEF at
    <3>4. IsStack(<< 0 >>, RStackSize)
      BY StackFacts, StackSizesAssumption
    <3>5. After(at, vm') /\ vm'.ok = at.ok
      BY <3>1, <3>2, <3>4, SafeParts DEF After, Safe
    <3>6. Safe(vm') /\ vm'.ask = "none" /\ vm'.ok
      BY <1>3, <3>2, <3>3, <3>5 DEF After
    <3> QED BY <2>6, <3>6, AskQuiet
  <2> QED BY <2>2, <2>3, <2>4, <2>5, <2>6
<1> QED BY <1>1, <1>2, <1>3

\* handle_char.
LEMMA AskHandleChar == AskIInv /\ HandleChar => AskIInv'
<1> SUFFICES ASSUME AskIInv, HandleChar PROVE AskIInv'
  OBVIOUS
<1>1. Safe(vm) /\ control = "eval"
  BY DEF AskIInv, HandleChar
<1>2. CASE vm.ask = "char" /\ Run([vm EXCEPT !.ask = "none"], Char(pos))
  <2>1. vm' = [vm EXCEPT !.ask = "none"] /\ control' = "run"
    BY <1>2 DEF Run
  <2>2. Safe(vm') /\ vm'.ask = "none" /\ vm'.ok = vm.ok
    BY <1>1, <2>1, SafeParts DEF Safe
  <2>3. vm.ok
    BY <1>2 DEF AskIInv
  <2> QED BY <2>1, <2>2, <2>3, AskQuiet
<1>3. CASE Proceed(vm)
  <2>1. /\ Safe(vm') /\ vm'.ok /\ vm'.ask = vm.ask
        /\ vm.ok => vm' = vm
        /\ control' \in {"idle", "eval"}
    BY <1>1, <1>3, ProceedSafe
  <2>2. CASE vm.ok
    BY <2>1, <2>2, AskSame
  <2>3. CASE ~vm.ok
    <3>1. vm.ask = "none"
      BY <2>3 DEF AskIInv
    <3> QED BY <2>1, <3>1, AskQuiet
  <2> QED BY <2>2, <2>3
<1>4. CASE vm.ask # "char" /\ word # None /\ HandleWord(word)
  <2>1. vm.ok
    BY <1>4 DEF AskIInv
  <2> QED BY <1>1, <1>4, <2>1, AskHandleWord
<1> QED BY <1>2, <1>3, <1>4 DEF HandleChar

\* A turn of run.
LEMMA AskRunStep == AskIInv /\ RunStep => AskIInv'
<1> SUFFICES ASSUME AskIInv, RunStep PROVE AskIInv'
  OBVIOUS
<1> DEFINE code == Value(vm.dict, vm.ip)
           at == [vm EXCEPT !.ip = @ + Width(vm.dict, vm.ip)]
           called == PushR(at, at.ip)
           m == IF ~Readable(vm.dict, vm.ip) THEN Fail(vm)
                ELSE IF code \in 0 .. PrimCount THEN DoPrim(code, at, input)
                ELSE IF called.ok THEN [called EXCEPT !.ip = code] ELSE called
           sys == m.ok /\ code = Op.SYS /\ BootsBy(Top(vm, 1))
<1>1. Safe(vm) /\ vm.ask = "none" /\ vm.ok
  BY DEF AskIInv, RunStep
<1>2. at.dict = vm.dict /\ at.ok = vm.ok
  BY <1>1 DEF Safe
<1>3. (CASE sys -> control' = "booted" /\ vm' = m
         [] m.ok /\ m.ask # "none" -> Proceed(Suspend(m, vm.ip))
         [] m.ok /\ m.ask = "none" /\ m.ip # 0 -> vm' = m /\ control' = control
         [] OTHER -> Proceed(m))
  BY DEF RunStep
<1>4. After(vm, at)
  BY <1>1, SafeParts
<1> HIDE DEF at
<1>5. Safe(m) /\ (m.ask = "none" \/ Asks(code, at, m))
  <2>1. CASE ~Readable(vm.dict, vm.ip)
    BY <1>1, <2>1, SafeParts DEF After
  <2>2. CASE Readable(vm.dict, vm.ip) /\ code \in 0 .. PrimCount
    BY <1>4, <2>2, DoPrimSafe DEF After
  <2>3. CASE Readable(vm.dict, vm.ip) /\ code \notin 0 .. PrimCount
    <3>1. After(at, called)
      BY <1>4, PushRSafe DEF After
    <3>2. m = IF called.ok THEN [called EXCEPT !.ip = code] ELSE called
      BY <2>3
    <3> HIDE DEF called, m
    <3>3. After(called, [called EXCEPT !.ip = code])
      BY <3>1, SafeParts DEF After
    <3> QED BY <1>1, <1>4, <3>1, <3>2, <3>3 DEF After
  <2> QED BY <2>1, <2>2, <2>3
<1> HIDE DEF m, code
<1>6. CASE m.ask = "none"
  <2>1. \/ sys /\ control' = "booted" /\ vm' = m
        \/ m.ok /\ vm' = m /\ control' = control
        \/ Proceed(m)
    BY <1>3, <1>6
  <2>2. control = "run"
    BY DEF RunStep
  <2>3. Proceed(m) => Safe(vm') /\ vm'.ask = "none" /\ vm'.ok /\ control' \in {"idle", "eval"}
    BY <1>5, <1>6, ProceedSafe
  <2> QED BY <1>5, <1>6, <2>1, <2>2, <2>3, AskQuiet
<1>7. CASE m.ask # "none"
  <2>1. /\ m.dict = vm.dict /\ m.ok
        /\ \/ code = Op.COL /\ m.ask = "word"
           \/ code \in {Op.KEY, Op.COMMENT} /\ m.ask = "char"
    BY <1>1, <1>2, <1>4, <1>5, <1>7 DEF Asks, After
  <2>2. ~sys
    BY <2>1, OpCodes
  <2> DEFINE q == Suspend(m, vm.ip)
  <2>3. Proceed(q)
    BY <1>3, <1>7, <2>1, <2>2
  <2>4. After(m, q) /\ q.ip = vm.ip /\ q.dict = m.dict /\ q.ok = m.ok
    BY <1>5, SafeParts DEF Suspend, Safe
  <2> HIDE DEF q
  <2>5. vm' = q /\ Safe(vm') /\ vm'.ask = m.ask /\ vm'.ok /\ control' \in {"idle", "eval"}
    BY <2>1, <2>3, <2>4, ProceedSafe DEF After
  <2>6. Value(vm'.dict, vm'.ip) = code
    BY <2>1, <2>4, <2>5 DEF code
  <2>7. AskerWaits'
    BY <2>1, <2>5, <2>6 DEF AskerWaits
  <2> QED BY <2>1, <2>5, <2>7 DEF AskIInv
<1> QED BY <1>6, <1>7

\* The invariant holds.
LEMMA AskInvariant == Spec => []AskIInv
<1>1. Init => AskIInv
  BY AskInit
<1>2. AskIInv /\ [Next]_vars => AskIInv'
  <2> SUFFICES ASSUME AskIInv, [Next]_vars PROVE AskIInv'
    OBVIOUS
  <2>1. CASE UNCHANGED vars
    BY <2>1 DEF AskIInv, AskerWaits, vars
  <2> QED BY <2>1, AskBootstrap, AskTypeLine, AskHandleChar, AskRunStep DEF Next
<1> QED BY <1>1, <1>2, PTL DEF Spec

\* The interpreter stays in dict and in its two stacks, whatever has been typed and however the
\* words in the dictionary use the stacks: every store and every push is checked, also in a
\* definition that stops in the middle and at the boot.
THEOREM StaysInItsArrays == Spec => []StaysInMemory
<1>1. AskIInv => StaysInMemory
  BY DEF AskIInv, Safe, IsStack, StaysInMemory
<1> QED BY <1>1, AskInvariant, PTL

\* What is typed next goes to the primitive that asked for it: while run waits in zf_eval, ip is
\* at that ":", "key" or "(", across the characters of a name and from one line to the next.
THEOREM InputGoesToTheAsker == Spec => []AskerWaits
<1>1. AskIInv => AskerWaits
  BY DEF AskIInv
<1> QED BY <1>1, AskInvariant, PTL

-----------------------------------------------------------------------------
(* The bytes of a cell *)

\* What is put at a lies from a on, and nothing else changes.
LEMMA PutEffect ==
  ASSUME NEW d, DOMAIN d = Address, NEW a \in Nat, NEW bytes, Len(bytes) \in Nat,
         a + Len(bytes) <= DictSize
  PROVE  /\ \A j \in 1 .. Len(bytes) : PutBytes(d, a, bytes)[a + j - 1] = bytes[j]
         /\ \A i \in Address : i < a \/ i >= a + Len(bytes) => PutBytes(d, a, bytes)[i] = d[i]
<1> DEFINE places == a .. a + Len(bytes) - 1
           p == PutBytes(d, a, bytes)
<1>1. p = [i \in Address \cup places |-> IF i \in places THEN bytes[i - a + 1] ELSE d[i]]
  BY DEF PutBytes
<1> HIDE DEF p
<1>2. ASSUME NEW j \in 1 .. Len(bytes) PROVE p[a + j - 1] = bytes[j]
  <2>1. a + j - 1 \in places /\ (a + j - 1) - a + 1 = j
    OBVIOUS
  <2> HIDE DEF places
  <2> QED BY <1>1, <2>1
<1>3. ASSUME NEW i \in Address, i < a \/ i >= a + Len(bytes) PROVE p[i] = d[i]
  <2>1. i \notin places
    BY <1>3, DictSizeAssumption DEF Address
  <2> HIDE DEF places
  <2> QED BY <1>1, <2>1
<1> QED BY <1>2, <1>3 DEF p

\* A number and its last byte.
LEMMA LastByte ==
  ASSUME NEW v \in Nat
  PROVE  /\ v = 256 * (v \div 256) + (v % 256)
         /\ v \div 256 \in Nat /\ v % 256 \in 0 .. 255
OBVIOUS

\* The higher bytes of a cell.
LEMMA HighBytes ==
  ASSUME NEW q \in Nat, NEW r \in Nat
  PROVE  /\ r < 65536 => (65536 * q + r) \div 65536 = q
         /\ r < 16777216 => (16777216 * q + r) \div 16777216 = q
BY SMT

\* A raw cell reads as it was written.
LEMMA RawRoundTrip ==
  ASSUME NEW v \in Nat, v <= MaxCell
  PROVE  RawValue(Raw(v)[1], Raw(v)[2], Raw(v)[3], Raw(v)[4]) = v
<1> DEFINE q1 == v \div 256
           q2 == q1 \div 256
           q3 == q2 \div 256
           b0 == v % 256
           b1 == q1 % 256
           b2 == q2 % 256
           r2 == 256 * b1 + b0
           r3 == 65536 * b2 + r2
<1>1. v = 256 * q1 + b0 /\ q1 \in Nat /\ b0 \in 0 .. 255
  BY LastByte
<1>2. q1 = 256 * q2 + b1 /\ q2 \in Nat /\ b1 \in 0 .. 255
  <2> HIDE DEF q1
  <2> QED BY <1>1, LastByte
<1>3. q2 = 256 * q3 + b2 /\ q3 \in Nat /\ b2 \in 0 .. 255
  <2> HIDE DEF q2
  <2> QED BY <1>2, LastByte
<1> HIDE DEF q1, q2, q3, b0, b1, b2
<1>4. /\ v = 65536 * q2 + r2 /\ r2 < 65536 /\ r2 \in Nat
      /\ v = 16777216 * q3 + r3 /\ r3 < 16777216 /\ r3 \in Nat
  BY <1>1, <1>2, <1>3, SMT
<1>5. v \div 65536 = q2 /\ v \div 16777216 = q3
  <2> HIDE DEF r2, r3
  <2> QED BY <1>2, <1>3, <1>4, HighBytes
<1>6. q3 < 128
  BY <1>3, <1>4, SMT DEF MaxCell
<1>7. q3 % 256 = q3
  BY <1>3, <1>6
<1>8. Raw(v)[1] = b0 /\ Raw(v)[2] = b1 /\ Raw(v)[3] = b2 /\ Raw(v)[4] = q3
  <2>1. Raw(v) = << b0, b1, b2, q3 >>
    BY <1>5, <1>7, SMT DEF Raw, q1, b0, b1, b2
  <2> QED BY <2>1
<1>9. RawValue(b0, b1, b2, q3) = v
  BY <1>1, <1>2, <1>3, <1>4, <1>6, SMT DEF RawValue
<1> QED BY <1>8, <1>9

\* Setting a user variable.
VarSet(d, e, i, v) ==
  /\ DOMAIN e = Address
  /\ \A k \in Address : k < 4 * i \/ k >= 4 * i + 4 => e[k] = d[k]
  /\ \A j \in 0 .. 4 : j # i => Var(e, j) = Var(d, j)
  /\ v \in Nat /\ v <= MaxCell => Var(e, i) = v

LEMMA SetVarEffect ==
  ASSUME NEW d, DOMAIN d = Address, NEW i \in 0 .. 4, NEW v
  PROVE  VarSet(d, SetVar(d, i, v), i, v)
<1> DEFINE s == SetVar(d, i, v)
           r == Raw(v)
           a == 4 * i
<1>1. DOMAIN s = Address
  BY VarInside
<1>2. Len(r) = 4
  <2>1. \A w, x, y, z : Len(<<w, x, y, z>>) = 4
    OBVIOUS
  <2> QED BY <2>1 DEF Raw
<1>3. s = PutBytes(d, a, r)
  BY DEF SetVar
<1>4. a \in Nat /\ a + 4 <= DictSize
  BY DictSizeAssumption
<1> HIDE DEF s, r
<1>5. /\ \A j \in 1 .. 4 : s[a + j - 1] = r[j]
      /\ \A k \in Address : k < a \/ k >= a + 4 => s[k] = d[k]
  <2> HIDE DEF a
  <2>1. Len(r) \in Nat /\ a + Len(r) <= DictSize
    BY <1>2, <1>4
  <2>2. /\ \A j \in 1 .. Len(r) : PutBytes(d, a, r)[a + j - 1] = r[j]
        /\ \A k \in Address : k < a \/ k >= a + Len(r) => PutBytes(d, a, r)[k] = d[k]
    BY <1>4, <2>1, PutEffect
  <2> QED BY <1>2, <1>3, <2>2
<1>6. ASSUME NEW j \in 0 .. 4, j # i PROVE Var(s, j) = Var(d, j)
  <2>1. \A k \in 0 .. 3 : 4 * j + k \in Address /\ (4 * j + k < a \/ 4 * j + k >= a + 4)
    BY <1>6, DictSizeAssumption DEF Address
  <2>2. \A k \in 0 .. 3 : s[4 * j + k] = d[4 * j + k]
    <3> HIDE DEF a
    <3> QED BY <1>5, <2>1
  <2>3. /\ s[4 * j] = d[4 * j] /\ s[4 * j + 1] = d[4 * j + 1]
        /\ s[4 * j + 2] = d[4 * j + 2] /\ s[4 * j + 3] = d[4 * j + 3]
    BY <2>2
  <2> QED BY <2>3, Zenon DEF Var
<1>7. ASSUME v \in Nat, v <= MaxCell PROVE Var(s, i) = v
  <2>1. s[a] = r[1] /\ s[a + 1] = r[2] /\ s[a + 2] = r[3] /\ s[a + 3] = r[4]
    BY <1>4, <1>5
  <2>2. Var(s, i) = RawValue(r[1], r[2], r[3], r[4])
    BY <2>1 DEF Var
  <2> QED BY <1>7, <2>2, RawRoundTrip DEF r
<1>8. VarSet(d, s, i, v)
  BY <1>1, <1>5, <1>6, <1>7 DEF VarSet
<1> QED BY <1>8 DEF s

\* LATEST is set.
LEMMA SetLatestEffect ==
  ASSUME NEW d, DOMAIN d = Address, NEW v \in Nat, v <= MaxCell
  PROVE  LET e == SetVar(d, 1, v) IN
         /\ DOMAIN e = Address
         /\ \A a \in 20 .. DictSize - 1 : e[a] = d[a]
         /\ Var(e, 0) = Var(d, 0)
         /\ Var(e, 1) = v
<1> DEFINE i == 1
           e == SetVar(d, i, v)
<1>1. i \in 0 .. 4 /\ 0 \in 0 .. 4 /\ 0 # i
  OBVIOUS
<1>2. \A a \in 20 .. DictSize - 1 : a \in Address /\ a >= 4 * i + 4
  BY DictSizeAssumption DEF Address
<1> HIDE DEF i
<1>3. VarSet(d, e, i, v)
  BY <1>1, SetVarEffect
<1> HIDE DEF e
<1>4. \A a \in 20 .. DictSize - 1 : e[a] = d[a]
  BY <1>2, <1>3 DEF VarSet
<1>5. Var(e, 0) = Var(d, 0) /\ Var(e, i) = v
  BY <1>1, <1>3 DEF VarSet
<1>6. DOMAIN e = Address
  BY <1>3 DEF VarSet
<1> QED BY <1>4, <1>5, <1>6 DEF e, i

\* The encoding of a cell that is not negative, by the number of its bytes.
LEMMA EncodeCases ==
  ASSUME NEW v \in Nat
  PROVE  /\ v < 128 => Encode(v) = << v >>
         /\ ~(v < 128) /\ v < 16384 => Encode(v) = << (v \div 256) + 128, v % 256 >>
         /\ ~(v < 128) /\ ~(v < 16384) => Encode(v) = << 255 >> \o Raw(v)
<1>1. v >= 0
  OBVIOUS
<1> QED BY <1>1, SMT DEF Encode

\* A cell in one, two or five bytes reads as it was written.
LEMMA CellRoundTrip ==
  ASSUME NEW v \in Nat, v <= MaxCell, NEW d, NEW a \in Nat,
         \A j \in 1 .. Len(Encode(v)) : d[a + j - 1] = Encode(v)[j]
  PROVE  /\ Value(d, a) = v /\ Width(d, a) = Len(Encode(v))
         /\ d[a] = 255 => Width(d, a) = 5
<1>1. CASE v < 128
  <2>1. Encode(v) = << v >>
    BY <1>1, EncodeCases
  <2>2. Len(<< v >>) = 1 /\ << v >>[1] = v
    OBVIOUS
  <2>3. d[a] = v
    BY <2>1, <2>2
  <2> QED BY <1>1, <2>1, <2>2, <2>3 DEF Value, Width
<1>2. CASE ~(v < 128) /\ v < 16384
  <2> DEFINE q == v \div 256
             r == v % 256
  <2>1. Encode(v) = << q + 128, r >>
    BY <1>2, EncodeCases
  <2>2. v = 256 * q + r /\ q \in Nat /\ r \in 0 .. 255
    BY LastByte
  <2> HIDE DEF q, r
  <2>3. q < 64
    BY <1>2, <2>2
  <2>4. Len(<< q + 128, r >>) = 2 /\ << q + 128, r >>[1] = q + 128 /\ << q + 128, r >>[2] = r
    OBVIOUS
  <2>5. d[a] = q + 128 /\ d[a + 1] = r
    BY <2>1, <2>4
  <2>6. (q + 128) % 64 = q
    BY <2>2, <2>3
  <2>7. Value(d, a) = q * 256 + r
    BY <2>2, <2>3, <2>5, <2>6 DEF Value
  <2>8. Width(d, a) = 2
    BY <2>2, <2>3, <2>5 DEF Width
  <2> QED BY <2>1, <2>2, <2>3, <2>4, <2>5, <2>7, <2>8
<1>3. CASE ~(v < 128) /\ ~(v < 16384)
  <2> DEFINE r == Raw(v)
             e == << 255 >> \o r
  <2>1. Encode(v) = e
    BY <1>3, EncodeCases
  <2>2. Len(e) = 5 /\ e[1] = 255 /\ e[2] = r[1] /\ e[3] = r[2] /\ e[4] = r[3] /\ e[5] = r[4]
    <3>1. \A w, x, y, z : LET t == << w, x, y, z >>  u == << 255 >> \o t
          IN  Len(u) = 5 /\ u[1] = 255 /\ u[2] = t[1] /\ u[3] = t[2] /\ u[4] = t[3] /\ u[5] = t[4]
      OBVIOUS
    <3>2. \E w, x, y, z : r = << w, x, y, z >>
      <4> DEFINE w == v % 256
                 x == (v \div 256) % 256
                 y == (v \div 65536) % 256
                 z == (v \div 16777216) % 256
      <4>1. r = << w, x, y, z >>
        BY SMT DEF Raw
      <4> HIDE DEF r, w, x, y, z
      <4> QED BY <4>1
    <3> HIDE DEF r
    <3> QED BY <3>1, <3>2
  <2> HIDE DEF e
  <2>3. /\ d[a] = 255 /\ d[a + 1] = r[1] /\ d[a + 2] = r[2] /\ d[a + 3] = r[3]
        /\ d[a + 4] = r[4]
    <3> HIDE DEF r
    <3> QED BY <2>1, <2>2
  <2>4. Value(d, a) = RawValue(r[1], r[2], r[3], r[4])
    <3> HIDE DEF r
    <3> QED BY <2>3 DEF Value
  <2>5. Width(d, a) = 5
    BY <2>3 DEF Width
  <2> QED BY <2>1, <2>2, <2>4, <2>5, RawRoundTrip
<1> QED BY <1>1, <1>2, <1>3

-----------------------------------------------------------------------------
(* What an operation does to the dictionary *)

\* HERE is behind the user variables and in dict.
Roomy(d) == DOMAIN d = Address /\ Here(d) \in 20 .. DictSize - 1

\* e is d with bytes added at HERE, or with other user variables than HERE and LATEST.
Grows(d, e) ==
  /\ Roomy(d) /\ Roomy(e)
  /\ Here(d) <= Here(e)
  /\ Latest(e) = Latest(d)
  /\ \A i \in 20 .. Here(d) - 1 : e[i] = d[i]

\* What grows and grows has grown.
LEMMA GrowsPreorder ==
  /\ \A d : Roomy(d) => Grows(d, d)
  /\ \A d, e, f : Grows(d, e) /\ Grows(e, f) => Grows(d, f)
<1>1. \A d : Roomy(d) => Grows(d, d)
  BY DictSizeAssumption DEF Grows, Roomy
<1>2. ASSUME NEW d, NEW e, NEW f, Grows(d, e), Grows(e, f)
      PROVE  Grows(d, f)
  <2>1. Here(d) \in Int /\ Here(e) \in Int /\ Here(f) \in Int
    BY <1>2, DictSizeAssumption DEF Grows, Roomy
  <2>2. ASSUME NEW i \in 20 .. Here(d) - 1 PROVE f[i] = d[i]
    BY <1>2, <2>1 DEF Grows
  <2>3. Here(d) <= Here(f)
    BY <1>2, <2>1 DEF Grows
  <2> QED BY <1>2, <2>2, <2>3 DEF Grows
<1> QED BY <1>1, <1>2

\* A user variable other than HERE and LATEST.
LEMMA SetVarGrows ==
  ASSUME NEW d, Roomy(d), NEW i \in 2 .. 4, NEW v
  PROVE  Grows(d, SetVar(d, i, v)) /\ Here(SetVar(d, i, v)) = Here(d)
<1> DEFINE e == SetVar(d, i, v)
<1>0. DOMAIN d = Address /\ Here(d) \in 20 .. DictSize - 1
  BY DEF Roomy
<1>1. /\ DOMAIN e = Address
      /\ \A k \in Address : k >= 20 => e[k] = d[k]
      /\ Here(e) = Here(d) /\ Latest(e) = Latest(d)
  <2>1. /\ DOMAIN e = Address
        /\ \A k \in Address : k < 4 * i \/ k >= 4 * i + 4 => e[k] = d[k]
        /\ \A j \in 0 .. 4 : j # i => Var(e, j) = Var(d, j)
    <3>1. i \in 0 .. 4
      OBVIOUS
    <3>2. VarSet(d, e, i, v)
      BY <1>0, <3>1, SetVarEffect
    <3> HIDE DEF e
    <3> QED BY <3>2 DEF VarSet
  <2> HIDE DEF e
  <2>2. \A k \in Address : k >= 20 => k >= 4 * i + 4
    BY DictSizeAssumption DEF Address
  <2> QED BY <2>1, <2>2 DEF Here, Latest
<1> HIDE DEF e
<1>2. \A k \in 20 .. Here(d) - 1 : k \in Address /\ k >= 20
  BY <1>0, DictSizeAssumption DEF Address
<1>3. Grows(d, e)
  BY <1>0, <1>1, <1>2, DictSizeAssumption DEF Grows, Roomy
<1> QED BY <1>1, <1>3 DEF e

\* Bytes put at HERE or behind it.
LEMMA PutGrows ==
  ASSUME NEW d, Roomy(d), NEW a \in Nat, Here(d) <= a, NEW bytes, Len(bytes) \in Nat,
         a + Len(bytes) <= DictSize
  PROVE  LET e == PutBytes(d, a, bytes) IN
         /\ Grows(d, e) /\ Here(e) = Here(d)
         /\ \A i \in 0 .. 4 : Var(e, i) = Var(d, i)
         /\ \A i \in Address : i < a => e[i] = d[i]
         /\ \A j \in 1 .. Len(bytes) : e[a + j - 1] = bytes[j]
<1> DEFINE e == PutBytes(d, a, bytes)
<1>0. DOMAIN d = Address /\ Here(d) \in 20 .. DictSize - 1
  BY DEF Roomy
<1>1. DOMAIN e = Address
  BY <1>0, PutInside
<1>2. /\ \A i \in Address : i < a => e[i] = d[i]
      /\ \A j \in 1 .. Len(bytes) : e[a + j - 1] = bytes[j]
  BY <1>0, PutEffect
<1> HIDE DEF e
<1>3. ASSUME NEW i \in 0 .. 4 PROVE Var(e, i) = Var(d, i)
  <2>1. \A k \in 0 .. 3 : 4 * i + k \in Address /\ 4 * i + k < a
    BY <1>0, DictSizeAssumption DEF Address
  <2>2. \A k \in 0 .. 3 : e[4 * i + k] = d[4 * i + k]
    BY <1>2, <2>1
  <2>3. /\ e[4 * i] = d[4 * i] /\ e[4 * i + 1] = d[4 * i + 1]
        /\ e[4 * i + 2] = d[4 * i + 2] /\ e[4 * i + 3] = d[4 * i + 3]
    BY <2>2
  <2> QED BY <2>3, Zenon DEF Var
<1>4. Here(e) = Here(d) /\ Latest(e) = Latest(d)
  BY <1>3 DEF Here, Latest
<1>5. \A k \in 20 .. Here(d) - 1 : k \in Address /\ k < a
  BY <1>0, DictSizeAssumption DEF Address
<1>6. Grows(d, e)
  BY <1>0, <1>1, <1>2, <1>4, <1>5, DictSizeAssumption DEF Grows, Roomy
<1> QED BY <1>2, <1>3, <1>4, <1>6 DEF e

\* HERE goes up.
LEMMA SetHereGrows ==
  ASSUME NEW d, Roomy(d), NEW x \in Here(d) .. DictSize - 1
  PROVE  LET e == SetVar(d, 0, x) IN
         /\ Grows(d, e) /\ Here(e) = x
         /\ \A k \in Address : k >= 20 => e[k] = d[k]
<1> DEFINE e == SetVar(d, 0, x)
<1>0. DOMAIN d = Address /\ Here(d) \in 20 .. DictSize - 1
  BY DEF Roomy
<1>1. x \in Nat /\ x <= MaxCell
  <2>1. MaxCell \in Nat
    BY SMT DEF MaxCell
  <2> QED BY <1>0, <2>1, DictSizeAssumption
<1>2. /\ DOMAIN e = Address
      /\ \A k \in Address : k < 4 * 0 \/ k >= 4 * 0 + 4 => e[k] = d[k]
      /\ \A j \in 0 .. 4 : j # 0 => Var(e, j) = Var(d, j)
      /\ Var(e, 0) = x
  <2>1. VarSet(d, e, 0, x)
    BY <1>0, SetVarEffect
  <2> HIDE DEF e
  <2> QED BY <1>1, <2>1 DEF VarSet
<1> HIDE DEF e
<1>3. Here(e) = x /\ Latest(e) = Latest(d)
  BY <1>2 DEF Here, Latest
<1>4. \A k \in Address : k >= 20 => e[k] = d[k]
  BY <1>2, DictSizeAssumption DEF Address
<1>5. \A k \in 20 .. Here(d) - 1 : k \in Address /\ k >= 20
  BY <1>0, DictSizeAssumption DEF Address
<1>6. Grows(d, e)
  BY <1>0, <1>2, <1>3, <1>4, <1>5, DictSizeAssumption DEF Grows, Roomy
<1> QED BY <1>3, <1>4, <1>6 DEF e

\* A cell put at HERE is there, or does not fit and may have left one byte.
LEMMA PutCellGrows ==
  ASSUME NEW m, Safe(m), Roomy(m.dict), NEW v
  PROVE  LET n == PutCell(m, Here(m.dict), v)
             h == Here(m.dict)
         IN  /\ Grows(m.dict, n.dict) /\ Here(n.dict) = h
             /\ n.ok => /\ m.ok /\ h + Len(Encode(v)) <= DictSize - 1
                        /\ \A j \in 1 .. Len(Encode(v)) : n.dict[h + j - 1] = Encode(v)[j]
<1> DEFINE h == Here(m.dict)
           e == Encode(v)
           n == PutCell(m, h, v)
<1>0. Len(e) \in {1, 2, 5}
  BY EncodedLength
<1>1. h \in Nat /\ h \in 20 .. DictSize - 1
  BY DictSizeAssumption DEF Roomy
<1>2. DOMAIN m = {"dict", "data", "ret", "ip", "ask", "ok"} /\ m.ok \in BOOLEAN
  BY DEF Safe
<1>3. n = IF ~m.ok THEN m
          ELSE IF Fits(h, Len(e)) THEN [m EXCEPT !.dict = PutBytes(@, h, e)]
          ELSE Fail([m EXCEPT !.dict = IF Len(e) = 5 /\ Fits(h, 1) THEN PutBytes(@, h, << 255 >>)
                                       ELSE @])
  BY DEF PutCell
<1> HIDE DEF n, e, h
<1>4. CASE ~m.ok
  <2>1. n = m
    BY <1>3, <1>4
  <2>2. Grows(m.dict, m.dict)
    BY GrowsPreorder
  <2> QED BY <1>4, <2>1, <2>2 DEF n, e, h
<1>5. CASE m.ok /\ Fits(h, Len(e))
  <2> DEFINE f == PutBytes(m.dict, h, e)
  <2>1. n = [m EXCEPT !.dict = f]
    BY <1>3, <1>5
  <2>2. h + Len(e) <= DictSize - 1
    BY <1>0, <1>1, <1>5, DictSizeAssumption DEF Fits
  <2>3. Grows(m.dict, f) /\ Here(f) = Here(m.dict) /\ \A j \in 1 .. Len(e) : f[h + j - 1] = e[j]
    <3>1. Len(e) \in Nat /\ h + Len(e) <= DictSize /\ Here(m.dict) <= h
      BY <1>0, <1>1, <2>2, DictSizeAssumption DEF h
    <3> HIDE DEF f
    <3> QED BY <1>1, <3>1, PutGrows DEF f
  <2> HIDE DEF f
  <2>4. n.dict = f
    BY <1>2, <2>1
  <2> QED BY <1>5, <2>2, <2>3, <2>4 DEF n, e, h
<1>6. CASE m.ok /\ ~Fits(h, Len(e))
  <2> DEFINE f == IF Len(e) = 5 /\ Fits(h, 1) THEN PutBytes(m.dict, h, << 255 >>) ELSE m.dict
  <2>1. n = Fail([m EXCEPT !.dict = f])
    BY <1>3, <1>6
  <2>2. Grows(m.dict, f) /\ Here(f) = Here(m.dict)
    <3>1. CASE Len(e) = 5 /\ Fits(h, 1)
      <4> DEFINE b == << 255 >>
      <4>1. Len(b) = 1
        OBVIOUS
      <4> HIDE DEF b
      <4>2. Len(b) \in Nat /\ h + Len(b) <= DictSize /\ Here(m.dict) <= h
        BY <1>1, <3>1, <4>1, DictSizeAssumption DEF Fits, h
      <4>3. f = PutBytes(m.dict, h, b)
        BY <3>1 DEF b
      <4> HIDE DEF f
      <4> QED BY <1>1, <4>2, <4>3, PutGrows
    <3>2. CASE ~(Len(e) = 5 /\ Fits(h, 1))
      BY <3>2, GrowsPreorder
    <3> QED BY <3>1, <3>2
  <2> HIDE DEF f
  <2>3. n.dict = f /\ ~n.ok
    BY <1>2, <2>1 DEF Fail
  <2> QED BY <2>2, <2>3 DEF n, e, h
<1> QED BY <1>2, <1>4, <1>5, <1>6

\* A cell is added at HERE.
LEMMA AddCellGrows ==
  ASSUME NEW m, Safe(m), Roomy(m.dict), NEW v
  PROVE  LET n == AddCell(m, v)
             h == Here(m.dict)
         IN  /\ Grows(m.dict, n.dict)
             /\ n.ok => /\ m.ok /\ Here(n.dict) = h + Len(Encode(v))
                        /\ \A j \in 1 .. Len(Encode(v)) : n.dict[h + j - 1] = Encode(v)[j]
<1> DEFINE h == Here(m.dict)
           e == Encode(v)
           p == PutCell(m, h, v)
           n == AddCell(m, v)
           x == Here(p.dict) + Len(e)
<1>0. Len(e) \in {1, 2, 5}
  BY EncodedLength
<1>1. /\ Grows(m.dict, p.dict) /\ Here(p.dict) = h
      /\ p.ok => /\ m.ok /\ h + Len(e) <= DictSize - 1
                 /\ \A j \in 1 .. Len(e) : p.dict[h + j - 1] = e[j]
  BY PutCellGrows
<1>2. Safe(p)
  BY PutCellSafe DEF After
<1>3. n = IF p.ok THEN [p EXCEPT !.dict = SetVar(@, 0, Here(@) + Len(e))] ELSE p
  BY DEF AddCell, Allot
<1> HIDE DEF n, e, h, p
<1>4. CASE ~p.ok
  BY <1>1, <1>3, <1>4 DEF n, e, h
<1>5. CASE p.ok
  <2> DEFINE f == SetVar(p.dict, 0, x)
  <2>1. n = [p EXCEPT !.dict = f]
    BY <1>3, <1>5
  <2>2. n.dict = f
    BY <1>2, <2>1 DEF Safe
  <2>3. Roomy(p.dict) /\ x = h + Len(e) /\ x \in Here(p.dict) .. DictSize - 1
    BY <1>0, <1>1, <1>5, DictSizeAssumption DEF Grows, Roomy
  <2>4. /\ Grows(p.dict, f) /\ Here(f) = x
        /\ \A k \in Address : k >= 20 => f[k] = p.dict[k]
    <3> HIDE DEF f, x
    <3> QED BY <2>3, SetHereGrows DEF f
  <2> HIDE DEF f
  <2>5. ASSUME NEW j \in 1 .. Len(e) PROVE f[h + j - 1] = e[j]
    <3>1. h + j - 1 \in Address /\ h + j - 1 >= 20
      BY <1>0, <1>1, <2>3, DictSizeAssumption DEF Address, Grows, Roomy
    <3> QED BY <1>1, <1>5, <2>4, <3>1
  <2>6. Grows(m.dict, f)
    BY <1>1, <2>4, GrowsPreorder
  <2> QED BY <1>1, <1>5, <2>2, <2>3, <2>4, <2>5, <2>6 DEF n, e, h
<1> QED BY <1>2, <1>4, <1>5 DEF Safe

\* A cell that fits is added.
LEMMA AddCellFits ==
  ASSUME NEW m, Safe(m), m.ok, NEW v, Fits(Here(m.dict), Len(Encode(v)))
  PROVE  AddCell(m, v).ok
<1> DEFINE d == PutBytes(m.dict, Here(m.dict), Encode(v))
           p == [m EXCEPT !.dict = d]
           e == SetVar(d, 0, Here(d) + Len(Encode(v)))
<1>1. PutCell(m, Here(m.dict), v) = p
  BY DEF PutCell
<1> HIDE DEF d
<1>2. p.ok /\ p.dict = d
  BY DEF Safe
<1>3. Allot(p, Len(Encode(v))) = [p EXCEPT !.dict = e]
  BY <1>2 DEF Allot
<1> HIDE DEF e
<1>4. [p EXCEPT !.dict = e].ok
  BY <1>2 DEF Safe
<1> QED BY <1>1, <1>3, <1>4 DEF AddCell

-----------------------------------------------------------------------------
(* Headers *)

\* A readable header at w, of a name of one character, that ends below HERE.
Header(d, w) ==
  /\ w \in 20 .. Here(d) - 1
  /\ d[w] \in {1, 33, 65, 97}
  /\ Readable(d, w) /\ Readable(d, w + 1)
  /\ CodeAt(d, w) <= Here(d)

\* e is d with a new word at HERE, linked to the one that was the last.
New(d, e) ==
  /\ Roomy(d) /\ Roomy(e)
  /\ Here(d) < Here(e)
  /\ Latest(e) = Here(d)
  /\ Header(e, Here(d)) /\ Link(e, Here(d)) = Latest(d)
  /\ \A i \in 20 .. Here(d) - 1 : e[i] = d[i]

\* A cell has one, two or five bytes.
LEMMA Widths == \A d, a : Width(d, a) \in {1, 2, 5}
<1>1. \A p, q : (IF p THEN 1 ELSE IF q THEN 2 ELSE 5) \in {1, 2, 5}
  OBVIOUS
<1> QED BY <1>1 DEF Width

\* The parts of a header, by the place of its link.
LEMMA HeaderParts ==
  ASSUME NEW d, NEW w \in Nat, d[w] \in {1, 33, 65, 97}
  PROVE  /\ Flags(d, w) = d[w] /\ Width(d, w) = 1 /\ LinkAt(d, w) = w + 1
         /\ Link(d, w) = Value(d, w + 1)
         /\ Width(d, w + 1) \in {1, 2, 5}
         /\ NameAt(d, w) = w + 1 + Width(d, w + 1)
         /\ CodeAt(d, w) = w + 2 + Width(d, w + 1)
<1>1. Flags(d, w) = d[w] /\ Width(d, w) = 1 /\ d[w] % 32 = 1
  <2>1. d[w] < 128
    OBVIOUS
  <2>2. Value(d, w) = d[w] /\ Width(d, w) = 1
    BY <2>1, Zenon DEF Value, Width
  <2>3. d[w] % 32 = 1
    <3>1. 1 % 32 = 1 /\ 33 % 32 = 1 /\ 65 % 32 = 1 /\ 97 % 32 = 1
      OBVIOUS
    <3> QED BY <3>1
  <2> QED BY <2>2, <2>3 DEF Flags
<1>2. LinkAt(d, w) = w + 1
  BY <1>1 DEF LinkAt
<1>3. Link(d, w) = Value(d, w + 1)
  BY <1>2 DEF Link
<1>4. Width(d, w + 1) \in {1, 2, 5}
  BY Widths
<1>5. NameAt(d, w) = w + 1 + Width(d, w + 1)
  BY <1>2 DEF NameAt
<1>6. CodeAt(d, w) = w + 2 + Width(d, w + 1)
  <2> DEFINE x == Width(d, w + 1)
  <2>1. CodeAt(d, w) = (w + 1 + x) + 1
    BY <1>1, <1>5 DEF CodeAt
  <2> HIDE DEF x
  <2> QED BY <1>4, <2>1 DEF x
<1> QED BY <1>1, <1>2, <1>3, <1>4, <1>5, <1>6

\* create: a new word, or not enough room and the words there were.
LEMMA CreateEffect ==
  ASSUME NEW m, Safe(m), Roomy(m.dict), Latest(m.dict) \in 0 .. DictSize - 1,
         NEW name, NEW flags \in {0, 32}
  PROVE  LET n == Create(m, name, flags) IN
         /\ n.ok => m.ok /\ New(m.dict, n.dict)
         /\ ~n.ok => Grows(m.dict, n.dict)
<1> DEFINE h == Here(m.dict)
           l == Latest(m.dict)
           a == AddCell(m, 1 + flags)
           b == AddCell(a, l)
           g == Here(b.dict)
           q == PutBytes(b.dict, g, << name >>)
           c == IF b.ok /\ Fits(g, 1) THEN Allot([b EXCEPT !.dict = q], 1) ELSE Fail(b)
           n == Create(m, name, flags)
           k == Len(Encode(l))
<1>1. n = IF c.ok THEN [c EXCEPT !.dict = SetVar(@, 1, h)] ELSE c
  BY DEF Create
<1>2. Len(Encode(1 + flags)) = 1 /\ Encode(1 + flags)[1] = 1 + flags
  <2>1. 1 + flags \in Nat /\ 1 + flags < 128
    OBVIOUS
  <2> DEFINE f == 1 + flags
  <2> HIDE DEF f
  <2>2. Encode(f) = << f >>
    BY <2>1, EncodeCases DEF f
  <2>3. Len(<< f >>) = 1 /\ << f >>[1] = f
    OBVIOUS
  <2> QED BY <2>2, <2>3 DEF f
<1>3. k \in {1, 2, 5}
  BY EncodedLength
<1>4. /\ Grows(m.dict, a.dict) /\ Safe(a)
      /\ a.ok => m.ok /\ Here(a.dict) = h + 1 /\ a.dict[h] = 1 + flags
  <2>1. /\ Grows(m.dict, a.dict)
        /\ a.ok => /\ m.ok /\ Here(a.dict) = h + Len(Encode(1 + flags))
                   /\ \A j \in 1 .. Len(Encode(1 + flags)) : a.dict[h + j - 1] = Encode(1 + flags)[j]
    BY AddCellGrows
  <2>2. Safe(a)
    BY AddCellSafe DEF After
  <2>3. h \in Int /\ 1 \in 1 .. 1 /\ h + 1 - 1 = h
    BY DictSizeAssumption DEF Roomy
  <2> HIDE DEF a, h
  <2> QED BY <1>2, <2>1, <2>2, <2>3
<1> HIDE DEF a
<1>5. /\ Grows(a.dict, b.dict) /\ Safe(b)
      /\ b.ok => /\ a.ok /\ g = Here(a.dict) + k
                 /\ \A j \in 1 .. k : b.dict[Here(a.dict) + j - 1] = Encode(l)[j]
  <2>1. Roomy(a.dict)
    BY <1>4 DEF Grows
  <2> HIDE DEF l
  <2>2. Safe(b)
    BY <1>4, AddCellSafe DEF After
  <2> QED BY <1>4, <2>1, <2>2, AddCellGrows
<1> HIDE DEF b
<1>6. /\ Grows(b.dict, c.dict) /\ Safe(c)
      /\ c.ok => b.ok /\ Here(c.dict) = g + 1 /\ g + 1 <= DictSize - 1
  <2>0. Roomy(b.dict) /\ g \in 20 .. DictSize - 1 /\ DOMAIN b.dict = Address
    BY <1>5 DEF Grows, Roomy
  <2>1. CASE b.ok /\ Fits(g, 1)
    <3> DEFINE p == [b EXCEPT !.dict = q]
               f == SetVar(q, 0, Here(q) + 1)
    <3>1. g + 1 <= DictSize - 1
      BY <2>0, <2>1, DictSizeAssumption DEF Fits
    <3>2. Grows(b.dict, q) /\ Here(q) = g
      <4> DEFINE y == << name >>
      <4>1. Len(y) = 1
        OBVIOUS
      <4> HIDE DEF y
      <4>2. Len(y) \in Nat /\ g + Len(y) <= DictSize /\ Here(b.dict) <= g /\ g \in Nat
        BY <2>0, <3>1, <4>1, DictSizeAssumption
      <4>3. q = PutBytes(b.dict, g, y)
        BY DEF y
      <4> HIDE DEF q
      <4> QED BY <2>0, <4>2, <4>3, PutGrows
    <3>3. After(b, p)
      BY <1>5, <2>1, PutByteSafe
    <3> HIDE DEF q
    <3>4. p.ok /\ p.dict = q
      BY <1>5, <2>1 DEF Safe
    <3>5. c = [p EXCEPT !.dict = f]
      BY <2>1, <3>4 DEF Allot
    <3> HIDE DEF p
    <3>6. Safe(c) /\ c.dict = f
      <4>1. After(p, [p EXCEPT !.dict = f])
        <5>1. DOMAIN f = Address
          BY <3>3, <3>4, VarInside DEF After, Safe
        <5> HIDE DEF f
        <5> QED BY <3>3, <5>1, SafeParts DEF After
      <4>2. [p EXCEPT !.dict = f].dict = f
        BY <3>3 DEF After, Safe
      <4> HIDE DEF f, c
      <4> QED BY <3>5, <4>1, <4>2 DEF After
    <3>7. Grows(q, f) /\ Here(f) = g + 1
      <4>1. Roomy(q) /\ Here(q) + 1 \in Here(q) .. DictSize - 1
        BY <2>0, <3>1, <3>2, DictSizeAssumption DEF Grows, Roomy
      <4> QED BY <3>2, <4>1, SetHereGrows
    <3> HIDE DEF f, c, g
    <3> QED BY <2>1, <3>1, <3>2, <3>6, <3>7, GrowsPreorder
  <2>2. CASE ~(b.ok /\ Fits(g, 1))
    <3>1. c = Fail(b)
      BY <2>2
    <3>2. After(b, Fail(b)) /\ ~Fail(b).ok
      BY <1>5, SafeParts
    <3>3. Fail(b).dict = b.dict
      BY <1>5 DEF Safe, Fail
    <3> HIDE DEF c
    <3>4. Grows(b.dict, c.dict)
      BY <2>0, <3>1, <3>3, GrowsPreorder
    <3> QED BY <3>1, <3>2, <3>4 DEF After
  <2> QED BY <2>1, <2>2
<1> HIDE DEF c
<1>7. Grows(m.dict, c.dict)
  BY <1>4, <1>5, <1>6, GrowsPreorder
<1>8. CASE ~c.ok
  BY <1>1, <1>7, <1>8
<1>9. CASE c.ok
  <2> DEFINE e == SetVar(c.dict, 1, h)
  <2>1. n.dict = e /\ n.ok
    BY <1>1, <1>6, <1>9 DEF Safe
  <2>2. h \in 20 .. DictSize - 1 /\ h \in Nat /\ h <= MaxCell
    <3>1. MaxCell \in Nat
      BY SMT DEF MaxCell
    <3> QED BY <3>1, DictSizeAssumption DEF Roomy
  <2>3. DOMAIN c.dict = Address
    BY <1>6 DEF Safe
  <2> HIDE DEF h
  <2>4. /\ DOMAIN e = Address
        /\ \A i \in 20 .. DictSize - 1 : e[i] = c.dict[i]
        /\ Var(e, 0) = Var(c.dict, 0)
        /\ Var(e, 1) = h
    BY <2>2, <2>3, SetLatestEffect
  <2> USE DEF h
  <2> HIDE DEF e, n
  <2>5. Latest(e) = h /\ Here(e) = Here(c.dict)
    BY <2>4 DEF Here, Latest
  <2>6. \A i \in Address : i >= 20 => e[i] = c.dict[i]
    BY <2>4, DictSizeAssumption DEF Address
  <2>7. Here(e) = h + k + 2 /\ h + k + 2 <= DictSize - 1 /\ Here(e) \in 20 .. DictSize - 1
    <3>1. g = h + 1 + k /\ Here(c.dict) = g + 1 /\ g + 1 <= DictSize - 1
      BY <1>4, <1>5, <1>6, <1>9
    <3> HIDE DEF h, g, k
    <3> QED BY <1>3, <2>2, <2>5, <3>1, DictSizeAssumption
  <2>8. e[h] = 1 + flags
    <3>1. a.dict[h] = 1 + flags /\ Here(a.dict) = h + 1 /\ g = h + 1 + k
      BY <1>4, <1>5, <1>6, <1>9
    <3>2. b.dict[h] = a.dict[h]
      <4>1. h \in 20 .. Here(a.dict) - 1
        BY <2>2, <3>1
      <4> QED BY <1>5, <4>1 DEF Grows
    <3>3. c.dict[h] = b.dict[h]
      <4>1. h \in 20 .. Here(b.dict) - 1
        BY <1>3, <2>2, <3>1
      <4> QED BY <1>6, <4>1 DEF Grows
    <3>4. h \in Address /\ h >= 20
      BY <2>2, DictSizeAssumption DEF Address
    <3> QED BY <2>6, <3>1, <3>2, <3>3, <3>4
  <2>9. \A j \in 1 .. k : e[h + 1 + j - 1] = Encode(l)[j]
    <3> SUFFICES ASSUME NEW j \in 1 .. k PROVE e[h + 1 + j - 1] = Encode(l)[j]
      OBVIOUS
    <3> DEFINE i == h + 1 + j - 1
    <3>1. Here(a.dict) = h + 1 /\ g = h + 1 + k
      BY <1>4, <1>5, <1>6, <1>9
    <3>2. b.dict[i] = Encode(l)[j]
      BY <1>5, <1>6, <1>9, <3>1
    <3>3. i \in 20 .. Here(b.dict) - 1 /\ i \in Address /\ i >= 20
      <4> HIDE DEF h, k
      <4> QED BY <1>3, <2>2, <2>7, <3>1, DictSizeAssumption DEF Address
    <3> HIDE DEF i
    <3>4. c.dict[i] = b.dict[i]
      BY <1>6, <3>3 DEF Grows
    <3> QED BY <2>6, <3>2, <3>3, <3>4 DEF i
  <2>10. /\ Value(e, h + 1) = l /\ Width(e, h + 1) = k
         /\ e[h + 1] = 255 => k = 5
    <3>1. l \in Nat /\ l <= MaxCell
      <4>1. MaxCell \in Nat
        BY SMT DEF MaxCell
      <4> QED BY <4>1, DictSizeAssumption
    <3> DEFINE i == h + 1
    <3>2. i \in Nat
      BY <2>2
    <3>3. \A j \in 1 .. Len(Encode(l)) : e[i + j - 1] = Encode(l)[j]
      BY <2>9
    <3> HIDE DEF i, l
    <3>4. /\ Value(e, i) = l /\ Width(e, i) = Len(Encode(l))
          /\ e[i] = 255 => Width(e, i) = 5
      BY <3>1, <3>2, <3>3, CellRoundTrip
    <3> QED BY <3>4 DEF i
  <2>11. e[h] \in {1, 33, 65, 97}
    BY <2>8
  <2>12. Link(e, h) = l /\ CodeAt(e, h) = Here(e)
    <3> HIDE DEF h, l, k
    <3>1. Link(e, h) = Value(e, h + 1) /\ CodeAt(e, h) = h + 2 + Width(e, h + 1)
      BY <2>2, <2>11, HeaderParts
    <3> QED BY <1>3, <2>2, <2>7, <2>10, <3>1
  <2>13. Readable(e, h) /\ Readable(e, h + 1)
    <3> HIDE DEF h, l, k
    <3>1. e[h] # 255
      BY <2>11
    <3> QED BY <1>3, <2>2, <2>7, <2>10, <3>1, DictSizeAssumption DEF Readable, Fits
  <2>14. \A i \in 20 .. h - 1 : e[i] = m.dict[i]
    <3>1. \A i \in 20 .. h - 1 : c.dict[i] = m.dict[i]
      BY <1>7 DEF Grows
    <3>2. \A i \in 20 .. h - 1 : i \in Address /\ i >= 20
      BY <2>2, DictSizeAssumption DEF Address
    <3> HIDE DEF h
    <3> QED BY <2>6, <3>1, <3>2
  <2>15. h \in 20 .. Here(e) - 1 /\ h < Here(e)
    <3> HIDE DEF h, k
    <3> QED BY <1>3, <2>2, <2>7
  <2>16. Header(e, h) /\ Roomy(e)
    <3> HIDE DEF h
    <3>1. CodeAt(e, h) <= Here(e)
      BY <2>7, <2>12
    <3> QED BY <2>4, <2>7, <2>11, <2>13, <2>15, <3>1 DEF Header, Roomy
  <2>17. m.ok
    BY <1>4, <1>5, <1>6, <1>9
  <2> QED BY <2>1, <2>5, <2>12, <2>14, <2>15, <2>16, <2>17 DEF New, n
<1> QED BY <1>8, <1>9

\* The first word of an empty dictionary fits.
LEMMA FirstWordFits ==
  ASSUME NEW m, Safe(m), m.ok, Here(m.dict) = 20, Latest(m.dict) = 0,
         NEW name, NEW flags \in {0, 32}
  PROVE  Create(m, name, flags).ok
<1> DEFINE a == AddCell(m, 1 + flags)
           b == AddCell(a, 0)
           q == PutBytes(b.dict, Here(b.dict), << name >>)
           p == [b EXCEPT !.dict = q]
           e == SetVar(q, 0, Here(q) + 1)
           c == [p EXCEPT !.dict = e]
           f == SetVar(e, 1, Here(m.dict))
<1>1. Roomy(m.dict)
  BY DictSizeAssumption DEF Roomy, Safe
<1>2. \A v \in Nat : v < 128 => Len(Encode(v)) = 1
  <2>1. \A v : Len(<< v >>) = 1
    OBVIOUS
  <2> QED BY <2>1, EncodeCases
<1>3. \A h \in 20 .. 22 : Fits(h, 1)
  BY DictSizeAssumption DEF Fits
<1>4. ASSUME NEW n, Safe(n), n.ok, Roomy(n.dict), Here(n.dict) \in 20 .. 21, NEW v \in Nat, v < 128
      PROVE  LET r == AddCell(n, v) IN
             r.ok /\ Safe(r) /\ Roomy(r.dict) /\ Here(r.dict) = Here(n.dict) + 1
  <2> DEFINE r == AddCell(n, v)
             k == Len(Encode(v))
  <2>1. k = 1
    BY <1>2, <1>4
  <2>2. Fits(Here(n.dict), k)
    <3> HIDE DEF k
    <3> QED BY <1>3, <1>4, <2>1
  <2>3. r.ok
    BY <1>4, <2>2, AddCellFits
  <2>4. Safe(r)
    BY <1>4, AddCellSafe DEF After
  <2>5. Grows(n.dict, r.dict) /\ Here(r.dict) = Here(n.dict) + k
    BY <1>4, <2>3, AddCellGrows
  <2> HIDE DEF k, r
  <2>6. Roomy(r.dict)
    BY <2>5 DEF Grows
  <2> QED BY <2>1, <2>3, <2>4, <2>5, <2>6 DEF r
<1>5. a.ok /\ Safe(a) /\ Roomy(a.dict) /\ Here(a.dict) = 21
  <2> DEFINE v == 1 + flags
  <2>1. v \in Nat /\ v < 128
    OBVIOUS
  <2> HIDE DEF v
  <2>2. 20 \in 20 .. 21 /\ 20 + 1 = 21
    OBVIOUS
  <2>3. AddCell(m, v) = a
    BY DEF v
  <2> HIDE DEF a
  <2> QED BY <1>1, <1>4, <2>1, <2>2, <2>3
<1> HIDE DEF a
<1>6. b.ok /\ Safe(b) /\ Here(b.dict) = 22
  <2>1. 21 \in 20 .. 21 /\ 21 + 1 = 22 /\ 0 \in Nat /\ 0 < 128
    OBVIOUS
  <2> QED BY <1>4, <1>5, <2>1
<1>7. b = AddCell(AddCell(m, 1 + flags), Latest(m.dict))
  BY DEF a
<1> HIDE DEF b
<1>8. Fits(Here(b.dict), 1)
  BY <1>3, <1>6
<1> HIDE DEF q
<1>9. p.ok /\ p.dict = q /\ DOMAIN p = DOMAIN b
  BY <1>6 DEF Safe
<1> HIDE DEF p
<1>10. Allot(p, 1) = c
  BY <1>9 DEF Allot
<1> HIDE DEF e
<1>11. c.ok /\ c.dict = e /\ DOMAIN c = DOMAIN b
  BY <1>6, <1>9 DEF Safe
<1> HIDE DEF c
<1>12. Create(m, name, flags) = [c EXCEPT !.dict = f]
  BY <1>6, <1>7, <1>8, <1>10, <1>11 DEF Create, p, q
<1> HIDE DEF f
<1>13. [c EXCEPT !.dict = f].ok
  BY <1>6, <1>11 DEF Safe
<1> QED BY <1>12, <1>13

\* e is d with the last word made immediate.
Marked(d, e) ==
  /\ Roomy(d) /\ Roomy(e)
  /\ Here(e) = Here(d) /\ Latest(e) = Latest(d)
  /\ Header(d, Latest(d)) /\ e[Latest(d)] \in {65, 97}
  /\ \A i \in 20 .. DictSize - 1 : i # Latest(d) => e[i] = d[i]

\* make_immediate flags the last word, or does nothing.
LEMMA MakeImmediateEffect ==
  ASSUME NEW m, Safe(m), Roomy(m.dict), m.ok => Header(m.dict, Latest(m.dict))
  PROVE  LET n == MakeImmediate(m) IN
         n.dict = m.dict \/ (m.ok /\ n.ok /\ Marked(m.dict, n.dict))
<1> DEFINE n == MakeImmediate(m)
           d == m.dict
           w == Latest(d)
           f == Flags(d, w)
           v == IF HasFlag(d, w, ImmediateFlag) THEN f ELSE f + ImmediateFlag
<1>1. n = IF ~Readable(d, w) THEN Fail(m) ELSE PutCell(m, w, v)
  BY DEF MakeImmediate
<1>2. Fail(m).dict = m.dict
  BY DEF Safe, Fail
<1>3. CASE ~m.ok
  <2> HIDE DEF n, v, w
  <2>1. n.dict = m.dict
    BY <1>1, <1>2, <1>3 DEF PutCell
  <2> QED BY <2>1 DEF n
<1>4. CASE m.ok
  <2>1. Header(d, w) /\ w \in 20 .. Here(d) - 1 /\ w \in Nat /\ Readable(d, w)
        /\ d[w] \in {1, 33, 65, 97}
    BY <1>4, DictSizeAssumption DEF Header, Roomy
  <2>2. f = d[w]
    BY <2>1, HeaderParts
  <2>3. v \in {65, 97}
    BY <2>1, <2>2 DEF HasFlag, ImmediateFlag
  <2> HIDE DEF v, f
  <2> DEFINE y == << v >>
             e == PutBytes(d, w, y)
  <2>4. Encode(v) = y /\ Len(y) = 1 /\ y[1] = v
    <3>1. v \in Nat /\ v < 128
      BY <2>3
    <3>2. Encode(v) = << v >>
      BY <3>1, EncodeCases
    <3>3. \A x : Len(<< x >>) = 1 /\ << x >>[1] = x
      OBVIOUS
    <3> QED BY <3>2, <3>3
  <2> HIDE DEF y
  <2>5. Here(d) \in 20 .. DictSize - 1 /\ DOMAIN d = Address
    BY DEF Roomy
  <2>6. Fits(w, Len(Encode(v)))
    BY <2>1, <2>4, <2>5, DictSizeAssumption DEF Fits
  <2>7. n = [m EXCEPT !.dict = e]
    BY <1>1, <1>4, <2>1, <2>4, <2>6 DEF PutCell
  <2>8. n.dict = e /\ n.ok
    <3> HIDE DEF n, e
    <3> QED BY <1>4, <2>7 DEF Safe
  <2>9. /\ DOMAIN e = Address /\ e[w] = v
        /\ \A i \in Address : i # w => e[i] = d[i]
    <3>1. Len(y) \in Nat /\ w + Len(y) <= DictSize
      BY <2>1, <2>4, <2>5, DictSizeAssumption
    <3>2. DOMAIN e = Address
      BY <2>1, <2>5, <3>1, PutInside
    <3>3. /\ \A j \in 1 .. Len(y) : e[w + j - 1] = y[j]
          /\ \A i \in Address : i < w \/ i >= w + Len(y) => e[i] = d[i]
      BY <2>1, <2>5, <3>1, PutEffect
    <3> HIDE DEF e, w
    <3>4. e[w] = v
      BY <2>1, <2>4, <3>3
    <3>5. \A i \in Address : i # w => i < w \/ i >= w + 1
      BY <2>1, DictSizeAssumption DEF Address
    <3> QED BY <2>4, <3>2, <3>3, <3>4, <3>5
  <2> HIDE DEF e, n
  <2>10. \A i \in 0 .. 4 : Var(e, i) = Var(d, i)
    <3> SUFFICES ASSUME NEW i \in 0 .. 4 PROVE Var(e, i) = Var(d, i)
      OBVIOUS
    <3>1. \A k \in 0 .. 3 : 4 * i + k \in Address /\ 4 * i + k # w
      BY <2>1, DictSizeAssumption DEF Address
    <3>2. \A k \in 0 .. 3 : e[4 * i + k] = d[4 * i + k]
      BY <2>9, <3>1
    <3>3. /\ e[4 * i] = d[4 * i] /\ e[4 * i + 1] = d[4 * i + 1]
          /\ e[4 * i + 2] = d[4 * i + 2] /\ e[4 * i + 3] = d[4 * i + 3]
      BY <3>2
    <3> QED BY <3>3, Zenon DEF Var
  <2>11. Here(e) = Here(d) /\ Latest(e) = w
    BY <2>10 DEF Here, Latest
  <2>12. \A i \in 20 .. DictSize - 1 : i \in Address
    BY DEF Address
  <2>13. Roomy(e)
    BY <2>5, <2>9, <2>11 DEF Roomy
  <2>14. Marked(d, e)
    BY <2>1, <2>3, <2>9, <2>11, <2>12, <2>13 DEF Marked
  <2> QED BY <1>4, <2>8, <2>14 DEF n
<1> QED BY <1>3, <1>4

-----------------------------------------------------------------------------
(* Operations in a row *)

\* The bytes of a header decide all its parts.
LEMMA SameHeader ==
  ASSUME NEW d, NEW e, NEW w \in Nat, d[w] \in {1, 33, 65, 97}, e[w] \in {1, 33, 65, 97},
         \A i \in w + 1 .. CodeAt(d, w) - 1 : e[i] = d[i]
  PROVE  /\ Link(e, w) = Link(d, w) /\ NameAt(e, w) = NameAt(d, w) /\ CodeAt(e, w) = CodeAt(d, w)
         /\ e[NameAt(e, w)] = d[NameAt(d, w)]
         /\ Readable(d, w) => Readable(e, w)
         /\ Readable(d, w + 1) => Readable(e, w + 1)
<1> DEFINE x == Width(d, w + 1)
<1>1. /\ Link(d, w) = Value(d, w + 1) /\ x \in {1, 2, 5}
      /\ NameAt(d, w) = w + 1 + x /\ CodeAt(d, w) = w + 2 + x
  BY HeaderParts
<1>2. /\ Link(e, w) = Value(e, w + 1)
      /\ NameAt(e, w) = w + 1 + Width(e, w + 1) /\ CodeAt(e, w) = w + 2 + Width(e, w + 1)
  BY HeaderParts
<1>3. \A j \in 1 .. x + 1 : e[w + j] = d[w + j]
  <2> SUFFICES ASSUME NEW j \in 1 .. x + 1 PROVE e[w + j] = d[w + j]
    OBVIOUS
  <2> HIDE DEF x
  <2>1. w + j \in w + 1 .. CodeAt(d, w) - 1
    BY <1>1
  <2> QED BY <2>1
<1>4. e[w + 1] = d[w + 1]
  <2> HIDE DEF x
  <2> QED BY <1>1, <1>3
<1>5. Width(e, w + 1) = x
  BY <1>4 DEF Width
<1>6. Value(e, w + 1) = Value(d, w + 1)
  <2>1. CASE d[w + 1] < 128
    BY <1>4, <2>1 DEF Value
  <2>2. CASE ~(d[w + 1] < 128) /\ d[w + 1] < 255
    <3>1. x = 2
      BY <2>2 DEF Width
    <3>2. e[w + 2] = d[w + 2] /\ w + 1 + 1 = w + 2
      BY <1>3, <3>1
    <3> QED BY <1>4, <2>2, <3>2 DEF Value
  <2>3. CASE ~(d[w + 1] < 128) /\ ~(d[w + 1] < 255)
    <3>1. x = 5
      BY <2>3 DEF Width
    <3>2. /\ e[w + 2] = d[w + 2] /\ e[w + 3] = d[w + 3] /\ e[w + 4] = d[w + 4] /\ e[w + 5] = d[w + 5]
          /\ w + 1 + 1 = w + 2 /\ w + 1 + 2 = w + 3 /\ w + 1 + 3 = w + 4 /\ w + 1 + 4 = w + 5
      BY <1>3, <3>1
    <3>3. Value(d, w + 1) = RawValue(d[w + 2], d[w + 3], d[w + 4], d[w + 5])
      BY <2>3, <3>2 DEF Value
    <3>4. Value(e, w + 1) = RawValue(e[w + 2], e[w + 3], e[w + 4], e[w + 5])
      BY <1>4, <2>3, <3>2 DEF Value
    <3> QED BY <3>2, <3>3, <3>4
  <2> QED BY <2>1, <2>2, <2>3
<1>7. e[w + 1 + x] = d[w + 1 + x]
  <2>1. x + 1 \in 1 .. x + 1 /\ w + (x + 1) = w + 1 + x
    <3> HIDE DEF x
    <3> QED BY <1>1
  <2> HIDE DEF x
  <2> QED BY <1>3, <2>1
<1>8. Readable(d, w + 1) => Readable(e, w + 1)
  BY <1>4 DEF Readable
<1>9. Readable(d, w) => Readable(e, w)
  BY DEF Readable
<1> HIDE DEF x
<1> QED BY <1>1, <1>2, <1>5, <1>6, <1>7, <1>8, <1>9

\* After a new word: more of it, or its flag.
LEMMA NewThen ==
  ASSUME NEW d, NEW e, NEW f, New(d, e), Grows(e, f) \/ Marked(e, f)
  PROVE  New(d, f)
<1> DEFINE h == Here(d)
<1>1. /\ Roomy(d) /\ Roomy(e) /\ h \in 20 .. DictSize - 1 /\ Here(e) \in 20 .. DictSize - 1
      /\ h < Here(e) /\ Latest(e) = h
      /\ Header(e, h) /\ Link(e, h) = Latest(d)
      /\ \A i \in 20 .. h - 1 : e[i] = d[i]
  BY DEF New, Roomy
<1>2. Roomy(f) /\ Here(f) \in 20 .. DictSize - 1 /\ Here(e) <= Here(f) /\ Latest(f) = h
  BY <1>1 DEF Grows, Marked, Roomy
<1>3. \A i \in 20 .. Here(e) - 1 : i # h => f[i] = e[i]
  <2>1. CASE Grows(e, f)
    BY <2>1 DEF Grows
  <2>2. CASE Marked(e, f)
    <3>1. \A i \in 20 .. Here(e) - 1 : i \in 20 .. DictSize - 1
      BY <1>1, DictSizeAssumption
    <3> HIDE DEF h
    <3> QED BY <1>1, <2>2, <3>1 DEF Marked
  <2> QED BY <2>1, <2>2
<1>4. f[h] \in {1, 33, 65, 97} /\ e[h] \in {1, 33, 65, 97}
  <2>1. e[h] \in {1, 33, 65, 97}
    BY <1>1 DEF Header
  <2>2. CASE Grows(e, f)
    <3>1. h \in 20 .. Here(e) - 1
      BY <1>1 DEF Header
    <3> QED BY <2>1, <2>2, <3>1 DEF Grows
  <2>3. CASE Marked(e, f)
    BY <1>1, <2>1, <2>3 DEF Marked
  <2> QED BY <2>1, <2>2, <2>3
<1> HIDE DEF h
<1>5. h \in Nat /\ CodeAt(e, h) <= Here(e) /\ Readable(e, h) /\ Readable(e, h + 1)
  BY <1>1, DictSizeAssumption DEF Header
<1>6. CodeAt(e, h) \in Int
  BY <1>4, <1>5, HeaderParts
<1>7. \A i \in h + 1 .. CodeAt(e, h) - 1 : f[i] = e[i]
  BY <1>1, <1>3, <1>5, <1>6
<1>8. Link(f, h) = Latest(d) /\ CodeAt(f, h) = CodeAt(e, h) /\ Readable(f, h) /\ Readable(f, h + 1)
  BY <1>1, <1>4, <1>5, <1>7, SameHeader
<1>9. Header(f, h)
  BY <1>1, <1>2, <1>4, <1>5, <1>6, <1>8 DEF Header
<1>10. \A i \in 20 .. h - 1 : f[i] = d[i]
  BY <1>1, <1>3
<1>11. h < Here(f)
  BY <1>1, <1>2
<1> QED BY <1>1, <1>2, <1>8, <1>9, <1>10, <1>11 DEF New, h

-----------------------------------------------------------------------------
(* The dictionary in do_prim *)

\* The operations on the stacks leave the dictionary alone.
LEMMA StacksKeepDict ==
  ASSUME NEW m, Safe(m)
  PROVE  /\ Fail(m).dict = m.dict
         /\ \A n : Drop(m, n).dict = m.dict
         /\ \A t : Push(m, t).dict = m.dict
         /\ \A v : PushR(m, v).dict = m.dict
         /\ \A s : [m EXCEPT !.ret = s].dict = m.dict
         /\ \A a : [m EXCEPT !.ip = a].dict = m.dict
         /\ \A q : [m EXCEPT !.ask = q].dict = m.dict
<1>0. DOMAIN m = {"dict", "data", "ret", "ip", "ask", "ok"}
  BY DEF Safe
<1>1. Fail(m).dict = m.dict
  BY <1>0 DEF Fail
<1>2. ASSUME NEW n PROVE Drop(m, n).dict = m.dict
  <2> DEFINE s == SubSeq(m.data, 1, Len(m.data) - n)
  <2>1. Drop(m, n) = IF m.ok /\ Len(m.data) >= n THEN [m EXCEPT !.data = s] ELSE Fail(m)
    BY DEF Drop
  <2> HIDE DEF s
  <2> QED BY <1>0, <1>1, <2>1
<1>3. ASSUME NEW t PROVE Push(m, t).dict = m.dict
  <2> DEFINE s == m.data \o t
  <2>1. Push(m, t) = IF m.ok /\ Len(m.data) + Len(t) <= DStackSize THEN [m EXCEPT !.data = s] ELSE Fail(m)
    BY DEF Push
  <2> HIDE DEF s
  <2> QED BY <1>0, <1>1, <2>1
<1>4. ASSUME NEW v PROVE PushR(m, v).dict = m.dict
  <2> DEFINE s == Append(m.ret, v)
  <2>1. PushR(m, v) = IF m.ok /\ Len(m.ret) < RStackSize THEN [m EXCEPT !.ret = s] ELSE Fail(m)
    BY DEF PushR
  <2> HIDE DEF s
  <2> QED BY <1>0, <1>1, <2>1
<1> QED BY <1>0, <1>1, <1>2, <1>3, <1>4

\* The primitives of the stacks, of the program and of the host.
LEMMA QuietOps ==
  ASSUME NEW m, Safe(m), NEW in
  PROVE  /\ \A op \in DOMAIN Pops : StackOp(op, m).dict = m.dict
         /\ \A op \in {Op.PICKD, Op.PICKR, Op.PUSHR, Op.POPR} : StackMove(op, m).dict = m.dict
         /\ \A op \in {Op.EXIT, Op.LIT, Op.TICK, Op.JMP, Op.JMP0, Op.LITS} :
              ProgramOp(op, m).dict = m.dict
         /\ \A op \in {Op.PEEK, Op.LEN} : MemoryOp(op, m).dict = m.dict
         /\ \A op \in {Op.KEY, Op.COMMENT} : InputOp(op, m, in).dict = m.dict
         /\ SysCall(m).dict = m.dict
         /\ \A op \in {Op.RAW_PEEK, Op.RAW_POKE} : RawOp(op, m).dict = m.dict
<1>1. ASSUME NEW n, Safe(n), n.dict = m.dict
      PROVE  /\ Fail(n).dict = m.dict
             /\ \A k : Drop(n, k).dict = m.dict
             /\ \A t : Push(n, t).dict = m.dict
             /\ \A v : PushR(n, v).dict = m.dict
             /\ \A a : [n EXCEPT !.ip = a].dict = m.dict
  BY <1>1, StacksKeepDict
<1>2. \A k \in Nat : Safe(Drop(m, k)) /\ Drop(m, k).dict = m.dict
  BY DropSafe, StacksKeepDict DEF After
<1>3. ASSUME NEW op \in DOMAIN Pops PROVE StackOp(op, m).dict = m.dict
  <2>1. Pops[op] \in Nat
    BY DEF Pops
  <2>2. \A t : Push(Drop(m, Pops[op]), t).dict = m.dict
    BY <1>1, <1>2, <2>1
  <2>3. StackOp(op, m) = Fail(m) \/ StackOp(op, m) = Push(Drop(m, Pops[op]), Pushes(op, m))
    BY Zenon DEF StackOp
  <2> QED BY <1>1, <2>2, <2>3
<1>4. ASSUME NEW op \in {Op.PICKD, Op.PICKR, Op.PUSHR, Op.POPR}
      PROVE  StackMove(op, m).dict = m.dict
  <2> DEFINE p == Drop(m, 1)
             r == [m EXCEPT !.ret = Front(@)]
  <2>1. Safe(p) /\ p.dict = m.dict
    BY <1>2
  <2> HIDE DEF p
  <2>2. \A n, cells : Picked(p, n, cells).dict = m.dict
    BY <1>1, <2>1 DEF Picked
  <2>3. \A v : PushR(p, v).dict = m.dict
    BY <1>1, <2>1
  <2>4. r.dict = m.dict /\ (m.ret # << >> => Safe(r))
    BY PopRSafe DEF After, Safe
  <2>5. CASE op = Op.PICKD
    BY <2>1, <2>2, <2>5 DEF StackMove, Op, p
  <2>6. CASE op = Op.PICKR
    BY <2>1, <2>2, <2>6 DEF StackMove, Op, p
  <2>7. CASE op = Op.PUSHR
    BY <2>1, <2>3, <2>7 DEF StackMove, Op, p
  <2>8. CASE op = Op.POPR
    <3>1. StackMove(op, m) = IF m.ret = << >> THEN Fail(m) ELSE Push(r, << Last(m.ret) >>)
      BY <2>8 DEF StackMove, Op
    <3> HIDE DEF r
    <3> QED BY <1>1, <2>4, <3>1
  <2> QED BY <2>5, <2>6, <2>7, <2>8
<1>5. ASSUME NEW op \in {Op.EXIT, Op.LIT, Op.TICK, Op.JMP, Op.JMP0, Op.LITS}
      PROVE  ProgramOp(op, m).dict = m.dict
  <2> DEFINE v == Value(m.dict, m.ip)
             next == [m EXCEPT !.ip = @ + Width(m.dict, m.ip)]
             p == Drop(next, 1)
             s == Push(next, << next.ip, v >>)
             x == [m EXCEPT !.ret = Front(@), !.ip = Last(m.ret)]
  <2>1. CASE op = Op.EXIT
    <3>1. ProgramOp(op, m) = IF m.ret = << >> THEN Fail(m) ELSE x
      BY <2>1 DEF ProgramOp
    <3>2. x.dict = m.dict
      BY DEF Safe
    <3> HIDE DEF x
    <3> QED BY <1>1, <3>1, <3>2
  <2>2. CASE op # Op.EXIT /\ ~Readable(m.dict, m.ip)
    BY <1>1, <2>2 DEF ProgramOp
  <2>3. CASE op # Op.EXIT /\ Readable(m.dict, m.ip)
    <3>1. ProgramOp(op, m) =
            CASE op \in {Op.LIT, Op.TICK} -> Push(next, << v >>)
              [] op = Op.JMP  -> [m EXCEPT !.ip = v]
              [] op = Op.JMP0 -> IF p.ok /\ Top(m, 1) = 0 THEN [p EXCEPT !.ip = v] ELSE p
              [] op = Op.LITS -> [s EXCEPT !.ip = @ + v]
      BY <2>3 DEF ProgramOp
    <3>2. Safe(next) /\ next.dict = m.dict
      BY SafeParts, StacksKeepDict DEF After
    <3> HIDE DEF next, v
    <3>3. Safe(p) /\ p.dict = m.dict
      BY <1>1, <3>2, DropSafe DEF After
    <3>4. Safe(s) /\ s.dict = m.dict
      <4>1. IsTuple(<< next.ip, v >>)
        BY Tuples
      <4> QED BY <1>1, <3>2, <4>1, PushSafe DEF After, IsTuple
    <3> HIDE DEF p, s
    <3>5. [p EXCEPT !.ip = v].dict = m.dict /\ [m EXCEPT !.ip = v].dict = m.dict
      BY <1>1, <3>3
    <3>6. [s EXCEPT !.ip = @ + v].dict = m.dict
      <4> DEFINE to == s.ip + v
      <4>1. [s EXCEPT !.ip = to].dict = m.dict
        <5> HIDE DEF to
        <5> QED BY <1>1, <3>4
      <4> QED BY <4>1
    <3>7. Push(next, << v >>).dict = m.dict
      BY <1>1, <3>2
    <3> QED BY <2>3, <3>1, <3>3, <3>5, <3>6, <3>7 DEF Op
  <2> QED BY <2>1, <2>2, <2>3
<1>6. ASSUME NEW op \in {Op.PEEK, Op.LEN} PROVE MemoryOp(op, m).dict = m.dict
  <2> DEFINE size == Top(m, 1)
             a == Top(m, 2)
             isVar == a \in 0 .. Len(UserVars) - 1
             cell == size = 0 /\ Readable(m.dict, a)
             p == Drop(m, 2)
  <2>1. op # Op.POKE
    BY DEF Op
  <2>2. Safe(p) /\ p.dict = m.dict
    BY <1>2
  <2>3. MemoryOp(op, m) =
          IF ~p.ok THEN p
          ELSE CASE op = Op.PEEK ->
                      IF isVar THEN Push(p, << Var(m.dict, a) >>)
                      ELSE IF cell THEN Push(p, << Value(m.dict, a) >>) ELSE Fail(p)
                 [] op = Op.LEN ->
                      IF isVar THEN Push(p, << 1 >>)
                      ELSE IF cell THEN Push(p, << Width(m.dict, a) >>) ELSE Fail(p)
                 [] op = Op.POKE ->
                      IF isVar THEN [p EXCEPT !.dict = SetVar(@, a, Top(m, 3))]
                      ELSE IF size = 0 THEN PutCell(p, a, Top(m, 3)) ELSE Fail(p)
                 [] op = Op.COMMA -> IF size = 0 THEN AddCell(p, a) ELSE Fail(p)
    BY <2>1 DEF MemoryOp
  <2> HIDE DEF size, p, cell, isVar
  <2>4. Fail(p).dict = m.dict /\ \A t : Push(p, t).dict = m.dict
    BY <1>1, <2>2
  <2> HIDE DEF a
  <2>5. CASE op = Op.PEEK
    BY <2>2, <2>3, <2>4, <2>5 DEF Op
  <2>6. CASE op = Op.LEN
    BY <2>2, <2>3, <2>4, <2>6 DEF Op
  <2> QED BY <2>5, <2>6
<1>7. ASSUME NEW op \in {Op.KEY, Op.COMMENT} PROVE InputOp(op, m, in).dict = m.dict
  <2>1. CASE op = Op.KEY
    <3>1. InputOp(op, m, in) = IF in = None THEN [m EXCEPT !.ask = "char"] ELSE Push(m, << in >>)
      BY <2>1 DEF InputOp, Op
    <3> QED BY <3>1, StacksKeepDict
  <2>2. CASE op = Op.COMMENT
    <3>1. InputOp(op, m, in) = IF in # Paren THEN [m EXCEPT !.ask = "char"] ELSE m
      BY <2>2 DEF InputOp, Op
    <3> QED BY <3>1, StacksKeepDict
  <2> QED BY <2>1, <2>2
<1>8. SysCall(m).dict = m.dict
  <2> DEFINE p == Drop(m, 1)
  <2>1. SysCall(m) =
          IF ~p.ok THEN p
          ELSE CASE Top(m, 1) \in {Sys.EMIT, Sys.PRINT} -> Drop(p, 1)
                 [] Top(m, 1) = Sys.TELL -> Drop(p, 2)
                 [] OTHER -> p
    BY DEF SysCall
  <2>2. Safe(p) /\ p.dict = m.dict
    BY <1>2
  <2> HIDE DEF p
  <2>3. Drop(p, 1).dict = m.dict /\ Drop(p, 2).dict = m.dict
    BY <1>1, <2>2
  <2> QED BY <2>1, <2>2, <2>3
<1>9. ASSUME NEW op \in {Op.RAW_PEEK, Op.RAW_POKE} PROVE RawOp(op, m).dict = m.dict
  <2>1. RawOp(op, m) = Push(Drop(m, 1), << 0 >>) \/ RawOp(op, m) = Drop(m, 2)
    BY Zenon DEF RawOp
  <2> QED BY <1>1, <1>2, <2>1
<1> QED BY <1>3, <1>4, <1>5, <1>6, <1>7, <1>8, <1>9

\* What a machine n, made of a machine with dictionary d, has done to d.
Effect(d, n) ==
  \/ Grows(d, n.dict)
  \/ n.ok /\ New(d, n.dict)
  \/ n.ok /\ Marked(d, n.dict)

\* No primitive but "!!" touches what is in the dictionary, the flag of the last word excepted.
LEMMA DoPrimEffect ==
  ASSUME NEW m, Safe(m), Roomy(m.dict), Header(m.dict, Latest(m.dict)),
         NEW op \in 0 .. PrimCount, op # Op.POKE, NEW in
  PROVE  Effect(m.dict, DoPrim(op, m, in))
<1> DEFINE n == DoPrim(op, m, in)
           d == m.dict
<1> SUFFICES Effect(d, n)
  OBVIOUS
<1>1. n.dict = d => Effect(d, n)
  BY GrowsPreorder DEF Effect
<1>2. CASE op \in DOMAIN Pops
  <2>1. n = StackOp(op, m)
    BY <1>2, OpCodes DEF DoPrim
  <2> QED BY <1>1, <1>2, <2>1, QuietOps
<1>3. CASE op \in {Op.PICKD, Op.PICKR, Op.PUSHR, Op.POPR}
  <2>1. n = StackMove(op, m)
    BY <1>3, OpCodes DEF DoPrim
  <2> QED BY <1>1, <1>3, <2>1, QuietOps
<1>4. CASE op \in {Op.EXIT, Op.LIT, Op.TICK, Op.JMP, Op.JMP0, Op.LITS}
  <2>1. n = ProgramOp(op, m)
    BY <1>4, OpCodes DEF DoPrim
  <2> QED BY <1>1, <1>4, <2>1, QuietOps
<1>5. CASE op \in {Op.PEEK, Op.LEN}
  <2>1. n = MemoryOp(op, m)
    BY <1>5, OpCodes DEF DoPrim
  <2> QED BY <1>1, <1>5, <2>1, QuietOps
<1>6. CASE op \in {Op.KEY, Op.COMMENT}
  <2>1. n = InputOp(op, m, in)
    BY <1>6, OpCodes DEF DoPrim
  <2> QED BY <1>1, <1>6, <2>1, QuietOps
<1>7. CASE op = Op.SYS
  <2>1. n = SysCall(m)
    BY <1>7, OpCodes DEF DoPrim
  <2> QED BY <1>1, <2>1, QuietOps
<1>8. CASE op \in {Op.RAW_PEEK, Op.RAW_POKE}
  <2>1. n = RawOp(op, m)
    BY <1>8, OpCodes DEF DoPrim
  <2> QED BY <1>1, <1>8, <2>1, QuietOps
<1>9. CASE op = PrimCount
  <2>1. n = Fail(m)
    BY <1>9, OpCodes DEF DoPrim
  <2> QED BY <1>1, <2>1, StacksKeepDict
<1>10. CASE op = Op.COMMA
  <2> DEFINE p == Drop(m, 2)
             a == Top(m, 2)
  <2>1. n = MemoryOp(op, m)
    BY <1>10, OpCodes DEF DoPrim
  <2>2. n = p \/ n = AddCell(p, a) \/ n = Fail(p)
    <3>1. MemoryOp(op, m) = IF ~p.ok THEN p
                            ELSE IF Top(m, 1) = 0 THEN AddCell(p, a) ELSE Fail(p)
      BY <1>10 DEF MemoryOp, Op
    <3> HIDE DEF p, a, n
    <3> QED BY <2>1, <3>1
  <2>3. Safe(p) /\ p.dict = d
    BY DropSafe, StacksKeepDict DEF After
  <2> HIDE DEF p, a, n
  <2>4. Grows(d, AddCell(p, a).dict)
    BY <2>3, AddCellGrows
  <2>5. Fail(p).dict = d
    BY <2>3, StacksKeepDict
  <2>6. n.dict = d \/ Grows(d, n.dict)
    <3> HIDE DEF d
    <3> QED BY <2>2, <2>3, <2>4, <2>5
  <2> QED BY <1>1, <2>6, Zenon DEF Effect
<1>11. CASE op = Op.COL
  <2> DEFINE c == Create(m, in, 0)
             e == SetVar(c.dict, 3, 1)
  <2>1. n = InputOp(op, m, in)
    BY <1>11, OpCodes DEF DoPrim
  <2>2. n = IF in = None THEN [m EXCEPT !.ask = "word"]
            ELSE IF c.ok THEN [c EXCEPT !.dict = e] ELSE c
    BY <1>11, <2>1 DEF InputOp, Op
  <2>3. Safe(c)
    BY CreateSafe DEF After
  <2>4. (c.ok => New(d, c.dict)) /\ (~c.ok => Grows(d, c.dict))
    <3>1. Latest(d) \in 0 .. DictSize - 1
      BY DictSizeAssumption DEF Header, Roomy
    <3> QED BY <3>1, CreateEffect
  <2> HIDE DEF c, n
  <2>5. Roomy(c.dict)
    BY <2>4 DEF New, Grows
  <2>6. c.ok => New(d, e)
    <3>1. Grows(c.dict, e)
      BY <2>5, SetVarGrows
    <3> HIDE DEF e
    <3> QED BY <2>4, <3>1, NewThen
  <2>7. [c EXCEPT !.dict = e].dict = e /\ [c EXCEPT !.dict = e].ok = c.ok
    BY <2>3 DEF Safe
  <2> HIDE DEF e
  <2>8. [m EXCEPT !.ask = "word"].dict = d
    BY StacksKeepDict
  <2>9. CASE in = None
    <3>1. n.dict = d
      BY <2>2, <2>8, <2>9
    <3> QED BY <1>1, <3>1
  <2>10. CASE in # None /\ c.ok
    <3>1. n = [c EXCEPT !.dict = e]
      BY <2>2, <2>10
    <3>2. n.ok /\ New(d, n.dict)
      <4> HIDE DEF d
      <4> QED BY <2>6, <2>7, <2>10, <3>1
    <3> QED BY <3>2, Zenon DEF Effect
  <2>11. CASE in # None /\ ~c.ok
    <3>1. n = c
      BY <2>2, <2>11
    <3> QED BY <2>4, <2>11, <3>1, Zenon DEF Effect
  <2> QED BY <2>9, <2>10, <2>11
<1>12. CASE op = Op.SEMICOL
  <2> DEFINE a == AddCell(m, Op.EXIT)
             e == SetVar(a.dict, 3, 0)
  <2>1. n = CompileOp(op, m)
    BY <1>12, OpCodes DEF DoPrim
  <2>2. n = IF a.ok THEN [a EXCEPT !.dict = e] ELSE a
    BY <1>12, <2>1 DEF CompileOp, Op
  <2>3. Safe(a) /\ Grows(d, a.dict)
    BY AddCellSafe, AddCellGrows DEF After
  <2> HIDE DEF a, n
  <2>4. Grows(a.dict, e)
    BY <2>3, SetVarGrows DEF Grows
  <2>5. [a EXCEPT !.dict = e].dict = e
    BY <2>3 DEF Safe
  <2> HIDE DEF e
  <2>6. Grows(d, e)
    <3> HIDE DEF d
    <3> QED BY <2>3, <2>4, GrowsPreorder
  <2>7. Grows(d, n.dict)
    <3> HIDE DEF d
    <3> QED BY <2>2, <2>3, <2>5, <2>6
  <2> QED BY <2>7, Zenon DEF Effect
<1>13. CASE op = Op.IMMEDIATE
  <2>1. n = CompileOp(op, m)
    BY <1>13, OpCodes DEF DoPrim
  <2>2. n = MakeImmediate(m)
    BY <1>13, <2>1 DEF CompileOp, Op
  <2>3. n.dict = d \/ (n.ok /\ Marked(d, n.dict))
    <3> HIDE DEF n
    <3> QED BY <2>2, MakeImmediateEffect
  <2> QED BY <1>1, <2>3 DEF Effect
<1>14. \/ op \in DOMAIN Pops
       \/ op \in {Op.PICKD, Op.PICKR, Op.PUSHR, Op.POPR}
       \/ op \in {Op.EXIT, Op.LIT, Op.TICK, Op.JMP, Op.JMP0, Op.LITS}
       \/ op \in {Op.PEEK, Op.LEN}
       \/ op \in {Op.KEY, Op.COMMENT}
       \/ op = Op.SYS
       \/ op \in {Op.RAW_PEEK, Op.RAW_POKE}
       \/ op = PrimCount
       \/ op = Op.COMMA
       \/ op = Op.COL
       \/ op = Op.SEMICOL
       \/ op = Op.IMMEDIATE
  BY OpCodes
<1> HIDE DEF n
<1> QED BY <1>2, <1>3, <1>4, <1>5, <1>6, <1>7, <1>8, <1>9, <1>10, <1>11, <1>12, <1>13, <1>14

-----------------------------------------------------------------------------
(* The chain of the words *)

\* S holds the last word, and with a word the one it is linked to.
Linked(d, S) ==
  /\ Latest(d) # 0 => Latest(d) \in S
  /\ \A w \in S : Link(d, w) # 0 => Link(d, w) \in S

\* The addresses of the words: what is reached from LATEST along the links.
Words(d) == {w \in Address : \A S \in SUBSET Address : Linked(d, S) => w \in S}

\* A whole header, linked to one that ends before it.
SoundWord(d, w) ==
  /\ Header(d, w)
  /\ Link(d, w) \in 0 .. w - 1
  /\ Link(d, w) # 0 => CodeAt(d, Link(d, w)) <= w

Sound(d) ==
  /\ Roomy(d)
  /\ Latest(d) \in 0 .. DictSize - 1
  /\ \A w \in Words(d) : SoundWord(d, w)

\* The words are linked and are in every linked set.
LEMMA WordsLinked ==
  ASSUME NEW d, Sound(d)
  PROVE  /\ Latest(d) # 0 => Latest(d) \in Words(d)
         /\ \A w \in Words(d) : Link(d, w) # 0 => Link(d, w) \in Words(d)
         /\ Words(d) \subseteq Address
         /\ \A S \in SUBSET Address : Linked(d, S) => Words(d) \subseteq S
<1>1. Words(d) \subseteq Address
  BY DEF Words
<1>2. \A S \in SUBSET Address : Linked(d, S) => Words(d) \subseteq S
  BY DEF Words
<1>3. ASSUME Latest(d) # 0 PROVE Latest(d) \in Words(d)
  <2>1. Latest(d) \in Address
    BY DEF Sound, Address
  <2>2. \A S \in SUBSET Address : Linked(d, S) => Latest(d) \in S
    BY <1>3 DEF Linked
  <2> QED BY <2>1, <2>2 DEF Words
<1>4. ASSUME NEW w \in Words(d), Link(d, w) # 0 PROVE Link(d, w) \in Words(d)
  <2>1. Link(d, w) \in Address
    <3>1. Link(d, w) \in 0 .. w - 1 /\ w \in Address
      BY <1>1 DEF Sound, SoundWord
    <3> QED BY <3>1, DictSizeAssumption DEF Address
  <2>2. \A S \in SUBSET Address : Linked(d, S) => Link(d, w) \in S
    <3>1. \A S \in SUBSET Address : Linked(d, S) => w \in S
      BY DEF Words
    <3> QED BY <1>4, <3>1 DEF Linked
  <2> QED BY <2>1, <2>2 DEF Words
<1> QED BY <1>1, <1>2, <1>3, <1>4

\* e has the headers of d, but for the flags, and at least its length.
Sealed(d, e) ==
  /\ Roomy(e)
  /\ Here(d) <= Here(e)
  /\ \A w \in Words(d) :
       /\ e[w] \in {1, 33, 65, 97}
       /\ \A i \in w + 1 .. CodeAt(d, w) - 1 : e[i] = d[i]

\* A word keeps its header, its link and its name.
LEMMA SealedWords ==
  ASSUME NEW d, NEW e, Sound(d), Sealed(d, e)
  PROVE  \A w \in Words(d) : /\ SoundWord(e, w)
                             /\ Link(e, w) = Link(d, w) /\ NameAt(e, w) = NameAt(d, w)
                             /\ e[NameAt(e, w)] = d[NameAt(d, w)]
<1>1. ASSUME NEW w \in Words(d)
      PROVE  /\ w \in Nat /\ Link(e, w) = Link(d, w) /\ NameAt(e, w) = NameAt(d, w)
             /\ CodeAt(e, w) = CodeAt(d, w) /\ e[NameAt(e, w)] = d[NameAt(d, w)]
             /\ Readable(e, w) /\ Readable(e, w + 1)
  <2>1. w \in Nat
    BY WordsLinked, DictSizeAssumption DEF Address
  <2>2. d[w] \in {1, 33, 65, 97} /\ Readable(d, w) /\ Readable(d, w + 1)
    BY DEF Sound, SoundWord, Header
  <2>3. e[w] \in {1, 33, 65, 97} /\ \A i \in w + 1 .. CodeAt(d, w) - 1 : e[i] = d[i]
    BY DEF Sealed
  <2> QED BY <2>1, <2>2, <2>3, SameHeader
<1>2. ASSUME NEW w \in Words(d) PROVE SoundWord(e, w)
  <2>1. SoundWord(d, w)
    BY DEF Sound
  <2>2. Header(e, w)
    <3>1. Here(d) <= Here(e) /\ Here(d) \in Int /\ Here(e) \in Int
      BY DictSizeAssumption DEF Sealed, Sound, Roomy
    <3>2. w \in 20 .. Here(e) - 1
      BY <1>1, <2>1, <3>1 DEF SoundWord, Header
    <3>3. CodeAt(d, w) \in Int
      <4>1. d[w] \in {1, 33, 65, 97}
        BY <2>1 DEF SoundWord, Header
      <4>2. CodeAt(d, w) = w + 2 + Width(d, w + 1) /\ Width(d, w + 1) \in {1, 2, 5}
        BY <1>1, <4>1, HeaderParts
      <4> QED BY <1>1, <4>2
    <3>4. CodeAt(e, w) <= Here(e)
      BY <1>1, <2>1, <3>1, <3>3 DEF SoundWord, Header
    <3>5. e[w] \in {1, 33, 65, 97}
      BY DEF Sealed
    <3> QED BY <1>1, <3>2, <3>4, <3>5 DEF Header
  <2>3. Link(e, w) \in 0 .. w - 1
    BY <1>1, <2>1 DEF SoundWord
  <2>4. ASSUME Link(e, w) # 0 PROVE CodeAt(e, Link(e, w)) <= w
    <3>1. Link(d, w) # 0 /\ CodeAt(d, Link(d, w)) <= w
      BY <1>1, <2>1, <2>4 DEF SoundWord
    <3>2. Link(d, w) \in Words(d)
      BY <3>1, WordsLinked
    <3>3. CodeAt(e, Link(d, w)) = CodeAt(d, Link(d, w))
      BY <1>1, <3>2
    <3> QED BY <1>1, <3>1, <3>3
  <2> QED BY <2>2, <2>3, <2>4 DEF SoundWord
<1> QED BY <1>1, <1>2

\* With the headers and LATEST the chain is kept.
LEMMA SealedSound ==
  ASSUME NEW d, NEW e, Sound(d), Sealed(d, e), Latest(e) = Latest(d)
  PROVE  Sound(e)
<1>1. Linked(e, Words(d))
  BY SealedWords, WordsLinked DEF Linked
<1>2. Words(d) \in SUBSET Address
  BY WordsLinked
<1>3. Words(e) \subseteq Words(d)
  BY <1>1, <1>2 DEF Words
<1>4. \A w \in Words(e) : SoundWord(e, w)
  BY <1>3, SealedWords
<1> QED BY <1>4 DEF Sound, Sealed

\* Neither an operation nor a store that spares the headers breaks one.
SparesHeaders(d, e) ==
  /\ Here(e) \in Here(d) .. DictSize - 1 /\ Latest(e) = Latest(d)
  /\ \A w \in Words(d) : \A i \in w .. CodeAt(d, w) - 1 : e[i] = d[i]

\* A header lies between the user variables and HERE.
LEMMA WordsBelowHere ==
  ASSUME NEW d, Sound(d), NEW w \in Words(d)
  PROVE  /\ w \in 20 .. Here(d) - 1 /\ w \in Nat /\ Here(d) \in 20 .. DictSize - 1
         /\ CodeAt(d, w) \in w + 3 .. Here(d) /\ d[w] \in {1, 33, 65, 97}
         /\ Link(d, w) \in 0 .. w - 1
<1>1. SoundWord(d, w) /\ Roomy(d)
  BY DEF Sound
<1>2. /\ w \in 20 .. Here(d) - 1 /\ d[w] \in {1, 33, 65, 97} /\ CodeAt(d, w) <= Here(d)
      /\ Here(d) \in 20 .. DictSize - 1 /\ Link(d, w) \in 0 .. w - 1
  BY <1>1 DEF SoundWord, Header, Roomy
<1>3. w \in Nat /\ Here(d) \in Nat
  BY <1>2, DictSizeAssumption
<1>4. CodeAt(d, w) = w + 2 + Width(d, w + 1) /\ Width(d, w + 1) \in {1, 2, 5}
  BY <1>2, <1>3, HeaderParts
<1>5. CodeAt(d, w) \in w + 3 .. Here(d)
  BY <1>2, <1>3, <1>4
<1> QED BY <1>2, <1>3, <1>5

\* The other words end before the last one.
LEMMA WordsBelowLatest ==
  ASSUME NEW d, Sound(d)
  PROVE  \A w \in Words(d) : w = Latest(d) \/ CodeAt(d, w) <= Latest(d)
<1> DEFINE S == {w \in Words(d) : w = Latest(d) \/ CodeAt(d, w) <= Latest(d)}
<1>1. Latest(d) # 0 => Latest(d) \in S
  BY WordsLinked
<1>2. ASSUME NEW w \in S, Link(d, w) # 0 PROVE Link(d, w) \in S
  <2>1. Link(d, w) \in Words(d)
    BY <1>2, WordsLinked
  <2>2. CodeAt(d, Link(d, w)) <= w
    BY <1>2 DEF Sound, SoundWord
  <2>3. w \in Nat /\ CodeAt(d, w) \in w + 3 .. Here(d) /\ CodeAt(d, Link(d, w)) \in Int
        /\ Here(d) \in Int
    BY <2>1, WordsBelowHere, DictSizeAssumption
  <2>4. Latest(d) \in Int
    BY DictSizeAssumption DEF Sound
  <2>5. CodeAt(d, Link(d, w)) <= Latest(d)
    BY <2>2, <2>3, <2>4
  <2> QED BY <2>1, <2>5
<1>3. Linked(d, S)
  BY <1>1, <1>2 DEF Linked
<1>4. S \in SUBSET Address
  BY WordsLinked
<1> HIDE DEF S
<1>5. Words(d) \subseteq S
  BY <1>3, <1>4, WordsLinked
<1> QED BY <1>5 DEF S

\* No step breaks a header, and only a mark changes a flag, that of the last word.
LEMMA StepsSeal ==
  ASSUME NEW d, NEW e, Sound(d)
  PROVE  /\ Grows(d, e) \/ New(d, e) => Sealed(d, e) /\ \A w \in Words(d) : e[w] = d[w]
         /\ Marked(d, e) => Sealed(d, e) /\ \A w \in Words(d) : w # Latest(d) => e[w] = d[w]
         /\ Roomy(e) /\ SparesHeaders(d, e) => Sealed(d, e) /\ \A w \in Words(d) : e[w] = d[w]
<1>0. Here(d) \in 20 .. DictSize - 1
  BY DEF Sound, Roomy
<1>1. ASSUME Grows(d, e) \/ New(d, e)
      PROVE  Sealed(d, e) /\ \A w \in Words(d) : e[w] = d[w]
  <2>1. /\ Roomy(e) /\ Here(d) <= Here(e)
        /\ \A i \in 20 .. Here(d) - 1 : e[i] = d[i]
    BY <1>1, DictSizeAssumption DEF Grows, New, Roomy
  <2>2. ASSUME NEW w \in Words(d)
        PROVE  /\ e[w] = d[w] /\ e[w] \in {1, 33, 65, 97}
               /\ \A i \in w + 1 .. CodeAt(d, w) - 1 : e[i] = d[i]
    <3>1. /\ w \in 20 .. Here(d) - 1 /\ CodeAt(d, w) \in w + 3 .. Here(d)
          /\ d[w] \in {1, 33, 65, 97} /\ Here(d) \in Int
      BY <1>0, WordsBelowHere, DictSizeAssumption
    <3>2. \A i \in w + 1 .. CodeAt(d, w) - 1 : i \in 20 .. Here(d) - 1
      BY <3>1
    <3> QED BY <2>1, <3>1, <3>2
  <2> QED BY <2>1, <2>2 DEF Sealed
<1>2. ASSUME Marked(d, e)
      PROVE  Sealed(d, e) /\ \A w \in Words(d) : w # Latest(d) => e[w] = d[w]
  <2>1. /\ Roomy(e) /\ Here(e) = Here(d) /\ e[Latest(d)] \in {65, 97}
        /\ \A i \in 20 .. DictSize - 1 : i # Latest(d) => e[i] = d[i]
    BY <1>2 DEF Marked
  <2>2. ASSUME NEW w \in Words(d)
        PROVE  /\ w # Latest(d) => e[w] = d[w]
               /\ e[w] \in {1, 33, 65, 97}
               /\ \A i \in w + 1 .. CodeAt(d, w) - 1 : e[i] = d[i]
    <3>1. /\ w \in 20 .. Here(d) - 1 /\ CodeAt(d, w) \in w + 3 .. Here(d)
          /\ d[w] \in {1, 33, 65, 97} /\ Here(d) \in Int
      BY <1>0, WordsBelowHere, DictSizeAssumption
    <3>2. \A i \in w .. CodeAt(d, w) - 1 : i \in 20 .. DictSize - 1
      BY <1>0, <3>1, DictSizeAssumption
    <3>3. w # Latest(d) => e[w] = d[w]
      BY <2>1, <3>1, <3>2
    <3>4. e[w] \in {1, 33, 65, 97}
      BY <2>1, <3>1, <3>3
    <3>5. \A i \in w + 1 .. CodeAt(d, w) - 1 : i # Latest(d)
      <4>1. Latest(d) \in Nat
        BY DictSizeAssumption DEF Sound
      <4>2. w = Latest(d) \/ CodeAt(d, w) <= Latest(d)
        BY WordsBelowLatest
      <4>3. w \in Int /\ CodeAt(d, w) \in Int
        BY <3>1
      <4> QED BY <4>1, <4>2, <4>3
    <3>6. \A i \in w + 1 .. CodeAt(d, w) - 1 : e[i] = d[i]
      <4>1. \A i \in w + 1 .. CodeAt(d, w) - 1 : i \in w .. CodeAt(d, w) - 1
        BY <3>1
      <4> QED BY <2>1, <3>2, <3>5, <4>1
    <3> QED BY <3>3, <3>4, <3>6
  <2>3. Here(d) <= Here(e)
    BY <1>0, <2>1, DictSizeAssumption
  <2> QED BY <2>1, <2>2, <2>3 DEF Sealed
<1>3. ASSUME Roomy(e), SparesHeaders(d, e)
      PROVE  Sealed(d, e) /\ \A w \in Words(d) : e[w] = d[w]
  <2>1. ASSUME NEW w \in Words(d)
        PROVE  /\ e[w] = d[w] /\ e[w] \in {1, 33, 65, 97}
               /\ \A i \in w + 1 .. CodeAt(d, w) - 1 : e[i] = d[i]
    <3>1. w \in Nat /\ CodeAt(d, w) \in w + 3 .. Here(d) /\ Here(d) \in Int /\ d[w] \in {1, 33, 65, 97}
      BY <1>0, WordsBelowHere, DictSizeAssumption
    <3>2. \A i \in w .. CodeAt(d, w) - 1 : e[i] = d[i]
      BY <1>3 DEF SparesHeaders
    <3>3. w \in w .. CodeAt(d, w) - 1
      BY <3>1
    <3> QED BY <3>1, <3>2, <3>3
  <2>2. Here(d) <= Here(e)
    BY <1>0, <1>3, DictSizeAssumption DEF SparesHeaders
  <2> QED BY <1>3, <2>1, <2>2 DEF Sealed
<1> QED BY <1>1, <1>2, <1>3

\* A new word goes on top of the chain.
LEMMA NewSound ==
  ASSUME NEW d, NEW e, Sound(d), New(d, e)
  PROVE  Sound(e)
<1> DEFINE h == Here(d)
           S == Words(d) \cup {h}
<1>1. Sealed(d, e)
  BY StepsSeal
<1>2. \A w \in Words(d) : SoundWord(e, w) /\ Link(e, w) = Link(d, w)
  BY <1>1, SealedWords
<1>3. /\ Latest(e) = h /\ Link(e, h) = Latest(d) /\ Header(e, h) /\ Roomy(e)
      /\ h \in 20 .. DictSize - 1
  BY DEF New, Roomy
<1>4. Linked(e, S)
  BY <1>2, <1>3, WordsLinked DEF Linked
<1>5. S \in SUBSET Address
  BY <1>3, WordsLinked, DictSizeAssumption DEF Address
<1> HIDE DEF h
<1>6. Words(e) \subseteq S
  BY <1>4, <1>5 DEF Words
<1>7. SoundWord(e, h)
  <2>1. CASE Latest(d) = 0
    <3>1. Link(e, h) \in 0 .. h - 1
      BY <1>3, <2>1
    <3> QED BY <1>3, <2>1, <3>1 DEF SoundWord
  <2>2. CASE Latest(d) # 0
    <3>1. Latest(d) \in Words(d)
      BY <2>2, WordsLinked
    <3>2. /\ Latest(d) \in 20 .. h - 1 /\ CodeAt(d, Latest(d)) <= h
      BY <3>1, WordsBelowHere DEF h
    <3>3. CodeAt(e, Latest(d)) = CodeAt(d, Latest(d))
      <4>1. /\ Latest(d) \in Nat /\ d[Latest(d)] \in {1, 33, 65, 97}
        BY <3>1, WordsBelowHere
      <4>2. /\ e[Latest(d)] \in {1, 33, 65, 97}
            /\ \A i \in Latest(d) + 1 .. CodeAt(d, Latest(d)) - 1 : e[i] = d[i]
        BY <1>1, <3>1 DEF Sealed
      <4> QED BY <4>1, <4>2, SameHeader
    <3>4. Link(e, h) \in 0 .. h - 1
      BY <1>3, <3>2
    <3> QED BY <1>3, <3>2, <3>3, <3>4 DEF SoundWord
  <2> QED BY <2>1, <2>2
<1>8. \A w \in Words(e) : SoundWord(e, w)
  BY <1>2, <1>6, <1>7
<1>9. Latest(e) \in 0 .. DictSize - 1
  BY <1>3, DictSizeAssumption
<1> QED BY <1>3, <1>8, <1>9 DEF Sound

-----------------------------------------------------------------------------
(* The chain as a recursive function *)

\* A set of numbers has a least one: this is how a walk is followed.
LEMMA LeastCounterexample ==
  ASSUME NEW T, T \subseteq Nat, T # {}
  PROVE  \E n \in T : \A k \in T : n <= k
<1> DEFINE R == OpToRel(<, Nat)
<1>1. IsWellFoundedOn(R, Nat)
  BY NatLessThanWellFounded
<1>2. \A x, y \in Nat : x < y => << x, y >> \in R
  BY DEF OpToRel
<1> HIDE DEF R
<1>3. PICK n \in T : \A k \in T : ~ (<< k, n >> \in R)
  BY <1>1, WFMin
<1>4. ASSUME NEW k \in T PROVE n <= k
  <2>1. n \in Nat /\ k \in Nat /\ ~ (<< k, n >> \in R)
    BY <1>3
  <2>2. ~ (k < n)
    BY <1>2, <2>1
  <2> QED BY <2>1, <2>2
<1> QED BY <1>4

\* The walk of ChainSound ends, and finds every header of a sound chain.
LEMMA SoundIsChainSound ==
  ASSUME NEW d, Sound(d)
  PROVE  LET sound[w \in Nat] ==
               w = 0 \/ /\ w >= 4 * Len(UserVars)
                        /\ Readable(d, w) /\ Readable(d, LinkAt(d, w))
                        /\ Link(d, w) \in 0 .. w - 1 /\ sound[Link(d, w)]
                        /\ Link(d, w) # 0 => CodeAt(d, Link(d, w)) <= w
         IN  sound[Latest(d)]
<1> DEFINE Good(w) == /\ w >= 4 * Len(UserVars)
                      /\ Readable(d, w) /\ Readable(d, LinkAt(d, w))
                      /\ Link(d, w) \in 0 .. w - 1
                      /\ Link(d, w) # 0 => CodeAt(d, Link(d, w)) <= w
           Walk(f) == [w \in Nat |->
                         w = 0 \/ /\ w >= 4 * Len(UserVars)
                                  /\ Readable(d, w) /\ Readable(d, LinkAt(d, w))
                                  /\ Link(d, w) \in 0 .. w - 1 /\ f[Link(d, w)]
                                  /\ Link(d, w) # 0 => CodeAt(d, Link(d, w)) <= w]
           sound == CHOOSE f : f = Walk(f)
           Closed(S) == \A w \in S : w # 0 => Good(w) /\ Link(d, w) \in S
           R == {w \in Nat : \E S \in SUBSET Nat : w \in S /\ Closed(S)}
           f == [w \in Nat |-> w \in R]
<1>1. ASSUME NEW w \in Nat
      PROVE  w \in R <=> (w = 0 \/ (Good(w) /\ Link(d, w) \in R))
  <2>1. ASSUME w \in R, w # 0 PROVE Good(w) /\ Link(d, w) \in R
    <3>1. PICK S \in SUBSET Nat : w \in S /\ Closed(S)
      BY <2>1
    <3>2. Good(w) /\ Link(d, w) \in S /\ Link(d, w) \in Nat
      BY <2>1, <3>1
    <3> HIDE DEF Good, Closed
    <3> QED BY <3>1, <3>2
  <2>2. ASSUME w = 0 PROVE w \in R
    <3>1. {0} \in SUBSET Nat /\ Closed({0})
      OBVIOUS
    <3> HIDE DEF Closed
    <3> QED BY <2>2, <3>1
  <2>3. ASSUME Good(w), Link(d, w) \in R PROVE w \in R
    <3>1. PICK S \in SUBSET Nat : Link(d, w) \in S /\ Closed(S)
      BY <2>3
    <3> HIDE DEF Good
    <3>2. Closed(S \cup {w})
      BY <2>3, <3>1
    <3> HIDE DEF Closed
    <3> QED BY <3>1, <3>2
  <2> QED BY <2>1, <2>2, <2>3
<1>2. f = Walk(f)
  <2> HIDE DEF R
  <2>1. ASSUME NEW w \in Nat PROVE f[w] = Walk(f)[w]
    <3>1. Good(w) => Link(d, w) \in Nat /\ f[Link(d, w)] = (Link(d, w) \in R)
      OBVIOUS
    <3>2. f[w] = (w \in R)
      OBVIOUS
    <3> HIDE DEF f
    <3>3. Walk(f)[w] = (w = 0 \/ (Good(w) /\ f[Link(d, w)]))
      BY Zenon
    <3>4. f[w] = (w = 0 \/ (Good(w) /\ f[Link(d, w)]))
      <4> HIDE DEF Good
      <4>1. (w \in R) = (w = 0 \/ (Good(w) /\ Link(d, w) \in R))
        BY <1>1
      <4>2. CASE Good(w)
        BY <3>1, <3>2, <4>1, <4>2, Zenon
      <4>3. CASE ~Good(w)
        BY <3>2, <4>1, <4>3, Zenon
      <4> QED BY <4>2, <4>3
    <3> HIDE DEF Walk
    <3> QED BY <3>3, <3>4
  <2> QED BY <2>1
<1>3. sound = Walk(sound)
  <2> HIDE DEF f, Walk
  <2> QED BY <1>2
<1>4. \A w \in Nat : sound[w] <=> (w = 0 \/ (Good(w) /\ sound[Link(d, w)]))
  <2> HIDE DEF sound
  <2>1. \A w \in Nat : Walk(sound)[w] <=> (w = 0 \/ (Good(w) /\ sound[Link(d, w)]))
    BY Zenon
  <2> HIDE DEF Walk, Good
  <2> QED BY <1>3, <2>1
<1>5. \A w \in Words(d) : Good(w) /\ w \in Nat
  <2> SUFFICES ASSUME NEW w \in Words(d) PROVE Good(w) /\ w \in Nat
    OBVIOUS
  <2>1. SoundWord(d, w)
    BY DEF Sound
  <2>2. w \in Nat /\ w >= 20 /\ d[w] \in {1, 33, 65, 97}
    BY WordsBelowHere
  <2>3. LinkAt(d, w) = w + 1
    BY <2>2, HeaderParts
  <2> QED BY <2>1, <2>2, <2>3, UserVarsAssumption DEF SoundWord, Header
<1>6. \A w \in Words(d) : sound[w]
  <2> DEFINE T == {w \in Words(d) : ~sound[w]}
  <2> SUFFICES ASSUME T # {} PROVE FALSE
    OBVIOUS
  <2>1. T \subseteq Nat
    BY <1>5
  <2>2. PICK w \in T : \A k \in T : w <= k
    <3> HIDE DEF T
    <3> QED BY <2>1, LeastCounterexample
  <2> HIDE DEF sound, Good
  <2>3. w \in Words(d) /\ w \in Nat /\ Good(w) /\ ~sound[w]
    BY <1>5, <2>2
  <2>4. sound[0]
    BY <1>4
  <2>5. CASE Link(d, w) = 0
    BY <1>4, <2>3, <2>4, <2>5
  <2>6. CASE Link(d, w) # 0
    <3>1. Link(d, w) \in Words(d) /\ Link(d, w) \in 0 .. w - 1
      BY <2>3, <2>6, WordsLinked, WordsBelowHere
    <3>2. Link(d, w) \notin T
      BY <2>2, <2>3, <3>1
    <3>3. sound[Link(d, w)]
      BY <3>1, <3>2
    <3> QED BY <1>4, <2>3, <3>3
  <2> QED BY <2>5, <2>6
<1>7. sound[Latest(d)]
  <2> HIDE DEF sound
  <2>1. sound[0]
    BY <1>4
  <2> QED BY <1>6, <2>1, WordsLinked
<1> QED BY <1>7

-----------------------------------------------------------------------------
(* The chain as a list of words *)

\* The list of the items E along the links L.
ListAlong(L, E, f) ==
  f = [w \in Nat |-> IF w = 0 \/ L[w] \notin 0 .. w - 1 THEN << >> ELSE Append(f[L[w]], E[w])]

\* It can be built along links that go down: its values up to any n fit together.
LEMMA ListExists ==
  ASSUME NEW L, NEW E
  PROVE  \E f : ListAlong(L, E, f)
<1> SUFFICES \E f : f = [w \in Nat |-> IF w = 0 \/ L[w] \notin 0 .. w - 1 THEN << >>
                                      ELSE Append(f[L[w]], E[w])]
  BY DEF ListAlong
<1> DEFINE Body(f, w) == IF w = 0 \/ L[w] \notin 0 .. w - 1 THEN << >> ELSE Append(f[L[w]], E[w])
           UpTo(g, n) == g = [w \in 0 .. n |-> Body(g, w)]
<1>1. \A g, h : \A w \in Nat : (\A x \in 0 .. w - 1 : g[x] = h[x]) => Body(g, w) = Body(h, w)
  OBVIOUS
<1>2. \A g : \A n \in Nat : UpTo(g, n) => \A w \in 0 .. n : g[w] = Body(g, w)
  <2> HIDE DEF Body
  <2> QED OBVIOUS
<1>3. \A n \in Nat : \E g : UpTo(g, n)
  <2> DEFINE T == {n \in Nat : ~ \E g : UpTo(g, n)}
  <2> SUFFICES ASSUME T # {} PROVE FALSE
    OBVIOUS
  <2>1. PICK n \in T : \A k \in T : n <= k
    <3>1. T \subseteq Nat
      OBVIOUS
    <3> HIDE DEF T
    <3> QED BY <3>1, LeastCounterexample
  <2>2. n \in Nat /\ \A g : ~UpTo(g, n)
    BY <2>1
  <2>3. \A k \in 0 .. n - 1 : \E g : UpTo(g, k)
    <3> HIDE DEF UpTo
    <3> QED BY <2>1, <2>2
  <2>4. PICK g : \A w \in 0 .. n - 1 : g[w] = Body(g, w)
    <3>1. CASE n = 0
      <4>1. 0 .. n - 1 = {}
        BY <3>1
      <4> HIDE DEF Body
      <4> QED BY <4>1
    <3>2. CASE n # 0
      <4>1. n - 1 \in Nat /\ n - 1 \in 0 .. n - 1
        BY <2>2, <3>2
      <4>2. PICK h : UpTo(h, n - 1)
        BY <2>3, <4>1
      <4> HIDE DEF UpTo, Body
      <4> QED BY <1>2, <4>1, <4>2
    <3> QED BY <3>1, <3>2
  <2> DEFINE h == [w \in 0 .. n |-> IF w = n THEN Body(g, n) ELSE g[w]]
  <2>5. ASSUME NEW w \in 0 .. n PROVE h[w] = Body(h, w)
    <3>1. \A x \in 0 .. n - 1 : h[x] = g[x]
      <4> HIDE DEF Body
      <4> QED BY <2>2
    <3>2. \A x \in 0 .. w - 1 : h[x] = g[x]
      BY <2>2, <3>1
    <3>3. h[w] = Body(g, w)
      <4> HIDE DEF Body
      <4> QED BY <2>2, <2>4
    <3> HIDE DEF h, Body
    <3> QED BY <1>1, <2>2, <3>2, <3>3
  <2>6. UpTo(h, n)
    <3>1. h = [w \in 0 .. n |-> h[w]]
      OBVIOUS
    <3> HIDE DEF h, Body
    <3> QED BY <2>5, <3>1
  <2> HIDE DEF h, UpTo
  <2> QED BY <2>2, <2>6
<1>4. ASSUME NEW m \in Nat, NEW n \in Nat, NEW g, NEW h, UpTo(g, m), UpTo(h, n)
      PROVE  \A w \in Nat : w <= m /\ w <= n => g[w] = h[w]
  <2> DEFINE T == {w \in Nat : w <= m /\ w <= n /\ g[w] # h[w]}
  <2> SUFFICES ASSUME T # {} PROVE FALSE
    OBVIOUS
  <2>1. PICK w \in T : \A k \in T : w <= k
    <3>1. T \subseteq Nat
      OBVIOUS
    <3> HIDE DEF T
    <3> QED BY <3>1, LeastCounterexample
  <2> HIDE DEF Body
  <2>2. w \in Nat /\ w \in 0 .. m /\ w \in 0 .. n /\ g[w] # h[w]
    BY <2>1
  <2>3. \A x \in 0 .. w - 1 : g[x] = h[x]
    BY <2>1, <2>2
  <2>4. Body(g, w) = Body(h, w)
    BY <1>1, <2>2, <2>3
  <2>5. g[w] = Body(g, w) /\ h[w] = Body(h, w)
    <3> HIDE DEF UpTo
    <3> QED BY <1>2, <1>4, <2>2
  <2> QED BY <2>2, <2>4, <2>5
<1> DEFINE G(w) == CHOOSE g : UpTo(g, w)
           f == [w \in Nat |-> G(w)[w]]
<1>5. \A w \in Nat : UpTo(G(w), w)
  <2> HIDE DEF UpTo
  <2> QED BY <1>3
<1>6. ASSUME NEW w \in Nat PROVE f[w] = Body(f, w)
  <2> HIDE DEF UpTo, G
  <2>1. \A x \in 0 .. w - 1 : x \in Nat /\ x <= w /\ x <= x
    OBVIOUS
  <2>2. \A x \in 0 .. w - 1 : f[x] = G(w)[x]
    <3> SUFFICES ASSUME NEW x \in 0 .. w - 1 PROVE f[x] = G(w)[x]
      OBVIOUS
    <3>1. x \in Nat /\ x <= w /\ x <= x
      BY <2>1
    <3>2. G(x)[x] = G(w)[x]
      BY <1>4, <1>5, <3>1
    <3> QED BY <3>1, <3>2
  <2>3. G(w)[w] = Body(G(w), w)
    <3>1. w \in 0 .. w
      OBVIOUS
    <3> HIDE DEF Body
    <3> QED BY <1>2, <1>5, <3>1
  <2>4. Body(f, w) = Body(G(w), w)
    <3> HIDE DEF f, Body
    <3> QED BY <1>1, <2>2
  <2> HIDE DEF Body
  <2> QED BY <2>3, <2>4
<1>7. f = [w \in Nat |-> Body(f, w)]
  <2>1. f = [w \in Nat |-> f[w]]
    OBVIOUS
  <2> HIDE DEF f, Body
  <2> QED BY <1>6, <2>1
<1> HIDE DEF f
<1> QED BY <1>7

\* What the list says of a word.
Item(d, w) == [name |-> d[NameAt(d, w)], immediate |-> HasFlag(d, w, ImmediateFlag)]

\* The list up to a word.
ListOf(d) ==
  CHOOSE f : f = [w \in Nat |-> IF w = 0 \/ Link(d, w) \notin 0 .. w - 1 THEN << >>
                                ELSE Append(f[Link(d, w)], Item(d, w))]

Items(d) == {Item(d, w) : w \in Nat}

\* The list is that of WordsIn, and it is built from the links.
LEMMA ListSteps ==
  ASSUME NEW d
  PROVE  /\ WordsIn(d) = ListOf(d)[Latest(d)]
         /\ ListOf(d)[0] = << >>
         /\ \A w \in Nat : w # 0 /\ Link(d, w) \in 0 .. w - 1
                           => ListOf(d)[w] = Append(ListOf(d)[Link(d, w)], Item(d, w))
         /\ \A w \in Nat : ListOf(d)[w] \in Seq(Items(d))
<1> DEFINE Walk(f) == [w \in Nat |-> IF w = 0 \/ Link(d, w) \notin 0 .. w - 1 THEN << >>
                                     ELSE Append(f[Link(d, w)], Item(d, w))]
           g == ListOf(d)
<1>1. WordsIn(d) = g[Latest(d)]
  BY DEF WordsIn, ListOf, Item
<1>2. \E f : f = Walk(f)
  <2> DEFINE L == [w \in Nat |-> Link(d, w)]
             E == [w \in Nat |-> Item(d, w)]
  <2>1. PICK f : f = [w \in Nat |-> IF w = 0 \/ L[w] \notin 0 .. w - 1 THEN << >>
                                    ELSE Append(f[L[w]], E[w])]
    <3> HIDE DEF L, E
    <3>1. \E f : ListAlong(L, E, f)
      BY ListExists
    <3> QED BY <3>1 DEF ListAlong
  <2>2. \A w \in Nat : L[w] = Link(d, w) /\ E[w] = Item(d, w)
    OBVIOUS
  <2> HIDE DEF L, E
  <2>3. f = Walk(f)
    BY <2>1, <2>2
  <2> QED BY <2>3
<1>3. g = Walk(g)
  <2>1. g = CHOOSE f : f = Walk(f)
    BY DEF ListOf
  <2> HIDE DEF Walk, g
  <2> QED BY <1>2, <2>1
<1> HIDE DEF g
<1>4. \A w \in Nat : g[w] = IF w = 0 \/ Link(d, w) \notin 0 .. w - 1 THEN << >>
                           ELSE Append(g[Link(d, w)], Item(d, w))
  <2>1. \A w \in Nat : Walk(g)[w] = IF w = 0 \/ Link(d, w) \notin 0 .. w - 1 THEN << >>
                                   ELSE Append(g[Link(d, w)], Item(d, w))
    BY Zenon
  <2> HIDE DEF Walk
  <2> QED BY <1>3, <2>1
<1>5. \A w \in Nat : g[w] \in Seq(Items(d))
  <2> DEFINE T == {w \in Nat : g[w] \notin Seq(Items(d))}
  <2> SUFFICES ASSUME T # {} PROVE FALSE
    OBVIOUS
  <2>1. PICK w \in T : \A k \in T : w <= k
    <3>1. T \subseteq Nat
      OBVIOUS
    <3> HIDE DEF T
    <3> QED BY <3>1, LeastCounterexample
  <2>2. w \in Nat /\ g[w] \notin Seq(Items(d))
    BY <2>1
  <2>3. CASE w = 0 \/ Link(d, w) \notin 0 .. w - 1
    <3>1. g[w] = << >>
      BY <1>4, <2>2, <2>3
    <3>2. << >> \in Seq(Items(d))
      OBVIOUS
    <3> QED BY <2>2, <3>1, <3>2
  <2>4. CASE ~(w = 0 \/ Link(d, w) \notin 0 .. w - 1)
    <3>1. g[Link(d, w)] \in Seq(Items(d))
      BY <2>1, <2>2, <2>4
    <3>2. Item(d, w) \in Items(d)
      BY <2>2 DEF Items
    <3>3. g[w] = Append(g[Link(d, w)], Item(d, w))
      BY <1>4, <2>2, <2>4
    <3> QED BY <2>2, <3>1, <3>2, <3>3
  <2> QED BY <2>3, <2>4
<1>6. g[0] = << >>
  BY <1>4
<1>7. \A w \in Nat : w # 0 /\ Link(d, w) \in 0 .. w - 1
                    => g[w] = Append(g[Link(d, w)], Item(d, w))
  BY <1>4
<1> QED BY <1>1, <1>5, <1>6, <1>7 DEF g

\* Where the headers and the flags of the words up to x are kept, the list up to x is.
LEMMA ListKept ==
  ASSUME NEW d, NEW e, Sound(d), Sealed(d, e), NEW x \in Words(d) \cup {0},
         \A w \in Words(d) : w <= x => e[w] = d[w]
  PROVE  ListOf(e)[x] = ListOf(d)[x]
<1> DEFINE T == {w \in Nat : w \in Words(d) \cup {0} /\ w <= x /\ ListOf(e)[w] # ListOf(d)[w]}
<1>1. x \in Nat
  BY WordsBelowHere
<1> SUFFICES ASSUME T # {} PROVE FALSE
  BY <1>1
<1>2. PICK w \in T : \A k \in T : w <= k
  <2>1. T \subseteq Nat
    OBVIOUS
  <2> HIDE DEF T
  <2> QED BY <2>1, LeastCounterexample
<1>3. w \in Nat /\ w \in Words(d) \cup {0} /\ w <= x /\ ListOf(e)[w] # ListOf(d)[w]
  BY <1>2
<1>4. w # 0
  BY <1>3, ListSteps
<1>5. w \in Words(d) /\ Link(d, w) \in 0 .. w - 1
  BY <1>3, <1>4, WordsBelowHere
<1>6. /\ Link(e, w) = Link(d, w) /\ NameAt(e, w) = NameAt(d, w)
      /\ e[NameAt(e, w)] = d[NameAt(d, w)]
  BY <1>5, SealedWords
<1>7. Item(e, w) = Item(d, w)
  <2>1. e[w] = d[w] /\ d[w] \in {1, 33, 65, 97}
    BY <1>3, <1>5, WordsBelowHere
  <2>2. Flags(e, w) = Flags(d, w)
    BY <1>3, <2>1, HeaderParts
  <2>3. HasFlag(e, w, ImmediateFlag) = HasFlag(d, w, ImmediateFlag)
    BY <2>2, Zenon DEF HasFlag
  <2> QED BY <1>6, <2>3, Zenon DEF Item
<1>8. ListOf(e)[Link(d, w)] = ListOf(d)[Link(d, w)]
  <2>1. Link(d, w) \in Words(d) \cup {0}
    BY <1>5, WordsLinked
  <2>2. Link(d, w) \in Nat /\ Link(d, w) < w /\ Link(d, w) <= x
    BY <1>1, <1>3, <1>5
  <2>3. Link(d, w) \notin T
    BY <1>2, <1>3, <2>2
  <2> QED BY <2>1, <2>2, <2>3
<1>9. /\ ListOf(d)[w] = Append(ListOf(d)[Link(d, w)], Item(d, w))
      /\ ListOf(e)[w] = Append(ListOf(e)[Link(e, w)], Item(e, w))
  BY <1>3, <1>4, <1>5, <1>6, ListSteps
<1> QED BY <1>3, <1>6, <1>7, <1>8, <1>9

\* Steps of the dictionary as steps of the list.
LEMMA ListUnchanged ==
  ASSUME NEW d, NEW e, Sound(d), Sealed(d, e), Latest(e) = Latest(d),
         \A w \in Words(d) : e[w] = d[w]
  PROVE  WordsIn(e) = WordsIn(d)
<1>1. Latest(d) \in Words(d) \cup {0}
  BY WordsLinked
<1>2. ListOf(e)[Latest(d)] = ListOf(d)[Latest(d)]
  BY <1>1, ListKept
<1> QED BY <1>2, ListSteps

\* A new word is a definition,
LEMMA ListDefines ==
  ASSUME NEW d, NEW e, Sound(d), New(d, e)
  PROVE  WordsIn(e) # << >> /\ Front(WordsIn(e)) = WordsIn(d)
<1> DEFINE h == Here(d)
<1>1. Sealed(d, e) /\ \A w \in Words(d) : e[w] = d[w]
  BY StepsSeal
<1>2. Latest(d) \in Words(d) \cup {0}
  BY WordsLinked
<1>3. ListOf(e)[Latest(d)] = ListOf(d)[Latest(d)]
  BY <1>1, <1>2, ListKept
<1>4. /\ Latest(e) = h /\ Link(e, h) = Latest(d) /\ h \in 20 .. DictSize - 1
      /\ Link(e, h) \in 0 .. h - 1
  <2>1. /\ Latest(e) = h /\ Link(e, h) = Latest(d) /\ h \in 20 .. DictSize - 1
    BY DEF New, Roomy
  <2>2. Sound(e)
    BY NewSound
  <2>3. h \in Words(e)
    BY <2>1, <2>2, WordsLinked
  <2> QED BY <2>1, <2>2, <2>3, WordsBelowHere
<1> HIDE DEF h
<1>5. h \in Nat /\ h # 0
  BY <1>4, DictSizeAssumption
<1>6. ListOf(e)[h] = Append(ListOf(d)[Latest(d)], Item(e, h))
  BY <1>3, <1>4, <1>5, ListSteps
<1>7. WordsIn(e) = Append(WordsIn(d), Item(e, h))
  BY <1>4, <1>6, ListSteps
<1>8. WordsIn(d) \in Seq(Items(d))
  <2>1. Latest(d) \in Nat
    BY DEF Sound
  <2> QED BY <2>1, ListSteps
<1> DEFINE S == Items(d) \cup {Item(e, h)}
<1>9. WordsIn(d) \in Seq(S) /\ Item(e, h) \in S
  BY <1>8, SeqMonotonic
<1> HIDE DEF S
<1>10. /\ Append(WordsIn(d), Item(e, h)) \in Seq(S)
       /\ Len(Append(WordsIn(d), Item(e, h))) = Len(WordsIn(d)) + 1
       /\ Len(WordsIn(d)) \in Nat
  BY <1>9, AppendProperties
<1>11. Append(WordsIn(d), Item(e, h)) # << >>
  BY <1>10
<1>12. Front(Append(WordsIn(d), Item(e, h))) = WordsIn(d)
  BY <1>9, <1>10 DEF Front
<1> QED BY <1>7, <1>11, <1>12

\* and a mark makes the last word immediate.
LEMMA ListMarks ==
  ASSUME NEW d, NEW e, Sound(d), Marked(d, e)
  PROVE  /\ WordsIn(d) # << >>
         /\ WordsIn(e) = [WordsIn(d) EXCEPT ![Len(WordsIn(d))].immediate = TRUE]
<1> DEFINE l == Latest(d)
           k == Link(d, l)
           s == ListOf(d)[k]
<1>1. Sealed(d, e) /\ \A w \in Words(d) : w # l => e[w] = d[w]
  BY StepsSeal
<1>2. l \in Words(d) /\ l \in Nat /\ l # 0 /\ k \in 0 .. l - 1 /\ k \in Words(d) \cup {0}
  <2>1. l \in 20 .. Here(d) - 1 /\ Here(d) \in 20 .. DictSize - 1
    BY DEF Marked, Header, Roomy
  <2>2. l \in Nat /\ l # 0
    BY <2>1, DictSizeAssumption
  <2>3. l \in Words(d)
    BY <2>2, WordsLinked
  <2> QED BY <2>2, <2>3, WordsLinked, WordsBelowHere
<1>3. Latest(e) = l /\ e[l] \in {65, 97}
  BY DEF Marked
<1> HIDE DEF l
<1>4. Link(e, l) = k /\ NameAt(e, l) = NameAt(d, l) /\ e[NameAt(e, l)] = d[NameAt(d, l)]
  BY <1>1, <1>2, SealedWords
<1>5. ListOf(e)[k] = s
  <2>1. \A w \in Words(d) : w <= k => e[w] = d[w]
    BY <1>1, <1>2
  <2> QED BY <1>1, <1>2, <2>1, ListKept
<1>6. /\ WordsIn(d) = Append(s, Item(d, l))
      /\ WordsIn(e) = Append(s, Item(e, l))
  <2>1. WordsIn(d) = ListOf(d)[l] /\ WordsIn(e) = ListOf(e)[l]
    BY <1>3, ListSteps DEF l
  <2>2. ListOf(d)[l] = Append(ListOf(d)[k], Item(d, l))
    BY <1>2, ListSteps
  <2>3. ListOf(e)[l] = Append(ListOf(e)[k], Item(e, l))
    BY <1>2, <1>4, ListSteps
  <2> QED BY <1>5, <2>1, <2>2, <2>3
<1>7. Item(e, l) = [Item(d, l) EXCEPT !.immediate = TRUE]
  <2>1. Flags(e, l) = e[l]
    BY <1>2, <1>3, HeaderParts
  <2>2. HasFlag(e, l, ImmediateFlag) = TRUE
    BY <1>3, <2>1 DEF HasFlag, ImmediateFlag
  <2>3. Item(e, l) = [name |-> d[NameAt(d, l)], immediate |-> TRUE]
    BY <1>4, <2>2 DEF Item
  <2> DEFINE a == d[NameAt(d, l)]
             b == HasFlag(d, l, ImmediateFlag)
             c == TRUE
             r == Item(d, l)
             z == [r EXCEPT !.immediate = c]
  <2>4. r = [name |-> a, immediate |-> b]
    BY DEF Item
  <2>5. Item(e, l) = [name |-> a, immediate |-> c]
    BY <2>3
  <2> HIDE DEF a, b, c, r
  <2>6. z = [name |-> a, immediate |-> c]
    <3>1. z = [r EXCEPT !.immediate = c]
      OBVIOUS
    <3> HIDE DEF z
    <3> QED BY <2>4, <3>1
  <2>7. z = Item(e, l)
    BY <2>5, <2>6
  <2> QED BY <2>7 DEF c, r
<1>8. s \in Seq(Items(d)) /\ Item(d, l) \in Items(d)
  <2>1. k \in Nat
    BY <1>2
  <2> QED BY <1>2, <2>1, ListSteps DEF Items
<1> HIDE DEF s, k
<1> DEFINE x == Item(d, l)
           y == [x EXCEPT !.immediate = TRUE]
           t == Append(s, x)
<1>9. /\ Append(s, y) = [t EXCEPT ![Len(t)] = y] /\ t[Len(t)] = x
      /\ Len(t) \in Nat /\ t # << >>
  <2> HIDE DEF x, y
  <2> DEFINE S == Items(d) \cup {x, y}
  <2>1. s \in Seq(S) /\ x \in S /\ y \in S
    BY <1>8, SeqMonotonic DEF x
  <2> HIDE DEF S
  <2>2. /\ t \in Seq(S) /\ Len(t) = Len(s) + 1 /\ t[Len(t)] = x /\ Len(s) \in Nat
        /\ \A i \in 1 .. Len(s) : t[i] = s[i]
    BY <2>1, AppendProperties
  <2>3. /\ Append(s, y) \in Seq(S) /\ Len(Append(s, y)) = Len(s) + 1
        /\ Append(s, y)[Len(s) + 1] = y
        /\ \A i \in 1 .. Len(s) : Append(s, y)[i] = s[i]
    BY <2>1, AppendProperties
  <2>4. DOMAIN t = 1 .. Len(s) + 1 /\ DOMAIN Append(s, y) = 1 .. Len(s) + 1
    BY <2>2, <2>3
  <2> HIDE DEF t
  <2> DEFINE u == [t EXCEPT ![Len(t)] = y]
             v == Append(s, y)
  <2>5. \A i \in 1 .. Len(s) + 1 : u[i] = v[i]
    BY <2>2, <2>3, <2>4
  <2>6. u = [i \in 1 .. Len(s) + 1 |-> u[i]] /\ v = [i \in 1 .. Len(s) + 1 |-> v[i]]
    <3>1. v = [i \in DOMAIN v |-> v[i]]
      <4>1. v \in [1 .. Len(v) -> S]
        BY <2>3, LenProperties
      <4> HIDE DEF v
      <4> QED BY <4>1
    <3> QED BY <2>4, <3>1
  <2>7. u = v
    <3> HIDE DEF u, v
    <3> QED BY <2>5, <2>6
  <2>8. t # << >>
    BY <2>2
  <2> QED BY <2>2, <2>7, <2>8
<1>10. [t EXCEPT ![Len(t)].immediate = TRUE] = [t EXCEPT ![Len(t)] = y]
  <2> HIDE DEF t, x
  <2> QED BY <1>9
<1> QED BY <1>6, <1>7, <1>9, <1>10

-----------------------------------------------------------------------------
(* The dictionary in the outer interpreter *)

\* A step of the dictionary.
Change(d, e) == Grows(d, e) \/ New(d, e) \/ Marked(d, e)

\* More of a machine with a dictionary grown from d.
LEMMA MoreCells ==
  ASSUME NEW d, NEW m, Safe(m), Grows(d, m.dict) \/ New(d, m.dict), NEW v
  PROVE  LET n == AddCell(m, v) IN
         /\ Safe(n) /\ (n.ok => m.ok)
         /\ Grows(d, m.dict) => Grows(d, n.dict)
         /\ New(d, m.dict) => New(d, n.dict)
<1> DEFINE n == AddCell(m, v)
<1>1. Roomy(m.dict)
  BY DEF Grows, New
<1>2. Grows(m.dict, n.dict) /\ (n.ok => m.ok)
  BY <1>1, AddCellGrows
<1>3. Safe(n)
  BY AddCellSafe DEF After
<1> HIDE DEF n
<1>4. Grows(d, m.dict) => Grows(d, n.dict)
  BY <1>2, GrowsPreorder
<1>5. New(d, m.dict) => New(d, n.dict)
  BY <1>2, NewThen
<1> QED BY <1>2, <1>3, <1>4, <1>5 DEF n

\* One turn of the boot: a word more, or the room has run out.
LEMMA BootWords ==
  ASSUME NEW m, Safe(m), Roomy(m.dict), Latest(m.dict) \in 0 .. DictSize - 1, NEW n,
         (\E p : n = AddPrim(m, p)) \/ (\E name, i : n = AddUserVar(m, name, i))
  PROVE  /\ Grows(m.dict, n.dict) \/ New(m.dict, n.dict)
         /\ m.ok /\ Here(m.dict) = 20 /\ Latest(m.dict) = 0 => New(m.dict, n.dict)
<1> DEFINE d == m.dict
           Start == m.ok /\ Here(d) = 20 /\ Latest(d) = 0
<1>1. ASSUME NEW name, NEW flags \in {0, 32}
      PROVE  LET c == Create(m, name, flags) IN
             /\ Safe(c)
             /\ c.ok => New(d, c.dict)
             /\ ~c.ok => Grows(d, c.dict)
             /\ Start => c.ok
  BY CreateSafe, CreateEffect, FirstWordFits DEF After
<1>2. ASSUME NEW p, n = AddPrim(m, p)
      PROVE  (Grows(d, n.dict) \/ New(d, n.dict)) /\ (Start => New(d, n.dict))
  <2> DEFINE c == Create(m, p.name, PrimFlag)
             a == AddCell(c, p.op)
             w == AddCell(a, Op.EXIT)
  <2>1. /\ Safe(c) /\ (c.ok => New(d, c.dict)) /\ (~c.ok => Grows(d, c.dict))
        /\ Start => c.ok
    BY <1>1 DEF PrimFlag
  <2>2. n = IF p.imm THEN MakeImmediate(w) ELSE w
    BY <1>2 DEF AddPrim
  <2> HIDE DEF c
  <2>3. /\ Safe(a) /\ (a.ok => c.ok)
        /\ Grows(d, c.dict) => Grows(d, a.dict)
        /\ New(d, c.dict) => New(d, a.dict)
    BY <2>1, MoreCells
  <2> HIDE DEF a
  <2>4. /\ Safe(w) /\ (w.ok => a.ok)
        /\ Grows(d, a.dict) => Grows(d, w.dict)
        /\ New(d, a.dict) => New(d, w.dict)
    <3>1. Grows(d, a.dict) \/ New(d, a.dict)
      BY <2>1, <2>3
    <3> QED BY <2>3, <3>1, MoreCells
  <2> HIDE DEF w
  <2>5. /\ c.ok => New(d, w.dict)
        /\ ~c.ok => Grows(d, w.dict) /\ ~w.ok
    BY <2>1, <2>3, <2>4
  <2>6. Roomy(w.dict) /\ (w.ok => Header(w.dict, Latest(w.dict)))
    BY <2>3, <2>4, <2>5 DEF New, Grows
  <2> DEFINE i == MakeImmediate(w)
  <2>7. i.dict = w.dict \/ (w.ok /\ Marked(w.dict, i.dict))
    BY <2>4, <2>6, MakeImmediateEffect
  <2> HIDE DEF i
  <2>8. (c.ok => New(d, i.dict)) /\ (~c.ok => Grows(d, i.dict))
    BY <2>5, <2>7, NewThen
  <2>9. n = w \/ n = i
    BY <2>2 DEF i
  <2> QED BY <2>1, <2>5, <2>8, <2>9
<1>3. ASSUME NEW name, NEW i, n = AddUserVar(m, name, i)
      PROVE  (Grows(d, n.dict) \/ New(d, n.dict)) /\ (Start => New(d, n.dict))
  <2> DEFINE c == Create(m, name, 0)
             a == AddCell(c, Op.LIT)
             b == AddCell(a, i)
             w == AddCell(b, Op.EXIT)
  <2>1. /\ Safe(c) /\ (c.ok => New(d, c.dict)) /\ (~c.ok => Grows(d, c.dict))
        /\ Start => c.ok
    BY <1>1
  <2>2. n = w
    BY <1>3 DEF AddUserVar, AddLit
  <2> HIDE DEF c
  <2>3. /\ Safe(a)
        /\ Grows(d, c.dict) => Grows(d, a.dict)
        /\ New(d, c.dict) => New(d, a.dict)
    BY <2>1, MoreCells
  <2>4. Grows(d, a.dict) \/ New(d, a.dict)
    BY <2>1, <2>3
  <2> HIDE DEF a
  <2>5. /\ Safe(b)
        /\ Grows(d, a.dict) => Grows(d, b.dict)
        /\ New(d, a.dict) => New(d, b.dict)
    BY <2>3, <2>4, MoreCells
  <2>6. Grows(d, b.dict) \/ New(d, b.dict)
    BY <2>4, <2>5
  <2> HIDE DEF b
  <2>7. /\ Grows(d, b.dict) => Grows(d, w.dict)
        /\ New(d, b.dict) => New(d, w.dict)
    BY <2>5, <2>6, MoreCells
  <2> HIDE DEF w
  <2> QED BY <2>1, <2>2, <2>3, <2>5, <2>7
<1> QED BY <1>2, <1>3

\* Words compiled and numbers.
LEMMA CompileGrows ==
  ASSUME NEW m, Safe(m), Roomy(m.dict)
  PROVE  /\ \A w : Grows(m.dict, Compile(m, w).dict)
         /\ \A name : Grows(m.dict, Number(m, name).dict)
<1> DEFINE d == m.dict
<1>1. ASSUME NEW w PROVE Grows(d, Compile(m, w).dict)
  <2> DEFINE c == CodeAt(d, w)
             op == IF HasFlag(d, w, PrimFlag) THEN Value(d, c) ELSE c
             added == AddCell(m, op)
             e == SetVar(added.dict, 4, 0)
             compiled == IF added.ok THEN [added EXCEPT !.dict = e] ELSE added
  <2>1. Compile(m, w) \in {Fail(m), compiled}
    BY DEF Compile
  <2> HIDE DEF op
  <2>2. Safe(added) /\ Grows(d, added.dict)
    BY AddCellSafe, AddCellGrows DEF After
  <2> HIDE DEF added
  <2>3. Grows(added.dict, e)
    BY <2>2, SetVarGrows DEF Grows
  <2> HIDE DEF e
  <2>4. [added EXCEPT !.dict = e].dict = e
    BY <2>2 DEF Safe
  <2>5. Grows(d, e)
    <3> HIDE DEF d
    <3> QED BY <2>2, <2>3, GrowsPreorder
  <2>6. Grows(d, compiled.dict)
    <3> HIDE DEF d
    <3> QED BY <2>2, <2>4, <2>5
  <2>7. Fail(m).dict = d /\ Grows(d, d)
    BY StacksKeepDict, GrowsPreorder
  <2> HIDE DEF compiled, d
  <2> QED BY <2>1, <2>6, <2>7
<1>2. ASSUME NEW name PROVE Grows(d, Number(m, name).dict)
  <2> DEFINE v == Digits[name]
             a == AddCell(m, Op.LIT)
             b == AddCell(a, v)
  <2>1. Number(m, name) \in {Fail(m), b, Push(m, << v >>)}
    <3>1. AddLit(m, v) = b
      BY DEF AddLit
    <3> HIDE DEF b
    <3> QED BY <3>1 DEF Number
  <2>2. Fail(m).dict = d /\ Push(m, << v >>).dict = d
    BY StacksKeepDict
  <2>3. Grows(d, d)
    BY GrowsPreorder
  <2>4. Safe(a) /\ Grows(d, a.dict)
    BY AddCellSafe, AddCellGrows DEF After
  <2> HIDE DEF a
  <2>5. Grows(d, b.dict)
    BY <2>4, MoreCells
  <2> HIDE DEF b, d
  <2> QED BY <2>1, <2>2, <2>3, <2>5
<1> QED BY <1>1, <1>2

\* zf_eval goes on: an abort only resets the compiling flag.
LEMMA ProceedEffect ==
  ASSUME NEW d, NEW m, Safe(m), Effect(d, m), Proceed(m)
  PROVE  Change(d, vm'.dict)
<1>1. vm' = IF m.ok THEN m ELSE Recover(m)
  BY DEF Proceed
<1>2. CASE m.ok
  BY <1>1, <1>2 DEF Effect, Change
<1>3. CASE ~m.ok
  <2>1. Grows(d, m.dict)
    BY <1>3 DEF Effect
  <2> DEFINE e == SetVar(m.dict, 3, 0)
  <2>2. Recover(m) = [m EXCEPT !.dict = e, !.data = << >>, !.ret = << >>, !.ok = TRUE]
    BY DEF Recover
  <2>3. Grows(m.dict, e)
    BY <2>1, SetVarGrows DEF Grows
  <2> HIDE DEF e
  <2>4. Recover(m).dict = e
    BY <2>2 DEF Safe
  <2>5. Grows(d, e)
    BY <2>1, <2>3, GrowsPreorder
  <2> QED BY <1>1, <1>3, <2>4, <2>5 DEF Change
<1> QED BY <1>2, <1>3

-----------------------------------------------------------------------------
(* The chain in every step *)

\* The chain is sound, and has a word as soon as the boot has begun.
ChainIInv ==
  /\ Sound(vm.dict)
  /\ Latest(vm.dict) = 0 => control = "boot" /\ vm.ok /\ Here(vm.dict) = 20

\* The steps, each as a step of the dictionary.
LEMMA BootstrapChanges ==
  ASSUME AskIInv, ChainIInv, Bootstrap
  PROVE  Change(vm.dict, vm'.dict) /\ Latest(vm'.dict) # 0
<1> DEFINE d == vm.dict
           e == vm'.dict
<1>1. (\E p : vm' = AddPrim(vm, p)) \/ (\E name, i : vm' = AddUserVar(vm, name, i))
  <2> DEFINE p == Prims[pos]
             u == UserVars[pos - Len(Prims)]
             i == pos - Len(Prims) - 1
  <2>1. vm' = AddPrim(vm, p) \/ vm' = AddUserVar(vm, u, i)
    BY DEF Bootstrap
  <2> HIDE DEF p, u, i
  <2> QED BY <2>1
<1>2. Safe(vm) /\ Roomy(d) /\ Latest(d) \in 0 .. DictSize - 1
  BY DEF AskIInv, ChainIInv, Sound
<1>3. /\ Grows(d, e) \/ New(d, e)
      /\ vm.ok /\ Here(d) = 20 /\ Latest(d) = 0 => New(d, e)
  BY <1>1, <1>2, BootWords
<1>4. Latest(d) = 0 => New(d, e)
  BY <1>3 DEF ChainIInv
<1>5. New(d, e) => Latest(e) # 0
  <2>1. New(d, e) => Latest(e) \in 20 .. DictSize - 1
    BY DEF New, Roomy
  <2> QED BY <2>1, DictSizeAssumption
<1>6. Grows(d, e) => Latest(e) = Latest(d)
  BY DEF Grows
<1> HIDE DEF d, e
<1>7. Latest(e) # 0
  BY <1>3, <1>4, <1>5, <1>6
<1>8. Change(d, e)
  BY <1>3 DEF Change
<1> QED BY <1>7, <1>8 DEF d, e

\* handle_char: a word is compiled, or a number.
LEMMA HandleCharChanges ==
  ASSUME AskIInv, ChainIInv, HandleChar
  PROVE  Change(vm.dict, vm'.dict)
<1> DEFINE d == vm.dict
<1>1. Safe(vm) /\ Roomy(d) /\ Grows(d, d)
  BY GrowsPreorder DEF AskIInv, ChainIInv, Sound
<1>2. vm'.dict = d => Change(d, vm'.dict)
  BY <1>1 DEF Change
<1>3. ASSUME NEW m, After(vm, m), Grows(d, m.dict), Proceed(m)
      PROVE  Change(d, vm'.dict)
  <2>1. Effect(d, m) /\ Safe(m)
    BY <1>3 DEF Effect, After
  <2> QED BY <1>3, <2>1, ProceedEffect
<1>4. CASE Run([vm EXCEPT !.ask = "none"], Char(pos))
  <2>1. vm' = [vm EXCEPT !.ask = "none"]
    BY <1>4 DEF Run
  <2>2. vm'.dict = d
    BY <1>1, <2>1, StacksKeepDict
  <2> QED BY <1>2, <2>2
<1>5. CASE Proceed(vm)
  <2>1. After(vm, vm)
    BY <1>1, SafeParts
  <2> QED BY <1>1, <1>3, <1>5, <2>1
<1>6. CASE word # None /\ HandleWord(word)
  <2> DEFINE w == FindWord(d, word)
             c == CodeAt(d, w)
             at == [vm EXCEPT !.ip = c]
  <2>1. \/ vm' = [vm EXCEPT !.ask = "none"]
        \/ Proceed(Fail(vm))
        \/ Proceed(Number(vm, word))
        \/ Proceed(Compile(vm, w))
        \/ vm' = [at EXCEPT !.ret = << 0 >>]
    <3>1. [at EXCEPT !.ret = << 0 >>] = [vm EXCEPT !.ip = c, !.ret = << 0 >>]
      OBVIOUS
    <3>2. Run([vm EXCEPT !.ask = "none"], word) => vm' = [vm EXCEPT !.ask = "none"]
      BY DEF Run
    <3> HIDE DEF at, w
    <3> QED BY <1>6, <3>1, <3>2 DEF HandleWord, w
  <2> HIDE DEF w, c
  <2>2. CASE vm' = [vm EXCEPT !.ask = "none"]
    BY <1>1, <1>2, <2>2, StacksKeepDict
  <2>3. CASE Proceed(Fail(vm))
    <3>1. Grows(d, Fail(vm).dict)
      BY <1>1, StacksKeepDict
    <3> QED BY <1>1, <1>3, <2>3, <3>1, SafeParts
  <2>4. CASE Proceed(Number(vm, word))
    BY <1>1, <1>3, <2>4, WordsSafe, CompileGrows
  <2>5. CASE Proceed(Compile(vm, w))
    BY <1>1, <1>3, <2>5, WordsSafe, CompileGrows
  <2>6. CASE vm' = [at EXCEPT !.ret = << 0 >>]
    <3>1. Safe(at) /\ at.dict = d
      BY <1>1, SafeParts, StacksKeepDict DEF After
    <3> HIDE DEF at
    <3>2. vm'.dict = d
      BY <2>6, <3>1, StacksKeepDict
    <3> QED BY <1>2, <3>2
  <2> QED BY <2>1, <2>2, <2>3, <2>4, <2>5, <2>6
<1> QED BY <1>4, <1>5, <1>6 DEF HandleChar

\* A turn of run, unless it is a store.
LEMMA RunStepChanges ==
  ASSUME AskIInv, ChainIInv, RunStep, ~Poking
  PROVE  Change(vm.dict, vm'.dict)
<1> DEFINE d == vm.dict
           code == Value(vm.dict, vm.ip)
           at == [vm EXCEPT !.ip = @ + Width(vm.dict, vm.ip)]
           called == PushR(at, at.ip)
           m == IF ~Readable(vm.dict, vm.ip) THEN Fail(vm)
                ELSE IF code \in 0 .. PrimCount THEN DoPrim(code, at, input)
                ELSE IF called.ok THEN [called EXCEPT !.ip = code] ELSE called
           sys == m.ok /\ code = Op.SYS /\ BootsBy(Top(vm, 1))
<1>0. Safe(vm)
  BY DEF AskIInv
<1>1. /\ Safe(vm) /\ Roomy(d) /\ Grows(d, d) /\ Latest(d) # 0
      /\ control = "run"
  BY GrowsPreorder DEF AskIInv, ChainIInv, Sound, RunStep
<1>2. Header(d, Latest(d))
  BY <1>1, WordsLinked DEF ChainIInv, Sound, SoundWord
<1>3. at.dict = d
  BY <1>0, StacksKeepDict, Zenon
<1>4. (CASE sys -> control' = "booted" /\ vm' = m
         [] m.ok /\ m.ask # "none" -> Proceed(Suspend(m, vm.ip))
         [] m.ok /\ m.ask = "none" /\ m.ip # 0 -> vm' = m /\ control' = control
         [] OTHER -> Proceed(m))
  BY DEF RunStep
<1>5. Safe(at)
  BY <1>1, SafeParts DEF After
<1> HIDE DEF at
<1>6. Safe(m) /\ Effect(d, m)
  <2>1. CASE ~Readable(vm.dict, vm.ip)
    <3>1. m = Fail(vm)
      BY <2>1
    <3>2. Safe(Fail(vm)) /\ Fail(vm).dict = d
      BY <1>1, SafeParts, StacksKeepDict DEF After
    <3> HIDE DEF m
    <3> QED BY <1>1, <3>1, <3>2 DEF Effect
  <2>2. CASE Readable(vm.dict, vm.ip) /\ code \in 0 .. PrimCount
    <3>1. m = DoPrim(code, at, input)
      BY <2>2
    <3>2. code # Op.POKE
      BY <1>1, <2>2 DEF Poking
    <3> HIDE DEF m, code
    <3>3. Safe(DoPrim(code, at, input))
      BY <1>5, <2>2, DoPrimSafe
    <3>4. Effect(d, DoPrim(code, at, input))
      BY <1>1, <1>2, <1>3, <1>5, <2>2, <3>2, DoPrimEffect
    <3> QED BY <3>1, <3>3, <3>4
  <2>3. CASE Readable(vm.dict, vm.ip) /\ code \notin 0 .. PrimCount
    <3>1. m = IF called.ok THEN [called EXCEPT !.ip = code] ELSE called
      BY <2>3
    <3>2. Safe(called) /\ called.dict = d
      BY <1>3, <1>5, PushRSafe, StacksKeepDict DEF After
    <3> HIDE DEF called, m, code
    <3>3. Safe([called EXCEPT !.ip = code]) /\ [called EXCEPT !.ip = code].dict = d
      BY <3>2, SafeParts, StacksKeepDict DEF After
    <3>4. Safe(m) /\ m.dict = d
      BY <3>1, <3>2, <3>3
    <3> QED BY <1>1, <3>4 DEF Effect
  <2> QED BY <2>1, <2>2, <2>3
<1> HIDE DEF m, code
<1> DEFINE q == Suspend(m, vm.ip)
<1>7. Safe(q) /\ Effect(d, q)
  <2>1. After(m, q) /\ q.dict = m.dict /\ q.ok = m.ok
    BY <1>6, SafeParts DEF Suspend, Safe
  <2> HIDE DEF q
  <2> QED BY <1>6, <2>1 DEF Effect, After
<1>8. \/ vm' = m
      \/ Proceed(q)
      \/ Proceed(m)
  BY <1>4
<1> HIDE DEF q
<1>9. CASE vm' = m
  BY <1>6, <1>9 DEF Effect, Change
<1>10. CASE Proceed(q)
  BY <1>7, <1>10, ProceedEffect
<1>11. CASE Proceed(m)
  BY <1>6, <1>11, ProceedEffect
<1> QED BY <1>8, <1>9, <1>10, <1>11

\* zf_init leaves an empty chain.
LEMMA ChainInit == Init => ChainIInv /\ Latest(vm.dict) = 0
<1> SUFFICES ASSUME Init PROVE ChainIInv /\ Latest(vm.dict) = 0
  OBVIOUS
<1> DEFINE z == [a \in Address |-> 0]
           v == 4 * Len(UserVars)
           d == SetVar(z, 0, v)
<1>1. v = 20 /\ v \in Nat /\ v <= MaxCell
  BY UserVarsAssumption DEF MaxCell
<1>2. vm.dict = d /\ vm.ok /\ control = "boot"
  BY DEF Init, Initial, Machine
<1>3. DOMAIN z = Address
  OBVIOUS
<1>4. Var(z, 1) = 0
  <2>1. 4 \in Address /\ 5 \in Address /\ 6 \in Address /\ 7 \in Address
    BY DictSizeAssumption DEF Address
  <2>2. z[4] = 0 /\ z[5] = 0 /\ z[6] = 0 /\ z[7] = 0
    BY <2>1
  <2> HIDE DEF z
  <2> QED BY <2>2 DEF Var, RawValue
<1> HIDE DEF z, v
<1>5. /\ DOMAIN d = Address
      /\ Var(d, 1) = Var(z, 1)
      /\ Var(d, 0) = v
  <2>1. 0 \in 0 .. 4 /\ 1 \in 0 .. 4
    OBVIOUS
  <2>2. VarSet(z, d, 0, v)
    BY <1>3, <2>1, SetVarEffect
  <2> HIDE DEF d
  <2> QED BY <1>1, <2>1, <2>2 DEF VarSet
<1> HIDE DEF d
<1>6. Here(d) = 20 /\ Latest(d) = 0 /\ Roomy(d)
  BY <1>1, <1>4, <1>5, DictSizeAssumption DEF Here, Latest, Roomy
<1>7. Linked(d, {})
  BY <1>6 DEF Linked
<1>8. Words(d) = {}
  BY <1>7 DEF Words
<1>9. Sound(d)
  BY <1>6, <1>8, DictSizeAssumption DEF Sound
<1> QED BY <1>2, <1>6, <1>9 DEF ChainIInv

\* What a change makes of a sound chain.
LEMMA ChangeEffect ==
  ASSUME NEW d, NEW e, Sound(d), Change(d, e)
  PROVE  Sound(e) /\ (Latest(d) # 0 => Latest(e) # 0)
<1>1. CASE Grows(d, e)
  BY <1>1, StepsSeal, SealedSound DEF Grows
<1>2. CASE New(d, e)
  <2>1. Latest(e) \in 20 .. DictSize - 1
    BY <1>2 DEF New, Roomy
  <2>2. Latest(e) # 0
    BY <2>1, DictSizeAssumption
  <2> QED BY <1>2, <2>2, NewSound
<1>3. CASE Marked(d, e)
  BY <1>3, StepsSeal, SealedSound DEF Marked
<1> QED BY <1>1, <1>2, <1>3 DEF Change

\* A step of the interpreter as a step of the dictionary.
LEMMA StepKinds ==
  ASSUME AskIInv, AskIInv', ChainIInv, [Next]_vars,
         Poking => SparesHeaders(vm.dict, vm'.dict)
  PROVE  \/ Bootstrap /\ Latest(vm'.dict) # 0 /\ Change(vm.dict, vm'.dict)
         \/ control # "boot" /\ control' # "boot" /\ Change(vm.dict, vm'.dict)
         \/ control # "boot" /\ control' # "boot" /\ Poking /\ Roomy(vm'.dict)
            /\ SparesHeaders(vm.dict, vm'.dict)
         \/ UNCHANGED << vm, control >>
<1>1. CASE Bootstrap
  BY <1>1, BootstrapChanges
<1>2. CASE TypeLine
  <2>1. control # "boot" /\ control' # "boot" /\ vm' = vm
    BY <1>2 DEF TypeLine
  <2>2. Grows(vm.dict, vm.dict)
    BY GrowsPreorder DEF ChainIInv, Sound
  <2> QED BY <2>1, <2>2 DEF Change
<1>3. CASE HandleChar
  <2>1. control # "boot" /\ control' # "boot"
    BY <1>3 DEF HandleChar, HandleWord, Proceed, Run
  <2> QED BY <1>3, <2>1, HandleCharChanges
<1>4. CASE RunStep
  <2>1. control # "boot" /\ control' # "boot"
    BY <1>4 DEF RunStep, Proceed
  <2>2. CASE Poking
    <3>1. DOMAIN vm'.dict = Address
      BY DEF AskIInv, Safe
    <3>2. Here(vm.dict) \in 20 .. DictSize - 1
      BY DEF ChainIInv, Sound, Roomy
    <3>3. Here(vm'.dict) \in 20 .. DictSize - 1
      BY <2>2, <3>2, DictSizeAssumption DEF SparesHeaders
    <3> QED BY <2>1, <2>2, <3>1, <3>3 DEF Roomy
  <2>3. CASE ~Poking
    BY <1>4, <2>1, <2>3, RunStepChanges
  <2> QED BY <2>2, <2>3, Zenon
<1>5. CASE UNCHANGED vars
  BY <1>5 DEF vars
<1> QED BY <1>1, <1>2, <1>3, <1>4, <1>5 DEF Next

\* A store of the program, if this step is one, spares LATEST and the headers, and does not set
\* HERE back or out of dict: it goes to a variable, to the code of a word, or to HERE and beyond.
StoreOnlyBesideHeaders == Poking => SparesHeaders(vm.dict, vm'.dict)

\* Every step keeps the chain.
LEMMA ChainNext ==
  AskIInv /\ AskIInv' /\ ChainIInv /\ [Next]_vars /\ StoreOnlyBesideHeaders => ChainIInv'
<1> SUFFICES ASSUME AskIInv, AskIInv', ChainIInv, [Next]_vars, StoreOnlyBesideHeaders
             PROVE  ChainIInv'
  OBVIOUS
<1>1. \/ Bootstrap /\ Latest(vm'.dict) # 0 /\ Change(vm.dict, vm'.dict)
      \/ control # "boot" /\ control' # "boot" /\ Change(vm.dict, vm'.dict)
      \/ control # "boot" /\ control' # "boot" /\ Poking /\ Roomy(vm'.dict)
         /\ SparesHeaders(vm.dict, vm'.dict)
      \/ UNCHANGED << vm, control >>
  BY StepKinds DEF StoreOnlyBesideHeaders
<1>2. Sound(vm.dict)
  BY DEF ChainIInv
<1>3. CASE Bootstrap /\ Latest(vm'.dict) # 0 /\ Change(vm.dict, vm'.dict)
  BY <1>2, <1>3, ChangeEffect DEF ChainIInv
<1>4. CASE control # "boot" /\ control' # "boot" /\ Change(vm.dict, vm'.dict)
  BY <1>2, <1>4, ChangeEffect DEF ChainIInv
<1>5. CASE control # "boot" /\ Roomy(vm'.dict) /\ SparesHeaders(vm.dict, vm'.dict)
  <2>1. Sound(vm'.dict) /\ Latest(vm'.dict) = Latest(vm.dict)
    BY <1>2, <1>5, StepsSeal, SealedSound DEF SparesHeaders
  <2> QED BY <1>5, <2>1 DEF ChainIInv
<1>6. CASE UNCHANGED << vm, control >>
  BY <1>6 DEF ChainIInv
<1> QED BY <1>1, <1>3, <1>4, <1>5, <1>6

\* What a program that uses "!" keeps to; nothing in the interpreter holds it to that.
StoresSpareHeaders == [][StoreOnlyBesideHeaders]_vars

\* The invariant holds while the stores spare the headers.
LEMMA ChainInvariant == Spec /\ StoresSpareHeaders => [](AskIInv /\ ChainIInv)
<1>1. AskIInv /\ ChainIInv /\ AskIInv' /\ [Next]_vars /\ [StoreOnlyBesideHeaders]_vars
      => ChainIInv'
  <2>1. AskIInv /\ ChainIInv /\ UNCHANGED vars => ChainIInv'
    BY DEF ChainIInv, vars
  <2> QED BY <2>1, ChainNext
<1> QED BY <1>1, ChainInit, AskInvariant, PTL DEF Spec, StoresSpareHeaders

\* A sound chain is the chain of ChainSound.
LEMMA SoundIsWhole == ChainIInv => ChainSound
<1> SUFFICES ASSUME ChainIInv PROVE ChainSound
  OBVIOUS
<1> DEFINE d == vm.dict
<1>1. Sound(d)
  BY DEF ChainIInv
<1>2. Here(d) \in Address /\ Latest(d) \in Address
  BY <1>1, DictSizeAssumption DEF Sound, Roomy, Address
<1>3. Latest(d) # 0 => CodeAt(d, Latest(d)) <= Here(d)
  BY <1>1, WordsLinked, WordsBelowHere
<1> HIDE DEF d
<1> QED BY <1>1, <1>2, <1>3, SoundIsChainSound DEF ChainSound, d

\* Whatever else is typed, find_word always ends and sees only whole headers, also when a
\* definition stopped in the middle: create (zforth.c) sets LATEST when the header is there, and
\* no later operation writes below HERE but for the flag of the last word.
THEOREM HeadersStayWhole == Spec /\ StoresSpareHeaders => []ChainSound
BY ChainInvariant, SoundIsWhole, PTL

\* Every step is a step of the list.
LEMMA ListStep ==
  ASSUME AskIInv, AskIInv', ChainIInv, [Next]_vars, [StoreOnlyBesideHeaders]_vars
  PROVE  [WordListOf!Next]_WordsFrom
<1> DEFINE d == vm.dict
           e == vm'.dict
<1>1. Sound(d)
  BY DEF ChainIInv
<1>2. WordsFrom = WordsIn(d) /\ WordsFrom' = WordsIn(e)
  BY DEF WordsFrom
<1>3. CASE UNCHANGED vars
  BY <1>3 DEF vars, WordsFrom
<1>4. CASE StoreOnlyBesideHeaders
  <2>1. \/ Change(d, e)
        \/ Roomy(e) /\ SparesHeaders(d, e)
        \/ e = d
    BY <1>4, StepKinds DEF StoreOnlyBesideHeaders
  <2> HIDE DEF d, e
  <2>2. CASE Grows(d, e)
    <3>1. WordsIn(e) = WordsIn(d)
      BY <1>1, <2>2, StepsSeal, ListUnchanged DEF Grows
    <3> QED BY <1>2, <3>1
  <2>3. CASE New(d, e)
    BY <1>1, <1>2, <2>3, ListDefines
    DEF WordListOf!Next, WordListOf!Define, WordListOf!Front, Front
  <2>4. CASE Marked(d, e)
    BY <1>1, <1>2, <2>4, ListMarks DEF WordListOf!Next, WordListOf!MakeImmediate
  <2>5. CASE Roomy(e) /\ SparesHeaders(d, e)
    <3>1. WordsIn(e) = WordsIn(d)
      BY <1>1, <2>5, StepsSeal, ListUnchanged DEF SparesHeaders
    <3> QED BY <1>2, <3>1
  <2>6. CASE e = d
    BY <1>2, <2>6
  <2> QED BY <2>1, <2>2, <2>3, <2>4, <2>5, <2>6 DEF Change
<1> QED BY <1>3, <1>4

\* The bytes of dict implement a list of words that only grows: no definition, complete or cut
\* off, loses, renames or flags another word.
THEOREM DictionaryImplementsWordList == Spec /\ StoresSpareHeaders => DictionaryIsWordList
<1>1. Init => WordListOf!Init
  <2> SUFFICES ASSUME Init PROVE WordsIn(vm.dict) = << >>
    BY DEF WordListOf!Init, WordsFrom
  <2> DEFINE d == vm.dict
  <2>1. Latest(d) = 0
    BY ChainInit
  <2>2. WordsIn(d) = ListOf(d)[Latest(d)] /\ ListOf(d)[0] = << >>
    BY ListSteps
  <2> QED BY <2>1, <2>2
<1>2. AskIInv /\ ChainIInv /\ AskIInv' /\ [Next]_vars /\ [StoreOnlyBesideHeaders]_vars
      => [WordListOf!Next]_WordsFrom
  BY ListStep
<1> QED BY <1>1, <1>2, ChainInvariant, PTL
        DEF Spec, StoresSpareHeaders, DictionaryIsWordList, WordListOf!Spec

\* Every step keeps the bytes below HERE.
LEMMA CodeStep ==
  ASSUME AskIInv, AskIInv', ChainIInv, [Next]_vars, StoreOnlyBesideHeaders
  PROVE  /\ Here(vm'.dict) >= Here(vm.dict)
         /\ \A i \in 4 * Len(UserVars) .. Here(vm.dict) - 1 :
              vm'.dict[i] = vm.dict[i] \/ i = Latest(vm.dict) \/ Poking
<1> DEFINE d == vm.dict
           e == vm'.dict
<1>1. Here(d) \in 20 .. DictSize - 1 /\ 4 * Len(UserVars) = 20
  BY UserVarsAssumption DEF ChainIInv, Sound, Roomy
<1>2. \/ Change(d, e)
      \/ Poking /\ SparesHeaders(d, e)
      \/ e = d
  BY StepKinds DEF StoreOnlyBesideHeaders
<1> SUFFICES /\ Here(e) >= Here(d)
             /\ \A i \in 20 .. Here(d) - 1 : e[i] = d[i] \/ i = Latest(d) \/ Poking
  BY <1>1
<1> HIDE DEF d, e
<1>3. CASE Grows(d, e)
  BY <1>1, <1>3, DictSizeAssumption DEF Grows, Roomy
<1>4. CASE New(d, e)
  BY <1>1, <1>4, DictSizeAssumption DEF New, Roomy
<1>5. CASE Marked(d, e)
  BY <1>1, <1>5, DictSizeAssumption DEF Marked
<1>6. CASE Poking /\ SparesHeaders(d, e)
  BY <1>1, <1>6, DictSizeAssumption DEF SparesHeaders
<1>7. CASE e = d
  BY <1>1, <1>7, DictSizeAssumption
<1> QED BY <1>2, <1>3, <1>4, <1>5, <1>6, <1>7 DEF Change

\* Compiled code is final: bytes below HERE change only in the header of the last word and by a
\* store, and HERE never goes back, whatever the abort of a definition leaves behind.
THEOREM CompiledCodeIsFinal == Spec /\ StoresSpareHeaders => CodeIsKept
<1> DEFINE Kept == /\ Here(vm'.dict) >= Here(vm.dict)
                   /\ \A i \in 4 * Len(UserVars) .. Here(vm.dict) - 1 :
                        vm'.dict[i] = vm.dict[i] \/ i = Latest(vm.dict) \/ Poking
<1>1. AskIInv /\ ChainIInv /\ AskIInv' /\ [Next]_vars /\ [StoreOnlyBesideHeaders]_vars
      => [Kept]_vars
  BY CodeStep
<1> QED BY <1>1, ChainInvariant, PTL DEF Spec, StoresSpareHeaders, CodeIsKept
=============================================================================
