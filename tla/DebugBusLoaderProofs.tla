------------------------ MODULE DebugBusLoaderProofs ------------------------
(***************************************************************************)
(* Proofs about the Verilator testbench: for every file, every length of   *)
(* its waits and every behaviour of the bus that DebugBusLoader admits,    *)
(* what it reports of the load and of the result is true, and it is a well *)
(* behaved master.                                                         *)
(***************************************************************************)
EXTENDS DebugBusLoader, FiniteSetTheorems, SequenceTheorems, TLAPS

-----------------------------------------------------------------------------
(* The inductive invariant *)

Addresses == {x \in L2Start .. L2End - 1 : x % 4 = 0} \cup {Complete, Cycles, 0}

InWrite  == pc \in {"grant", "valid"}
InRead   == pc \in {"rgrant", "rvalid"}
Polled   == pc \in {"rsettle", "check"}
Loading  == pc \in {"reset", "start", "init", "word", "grant", "valid", "settle"}
Finished == program = 2

\* What the testbench drives: a write is the request of a word that is still
\* to do; outside the two kinds of wait nothing is requested.
Driven ==
  /\ InWrite => req /\ ~wen /\ add \in todo /\ InL2(add) /\ wdata = Word(add)
  /\ ~InWrite => wen
  /\ ~InWrite /\ ~InRead => ~req
  /\ InRead \/ Polled => add \in {Complete, Cycles}

\* What is due is an answer that is on the bus, or may still come.  The half
\* cycles after a transaction, in which nothing is requested, let it grow old:
\* on a bus that is fast enough nothing is due when the next one begins.
Quiet ==
  /\ rValid => \E m \in due : rData = m.word
  /\ pc \in {"reset", "start", "init"} => due = {}
  /\ pc = "settle" => left \in 0..3 /\ \A m \in due : m.age + left >= 3
  /\ pc = "rsettle" => left \in 0..2 /\ \A m \in due : m.age + left >= 2
  /\ pc = "word" /\ latency < 3 => due = {}
  /\ pc = "check" /\ latency < 2 => due = {}

\* What is in memory, and who put it there.
Contents ==
  /\ memory = [a \in Addresses |-> memory[a]]
  /\ \A a \in Addresses \ {Complete, Cycles} :
       memory[a] # Unset => a \in Words /\ memory[a] = Word(a)
  /\ program \in 0..2
  /\ memory[Cycles] = IF program = 0 THEN Unset ELSE Outcome
  /\ memory[Complete] = IF Finished THEN Marker ELSE Unset

\* The count of the load.  While it lasts, an answer means that something was
\* stored, and on a bus that is fast enough that it was the word of the request.
Counted ==
  /\ lines \in Files
  /\ todo \subseteq Words
  /\ written + failed + Cardinality(todo) = Cardinality(Words)
  /\ answered \subseteq Words \ todo
  /\ written = Cardinality(answered)
  /\ answered # {} => Stored # {}
  /\ Loading /\ due # {} => Stored # {}
  /\ latency < 3 => answered \subseteq Stored
  /\ latency < 3 /\ InWrite /\ due # {} => memory[add] # Unset

\* A marker on its way, or read, was left by a program that had finished; on a
\* bus that is fast enough what is on its way to the second read is the count.
Answers ==
  /\ \A m \in due : m.word = Marker => Finished
  /\ value = Marker => Finished
  /\ InRead /\ add = Cycles =>
       Finished /\ (latency < 2 => \A m \in due : m.word = Outcome)
  /\ Polled /\ add = Cycles => Finished /\ (latency < 2 => value = Outcome)
  /\ ResultIsTrue

BenchIInv == TypeOK /\ Driven /\ Quiet /\ Contents /\ Counted /\ Answers

-----------------------------------------------------------------------------
(* The words of a file *)

\* A file has finitely many words, at whole addresses.
LEMMA WordsAreFinite ==
  ASSUME lines \in Files
  PROVE  Words \subseteq Nat /\ IsFiniteSet(Words) /\ \A a \in Words : a % 4 = 0
  <1> DEFINE Line == [type : Int, length : 0..255, address : Nat, data : Seq(0..255)]
  <1>0. lines \in Seq(Line)
    BY FilesAssumption
  <1>1. \A i \in DOMAIN lines : lines[i].address \in Nat /\ Len(lines[i].data) \in Nat
    <2>1. \A r \in Line : r.address \in Nat /\ Len(r.data) \in Nat
      OBVIOUS
    <2> HIDE DEF Line
    <2>2. \A i \in DOMAIN lines : lines[i] \in Line
      BY <1>0, ElementOfSeq
    <2> QED BY <2>1, <2>2
  <1>2. \A i \in Records : Target(lines[i]) \in Nat
    <2> TAKE i \in Records
    <2>1. lines[i].address \in Nat
      BY <1>1 DEF Records
    <2>2. L2Start - RomStart \in Nat
      BY RegionsAssumption
    <2> QED BY <2>1, <2>2 DEF Target
  <1>2a. \A i \in Records : WrittenBy(lines[i]) \subseteq Nat
    BY <1>2 DEF WrittenBy
  <1>3. Written \subseteq Nat
    BY <1>2a DEF Written
  <1>4. IsFiniteSet(Records)
    <2>2. DOMAIN lines = 1..Len(lines) /\ Len(lines) \in Nat
      BY <1>0
    <2>3. IsFiniteSet(1..Len(lines))
      BY <2>2, FS_Interval
    <2> QED BY <2>2, <2>3, FS_Subset DEF Records
  <1>5. IsFiniteSet({WrittenBy(lines[i]) : i \in Records})
    <2> DEFINE f == [i \in Records |-> WrittenBy(lines[i])]
    <2>1. f \in Surjection(Records, {WrittenBy(lines[i]) : i \in Records})
      BY DEF Surjection
    <2> QED BY <1>4, <2>1, FS_Surjection
  <1>6. \A s \in {WrittenBy(lines[i]) : i \in Records} : IsFiniteSet(s)
    <2> SUFFICES ASSUME NEW i \in Records PROVE IsFiniteSet(WrittenBy(lines[i]))
      OBVIOUS
    <2>0. Target(lines[i]) \in Nat /\ Len(lines[i].data) \in Nat
      BY <1>1, <1>2 DEF Records
    <2>1. Target(lines[i]) \in Int /\ Target(lines[i]) + Len(lines[i].data) - 1 \in Int
      BY <2>0
    <2> QED BY <2>1, FS_Interval DEF WrittenBy
  <1>7. IsFiniteSet(Written)
    BY <1>5, <1>6, FS_UNION DEF Written
  <1>8. IsFiniteSet(Words)
    <2> DEFINE f == [a \in Written |-> Aligned(a)]
    <2>1. f \in Surjection(Written, Words)
      BY DEF Surjection, Words
    <2> QED BY <1>7, <2>1, FS_Surjection
  <1>9. \A a \in Nat : Aligned(a) \in Nat /\ Aligned(a) % 4 = 0
    <2> TAKE a \in Nat
    <2> DEFINE q == a \div 4
    <2>1. q \in Nat /\ a = 4 * q + (a % 4)
      OBVIOUS
    <2>2. a - (a % 4) = 4 * q
      BY <2>1
    <2>3. (4 * q) % 4 = 0 /\ 4 * q \in Nat
      BY <2>1
    <2> QED BY <2>2, <2>3 DEF Aligned
  <1> QED BY <1>3, <1>8, <1>9 DEF Words

\* No word of a file looks like the marker, the count, or nothing.
LEMMA WordsAreWords ==
  ASSUME NEW a
  PROVE  Word(a) # Unset /\ Word(a) # Marker /\ Word(a) # Outcome
  <1>1. DOMAIN Word(a) = 1..4
    BY DEF Word
  <1>2. DOMAIN Unset = {} /\ DOMAIN Marker = {1} /\ DOMAIN Outcome = {1}
    BY DEF Unset, Marker, Outcome
  <1>3. 2 \in 1..4 /\ 2 \notin {1}
    OBVIOUS
  <1> QED BY <1>1, <1>2, <1>3

LEMMA MarksDiffer ==
  Marker # Outcome /\ Marker # Unset /\ Outcome # Unset
  <1>1. Marker[1] = 57005 /\ Outcome[1] = 210
    BY DEF Marker, Outcome
  <1>2. DOMAIN Unset = {} /\ 1 \in DOMAIN Marker /\ 1 \in DOMAIN Outcome
    BY DEF Unset, Marker, Outcome
  <1> QED BY <1>1, <1>2

\* The longest of the waits.
LEMMA LongestWait ==
  /\ Max({GrantWait, ValidWait, ReadWait}) \in Nat
  /\ \A w \in {GrantWait, ValidWait, ReadWait} :
       w \in Nat /\ w <= Max({GrantWait, ValidWait, ReadWait})
  <1> DEFINE S == {GrantWait, ValidWait, ReadWait}
  <1>1. S \subseteq Nat \ {0}
    BY WaitsAssumption
  <1>2. \E x \in S : \A y \in S : x >= y
    BY <1>1
  <1>3. Max(S) \in S /\ \A y \in S : Max(S) >= y
    BY <1>2 DEF Max
  <1> QED BY <1>1, <1>3

-----------------------------------------------------------------------------
(* What a step does to the SoC *)

\* A step is a half cycle, a step of the program, or leaves the SoC alone; the
\* file stays.
LEMMA StepKinds ==
  ASSUME [Next]_vars
  PROVE  /\ lines' = lines
         /\ Tick \/ UNCHANGED soc \/ Program
  <1>1. CASE UNCHANGED vars
    BY <1>1 DEF vars, soc
  <1>2. CASE Program
    BY <1>2 DEF Program
  <1>3. CASE Reset \/ Stabilise \/ Settle \/ ReadSettle
    BY <1>3 DEF Reset, Stabilise, Settle, ReadSettle, Delay
  <1>4. CASE GrantTick \/ ValidTick \/ ReadGrantTick \/ ReadValidTick
    BY <1>4 DEF GrantTick, ValidTick, ReadGrantTick, ReadValidTick, Waiting
  <1>5. CASE Run
    BY <1>5 DEF Run
  <1>6. CASE Start \/ NextWord \/ Loaded \/ CheckResult \/ Finish
    BY <1>6 DEF Start, NextWord, Loaded, CheckResult, Finish, Still
  <1>7. CASE Granted \/ Answered
    BY <1>7 DEF Granted, Answered, WordEnds, Still
  <1>8. CASE ReadGranted \/ ReadAnswered
    BY <1>8 DEF ReadGranted, ReadAnswered, ReadFails, Still
  <1> QED BY <1>1, <1>2, <1>3, <1>4, <1>5, <1>6, <1>7, <1>8 DEF Next, Testbench

LEMMA SameFile ==
  ASSUME lines' = lines
  PROVE  Words' = Words /\ \A a : Word(a)' = Word(a)
  <1>1. Records' = Records
    BY DEF Records
  <1>2. Words' = Words
    BY <1>1 DEF Words, Written, WrittenBy, Target, InRemap
  <1>3. ASSUME NEW a PROVE BytesAt(a)' = BytesAt(a)
    BY <1>1 DEF BytesAt, Target, InRemap
  <1>4. ASSUME NEW a PROVE Byte(a)' = Byte(a)
    BY <1>3 DEF Byte, Target, InRemap
  <1>5. ASSUME NEW a PROVE Word(a)' = Word(a)
    BY <1>4 DEF Word
  <1> QED BY <1>2, <1>5

\* What is due was due a half cycle before, or is the answer to the request on
\* the bus; a word is stored only by its own request.
LEMMA EvalFacts ==
  ASSUME BenchIInv, Eval
  PROVE  /\ gnt' \in BOOLEAN /\ rValid' \in BOOLEAN /\ UNCHANGED <<latency, program>>
         /\ \A m \in due' :
              \/ req /\ m.age = 0 /\ m.word = IF wen THEN memory[add] ELSE Unset
              \/ \E n \in due : n.age < latency /\ m.age = n.age + 1 /\ m.word = n.word
         /\ rValid' => \E m \in due' : rData' = m.word
         /\ ~InWrite => memory' = memory
         /\ InWrite => \/ memory' = memory /\ (due' # {} => due # {})
                       \/ memory' = [memory EXCEPT ![add] = Word(add)]
  <1>1. gnt' \in BOOLEAN /\ rValid' \in BOOLEAN /\ UNCHANGED <<latency, program>>
    BY DEF Eval
  <1>2. \/ due' = Older /\ memory' = memory
        \/ /\ req /\ due' = Older \cup {Taken}
           /\ memory' = IF wen THEN memory ELSE [memory EXCEPT ![add] = wdata]
    BY DEF Eval
  <1>3. \A m \in Older :
          \E n \in due : n.age < latency /\ m.age = n.age + 1 /\ m.word = n.word
    BY DEF Older
  <1>4. Taken.age = 0 /\ Taken.word = IF wen THEN memory[add] ELSE Unset
    BY DEF Taken
  <1>5. \A m \in due' :
          \/ req /\ m.age = 0 /\ m.word = IF wen THEN memory[add] ELSE Unset
          \/ \E n \in due : n.age < latency /\ m.age = n.age + 1 /\ m.word = n.word
    BY <1>2, <1>3, <1>4
  <1>6. rValid' => \E m \in due' : rData' = m.word
    BY DEF Eval
  <1>7. ~InWrite => memory' = memory
    BY <1>2 DEF BenchIInv, Driven
  <1>8. InWrite => \/ memory' = memory /\ (due' # {} => due # {})
                   \/ memory' = [memory EXCEPT ![add] = Word(add)]
    <2>1. CASE due' = Older /\ memory' = memory
      BY <1>3, <2>1
    <2>2. CASE memory' = IF wen THEN memory ELSE [memory EXCEPT ![add] = wdata]
      BY <2>2 DEF BenchIInv, Driven
    <2> QED BY <1>2, <2>1, <2>2
  <1> QED BY <1>1, <1>5, <1>6, <1>7, <1>8

\* No answer is older than the bus is slow.
LEMMA AgesStep ==
  ASSUME BenchIInv, [Next]_vars
  PROVE  /\ latency' = latency /\ latency \in Nat
         /\ \A m \in due : m.age \in 0 .. latency
         /\ \A m \in due' : m.age \in 0 .. latency
  <1>1. latency \in Nat /\ \A m \in due : m.age \in 0 .. latency
    BY LatenciesAssumption DEF BenchIInv, TypeOK
  <1>2. CASE Tick
    <2>1. latency' = latency
      BY <1>2, EvalFacts DEF Tick
    <2>2. \A m \in due' : m.age = 0 \/ \E n \in due : n.age < latency /\ m.age = n.age + 1
      BY <1>2, EvalFacts DEF Tick
    <2>3. \A n \in due : n.age < latency => n.age + 1 \in 0 .. latency
      BY <1>1
    <2>4. 0 \in 0 .. latency
      BY <1>1
    <2> QED BY <1>1, <2>1, <2>2, <2>3, <2>4
  <1>3. CASE UNCHANGED soc \/ Program
    <2>1. latency' = latency /\ due' = due
      BY <1>3 DEF soc, Program
    <2> QED BY <1>1, <2>1
  <1> QED BY <1>2, <1>3, StepKinds

\* The address of the request of a word is one of a word, outside the result.
LEMMA WriteAddress ==
  ASSUME BenchIInv, InWrite
  PROVE  add \in Words /\ add \in Addresses /\ add # Complete /\ add # Cycles
  <1>1. add \in Words /\ InL2(add)
    BY DEF BenchIInv, Driven, Counted
  <1>2. add \in Nat /\ add % 4 = 0
    BY <1>1, WordsAreFinite DEF BenchIInv, Counted
  <1>3. add \in L2Start .. L2End - 1 /\ L2Start \in Nat /\ L2End \in Nat
    BY <1>1, <1>2, RegionsAssumption DEF InL2
  <1>4. add \in L2Start .. L2End
    BY <1>2, <1>3
  <1> QED BY <1>1, <1>2, <1>3, <1>4, RegionsAssumption DEF Addresses

\* What memory holds stays true, and a place that holds something keeps doing so.
LEMMA ContentsStep ==
  ASSUME BenchIInv, [Next]_vars
  PROVE  /\ Contents'
         /\ \A a \in Addresses : memory[a] # Unset => memory'[a] # Unset
  <1>0. lines' = lines /\ Words' = Words /\ \A a : Word(a)' = Word(a)
    BY StepKinds, SameFile
  <1>1. Words' = Words
    BY <1>0
  <1>2. CASE UNCHANGED soc
    <2>1. memory' = memory /\ program' = program
      BY <1>2 DEF soc
    <2> QED BY <1>0, <1>1, <2>1 DEF BenchIInv, Contents, Finished
  <1>3. CASE Program
    <2>1. program \in 0..1 /\ program' = program + 1
      BY <1>3 DEF Program, BenchIInv, Contents
    <2>2. Complete \in Addresses /\ Cycles \in Addresses /\ Complete # Cycles
      BY RegionsAssumption DEF Addresses
    <2>3. CASE program = 0
      <3>1. memory' = [memory EXCEPT ![Cycles] = Outcome] /\ program' = 1
        BY <1>3, <2>1, <2>3 DEF Program
      <3> QED BY <1>0, <1>1, <2>2, <2>3, <3>1, MarksDiffer DEF BenchIInv, Contents, Finished
    <2>4. CASE program = 1
      <3>1. memory' = [memory EXCEPT ![Complete] = Marker] /\ program' = 2
        BY <1>3, <2>1, <2>4 DEF Program
      <3> QED BY <1>0, <1>1, <2>2, <2>4, <3>1, MarksDiffer DEF BenchIInv, Contents, Finished
    <2> QED BY <2>1, <2>3, <2>4
  <1>4. CASE Tick
    <2>1. Eval
      BY <1>4 DEF Tick
    <2>2. program' = program
      BY <2>1, EvalFacts
    <2>3. CASE memory' = memory
      BY <1>0, <1>1, <2>2, <2>3 DEF BenchIInv, Contents, Finished
    <2>4. CASE memory' # memory
      <3>1. InWrite /\ memory' = [memory EXCEPT ![add] = Word(add)]
        BY <2>1, <2>4, EvalFacts
      <3>2. add \in Words /\ add \in Addresses /\ add # Complete /\ add # Cycles
        BY <3>1, WriteAddress
      <3>3. Word(add) # Unset
        BY WordsAreWords
      <3> QED BY <1>0, <1>1, <2>2, <3>1, <3>2, <3>3 DEF BenchIInv, Contents, Finished
    <2> QED BY <2>3, <2>4
  <1> QED BY <1>2, <1>3, <1>4, StepKinds

-----------------------------------------------------------------------------
(* The invariant holds *)

LEMMA CycleStep ==
  ASSUME cycle \in 0 .. MaxCycles + PollEvery
  PROVE  NextCycle(cycle) \in 0 .. MaxCycles + PollEvery
  BY WaitsAssumption DEF NextCycle

LEMMA WaitStep ==
  ASSUME BenchIInv, NEW limit \in {GrantWait, ValidWait, ReadWait}, NEW from, NEW signal,
         Waiting(from, limit, signal)
  PROVE  wait' \in 0 .. Max({GrantWait, ValidWait, ReadWait})
  <1>1. wait < limit /\ wait' = IF Falling THEN wait + 1 ELSE wait
    BY DEF Waiting, Within
  <1>2. wait \in Nat /\ Max({GrantWait, ValidWait, ReadWait}) \in Nat
    BY LongestWait DEF BenchIInv, TypeOK
  <1> QED BY <1>1, <1>2, LongestWait

LEMMA DrivenStep ==
  ASSUME BenchIInv, [Next]_vars
  PROVE  Driven'
  <1> USE DEF InWrite, InRead, Polled, Goto, master, load
  <1>0. Driven /\ lines' = lines /\ \A a : Word(a)' = Word(a)
    BY StepKinds, SameFile DEF BenchIInv
  <1>1. CASE UNCHANGED vars
    BY <1>0, <1>1 DEF vars, Driven, InL2
  <1>2. CASE Program
    BY <1>0, <1>2 DEF Program, Driven, InL2
  <1>3. CASE Reset \/ Stabilise \/ Settle \/ ReadSettle
    BY <1>0, <1>3 DEF Reset, Stabilise, Settle, ReadSettle, Delay, Driven, InL2
  <1>4. CASE GrantTick \/ ValidTick \/ ReadGrantTick \/ ReadValidTick
    BY <1>0, <1>4 DEF GrantTick, ValidTick, ReadGrantTick, ReadValidTick, Waiting, Driven, InL2
  <1>5. CASE Run
    BY <1>0, <1>5 DEF Run, Read, FirstRead, Driven, InL2
  <1>6. CASE Start \/ Loaded \/ Finish
    BY <1>0, <1>6 DEF Start, Loaded, Finish, Driven, InL2
  <1>7. CASE NextWord
    <2>1. PICK a \in todo :
             IF InL2(a)
             THEN /\ req' = TRUE /\ wen' = FALSE /\ add' = a /\ wdata' = Word(a)
                  /\ pc' = "grant" /\ UNCHANGED load
             ELSE UNCHANGED <<master, pc>>
      BY <1>7 DEF NextWord
    <2>2. pc = "word"
      BY <1>7 DEF NextWord
    <2>3. CASE InL2(a)
      <3>1. /\ req' = TRUE /\ wen' = FALSE /\ add' = a /\ wdata' = Word(a)
            /\ pc' = "grant" /\ todo' = todo
        BY <2>1, <2>3
      <3>2. InL2(a)' /\ Word(add)' = Word(a)
        BY <1>0, <2>3, <3>1 DEF InL2
      <3>3. req' /\ ~wen' /\ add' \in todo' /\ InL2(add)' /\ wdata' = Word(add)'
        BY <3>1, <3>2 DEF InL2
      <3> QED BY <3>1, <3>3 DEF Driven
    <2>4. CASE ~InL2(a)
      BY <1>0, <2>1, <2>2, <2>4 DEF Driven
    <2> QED BY <2>3, <2>4
  <1>8. CASE Granted
    <2>1. CASE gnt
      BY <1>0, <1>8, <2>1 DEF Granted, Ended, Driven, InL2
    <2>2. CASE ~gnt
      BY <1>8, <2>2 DEF Granted, Ended, WordEnds, Release, Driven
    <2> QED BY <2>1, <2>2
  <1>9. CASE Answered
    BY <1>0, <1>9 DEF Answered, Ended, WordEnds, Release, Driven, InL2
  <1>10. CASE ReadGranted
    BY <1>0, <1>10 DEF ReadGranted, Ended, ReadFails, Driven, InL2
  <1>11. CASE ReadAnswered
    BY <1>0, <1>11 DEF ReadAnswered, Ended, ReadFails, Driven, InL2
  <1>12. CASE CheckResult
    BY <1>0, <1>12 DEF CheckResult, Read, Driven, InL2
  <1> QED BY <1>1, <1>2, <1>3, <1>4, <1>5, <1>6, <1>7, <1>8, <1>9, <1>10, <1>11, <1>12
          DEF Next, Testbench

\* Without a request, what is due only grows old.
LEMMA QuietStep ==
  ASSUME BenchIInv, [Next]_vars
  PROVE  Quiet'
  <1> USE DEF Goto, soc
  <1> DEFINE Sourced == rValid => \E m \in due : rData = m.word
             SameDue == due' = due /\ rValid' = rValid /\ rData' = rData /\ latency' = latency
  <1>0. Quiet /\ Sourced
    BY DEF BenchIInv, Quiet
  <1>1. /\ latency' = latency /\ latency \in Nat
        /\ \A m \in due : m.age \in Int /\ m.age <= latency
        /\ \A m \in due' : m.age \in Int /\ m.age >= 0 /\ m.age <= latency
    <2>1. \A k \in 0 .. latency : k \in Int /\ k >= 0 /\ k <= latency
      BY AgesStep
    <2> QED BY <2>1, AgesStep
  <1>2. Sourced'
    <2>1. CASE Tick
      BY <2>1, EvalFacts DEF Tick
    <2>2. CASE UNCHANGED soc \/ Program
      <3>1. SameDue
        BY <2>2 DEF Program
      <3> QED BY <1>0, <3>1
    <2> QED BY <2>1, <2>2, StepKinds
  <1>3. Tick /\ ~req => \A m \in due' : \E n \in due : m.age = n.age + 1
    BY EvalFacts DEF Tick
  <1> HIDE DEF Sourced
  <1> SUFFICES /\ (pc \in {"reset", "start", "init"} => due = {})'
               /\ (pc = "settle" => left \in 0..3 /\ \A m \in due : m.age + left >= 3)'
               /\ (pc = "rsettle" => left \in 0..2 /\ \A m \in due : m.age + left >= 2)'
               /\ (pc = "word" /\ latency < 3 => due = {})'
               /\ (pc = "check" /\ latency < 2 => due = {})'
    BY <1>2 DEF Quiet, Sourced
  <1>4. CASE UNCHANGED vars \/ Program
    <2>1. SameDue /\ pc' = pc /\ left' = left
      BY <1>4 DEF vars, Program
    <2> QED BY <1>0, <2>1 DEF Quiet
  <1>5. CASE Reset \/ Stabilise \/ Settle \/ ReadSettle
    <2>1. ~req
      BY <1>5 DEF Reset, Stabilise, Settle, ReadSettle, Delay, BenchIInv, Driven, InWrite, InRead
    <2>2. CASE Reset \/ Stabilise
      <3>1. due' = {} /\ pc' \in {"reset", "start", "init", "word"}
        BY <1>0, <1>3, <2>1, <2>2 DEF Reset, Stabilise, Delay, Quiet
      <3> QED BY <3>1
    <2>3. CASE Settle
      <3>1. left \in 0..3 /\ pc = "settle" /\ \A m \in due : m.age + left >= 3
        BY <1>0, <2>3 DEF Settle, Delay, Quiet
      <3>2. CASE left > 0
        <4>1. Tick /\ left' = left - 1 /\ pc' = "settle"
          BY <2>3, <3>2 DEF Settle, Delay
        <4>2. left' \in 0..3
          BY <3>1, <3>2, <4>1
        <4>3. \A m \in due' : m.age + left' >= 3
          BY <1>1, <1>3, <2>1, <3>1, <4>1
        <4> QED BY <4>1, <4>2, <4>3
      <3>3. CASE ~(left > 0)
        <4>1. SameDue /\ pc' = "word"
          BY <2>3, <3>3 DEF Settle, Delay
        <4>2. latency < 3 => due = {}
          BY <1>1, <3>1, <3>3
        <4> QED BY <4>1, <4>2
      <3> QED BY <3>2, <3>3
    <2>4. CASE ReadSettle
      <3>1. left \in 0..2 /\ pc = "rsettle" /\ \A m \in due : m.age + left >= 2
        BY <1>0, <2>4 DEF ReadSettle, Delay, Quiet
      <3>2. CASE left > 0
        <4>1. Tick /\ left' = left - 1 /\ pc' = "rsettle"
          BY <2>4, <3>2 DEF ReadSettle, Delay
        <4>2. left' \in 0..2
          BY <3>1, <3>2, <4>1
        <4>3. \A m \in due' : m.age + left' >= 2
          BY <1>1, <1>3, <2>1, <3>1, <4>1
        <4> QED BY <4>1, <4>2, <4>3
      <3>3. CASE ~(left > 0)
        <4>1. SameDue /\ pc' = "check"
          BY <2>4, <3>3 DEF ReadSettle, Delay
        <4>2. latency < 2 => due = {}
          BY <1>1, <3>1, <3>3
        <4> QED BY <4>1, <4>2
      <3> QED BY <3>2, <3>3
    <2> QED BY <1>5, <2>2, <2>3, <2>4
  <1>6. CASE GrantTick \/ ValidTick \/ ReadGrantTick \/ ReadValidTick
    <2>1. pc' \in {"grant", "valid", "rgrant", "rvalid"}
      BY <1>6 DEF GrantTick, ValidTick, ReadGrantTick, ReadValidTick, Waiting
    <2> QED BY <2>1
  <1>7. CASE Run \/ Finish \/ Loaded \/ ReadGranted \/ CheckResult
    <2>1. pc' \in {"run", "done", "rgrant", "rvalid"}
      BY <1>7 DEF Run, Finish, Loaded, ReadGranted, ReadFails, CheckResult
    <2> QED BY <2>1
  <1>8. CASE Start \/ NextWord
    <2>1. SameDue /\ (pc' \in {"run", "grant"} \/ (pc = "start" /\ pc' = "init") \/ (pc = "word" /\ pc' = "word"))
      BY <1>8 DEF Start, NextWord, Still
    <2> QED BY <1>0, <2>1 DEF Quiet
  <1>9. CASE Granted \/ Answered
    <2>1. SameDue /\ (pc' = "valid" \/ (pc' = "settle" /\ left' = 3))
      BY <1>9 DEF Granted, Answered, WordEnds, SettleTicks, Still
    <2> QED BY <1>1, <2>1
  <1>10. CASE ReadAnswered
    <2>1. SameDue /\ (pc' = "run" \/ (pc' = "rsettle" /\ left' = 2))
      BY <1>10 DEF ReadAnswered, ReadFails, ReadSettleTicks, Still
    <2> QED BY <1>1, <2>1
  <1> QED BY <1>4, <1>5, <1>6, <1>7, <1>8, <1>9, <1>10 DEF Next, Testbench

LEMMA TypeStep ==
  ASSUME BenchIInv, [Next]_vars
  PROVE  TypeOK'
  <1> USE DEF Goto, master, load, poll, clock, soc, Still
  <1> DEFINE Longest == Max({GrantWait, ValidWait, ReadWait})
             Signals == {req, wen, gnt, rValid, found} \subseteq BOOLEAN
             Times   == wait \in 0 .. Longest /\ {cycle, count} \subseteq 0 .. MaxCycles + PollEvery
             Numbers == written \in Nat /\ failed \in Nat
             Places  == pc \in {"reset", "start", "init", "word", "grant", "valid", "settle",
                                "run", "rgrant", "rvalid", "rsettle", "check", "done"}
  <1>0. Signals /\ Times /\ Numbers /\ Places
    BY DEF BenchIInv, TypeOK
  <1>1. Tick => gnt' \in BOOLEAN /\ rValid' \in BOOLEAN /\ cycle' \in 0 .. MaxCycles + PollEvery
    BY <1>0, EvalFacts, CycleStep DEF Tick
  <1>2. 0 \in 0 .. Longest
    BY LongestWait
  <1>3. add' \in DOMAIN memory'
    <2>1. DOMAIN memory = Addresses /\ DOMAIN memory' = Addresses
      BY ContentsStep DEF BenchIInv, Contents
    <2>2. add \in Addresses /\ Complete \in Addresses /\ Cycles \in Addresses
      BY <2>1 DEF BenchIInv, TypeOK, Addresses
    <2>3. ASSUME NextWord PROVE add' \in Addresses
      <3>1. PICK a \in todo : IF InL2(a) THEN add' = a ELSE add' = add
        BY <2>3 DEF NextWord
      <3>2. a \in Nat /\ a % 4 = 0
        BY WordsAreFinite DEF BenchIInv, Counted
      <3>3. InL2(a) => a \in Addresses
        BY <3>2, RegionsAssumption DEF InL2, Addresses
      <3> QED BY <2>2, <3>1, <3>3
    <2>4. add' = add \/ add' = Complete \/ add' = Cycles \/ NextWord
      BY DEF vars, Next, Testbench, Program, Reset, Stabilise, Settle, ReadSettle, Delay, Start,
             GrantTick, ValidTick, ReadGrantTick, ReadValidTick, Waiting, Granted, Answered,
             WordEnds, Release, Loaded, Run, Read, FirstRead, ReadGranted, ReadAnswered,
             ReadFails, CheckResult, Finish
    <2> QED BY <2>1, <2>2, <2>3, <2>4
  <1>4. /\ Waiting("grant", GrantWait, gnt) \/ Waiting("valid", ValidWait, rValid) => wait' \in 0 .. Longest
        /\ Waiting("rgrant", ReadWait, gnt) \/ Waiting("rvalid", ReadWait, rValid) => wait' \in 0 .. Longest
    BY WaitStep
  <1> HIDE DEF Longest
  <1> SUFFICES Signals' /\ Times' /\ Numbers' /\ Places'
    <2>1. latency' \in Latencies /\ \A m \in due' : m.age \in 0 .. latency'
      BY AgesStep DEF BenchIInv, TypeOK
    <2> QED BY <1>3, <2>1 DEF TypeOK, Longest
  <1>5. CASE UNCHANGED vars
    BY <1>0, <1>5 DEF vars
  <1>6. CASE Program
    BY <1>0, <1>6 DEF Program
  <1>7. CASE Reset \/ Stabilise \/ Settle \/ ReadSettle
    <2>1. UNCHANGED <<req, wen, found, wait, count, written, failed>> /\ Places'
      BY <1>0, <1>7 DEF Reset, Stabilise, Settle, ReadSettle, Delay
    <2>2. Tick \/ UNCHANGED <<clock, soc>>
      BY <1>7 DEF Reset, Stabilise, Settle, ReadSettle, Delay
    <2> QED BY <1>0, <1>1, <2>1, <2>2
  <1>8. CASE GrantTick \/ ValidTick \/ ReadGrantTick \/ ReadValidTick
    <2>1. UNCHANGED <<req, wen, found, count, written, failed, pc>> /\ Tick
      BY <1>8 DEF GrantTick, ValidTick, ReadGrantTick, ReadValidTick, Waiting
    <2>2. wait' \in 0 .. Longest
      BY <1>4, <1>8 DEF GrantTick, ValidTick, ReadGrantTick, ReadValidTick
    <2> QED BY <1>0, <1>1, <2>1, <2>2
  <1>9. CASE Run
    <2>1. Tick /\ UNCHANGED <<found, written, failed>> /\ count' \in {cycle', count} /\ Places'
      BY <1>0, <1>9 DEF Run
    <2>2. wait' \in {wait, 0} /\ ((req' = TRUE /\ wen' = TRUE) \/ UNCHANGED <<req, wen>>)
      BY <1>9 DEF Run, Read
    <2> QED BY <1>0, <1>1, <1>2, <2>1, <2>2
  <1>10. CASE Start \/ Loaded \/ Finish
    BY <1>0, <1>10 DEF Start, Loaded, Finish
  <1>11. CASE NextWord
    <2>1. /\ UNCHANGED <<gnt, rValid, found, cycle, count, written>> /\ wait' \in {wait, 0}
          /\ failed' \in {failed, failed + 1} /\ pc' \in {pc, "grant"}
          /\ (req' = TRUE /\ wen' = FALSE) \/ UNCHANGED <<req, wen>>
      BY <1>11 DEF NextWord
    <2>2. Signals'
      BY <1>0, <2>1
    <2> QED BY <1>0, <1>2, <2>1, <2>2
  <1>12. CASE Granted \/ Answered
    <2>1. /\ UNCHANGED <<gnt, rValid, found, cycle, count>> /\ wait' \in {wait, 0}
          /\ written' \in {written, written + 1} /\ failed' \in {failed, failed + 1}
          /\ pc' \in {"valid", "settle"}
          /\ (req' = FALSE /\ wen' = TRUE) \/ UNCHANGED <<req, wen>>
      BY <1>12 DEF Granted, Answered, WordEnds, Release
    <2>2. Signals'
      BY <1>0, <2>1
    <2> QED BY <1>0, <1>2, <2>1, <2>2
  <1>13. CASE ReadGranted \/ ReadAnswered
    <2>1. /\ UNCHANGED <<gnt, rValid, wen, found, cycle, count, written, failed>> /\ wait' \in {wait, 0}
          /\ pc' \in {"run", "rvalid", "rsettle"} /\ req' \in {req, FALSE}
      BY <1>13 DEF ReadGranted, ReadAnswered, ReadFails
    <2> QED BY <1>0, <1>2, <2>1
  <1>14. CASE CheckResult
    <2>1. /\ UNCHANGED <<gnt, rValid, cycle, count, written, failed>> /\ wait' \in {wait, 0}
          /\ pc' \in {"run", "rgrant"} /\ found' \in {found, TRUE}
          /\ (req' = TRUE /\ wen' = TRUE) \/ UNCHANGED <<req, wen>>
      BY <1>14 DEF CheckResult, Read
    <2> QED BY <1>0, <1>2, <2>1
  <1> QED BY <1>5, <1>6, <1>7, <1>8, <1>9, <1>10, <1>11, <1>12, <1>13, <1>14 DEF Next, Testbench

\* What is stored stays stored.
LEMMA StoredGrows ==
  ASSUME BenchIInv, [Next]_vars
  PROVE  Stored \subseteq Stored' /\ Stored' \subseteq Words /\ Words' = Words
  <1>1. Words' = Words
    BY StepKinds, SameFile
  <1>2. \A a \in Words : InL2(a) => a \in Addresses
    BY WordsAreFinite, RegionsAssumption DEF InL2, Addresses, BenchIInv, Counted
  <1>3. \A a \in Words : InL2(a) /\ memory[a] # Unset => InL2(a)' /\ memory'[a] # Unset
    BY <1>2, ContentsStep DEF InL2
  <1> QED BY <1>1, <1>3 DEF Stored

\* A half cycle in which a word is requested: what is due was due before, or
\* the word is in memory.
LEMMA WriteTick ==
  ASSUME BenchIInv, [Next]_vars, InWrite, Eval
  PROVE  (due' # {} => due # {}) \/ (memory'[add] # Unset /\ add \in Stored')
  <1>1. add \in Addresses /\ add \in Words /\ memory = [a \in Addresses |-> memory[a]]
    BY WriteAddress DEF BenchIInv, Contents
  <1>2. InL2(add) /\ InL2(add)' <=> InL2(add')
    BY DEF BenchIInv, Driven, InL2
  <1>3. CASE due' # {} => due # {}
    BY <1>3
  <1>4. CASE memory' = [memory EXCEPT ![add] = Word(add)]
    <2>1. memory'[add] # Unset
      BY <1>1, <1>4, WordsAreWords
    <2>2. add \in {a \in Words' : L2Start <= a /\ a < L2End /\ memory'[a] # Unset}
      BY <1>1, <2>1, StoredGrows DEF BenchIInv, Driven, InL2
    <2>3. add \in Stored'
      BY <2>2 DEF Stored, InL2
    <2> QED BY <2>1, <2>3
  <1> QED BY <1>3, <1>4, EvalFacts

\* While the load lasts, what is due was taken from it.
LEMMA SomethingStored ==
  ASSUME BenchIInv, [Next]_vars
  PROVE  (Loading /\ due # {} => Stored # {})'
  <1> USE DEF Goto, soc
  <1>0. /\ Loading /\ due # {} => Stored # {}
        /\ Stored \subseteq Stored'
    BY StoredGrows DEF BenchIInv, Counted
  <1>1. Loading' => Loading
    <2>1. CASE UNCHANGED vars \/ Program
      BY <2>1 DEF vars, Program, Loading
    <2>2. CASE Reset \/ Stabilise \/ Start \/ NextWord \/ Settle \/ Granted \/ Answered
      BY <2>2 DEF Reset, Stabilise, Start, NextWord, Settle, Delay, Granted, Answered, Ended, Loading
    <2>3. CASE GrantTick \/ ValidTick \/ ReadGrantTick \/ ReadValidTick
      BY <2>3 DEF GrantTick, ValidTick, ReadGrantTick, ReadValidTick, Waiting, Loading
    <2>4. CASE Loaded \/ Run \/ Finish
      BY <2>4 DEF Loaded, Run, Finish, Loading
    <2>5. CASE ReadGranted \/ ReadAnswered \/ ReadSettle \/ CheckResult
      BY <2>5 DEF ReadGranted, ReadAnswered, ReadFails, ReadSettle, Delay, CheckResult, Loading
    <2> QED BY <2>1, <2>2, <2>3, <2>4, <2>5 DEF Next, Testbench
  <1>2. CASE UNCHANGED soc \/ Program
    <2>1. due' = due
      BY <1>2 DEF Program
    <2> QED BY <1>0, <1>1, <2>1
  <1>3. CASE Tick /\ InWrite
    BY <1>0, <1>3, WriteTick DEF Tick, Loading, InWrite
  <1>4. CASE Tick /\ ~InWrite
    <2>1. Loading => ~req
      BY <1>4 DEF BenchIInv, Driven, Loading, InWrite, InRead
    <2>2. ~req /\ due' # {} => due # {}
      BY <1>4, EvalFacts DEF Tick
    <2> QED BY <1>0, <1>1, <2>1, <2>2
  <1> QED BY <1>2, <1>3, <1>4, StepKinds

\* On a bus that is fast enough, a word whose request is answered is in memory.
LEMMA AnsweredIsStored ==
  ASSUME BenchIInv, [Next]_vars
  PROVE  (latency < 3 /\ InWrite /\ due # {} => memory[add] # Unset)'
  <1> USE DEF InWrite, Goto, soc, master, Still
  <1>0. /\ latency < 3 /\ InWrite /\ due # {} => memory[add] # Unset
        /\ \A a \in Addresses : memory[a] # Unset => memory'[a] # Unset
        /\ latency' = latency
    BY ContentsStep, AgesStep DEF BenchIInv, Counted
  <1>1. CASE UNCHANGED <<pc, add, soc>>
    BY <1>0, <1>1
  <1>2. CASE pc' \notin {"grant", "valid"}
    BY <1>2
  <1>3. CASE Start \/ Loaded \/ Finish \/ Run \/ CheckResult \/ ReadGranted \/ ReadAnswered
    <2>1. pc' \notin {"grant", "valid"}
      BY <1>3 DEF Start, Loaded, Finish, Run, CheckResult, ReadGranted, ReadAnswered, ReadFails
    <2> QED BY <2>1
  <1>4. CASE Reset \/ Stabilise \/ Settle \/ ReadSettle \/ ReadGrantTick \/ ReadValidTick \/ Program
    <2>1. pc' \notin {"grant", "valid"}
      BY <1>4 DEF Reset, Stabilise, Settle, ReadSettle, Delay, ReadGrantTick, ReadValidTick, Waiting, Program
    <2> QED BY <2>1
  <1>5. CASE NextWord
    <2>1. latency' < 3 => due' = {}
      BY <1>0, <1>5 DEF NextWord, BenchIInv, Quiet
    <2> QED BY <2>1
  <1>6. CASE GrantTick \/ ValidTick
    <2>1. InWrite /\ Eval /\ add' = add
      BY <1>6 DEF GrantTick, ValidTick, Waiting, Tick
    <2>2. add \in Addresses
      BY <2>1, WriteAddress
    <2> QED BY <1>0, <2>1, <2>2, WriteTick
  <1>7. CASE Granted \/ Answered
    <2>1. CASE pc' \notin {"grant", "valid"}
      BY <2>1
    <2>2. CASE pc' \in {"grant", "valid"}
      BY <1>0, <1>7, <2>2 DEF Granted, Answered, Ended, WordEnds
    <2> QED BY <2>1, <2>2
  <1> QED BY <1>1, <1>3, <1>4, <1>5, <1>6, <1>7 DEF Next, Testbench, vars

LEMMA CountedStep ==
  ASSUME BenchIInv, [Next]_vars
  PROVE  Counted'
  <1> USE DEF load, Goto
  <1>1. /\ Counted
        /\ lines' = lines /\ Words' = Words
        /\ IsFiniteSet(Words)
        /\ Stored \subseteq Stored' /\ latency' = latency
    BY StepKinds, WordsAreFinite, StoredGrows, AgesStep DEF BenchIInv, Counted
  <1>2. /\ todo \subseteq Words /\ answered \subseteq Words \ todo
        /\ written + failed + Cardinality(todo) = Cardinality(Words)
        /\ written = Cardinality(answered)
        /\ answered # {} => Stored # {}
        /\ latency < 3 => answered \subseteq Stored
    BY <1>1 DEF Counted
  <1>3. /\ IsFiniteSet(todo) /\ Cardinality(todo) \in Nat
        /\ IsFiniteSet(answered)
        /\ Cardinality(answered) \in Nat
    <2>1. IsFiniteSet(todo) /\ IsFiniteSet(answered)
      BY <1>1, <1>2, FS_Subset
    <2> QED BY <2>1, FS_CardinalityType
  <1>4. written \in Nat /\ failed \in Nat /\ Cardinality(Words) \in Nat
    BY <1>1, FS_CardinalityType DEF BenchIInv, TypeOK
  <1> DEFINE Account == /\ todo \subseteq Words /\ answered \subseteq Words \ todo
                        /\ written + failed + Cardinality(todo) = Cardinality(Words)
                        /\ written = Cardinality(answered)
             Truth   == /\ answered # {} => Stored # {}
                        /\ latency < 3 => answered \subseteq Stored
  <1> SUFFICES Account' /\ Truth'
    BY <1>1, AnsweredIsStored, SomethingStored DEF Counted
  <1>5. CASE UNCHANGED <<todo, written, failed, answered>>
    <2>1. Account'
      BY <1>1, <1>2, <1>5
    <2>2. Truth'
      BY <1>1, <1>2, <1>5
    <2> QED BY <2>1, <2>2
  <1>6. ASSUME NEW a \in todo, todo' = todo \ {a}, answered' = answered,
               written' = written, failed' = failed + 1
        PROVE  Account' /\ Truth'
    <2>1. Cardinality(todo') = Cardinality(todo) - 1
      BY <1>3, <1>6, FS_RemoveElement
    <2>2. todo' \subseteq Words' /\ answered' \subseteq Words' \ todo'
      BY <1>1, <1>2, <1>6
    <2>3. written' + failed' + Cardinality(todo') = Cardinality(Words)
      BY <1>2, <1>3, <1>4, <1>6, <2>1
    <2>4. Account'
      BY <1>1, <1>2, <1>6, <2>2, <2>3
    <2>5. Truth'
      BY <1>1, <1>2, <1>6
    <2> QED BY <2>4, <2>5
  <1>7. ASSUME NEW a \in todo, todo' = todo \ {a}, answered' = answered \cup {a},
               written' = written + 1, failed' = failed,
               Stored' # {}, latency < 3 => a \in Stored'
        PROVE  Account' /\ Truth'
    <2>1. Cardinality(todo') = Cardinality(todo) - 1
      BY <1>3, <1>7, FS_RemoveElement
    <2>2. Cardinality(answered') = Cardinality(answered) + 1
      <3>1. a \notin answered
        BY <1>2
      <3> QED BY <1>3, <1>7, <3>1, FS_AddElement
    <2>3. todo' \subseteq Words' /\ answered' \subseteq Words' \ todo'
      BY <1>1, <1>2, <1>7
    <2>4. written' + failed' + Cardinality(todo') = Cardinality(Words)
      BY <1>2, <1>3, <1>4, <1>7, <2>1
    <2>5. written' = Cardinality(answered')
      BY <1>2, <1>7, <2>2
    <2>6. Account'
      BY <1>1, <2>3, <2>4, <2>5
    <2>7. Truth'
      BY <1>1, <1>2, <1>7
    <2> QED BY <2>6, <2>7
  <1> HIDE DEF Account, Truth
  <1>8. CASE NextWord
    <2>1. PICK a \in todo :
             IF InL2(a) THEN UNCHANGED load
             ELSE todo' = todo \ {a} /\ failed' = failed + 1 /\ UNCHANGED <<written, answered>>
      BY <1>8 DEF NextWord
    <2> QED BY <1>5, <1>6, <2>1
  <1>9. CASE Granted \/ Answered
    <2>1. InWrite /\ Loading /\ add \in todo
      BY <1>9 DEF Granted, Answered, Ended, InWrite, Loading, BenchIInv, Driven
    <2>2. add \in Words /\ InL2(add)
      BY <1>2, <2>1 DEF BenchIInv, Driven
    <2>3. \/ UNCHANGED load
          \/ todo' = todo \ {add} /\ failed' = failed + 1 /\ UNCHANGED <<written, answered>>
          \/ /\ todo' = todo \ {add} /\ written' = written + 1 /\ failed' = failed
             /\ answered' = answered \cup {add} /\ rValid
      BY <1>9 DEF Granted, Answered, WordEnds
    <2>4. rValid => due # {}
      BY DEF BenchIInv, Quiet
    <2>5. rValid => Stored' # {}
      BY <1>1, <2>1, <2>4 DEF Counted
    <2>6. rValid /\ latency < 3 => add \in Stored
      BY <1>1, <2>1, <2>2, <2>4 DEF Counted, Stored
    <2>7. rValid /\ latency < 3 => add \in Stored'
      BY <1>1, <2>6
    <2> QED BY <1>5, <1>6, <1>7, <2>1, <2>3, <2>5, <2>7
  <1>10. CASE Loaded \/ Program \/ CheckResult \/ Start \/ Finish \/ Run \/ ReadGranted \/ ReadAnswered
    BY <1>5, <1>10 DEF Loaded, Program, CheckResult, Start, Finish, Run, ReadGranted, ReadAnswered, ReadFails
  <1>11. CASE Reset \/ Stabilise \/ Settle \/ ReadSettle
    BY <1>5, <1>11 DEF Reset, Stabilise, Settle, ReadSettle, Delay
  <1>12. CASE GrantTick \/ ValidTick \/ ReadGrantTick \/ ReadValidTick
    BY <1>5, <1>12 DEF GrantTick, ValidTick, ReadGrantTick, ReadValidTick, Waiting
  <1> QED BY <1>5, <1>8, <1>9, <1>10, <1>11, <1>12 DEF Next, Testbench, vars

\* Where a marker on its way comes from, and what is on its way to the second
\* read.
LEMMA MemoryAtResult ==
  ASSUME BenchIInv
  PROVE  /\ add \in Addresses
         /\ memory[add] = Marker => Finished
         /\ Finished => memory[Cycles] = Outcome
  <1>1. add \in Addresses /\ Contents
    BY DEF BenchIInv, TypeOK, Contents
  <1>2. CASE add \notin {Complete, Cycles}
    BY <1>1, <1>2, WordsAreWords, MarksDiffer DEF Contents, Finished
  <1>3. CASE add = Complete
    BY <1>1, <1>3, MarksDiffer DEF Contents, Finished
  <1>4. CASE add = Cycles
    BY <1>1, <1>4, MarksDiffer DEF Contents, Finished
  <1>5. Finished => memory[Cycles] = Outcome
    BY <1>1 DEF Contents, Finished
  <1> QED BY <1>1, <1>2, <1>3, <1>4, <1>5

LEMMA AnswersStep ==
  ASSUME BenchIInv, [Next]_vars
  PROVE  Answers'
  <1> USE DEF Goto, soc, poll, master, InRead, Polled, Still
  <1> DEFINE SameRead  == \/ pc' \notin {"rgrant", "rvalid", "rsettle", "check"}
                          \/ pc' = "rgrant" /\ add' = Complete
                          \/ pc' = pc /\ add' = add
             SamePoll  == value' = value /\ found' = found /\ result' = result
             SameBus   == due' = due
  <1>0. /\ Answers /\ Quiet /\ Driven /\ Complete # Cycles
        /\ latency' = latency
    BY RegionsAssumption, AgesStep DEF BenchIInv
  <1>1. Finished => Finished'
    <2>1. CASE UNCHANGED program
      BY <2>1 DEF Finished
    <2>2. CASE Program
      BY <2>2 DEF Program, Finished
    <2> QED BY <2>1, <2>2, StepKinds, EvalFacts DEF Tick
  <1>2. ASSUME Tick, SameRead, SamePoll
        PROVE  Answers'
    <2>1. Eval
      BY <1>2 DEF Tick
    <2>2. \A m \in due' :
            \/ req /\ m.word = IF wen THEN memory[add] ELSE Unset
            \/ \E n \in due : m.word = n.word
      BY <2>1, EvalFacts
    <2>3. (\A m \in due : m.word = Marker => Finished)'
      BY <1>0, <1>1, <2>2, MemoryAtResult, MarksDiffer DEF Answers
    <2>4. (value = Marker => Finished)'
      BY <1>0, <1>1, <1>2 DEF Answers
    <2>5. (InRead /\ add = Cycles =>
             Finished /\ (latency < 2 => \A m \in due : m.word = Outcome))'
      <3> SUFFICES ASSUME InRead', add' = Cycles
                   PROVE  Finished' /\ (latency' < 2 => \A m \in due' : m.word = Outcome)
        OBVIOUS
      <3>1. InRead /\ add = Cycles
        BY <1>0, <1>2
      <3>2. Finished /\ (latency < 2 => \A m \in due : m.word = Outcome)
        BY <1>0, <3>1 DEF Answers
      <3>3. wen /\ memory[add] = Outcome
        BY <1>0, <3>1, <3>2, MemoryAtResult DEF Driven, InWrite
      <3> QED BY <1>0, <1>1, <2>2, <3>2, <3>3
    <2>6. (Polled /\ add = Cycles => Finished /\ (latency < 2 => value = Outcome))'
      BY <1>0, <1>1, <1>2 DEF Answers
    <2>7. ResultIsTrue'
      BY <1>0, <1>1, <1>2 DEF Answers, ResultIsTrue, Finished
    <2> QED BY <2>3, <2>4, <2>5, <2>6, <2>7 DEF Answers
  <1>3. ASSUME SameBus, SamePoll,
               \/ SameRead
               \/ pc \in {"rgrant", "rvalid"} /\ pc' \in {"rgrant", "rvalid"} /\ add' = add
               \/ pc \in {"rsettle", "check"} /\ pc' \in {"rsettle", "check"} /\ add' = add
        PROVE  Answers'
    BY <1>0, <1>1, <1>3 DEF Answers, ResultIsTrue, Finished
  <1>4. CASE UNCHANGED vars
    <2>1. SameBus /\ SamePoll /\ SameRead
      BY <1>4 DEF vars
    <2> QED BY <1>3, <2>1
  <1>5. CASE Program
    <2>1. SameBus /\ SamePoll /\ SameRead
      BY <1>5 DEF Program
    <2> QED BY <1>3, <2>1
  <1>6. CASE Reset \/ Stabilise \/ Settle \/ ReadSettle
    <2>1. SamePoll /\ add' = add
      BY <1>6 DEF Reset, Stabilise, Settle, ReadSettle, Delay
    <2>2. CASE left > 0
      <3>1. Tick /\ SameRead
        BY <1>6, <2>1, <2>2 DEF Reset, Stabilise, Settle, ReadSettle, Delay
      <3> QED BY <1>2, <2>1, <3>1
    <2>3. CASE ~(left > 0)
      <3>1. SameBus
        BY <1>6, <2>3 DEF Reset, Stabilise, Settle, ReadSettle, Delay
      <3>2. \/ pc' \notin {"rgrant", "rvalid", "rsettle", "check"}
            \/ pc \in {"rsettle", "check"} /\ pc' \in {"rsettle", "check"}
        BY <1>6, <2>3 DEF Reset, Stabilise, Settle, ReadSettle, Delay
      <3> QED BY <1>3, <2>1, <3>1, <3>2
    <2> QED BY <2>2, <2>3
  <1>7. CASE GrantTick \/ ValidTick \/ ReadGrantTick \/ ReadValidTick
    <2>1. Tick /\ SamePoll /\ SameRead
      BY <1>7 DEF GrantTick, ValidTick, ReadGrantTick, ReadValidTick, Waiting
    <2> QED BY <1>2, <2>1
  <1>8. CASE Run
    <2>1. Tick /\ SamePoll /\ SameRead
      BY <1>8 DEF Run, Read, FirstRead
    <2> QED BY <1>2, <2>1
  <1>9. CASE Start \/ Loaded \/ Finish \/ NextWord
    <2>1. SameBus /\ SamePoll
      BY <1>9 DEF Start, Loaded, Finish, NextWord
    <2>2. pc' \notin {"rgrant", "rvalid", "rsettle", "check"}
      BY <1>9 DEF Start, Loaded, Finish, NextWord
    <2> QED BY <1>3, <2>1, <2>2
  <1>10. CASE Granted \/ Answered
    <2>1. SameBus /\ SamePoll
      BY <1>10 DEF Granted, Answered, WordEnds
    <2>2. pc' \notin {"rgrant", "rvalid", "rsettle", "check"}
      BY <1>10 DEF Granted, Answered, WordEnds
    <2> QED BY <1>3, <2>1, <2>2
  <1>11. CASE ReadGranted
    <2>1. SameBus /\ SamePoll
      BY <1>11 DEF ReadGranted, ReadFails
    <2>2. pc' = "run" \/ (pc = "rgrant" /\ pc' = "rvalid" /\ add' = add)
      <3>1. CASE gnt
        BY <1>11, <3>1 DEF ReadGranted, Ended
      <3>2. CASE ~gnt
        BY <1>11, <3>2 DEF ReadGranted, ReadFails
      <3> QED BY <3>1, <3>2
    <2> QED BY <1>3, <2>1, <2>2
  <1>12. CASE ReadAnswered
    <2>1. CASE rValid
      <3>1. /\ SameBus /\ found' = found /\ result' = result /\ value' = rData /\ add' = add
            /\ pc = "rvalid" /\ pc' = "rsettle"
        BY <1>12, <2>1 DEF ReadAnswered, Ended
      <3>2. PICK m \in due : rData = m.word
        BY <1>0, <2>1 DEF Quiet
      <3> QED BY <1>0, <1>1, <3>1, <3>2 DEF Answers, ResultIsTrue, Finished
    <2>2. CASE ~rValid
      <3>1. SameBus /\ SamePoll /\ pc' = "run"
        BY <1>12, <2>2 DEF ReadAnswered, ReadFails
      <3> QED BY <1>3, <3>1
    <2> QED BY <2>1, <2>2
  <1>13. CASE CheckResult
    <2>1. SameBus /\ pc = "check" /\ add \in {Complete, Cycles}
      BY <1>0, <1>13 DEF CheckResult, Driven
    <2>2. CASE add = Complete /\ value = Marker
      <3>1. SamePoll /\ add' = Cycles /\ pc' = "rgrant" /\ Finished
        BY <1>0, <1>13, <2>2 DEF CheckResult, Read, Answers
      <3>2. latency < 2 => due' = {}
        BY <1>0, <2>1 DEF Quiet
      <3> QED BY <1>0, <1>1, <2>1, <3>1, <3>2 DEF Answers, ResultIsTrue, Finished
    <2>3. CASE add = Complete /\ value # Marker
      <3>1. SamePoll /\ pc' = "run"
        BY <1>13, <2>3 DEF CheckResult
      <3> QED BY <1>3, <2>1, <3>1
    <2>4. CASE add = Cycles
      <3>1. Finished /\ (latency < 2 => value = Outcome)
        BY <1>0, <2>1, <2>4 DEF Answers
      <3>2. result' = value /\ value' = value /\ pc' = "run"
        BY <1>0, <1>13, <2>4 DEF CheckResult
      <3> QED BY <1>0, <1>1, <2>1, <3>1, <3>2 DEF Answers, ResultIsTrue, Finished
    <2> QED BY <2>1, <2>2, <2>3, <2>4
  <1> QED BY <1>4, <1>5, <1>6, <1>7, <1>8, <1>9, <1>10, <1>11, <1>12, <1>13
          DEF Next, Testbench

LEMMA BenchInit ==
  ASSUME Init
  PROVE  BenchIInv
  <1> USE DEF Init
  <1>1. TypeOK
    <2>1. 0 \in 0 .. Max({GrantWait, ValidWait, ReadWait})
      BY LongestWait
    <2>2. 0 \in 0 .. MaxCycles + PollEvery
      BY WaitsAssumption
    <2>3. add \in DOMAIN memory
      OBVIOUS
    <2> QED BY <2>1, <2>2, <2>3 DEF TypeOK
  <1>2. Driven
    BY DEF Driven, InWrite, InRead, Polled
  <1>3. Quiet
    BY DEF Quiet
  <1>4. Contents
    BY DEF Contents, Addresses, Finished
  <1>5. Counted
    <2>1. IsFiniteSet(Words) /\ Cardinality(Words) \in Nat /\ Cardinality({}) = 0
      BY WordsAreFinite, FS_CardinalityType, FS_EmptySet
    <2> QED BY <2>1 DEF Counted, InWrite
  <1>6. Answers
    BY MarksDiffer DEF Answers, ResultIsTrue, InRead, Polled
  <1> QED BY <1>1, <1>2, <1>3, <1>4, <1>5, <1>6 DEF BenchIInv

-----------------------------------------------------------------------------
(* Results *)

LEMMA BenchIInvHolds == Spec => []BenchIInv
  <1>1. Init => BenchIInv
    BY BenchInit
  <1>2. BenchIInv /\ [Next]_vars => BenchIInv'
    BY TypeStep, DrivenStep, QuietStep, ContentsStep, CountedStep, AnswersStep DEF BenchIInv
  <1> QED BY <1>1, <1>2, PTL DEF Spec

\* The testbench is a well behaved master (load_memory, read_memory): its waits
\* end at their limits, it asks only for places there are, its request is off
\* the bus whenever main runs the SoC, and a poll never writes.
THEOREM MasterIsWellBehaved == Spec => []MasterOK
  <1>1. BenchIInv => MasterOK
    BY DEF BenchIInv, MasterOK, BusReleased, Driven, InWrite, InRead
  <1> QED BY <1>1, BenchIInvHolds, PTL

\* The report of the load (load_memory).  On every bus, however late it answers:
\* every word of the file is counted once, as many are counted as written as
\* were answered, none as long as nothing was stored, and memory holds only
\* words of the file.  On a bus whose last answer comes within the three half
\* cycles between two words, the words counted are the words in memory.
THEOREM LoadReportIsTrue == Spec => []ReportIsTrue
  <1>1. BenchIInv => ReportIsTrue
    <2> SUFFICES ASSUME BenchIInv PROVE ReportIsTrue
      OBVIOUS
    <2>1. DOMAIN memory = Addresses
      BY DEF BenchIInv, Contents
    <2> QED BY <2>1 DEF ReportIsTrue, BenchIInv, Counted, Contents
  <1> QED BY <1>1, BenchIInvHolds, PTL

\* A result is reported only when the program has finished, on every bus; on one
\* whose last answer comes within the two half cycles after a read, the cycles
\* reported are the ones the program counted (check_result, read_memory).
THEOREM ReportedResultIsTrue == Spec => []ResultIsTrue
  <1>1. BenchIInv => ResultIsTrue
    BY DEF BenchIInv, Answers
  <1> QED BY <1>1, BenchIInvHolds, PTL

=============================================================================
