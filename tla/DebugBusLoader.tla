--------------------------- MODULE DebugBusLoader ---------------------------
(***************************************************************************)
(* The Verilator testbench (target/sim/verilator/tb_main.cpp): it parses   *)
(* an S-record file, moves what is linked for the ROM to L2, writes it     *)
(* word by word over the debug bus, and then polls a result location until *)
(* the program has left its marker there or the cycles are used up.        *)
(*                                                                         *)
(* A step of the testbench is one half cycle of the clock with its eval(), *)
(* or what the code does between two of them.  The SoC behind the bus is   *)
(* external: in any eval it may show a grant, with or without a request,   *)
(* and take the request that is on the bus, also again while the testbench *)
(* holds it and waits.  What was taken may be answered in the same eval    *)
(* and for latency half cycles after it: early or late, once, repeatedly,  *)
(* after a younger request, or not at all.  It may never grant either,     *)
(* which is what happens as long as nothing drives pad_ref_clk.            *)
(* A word is the sequence of its bytes.                                    *)
(***************************************************************************)
EXTENDS Integers, Sequences, FiniteSetsExt

CONSTANTS
  Files,       \* parsed lines: sequences of [type, length, address, data]
  RomStart, RemapEnd, RomEnd,  \* ROM_BASE, ROM_BASE + 0x2000, ROM_END_ADDR
  L2Start, L2End,
  Complete, Cycles,      \* RESULT_COMPLETE_ADDR, RESULT_CYCLES_ADDR
  ResetTicks, InitTicks, \* half cycles before the load, 20 and 10100
  GrantWait, ValidWait,  \* cycles a write waits, 5000 and 200
  ReadWait,              \* cycles a read waits, twice, 100
  PollEvery,             \* 1000
  MaxCycles,             \* max_cycles
  Latencies              \* how slow the bus may be, in half cycles

ASSUME RegionsAssumption ==
  /\ RomStart <= RemapEnd /\ RemapEnd <= RomEnd /\ RomEnd <= L2Start /\ L2Start <= L2End
  /\ {RomStart, RemapEnd, RomEnd, L2Start, L2End, Complete, Cycles} \subseteq Nat
  /\ {Complete, Cycles} \cap (L2Start .. L2End) = {}
  /\ Complete # Cycles
ASSUME WaitsAssumption ==
  /\ {GrantWait, ValidWait, ReadWait, PollEvery} \subseteq Nat \ {0}
  /\ MaxCycles \in Nat
ASSUME LatenciesAssumption == Latencies \subseteq Nat
ASSUME FilesAssumption ==
  Files \subseteq Seq([type : Int, length : 0..255, address : Nat, data : Seq(0..255)])

VARIABLES
  lines,             \* the file
  pc, left, wait,    \* place, half cycles left of a delay, wait_cycles
  clk, cycle, count, \* ClockGen, and cycle_count of main
  todo,              \* addresses of the words still to write
  written, failed,   \* words_written, words_failed
  answered,          \* history: the words counted as written
  entryPoint,
  value, found, result,          \* a word read, and the result
  req, wen, add, wdata,          \* the bus, driven by the testbench
  gnt, rValid, rData,            \* the bus, driven by the SoC
  latency,                       \* of the bus
  due,                           \* what was taken and may still be answered
  memory, program                \* memory behind it, and steps of the program

clock  == <<clk, cycle>>
load   == <<todo, written, failed, answered, entryPoint>>
poll   == <<value, found, result>>
master == <<req, wen, add, wdata>>
soc    == <<gnt, rValid, rData, latency, due, memory, program>>
vars   == <<lines, pc, left, wait, clock, count, load, poll, master, soc>>

Unset   == <<>>
Marker  == <<57005>>   \* RESULT_MARKER
Outcome == <<210>>     \* what the program counted

-----------------------------------------------------------------------------
(* parse_srec and the writes_ of main *)

\* The data records, by their lines.
Records == {i \in DOMAIN lines : lines[i].type = 3}

\* The last S9 long enough for a 32-bit address, or the start of the ROM.
ParsedEntry ==
  LET s == {i \in DOMAIN lines : lines[i].type = 9 /\ lines[i].length >= 5}
  IN  IF s = {} THEN RomStart ELSE lines[Max(s)].address

InRemap(a) == RomStart <= a /\ a < RemapEnd

\* A record moves as a whole, by its first address.
Target(r) == IF InRemap(r.address) THEN r.address + (L2Start - RomStart) ELSE r.address

\* writes_: the bytes by address, those of a later record in place of earlier.
BytesAt(a) ==
  {i \in Records : Target(lines[i]) <= a /\ a < Target(lines[i]) + Len(lines[i].data)}
Byte(a) ==
  IF BytesAt(a) = {} THEN 0
  ELSE LET r == lines[Max(BytesAt(a))] IN r.data[a - Target(r) + 1]

WrittenBy(r) == Target(r) .. Target(r) + Len(r.data) - 1
Written == UNION {WrittenBy(lines[i]) : i \in Records}

\* word_writes: whole words, with zeros where the file has no byte.
Aligned(a) == a - (a % 4)
Words      == {Aligned(a) : a \in Written}
Word(a)    == [k \in 1..4 |-> Byte(a + k - 1)]

InL2(a) == L2Start <= a /\ a < L2End

-----------------------------------------------------------------------------
(* The SoC, in one eval *)

\* The answers that may still come, a half cycle later.
Older == {[age |-> m.age + 1, word |-> m.word] : m \in {n \in due : n.age < latency}}

\* The answer to the request on the bus; that to a write carries no data.
Taken == [age |-> 0, word |-> IF wen THEN memory[add] ELSE Unset]

Eval ==
  /\ gnt' \in BOOLEAN
  /\ \/ due' = Older /\ UNCHANGED memory
     \/ /\ req
        /\ due' = Older \cup {Taken}
        /\ memory' = IF wen THEN memory ELSE [memory EXCEPT ![add] = wdata]
  /\ \/ rValid' = FALSE /\ rData' = Unset
     \/ \E m \in due' : rValid' = TRUE /\ rData' = m.word
  /\ UNCHANGED <<latency, program>>

\* The program writes its count and then the marker, while main polls too.
Program ==
  /\ pc \in {"run", "rgrant", "rvalid", "rsettle"}
  /\ program < 2
  /\ program' = program + 1
  /\ memory' = IF program = 0 THEN [memory EXCEPT ![Cycles] = Outcome]
               ELSE [memory EXCEPT ![Complete] = Marker]
  /\ UNCHANGED <<lines, pc, left, wait, clock, count, load, poll, master,
                 gnt, rValid, rData, latency, due>>

-----------------------------------------------------------------------------
(* Half cycles *)

Falling == clk

\* Past the limit of main only the phase of the polls matters: the count is
\* kept below MaxCycles + PollEvery.
NextCycle(c) == IF c = MaxCycles + PollEvery THEN MaxCycles + 1 ELSE c + 1

Tick == /\ clk' = ~clk
        /\ cycle' = IF Falling THEN NextCycle(cycle) ELSE cycle
        /\ Eval

Goto(l) == pc' = l
Release == req' = FALSE /\ wen' = TRUE /\ UNCHANGED <<add, wdata>>

\* A delay of left half cycles, then on to l.
Delay(from, l) ==
  /\ pc = from
  /\ IF left > 0
     THEN Tick /\ left' = left - 1 /\ UNCHANGED pc
     ELSE Goto(l) /\ UNCHANGED <<left, clock, soc>>
  /\ UNCHANGED <<lines, wait, count, load, poll, master>>

Within(limit) == wait < limit

\* A wait of at most limit cycles for a signal of the SoC.
Waiting(from, limit, signal) ==
  /\ pc = from
  /\ Within(limit) /\ ~signal
  /\ Tick
  /\ wait' = IF Falling THEN wait + 1 ELSE wait
  /\ UNCHANGED <<lines, pc, left, count, load, poll, master>>

\* Its end, on the value the last eval left.
Ended(from, limit, signal) == pc = from /\ (signal \/ wait >= limit)

Still == UNCHANGED <<lines, clock, count, soc>>

-----------------------------------------------------------------------------
(* main up to the load *)

Reset == Delay("reset", "start")

\* Without a data record nothing is loaded.
Start ==
  /\ pc = "start"
  /\ IF Words = {} THEN Goto("run") /\ UNCHANGED left
     ELSE Goto("init") /\ left' = InitTicks
  /\ UNCHANGED <<wait, load, poll, master>>
  /\ Still

Stabilise == Delay("init", "word")

-----------------------------------------------------------------------------
(* load_memory *)

\* The words are taken in order of address.
IsNext(a) == a \in todo /\ \A b \in todo : a <= b

\* The next word: skipped outside L2, else its request is put on the bus.
NextWord ==
  /\ pc = "word"
  /\ \E a \in todo :
       /\ IsNext(a)
       /\ IF InL2(a)
          THEN /\ req' = TRUE /\ wen' = FALSE /\ add' = a /\ wdata' = Word(a)
               /\ Goto("grant")
               /\ wait' = 0
               /\ UNCHANGED <<load, left>>
          ELSE /\ failed' = failed + 1
               /\ todo' = todo \ {a}
               /\ UNCHANGED <<master, pc, wait, left, written, answered, entryPoint>>
  /\ UNCHANGED poll
  /\ Still

GrantTick == Waiting("grant", GrantWait, gnt)
ValidTick == Waiting("valid", ValidWait, rValid)

\* Fault: the bus is left alone for a half cycle less.
SettleTicksTwo == 2

SettleTicks == 3

\* The word of the request is done with.
WordEnds(ok) ==
  /\ written' = IF ok THEN written + 1 ELSE written
  /\ failed' = IF ok THEN failed ELSE failed + 1
  /\ answered' = IF ok THEN answered \cup {add} ELSE answered
  /\ todo' = todo \ {add}
  /\ Release
  /\ left' = SettleTicks
  /\ Goto("settle")
  /\ UNCHANGED <<wait, entryPoint, poll>>
  /\ Still

Granted ==
  /\ Ended("grant", GrantWait, gnt)
  /\ IF gnt
     THEN /\ Goto("valid") /\ wait' = 0
          /\ UNCHANGED <<left, load, poll, master>> /\ Still
     ELSE WordEnds(FALSE)

Answered == Ended("valid", ValidWait, rValid) /\ WordEnds(rValid)

Settle == Delay("settle", "word")

\* The load counts as one when any word was written.
Loaded ==
  /\ pc = "word"
  /\ todo = {}
  /\ entryPoint' = IF written > 0 /\ RomStart <= entryPoint /\ entryPoint < RomEnd
                   THEN entryPoint + (L2Start - RomStart) ELSE entryPoint
  /\ Goto("run")
  /\ UNCHANGED <<left, wait, todo, written, failed, answered, poll, master>>
  /\ Still

-----------------------------------------------------------------------------
(* The loop of main, check_result and read_memory *)

Read(a) == req' = TRUE /\ wen' = TRUE /\ add' = a /\ UNCHANGED wdata

\* Fault: only a result ends the simulation.
RunningNoLimit == ~found

Running == count < MaxCycles /\ ~found

FirstRead == Complete

Run ==
  /\ pc = "run"
  /\ Running
  /\ Tick
  /\ count' = IF Falling THEN cycle' ELSE count
  /\ IF Falling /\ Records # {} /\ count' > PollEvery /\ count' % PollEvery = 0
     THEN Read(FirstRead) /\ Goto("rgrant") /\ wait' = 0
     ELSE UNCHANGED <<master, pc, wait>>
  /\ UNCHANGED <<lines, left, load, poll>>

ReadGrantTick == Waiting("rgrant", ReadWait, gnt)
ReadValidTick == Waiting("rvalid", ReadWait, rValid)

\* Fault: a read that is not granted leaves its request on the bus.
ReadFailsHeld ==
  /\ Goto("run")
  /\ UNCHANGED <<left, wait, load, poll, master>>
  /\ Still

\* A read that is not granted or not answered: no delay, and no result.
ReadFails ==
  /\ req' = FALSE /\ UNCHANGED <<wen, add, wdata>>
  /\ Goto("run")
  /\ UNCHANGED <<left, wait, load, poll>>
  /\ Still

ReadGranted ==
  /\ Ended("rgrant", ReadWait, gnt)
  /\ IF gnt
     THEN /\ Goto("rvalid") /\ wait' = 0
          /\ UNCHANGED <<left, load, poll, master>> /\ Still
     ELSE ReadFails

\* Fault: the second read follows the first a half cycle earlier.
ReadSettleTicksOne == 1

ReadSettleTicks == 2

ReadAnswered ==
  /\ Ended("rvalid", ReadWait, rValid)
  /\ IF rValid
     THEN /\ value' = rData
          /\ req' = FALSE /\ UNCHANGED <<wen, add, wdata>>
          /\ left' = ReadSettleTicks
          /\ Goto("rsettle")
          /\ UNCHANGED <<wait, load, found, result>> /\ Still
     ELSE ReadFails

ReadSettle == Delay("rsettle", "check")

\* check_result: the count is read when the marker is there.
CheckResult ==
  /\ pc = "check"
  /\ IF add = Complete
     THEN IF value = Marker
          THEN Read(Cycles) /\ Goto("rgrant") /\ wait' = 0 /\ UNCHANGED poll
          ELSE Goto("run") /\ UNCHANGED <<master, wait, poll>>
     ELSE /\ found' = TRUE /\ result' = value
          /\ Goto("run") /\ UNCHANGED <<master, wait, value>>
  /\ UNCHANGED <<left, load>>
  /\ Still

Finish ==
  /\ pc = "run"
  /\ ~Running
  /\ Goto("done")
  /\ UNCHANGED <<left, wait, load, poll, master>>
  /\ Still

-----------------------------------------------------------------------------
Init ==
  /\ lines \in Files
  /\ pc = "reset" /\ left = ResetTicks /\ wait = 0
  /\ clk = FALSE /\ cycle = 0 /\ count = 0
  /\ todo = Words
  /\ written = 0 /\ failed = 0 /\ answered = {}
  /\ entryPoint = ParsedEntry
  /\ value = Unset /\ found = FALSE /\ result = Unset
  /\ req = FALSE /\ wen = TRUE /\ add = 0 /\ wdata = Unset
  /\ gnt = FALSE /\ rValid = FALSE /\ rData = Unset
  /\ latency \in Latencies /\ due = {}
  /\ memory = [a \in {x \in L2Start .. L2End - 1 : x % 4 = 0} \cup {Complete, Cycles, 0} |-> Unset]
  /\ program = 0

Testbench ==
  \/ Reset \/ Start \/ Stabilise
  \/ NextWord \/ GrantTick \/ Granted \/ ValidTick \/ Answered \/ Settle \/ Loaded
  \/ Run \/ ReadGrantTick \/ ReadGranted \/ ReadValidTick \/ ReadAnswered
  \/ ReadSettle \/ CheckResult \/ Finish

Next == Testbench \/ Program

Spec == Init /\ [][Next]_vars

\* The testbench is a program that runs; the SoC need not do anything.
FairSpec == Spec /\ WF_vars(Testbench)

-----------------------------------------------------------------------------
(* Properties *)

\* Type invariant.
TypeOK ==
  /\ pc \in {"reset", "start", "init", "word", "grant", "valid", "settle", "run",
             "rgrant", "rvalid", "rsettle", "check", "done"}
  /\ wait \in 0 .. Max({GrantWait, ValidWait, ReadWait})
  /\ {cycle, count} \subseteq 0 .. MaxCycles + PollEvery
  /\ {req, wen, gnt, rValid, found} \subseteq BOOLEAN
  /\ written \in Nat /\ failed \in Nat
  /\ latency \in Latencies
  /\ \A m \in due : m.age \in 0 .. latency
  /\ add \in DOMAIN memory

Stored == {a \in Words : InL2(a) /\ memory[a] # Unset}

\* The report of the load is true.  On every bus, however late it answers:
\* every word of the file was counted once, the words written are as many as
\* were answered, none is counted as long as nothing was stored, and memory
\* holds nothing but words of the file.  On a bus whose last answer comes
\* within the three half cycles that load_memory leaves between two words, the
\* words counted as written are the very words that are in memory.
ReportIsTrue ==
  /\ written + failed + Cardinality(todo) = Cardinality(Words)
  /\ written = Cardinality(answered)
  /\ answered # {} => Stored # {}
  /\ \A a \in DOMAIN memory \ {Complete, Cycles} :
       memory[a] # Unset => a \in Words /\ memory[a] = Word(a)
  /\ latency < 3 => answered \subseteq Stored

\* A result is reported only when the program was finished, on every bus.  On
\* one whose last answer comes within the two half cycles that read_memory
\* leaves after a read, the cycles reported are the ones the program counted.
ResultIsTrue ==
  found => /\ program = 2
           /\ latency < 2 => result = Outcome

\* While main runs the SoC, no request of the testbench is on the bus, and a
\* poll never writes.
BusReleased ==
  /\ pc \in {"word", "settle", "run", "rsettle", "done"} => ~req
  /\ pc \in {"run", "rgrant", "rvalid", "rsettle", "check", "done"} => wen

\* The testbench as a bus master: its waits and counts are bounded, and its
\* requests are released.
MasterOK == TypeOK /\ BusReleased

\* The testbench comes to its end on every bus, also one that never answers.
Ends == <>(pc = "done")

=============================================================================
