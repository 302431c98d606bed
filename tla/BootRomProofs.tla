--------------------------- MODULE BootRomProofs ---------------------------
(***************************************************************************)
(* Proofs about the boot ROM: for every image, every timing of the devices *)
(* and every user of the console, the waits of the flash boot and what it  *)
(* loads.  Module BootRom composes the boots; the proofs follow the one    *)
(* from flash, from reset and from the console.  The last two sections     *)
(* carry over what SrecProofs proves about the S-record boot, and show     *)
(* that the console's UART runs at its rate.                               *)
(***************************************************************************)
EXTENDS BootRom, SequenceTheorems, FiniteSetTheorems, TLAPS

-----------------------------------------------------------------------------
(* The inductive invariant *)

\* The turns of wait_clock_ref so far, with the one that is not yet counted.
Turns == NbTicks - ticksLeft + (IF waiting = "tock" THEN 1 ELSE 0)

\* What a wait has enabled; what the status bit and a wait say of the FIFO;
\* and how many ticks the turns have seen: all but the first, which may have
\* found one latched.
EventsInv ==
  /\ EventsTypeOK
  /\ waiting \in {"no", "soc"} => enabled = {}
  /\ waiting \in {"poll", "pop", "clear", "disable"} => enabled = {"SOC"}
  /\ waiting \in {"tick", "tock"} => enabled = {"CLK"}
  /\ "SOC" \in status /\ waiting # "clear" => fifo # <<>>
  /\ waiting = "pop" => fifo # <<>>
  /\ waiting \in {"tick", "tock"} => Turns <= ticks + 1
  /\ waiting = "tick" /\ "CLK" \in status => Turns <= ticks
  /\ waiting = "tock" => ticksLeft > 0

\* The way into the flash boot, and what has happened before it.
PathInv ==
  /\ bootsel \in 0..3
  /\ entered = IF bootsel = 2 THEN "reset" ELSE "console"
  /\ stage # "qspi" => pc = "off"
  /\ pc \in {"off", "jumped"} => waiting = "no"
  /\ pc = "jumped" => unmasked = {}
  /\ FromReset => /\ stage \in {"reset", "expose_spi", "qspi"}
                  /\ stage # "qspi" => PadsInit
                  /\ stage = "qspi" => SpiRouted
                  /\ uart = 0 /\ prints = 0

\* An area with room behind it, and a place for the loader's data.
Areas  == {a \in AreaType : RoundUp(a.ptr + a.size, BlockSize) + DataSize <= MemTop + 1}
Places == {a \in Nat : a >= L2Start /\ a + DataSize <= MemTop + 1 /\ a % BlockSize = 0}

TransferType ==
  [to : {"header", "table", "mem", "buffer"}, who : {"old", "new"}, dst : Nat, src : Nat, size : Nat]

\* Types of the flash boot, however it was entered.
LoaderTypes ==
  /\ pc \in {"off", "init", "eot", "tx", "ticks", "header", "table", "got",
             "fit", "block", "loaded", "deinit", "jumped"}
  /\ image \in Images
  /\ header \in [{"old", "new"} -> [nb : 0..MaxAreas, entry : Int, bootaddr : Int]]
  /\ table \in [{"old", "new"} -> [1..MaxAreas -> Areas]]
  /\ who \in {"old", "new"}
  /\ base \in Places \cup {Unset}
  /\ fit \in [area : 0..MaxAreas, addr : Places]
  /\ section \in [area : 0..MaxAreas, block : Nat, dst : Nat, src : Nat, left : 0..Wrap - 1]
  /\ buffer \in [0..BlockSize - 1 -> Int]
  /\ mem \in [0..MemTop -> Int]
  /\ transfers \in Seq(TransferType)
  /\ base = Unset <=> who = "old"
  /\ pc = "fit" => who = "old"
  /\ pc \in {"block", "loaded", "deinit", "jumped"} => who = "new"
  /\ pc \in {"block", "loaded"} => section.area > 0

\* From reset: the transfer a flash_read has ordered, and the one event that
\* ends its wait.
Ordered ==
  CASE pc = "table"  -> [to |-> "header", who |-> who, dst |-> 0, src |-> 0, size |-> 0]
    [] pc = "got"    -> [to |-> "table", who |-> who, dst |-> 0, src |-> 0,
                         size |-> NbAreas(header[who])]
    [] pc = "loaded" -> [to |-> IF IsL2(section.area) THEN "mem" ELSE "buffer", who |-> who,
                         dst |-> section.dst, src |-> section.src, size |-> IterSize(section.left)]

ReadInv ==
  /\ pc \in {"tx", "ticks", "header", "table", "got", "fit", "block", "loaded", "deinit"}
       => SpiEot \in unmasked
  /\ waiting \in {"soc", "poll", "pop"} =>
       /\ pc \in {"table", "got", "loaded"}
       /\ \/ transfers = <<Ordered>> /\ fifo = <<>>
          \/ transfers = <<>> /\ fifo = <<SpiEot>>
  /\ waiting \in {"no", "tick", "tock", "clear", "disable"} => transfers = <<>> /\ fifo = <<>>

Delivered == transfers = <<>>

\* From reset: header and table that were read are those of the image.
HasHeader(d) == header[d] = Header(image)
HasTable(d)  == \A i \in 1..Len(image.areas) : table[d][i] = image.areas[i]

TableInv ==
  /\ pc = "table" /\ Delivered => HasHeader(who)
  /\ pc = "got" => HasHeader(who) /\ (Delivered => HasTable(who))
  /\ pc = "fit" => HasHeader("old") /\ HasTable("old")
  /\ pc \in {"block", "loaded", "deinit", "jumped"} => HasHeader("new") /\ HasTable("new")

\* The data at d and an area that begins at ptr leave each other alone.
Apart(d, a) == d >= a.ptr + a.size \/ d + DataSize <= a.ptr

FitInv ==
  /\ pc = "fit" => /\ fit.area <= Len(image.areas)
                   /\ \A i \in 1..fit.area : Apart(fit.addr, image.areas[i])
  /\ base # Unset => \A i \in 1..Len(image.areas) : Apart(base, image.areas[i])

\* The first n bytes of area a are in memory.
InPlace(a, n) == \A k \in 0..a.size - 1 : k < n => mem[a.ptr + k] = a.start + k

Blocks(n) == (n + BlockSize - 1) \div BlockSize

\* From reset: the areas before the one in turn are in place, and so much of
\* this one as the addresses and the count of blocks say.
Current == image.areas[section.area]
Done    == section.dst - Current.ptr

SectionInv ==
  /\ section.area <= Len(image.areas)
  /\ \A i \in 1..section.area - 1 : InPlace(image.areas[i], image.areas[i].size)
  /\ Done \in Nat
  /\ section.src = Current.start + Done
  /\ InPlace(Current, Done)
  /\ section.block <= Current.blocks
  /\ section.block < Current.blocks =>
       /\ section.left = Current.size - Done /\ section.left > 0
       /\ Current.blocks - section.block = Blocks(section.left)
       /\ section.dst % WordSize = 0
  /\ section.block = Current.blocks => Done >= Current.size

\* The block that was read, in memory or in the buffer.
BlockInv ==
  /\ section.block < Current.blocks
  /\ Delivered => \A k \in 0..IterSize(section.left) - 1 :
       IF IsL2(section.area)
       THEN section.dst + k \in DOMAIN mem => mem[section.dst + k] = section.src + k
       ELSE buffer[k] = section.src + k

LoadInv ==
  /\ pc \in {"off", "init", "eot", "tx", "ticks", "header", "table", "got", "fit"} =>
       section = NoSection
  /\ pc \in {"block", "loaded"} => SectionInv
  /\ pc = "loaded" => BlockInv
  /\ pc \in {"deinit", "jumped"} =>
       \A i \in 1..Len(image.areas) : InPlace(image.areas[i], image.areas[i].size)
  /\ pc = "jumped" => boot = [entry |-> image.entry, bootaddr |-> image.bootaddr]
  /\ DataUntouched
  /\ base = Unset => \A a \in DOMAIN mem : mem[a] = Unset

BootIInv ==
  /\ EventsInv /\ PathInv /\ LoaderTypes
  /\ FromReset => ReadInv /\ TableInv /\ FitInv /\ LoadInv

-----------------------------------------------------------------------------
(* Rounding *)

LEMMA Quotients ==
  ASSUME NEW x \in Nat, NEW y \in Nat \ {0}
  PROVE  /\ x \div y \in Nat
         /\ (x \div y) * y \in Nat
         /\ (x \div y) * y <= x
         /\ x < (x \div y) * y + y
         /\ x % y \in 0 .. y - 1
         /\ x % y = 0 => x = (x \div y) * y
  <1>1. x \div y \in Nat
    OBVIOUS
  <1>2. x % y \in 0 .. y - 1
    OBVIOUS
  <1>3. x = (x \div y) * y + (x % y)
    OBVIOUS
  <1>4. (x \div y) * y \in Nat
    BY <1>1
  <1> QED BY <1>1, <1>2, <1>3, <1>4

LEMMA QuotientOfMultiple ==
  ASSUME NEW q \in Nat, NEW y \in Nat \ {0}
  PROVE  (q * y) % y = 0 /\ q * y \in Nat
  OBVIOUS

LEMMA QuotientIsUnique ==
  ASSUME NEW q \in Nat, NEW x \in Nat, NEW y \in Nat \ {0}, q * y <= x, x < q * y + y
  PROVE  x \div y = q
  OBVIOUS

\* Sums of multiples, and multiples of multiples.
LEMMA SumOfMultiples ==
  ASSUME NEW x \in Nat, NEW z \in Nat, NEW y \in Nat \ {0}, x % y = 0, z % y = 0
  PROVE  (x + z) % y = 0
  <1>1. x = (x \div y) * y /\ z = (z \div y) * y /\ x \div y \in Nat /\ z \div y \in Nat
    BY Quotients
  <1> DEFINE p == (x \div y) + (z \div y)
  <1>2. x + z = p * y /\ p \in Nat
    BY <1>1
  <1> HIDE DEF p
  <1>3. (p * y) % y = 0
    BY <1>2, QuotientOfMultiple
  <1> QED BY <1>2, <1>3

LEMMA MultipleOfMultiple ==
  ASSUME NEW x \in Nat, NEW z \in Nat \ {0}, NEW y \in Nat \ {0}, x % z = 0, z % y = 0
  PROVE  x % y = 0
  <1>1. x = (x \div z) * z /\ z = (z \div y) * y /\ x \div z \in Nat /\ z \div y \in Nat
    BY Quotients
  <1>2. x = ((x \div z) * (z \div y)) * y /\ (x \div z) * (z \div y) \in Nat
    BY <1>1
  <1> QED BY <1>2, QuotientOfMultiple

\* Rounding up gives the least multiple that is not smaller.
LEMMA RoundUpIsLeast ==
  ASSUME NEW x \in Nat, NEW y \in Nat \ {0}
  PROVE  /\ RoundUp(x, y) \in Nat /\ RoundUp(x, y) >= x
         /\ RoundUp(x, y) % y = 0
         /\ \A z \in Nat : z % y = 0 /\ z >= x => z >= RoundUp(x, y)
  <1> DEFINE q == (x + y - 1) \div y
  <1>1. q \in Nat /\ q * y <= x + y - 1 /\ x + y - 1 < q * y + y /\ q * y \in Nat
    BY Quotients
  <1>2. RoundUp(x, y) = q * y
    BY DEF RoundUp
  <1>3. ASSUME NEW z \in Nat, z % y = 0, z >= x PROVE z >= q * y
    <2>1. z = (z \div y) * y /\ z \div y \in Nat
      BY <1>3, Quotients
    <2>2. (z \div y) >= q
      <3> SUFFICES ASSUME z \div y < q PROVE FALSE
        BY <1>1, <2>1
      <3>1. (z \div y) + 1 <= q
        BY <1>1, <2>1
      <3>2. ((z \div y) + 1) * y <= q * y
        BY <1>1, <2>1, <3>1
      <3>3. ((z \div y) + 1) * y = z + y
        BY <2>1
      <3> QED BY <1>1, <1>3, <3>2, <3>3
    <2> QED BY <1>1, <2>1, <2>2
  <1>4. (q * y) % y = 0
    BY <1>1, QuotientOfMultiple
  <1> HIDE DEF q
  <1> QED BY <1>1, <1>2, <1>3, <1>4

\* From a multiple on, rounding up what is left does not pass another multiple.
LEMMA RoundUpStaysBelow ==
  ASSUME NEW d \in Nat, NEW n \in Nat, NEW z \in Nat, NEW y \in Nat \ {0},
         d % y = 0, z % y = 0, z >= d + n
  PROVE  z >= d + RoundUp(n, y)
  <1>1. d = (d \div y) * y /\ z = (z \div y) * y /\ d \div y \in Nat /\ z \div y \in Nat
    BY Quotients
  <1>2. z - d = ((z \div y) - (d \div y)) * y /\ z - d \in Nat
    BY <1>1
  <1>3. (z \div y) - (d \div y) \in Nat
    <2> SUFFICES ASSUME (z \div y) < (d \div y) PROVE FALSE
      BY <1>1
    <2>1. (z \div y) * y < (d \div y) * y
      BY <1>1
    <2> QED BY <1>1, <1>2, <2>1
  <1> DEFINE p == (z \div y) - (d \div y)
             e == z - d
  <1>4. e = p * y /\ e \in Nat /\ p \in Nat
    BY <1>2, <1>3
  <1>5. e >= n
    OBVIOUS
  <1> HIDE DEF p
  <1>6. (p * y) % y = 0
    BY <1>4, QuotientOfMultiple
  <1>7. e % y = 0
    BY <1>4, <1>6
  <1>8. RoundUp(n, y) \in Nat
    BY RoundUpIsLeast
  <1>9. e >= RoundUp(n, y)
    <2> HIDE DEF e
    <2> QED BY <1>4, <1>5, <1>7, RoundUpIsLeast
  <1> QED BY <1>8, <1>9

\* The blocks of n bytes.
LEMMA BlocksStep ==
  /\ Blocks(0) = 0
  /\ \A n \in Nat \ {0} : n <= BlockSize => Blocks(n) = 1
  /\ \A n \in Nat : n > BlockSize => Blocks(n) = Blocks(n - BlockSize) + 1 /\ Blocks(n - BlockSize) \in Nat \ {0}
  <1>1. BlockSize \in Nat \ {0}
    BY SizesAssumption
  <1>2. Blocks(0) = 0
    BY <1>1, QuotientIsUnique DEF Blocks
  <1>3. \A n \in Nat \ {0} : n <= BlockSize => Blocks(n) = 1
    BY <1>1, QuotientIsUnique DEF Blocks
  <1>4. ASSUME NEW n \in Nat, n > BlockSize
        PROVE  Blocks(n) = Blocks(n - BlockSize) + 1 /\ Blocks(n - BlockSize) \in Nat \ {0}
    <2> DEFINE q == (n - 1) \div BlockSize
    <2>0. n - 1 \in Nat
      BY <1>1, <1>4
    <2>1. q \in Nat /\ q * BlockSize <= n - 1 /\ n - 1 < q * BlockSize + BlockSize /\ q * BlockSize \in Nat
      BY <1>1, <2>0, Quotients
    <2>2. Blocks(n - BlockSize) = q
      BY <1>1, <1>4 DEF Blocks
    <2>3. (q + 1) * BlockSize = q * BlockSize + BlockSize
      BY <1>1, <2>1
    <2>4. Blocks(n) = q + 1
      <3> HIDE DEF q
      <3>1. (q + 1) * BlockSize <= n + BlockSize - 1 /\ n + BlockSize - 1 < (q + 1) * BlockSize + BlockSize
        BY <1>1, <2>1, <2>3
      <3> QED BY <1>1, <1>4, <2>1, <3>1, QuotientIsUnique DEF Blocks
    <2>5. q # 0
      BY <1>1, <1>4, <2>1
    <2> QED BY <2>1, <2>2, <2>4, <2>5
  <1> QED BY <1>2, <1>3, <1>4

-----------------------------------------------------------------------------
(* Steps *)

\* What a step of the boot ROM may do to the flash boot.
LEMMA Kinds ==
  ASSUME [Next]_vars
  PROVE  /\ bootsel' = bootsel /\ entered' = entered
         /\ \/ UNCHANGED fvars
            \/ UartOpen \/ PrintLine \/ StartFlash \/ QspiStep
            \/ ClockStep \/ LatchStep \/ SpiStep \/ UartStep
  <1> USE DEF choice, flash
  <1>1. CASE UNCHANGED vars
    BY <1>1 DEF vars, fvars, program
  <1>2. CASE SelectBoot \/ SetClock \/ ConnectUart \/ StartPreloaded \/ StartSrec \/ StartJtag
    BY <1>2 DEF SelectBoot, SetClock, ConnectUart, StartPreloaded, StartSrec, StartJtag, Stage,
                fvars, program
  <1>3. CASE UartOpen \/ PrintLine \/ StartFlash
    BY <1>3 DEF UartOpen, PrintLine, StartFlash, BootQspi, Stage, program
  <1>4. CASE SrecSend \/ SrecNoise
    BY <1>4 DEF SrecSend, SrecNoise, Outside, fvars, program
  <1>5. CASE ClockStep \/ LatchStep \/ SpiStep \/ UartStep
    BY <1>5 DEF ClockStep, LatchStep, SpiStep, UartStep, SpiDone, UartDone, Around, program
  <1>6. CASE QspiStep
    <2>1. Processor /\ bootsel' = bootsel
      BY <1>6 DEF QspiStep, Around
    <2>2. entered' = entered
      BY <2>1 DEF Processor, FlashInit, GetMemSections, FindDataFit, MoveData, NextSection,
                  LoadBlock, BlockLoaded, Jump, Goto, program
    <2> QED BY <1>6, <2>1, <2>2
  <1> QED BY <1>1, <1>2, <1>3, <1>4, <1>5, <1>6 DEF Next, Main, Command

\* A device raises an event, the controller latches, or the clock ticks.
LEMMA DevicesKeepEvents ==
  ASSUME EventsInv,
         \/ Latch \/ ClockRef
         \/ \E e \in Events : Raise(e) /\ UNCHANGED waiter
  PROVE  EventsInv'
  <1> USE FifoDepthAssumption, NbTicksAssumption DEF EventsInv, EventsTypeOK, waiter, Lines
  <1>1. CASE Latch
    BY <1>1 DEF Latch, Turns
  <1>2. CASE ClockRef
    BY <1>2 DEF ClockRef, Turns
  <1>3. CASE \E e \in Events : Raise(e) /\ UNCHANGED waiter
    <2>1. PICK e \in Events : Raise(e) /\ UNCHANGED waiter
      BY <1>3
    <2>2. UNCHANGED <<unmasked, status, enabled, waiting, ticksLeft, ticks>> /\ Turns' = Turns
      BY <2>1 DEF Raise, Turns
    <2>3. fifo' \in Seq(Events) /\ Len(fifo') <= FifoDepth /\ (fifo # <<>> => fifo' # <<>>)
      BY <2>1 DEF Raise
    <2> QED BY <2>2, <2>3
  <1> QED BY <1>1, <1>2, <1>3

\* A wait begins, or a mask is written, while no wait is in progress.
LEMMA BeginsKeepEvents ==
  ASSUME EventsInv, waiting = "no",
         \/ EventMaskReset /\ UNCHANGED waiter
         \/ \E e \in Events : SetEvent(e) /\ UNCHANGED waiter
         \/ WaitClockRef
         \/ WaitSocEvent /\ UNCHANGED controller
  PROVE  EventsInv'
  <1> USE FifoDepthAssumption, NbTicksAssumption DEF EventsInv, EventsTypeOK, waiter, controller, Lines
  <1>1. CASE EventMaskReset /\ UNCHANGED waiter
    BY <1>1 DEF EventMaskReset
  <1>2. CASE \E e \in Events : SetEvent(e) /\ UNCHANGED waiter
    BY <1>2 DEF SetEvent
  <1>3. CASE WaitClockRef
    <2>1. enabled' = {"CLK"} /\ waiting' = "tick" /\ UNCHANGED <<unmasked, fifo, status>>
      BY <1>3 DEF WaitClockRef
    <2>2. ticksLeft' = NbTicks /\ ticks' = 0 /\ Turns' = 0
      BY <1>3 DEF WaitClockRef, Turns
    <2> QED BY <2>1, <2>2
  <1>4. CASE WaitSocEvent /\ UNCHANGED controller
    BY <1>4 DEF WaitSocEvent
  <1> QED BY <1>1, <1>2, <1>3, <1>4

\* A wait goes on.
LEMMA WaitsKeepEvents ==
  ASSUME EventsInv, Wait
  PROVE  EventsInv'
  <1> USE FifoDepthAssumption, NbTicksAssumption DEF EventsInv, EventsTypeOK, waiter, controller, Lines
  <1>1. CASE SocEnable
    BY <1>1 DEF SocEnable
  <1>2. CASE SocPoll
    BY <1>2 DEF SocPoll
  <1>3. CASE FifoPop
    <2>1. fifo # <<>> /\ fifo' = Tail(fifo) /\ fifo' \in Seq(Events) /\ Len(fifo') <= FifoDepth
      BY <1>3 DEF FifoPop
    <2> QED BY <1>3, <2>1 DEF FifoPop
  <1>4. CASE SocClear
    BY <1>4 DEF SocClear
  <1>4a. CASE SocDisable
    BY <1>4a DEF SocDisable
  <1>5. CASE Wfi
    BY <1>5 DEF Wfi, Turns
  <1>6. CASE TickClear
    BY <1>6 DEF TickClear, Turns
  <1>7. CASE TicksDone
    BY <1>7 DEF TicksDone
  <1> QED BY <1>1, <1>2, <1>3, <1>4, <1>4a, <1>5, <1>6, <1>7 DEF Wait

LEMMA EventsStep ==
  ASSUME EventsInv, [Next]_vars
  PROVE  EventsInv'
  <1>0. {SpiEot, UartTx, UartRx} \subseteq Events
    BY EventsAssumption
  <1>1. CASE UNCHANGED evars
    BY <1>1 DEF evars, controller, waiter, EventsInv, EventsTypeOK, Turns
  <1>2. CASE UartOpen
    BY <1>0, <1>2 DEF UartOpen, waiter, EventsInv, EventsTypeOK, Turns
  <1>3. CASE ClockStep \/ LatchStep \/ SpiStep \/ UartStep
    BY <1>0, <1>3, DevicesKeepEvents
       DEF ClockStep, LatchStep, SpiStep, UartStep, SpiDone, UartDone
  <1>4. CASE QspiStep
    <2>1. CASE Wait
      BY <2>1, WaitsKeepEvents
    <2>2. CASE FlashInit
      BY <1>0, <2>2, BeginsKeepEvents DEF FlashInit, At
    <2>3. CASE GetMemSections \/ LoadBlock
      <3>1. \/ UNCHANGED evars
            \/ waiting = "no" /\ WaitSocEvent /\ UNCHANGED controller
        BY <2>3 DEF GetMemSections, LoadBlock, FlashRead, At
      <3> QED BY <1>1, <3>1, BeginsKeepEvents
    <2>4. CASE FindDataFit \/ MoveData \/ NextSection \/ BlockLoaded
      BY <1>1, <2>4 DEF FindDataFit, MoveData, NextSection, BlockLoaded
    <2>5. CASE Jump
      BY <2>5, BeginsKeepEvents DEF Jump, At
    <2> QED BY <1>4, <2>1, <2>2, <2>3, <2>4, <2>5 DEF QspiStep, Processor
  <1>5. CASE PrintLine \/ StartFlash
    BY <1>1, <1>5 DEF PrintLine, StartFlash, BootQspi
  <1> QED BY <1>1, <1>2, <1>3, <1>4, <1>5, Kinds DEF fvars

LEMMA ExposeSpiRoutes ==
  ASSUME PadsInit, ExposeSpi
  PROVE  SpiRouted'
  <1>1. {0, 1, 2, 3, 4, 5} \subseteq PadSet
    BY PadCountAssumption DEF PadSet
  <1>2. padMode' = [p \in PadSet |->
                      CASE p = 2 -> "QSPIM0_SCK" [] p = 3 -> "QSPIM0_CSN0"
                        [] p = 4 -> "QSPIM0_SDIO0" [] p = 5 -> "QSPIM0_SDIO1" [] OTHER -> "GPIO"]
    BY <1>1 DEF PadsInit, ExposeSpi, ModeSet
  <1>3. \A s \in SpiSignals : Selecting(s)' = {p \in PadSet : padMode'[p] = s}
    BY DEF Selecting
  <1>4. Selecting("QSPIM0_SCK")' = {2} /\ Selecting("QSPIM0_CSN0")' = {3}
    BY <1>1, <1>2, <1>3 DEF SpiSignals
  <1>5. Selecting("QSPIM0_SDIO0")' = {4} /\ Selecting("QSPIM0_SDIO1")' = {5}
    BY <1>1, <1>2, <1>3 DEF SpiSignals
  <1>6. /\ Wiring("QSPIM0_SCK") = 2 /\ Wiring("QSPIM0_CSN0") = 3
        /\ Wiring("QSPIM0_SDIO0") = 4 /\ Wiring("QSPIM0_SDIO1") = 5
    BY DEF Wiring
  <1> QED BY <1>4, <1>5, <1>6 DEF SpiRouted, Routed, SpiSignals, Selecting, Wiring

\* With the flash connected the master reads what it answers.
LEMMA ConnectedIsSampled ==
  ASSUME SpiRouted, NEW v, NEW z
  PROVE  Sampled(v, z) = v
  <1>1. Selecting("QSPIM0_SDIO1") = {5} /\ Wiring("QSPIM0_SDIO1") = 5
    BY DEF SpiRouted, Routed, SpiSignals, Wiring
  <1>2. Min({5}) = 5
    BY DEF Min
  <1> QED BY <1>1, <1>2 DEF Sampled, Input

LEMMA PathStep ==
  ASSUME PathInv, [Next]_vars
  PROVE  PathInv'
  <1> USE DEF PathInv, FromReset, Stage
  <1>0. bootsel' = bootsel /\ entered' = entered
    BY Kinds
  <1>1. CASE UNCHANGED <<stage, fvars, padMode>>
    BY <1>0, <1>1 DEF fvars, program, devices, evars, controller, waiter, PadsInit, SpiRouted, Routed, Selecting
  <1>2. CASE UNCHANGED vars \/ SrecSend \/ SrecNoise
    BY <1>1, <1>2 DEF vars, SrecSend, SrecNoise, Outside, flash
  <1>3. CASE SelectBoot \/ SetClock \/ StartPreloaded \/ StartSrec \/ StartJtag
    <2>1. /\ UNCHANGED <<pc, waiting, unmasked, padMode, uart, prints>>
          /\ stage # "qspi" /\ stage' # "qspi" 
          /\ bootsel = 2 /\ stage \in {"reset", "expose_spi"} => stage' \in {"reset", "expose_spi"}
      BY <1>3 DEF SelectBoot, SetClock, StartPreloaded, StartSrec, StartJtag,
                  flash, fvars, program, devices, evars, controller, waiter
    <2> QED BY <1>0, <2>1 DEF PadsInit
  <1>4. CASE ConnectUart \/ UartOpen
    <2>1. /\ UNCHANGED <<pc, waiting>> /\ pc = "off" /\ stage' # "qspi"
          /\ bootsel # 2
      BY <1>4 DEF ConnectUart, UartOpen, fvars, program, evars, waiter
    <2> QED BY <1>0, <2>1
  <1>5. CASE PrintLine
    <2>1. stage = "console" /\ bootsel # 2 /\ UNCHANGED <<stage, pc, waiting, unmasked>>
      BY <1>5 DEF PrintLine, program, evars, controller, waiter
    <2> QED BY <1>0, <2>1
  <1>6. CASE StartFlash
    <2>1. /\ stage' = "qspi" /\ pc' = "init" /\ pc = "off"
          /\ UNCHANGED <<waiting, unmasked, uart, prints>>
      BY <1>6 DEF StartFlash, BootQspi, devices, evars, controller, waiter
    <2>2. ASSUME bootsel = 2 PROVE SpiRouted'
      <3>1. stage = "expose_spi" /\ ExposeSpi
        BY <1>6, <2>2 DEF StartFlash
      <3>2. PadsInit
        BY <2>2, <3>1
      <3> QED BY <3>1, <3>2, ExposeSpiRoutes
    <2> QED BY <1>0, <2>1, <2>2
  <1>7. CASE ClockStep \/ LatchStep \/ SpiStep \/ UartStep
    <2>1. UNCHANGED <<stage, pc, waiting, unmasked, padMode, prints>>
      BY <1>7 DEF ClockStep, ClockRef, LatchStep, Latch, SpiStep, SpiDone, UartStep, UartDone,
                  Raise, Around, program, devices, controller, waiter
    <2>2. FromReset => uart' = uart
      BY <1>7 DEF ClockStep, LatchStep, SpiStep, SpiDone, UartStep, UartDone, devices
    <2> QED BY <1>0, <2>1, <2>2 DEF PadsInit, SpiRouted, Routed, Selecting
  <1>8. CASE QspiStep
    <2>1. stage = "qspi" /\ UNCHANGED <<stage, padMode>> /\ Processor
      BY <1>8 DEF QspiStep, Around
    <2>2. UNCHANGED <<uart, prints>>
      BY <2>1 DEF Processor, FlashInit, GetMemSections, FlashRead, FindDataFit, MoveData,
                  NextSection, LoadBlock, BlockLoaded, Jump, Goto, devices
    <2>3. (pc \in {"off", "jumped"} => waiting = "no")' /\ (pc = "jumped" => unmasked = {})'
      <3>1. CASE Wait
        <4>1. waiting # "no" /\ pc' = pc
          BY <2>1, <3>1 DEF Wait, SocEnable, SocPoll, FifoPop, SocClear, SocDisable, Wfi, TickClear, TicksDone,
        Processor, program, FlashInit, GetMemSections, FindDataFit, MoveData, NextSection, LoadBlock,
        BlockLoaded, Jump, At
        <4> QED BY <4>1
      <3>2. CASE ~Wait /\ ~Jump
        <4>1. pc' \notin {"off", "jumped"}
          BY <2>1, <3>2 DEF Processor, FlashInit, GetMemSections, FindDataFit, MoveData,
                            NextSection, LoadBlock, BlockLoaded, Goto
        <4> QED BY <4>1
      <3>3. CASE Jump
        BY <3>3 DEF Jump, At, EventMaskReset, waiter
      <3> QED BY <3>1, <3>2, <3>3
    <2> QED BY <1>0, <2>1, <2>2, <2>3 DEF SpiRouted, Routed, Selecting
  <1> QED BY <1>2, <1>3, <1>4, <1>5, <1>6, <1>7, <1>8 DEF Next, Main, Command

-----------------------------------------------------------------------------
(* Types *)

HeaderType == [nb : 0..MaxAreas, entry : Int, bootaddr : Int]

LEMMA SampledIsOneOf ==
  ASSUME NEW v, NEW z
  PROVE  Sampled(v, z) \in {v, z}
  BY DEF Sampled, Input

LEMMA ImageTypes ==
  /\ NoArea \in Areas
  /\ \A im \in Images \cup Leftovers \cup {NoImage} :
       /\ Header(im) \in HeaderType
       /\ Table(im) \in [1..MaxAreas -> Areas]
  /\ \A im \in Images : \A i \in 1..Len(im.areas) : im.areas[i] \in Areas /\ i \in 1..MaxAreas
  <1> USE SizesAssumption
  <1>1. NoArea \in Areas
    <2>1. BlockSize \in Nat \ {0} /\ 0 \in 0..Wrap - 1 /\ DataSize <= MemTop + 1
      OBVIOUS
    <2>2. 0 % BlockSize = 0
      BY <2>1
    <2>3. RoundUp(0, BlockSize) = 0
      BY <2>1, <2>2, RoundUpIsLeast
    <2>4. NoArea.ptr + NoArea.size = 0 /\ NoArea \in AreaType
      BY <2>1 DEF NoArea, AreaType
    <2> QED BY <2>1, <2>3, <2>4 DEF Areas
  <1>2. ASSUME NEW im \in Images \cup Leftovers
        PROVE  /\ im \in ImageType /\ Len(im.areas) \in 0..MaxAreas
               /\ \A i \in 1..Len(im.areas) : im.areas[i] \in Areas
    <2>1. im \in ImageType /\ Len(im.areas) <= MaxAreas
      BY ImagesAssumption
    <2>2. im.areas \in Seq(AreaType) /\ Len(im.areas) \in Nat
      BY <2>1 DEF ImageType
    <2>3. \A i \in 1..Len(im.areas) : im.areas[i] \in AreaType
      BY <2>2, ElementOfSeq
    <2>4. \A i \in 1..Len(im.areas) :
            RoundUp(im.areas[i].ptr + im.areas[i].size, BlockSize) + DataSize <= MemTop + 1
      BY ImagesAssumption
    <2> QED BY <2>1, <2>2, <2>3, <2>4 DEF Areas
  <1>3. ASSUME NEW im \in Images \cup Leftovers
        PROVE  Header(im) \in HeaderType /\ Table(im) \in [1..MaxAreas -> Areas]
    <2>1. im.entry \in Int /\ im.bootaddr \in Int
      BY <1>2 DEF ImageType
    <2>2. Header(im) \in HeaderType
      BY <1>2, <2>1 DEF Header, HeaderType
    <2>3. Table(im) \in [1..MaxAreas -> Areas]
      BY <1>1, <1>2 DEF Table
    <2> QED BY <2>2, <2>3
  <1>4. Header(NoImage) \in HeaderType /\ Table(NoImage) \in [1..MaxAreas -> Areas]
    <2>1. Len(NoImage.areas) = 0 /\ NoImage.entry = 0 /\ NoImage.bootaddr = 0
      BY DEF NoImage
    <2> QED BY <1>1, <2>1 DEF Header, HeaderType, Table
  <1> QED BY <1>1, <1>2, <1>3, <1>4

\* The place find_data_fit goes on with leaves the area alone, and so it does
\* what lies before the area.
LEMMA FitAfterFits ==
  ASSUME NEW addr \in Places, NEW a \in Areas
  PROVE  /\ FitAfter(addr, a) \in Places
         /\ Apart(FitAfter(addr, a), a)
         /\ FitAfter(addr, a) # addr => FitAfter(addr, a) >= a.ptr + a.size
  <1> USE SizesAssumption
  <1>1. /\ addr \in Nat /\ addr >= L2Start /\ addr + DataSize <= MemTop + 1 /\ addr % BlockSize = 0
        /\ a.ptr \in Nat /\ a.size \in Nat
        /\ RoundUp(a.ptr + a.size, BlockSize) + DataSize <= MemTop + 1
    BY DEF Places, Areas, AreaType
  <1>2. /\ RoundUp(a.ptr + a.size, BlockSize) \in Nat
        /\ RoundUp(a.ptr + a.size, BlockSize) >= a.ptr + a.size
        /\ RoundUp(a.ptr + a.size, BlockSize) % BlockSize = 0
    <2>1. a.ptr + a.size \in Nat /\ BlockSize \in Nat \ {0}
      BY <1>1
    <2> QED BY <2>1, RoundUpIsLeast
  <1>3. CASE FitAfter(addr, a) = addr
    <2>1. addr >= a.ptr + a.size \/ addr + DataSize <= a.ptr
      BY <1>1, <1>2, <1>3 DEF FitAfter
    <2> QED BY <1>3, <2>1 DEF Apart
  <1>4. CASE FitAfter(addr, a) # addr
    <2>1. /\ FitAfter(addr, a) = RoundUp(a.ptr + a.size, BlockSize)
          /\ addr < a.ptr + a.size \/ addr < a.ptr
      BY <1>4 DEF FitAfter
    <2> QED BY <1>1, <1>2, <1>4, <2>1 DEF Places, Apart
  <1> QED BY <1>3, <1>4

LEMMA IterFits ==
  ASSUME NEW n \in Nat
  PROVE  /\ IterSize(n) \in 0..BlockSize
         /\ n >= BlockSize => IterSize(n) = BlockSize
         /\ n < BlockSize => IterSize(n) = RoundUp(n, WordSize) /\ IterSize(n) >= n
  <1>1. BlockSize \in Nat \ {0} /\ WordSize \in Nat \ {0} /\ BlockSize % WordSize = 0
    BY SizesAssumption
  <1>2. RoundUp(n, WordSize) \in Nat /\ RoundUp(n, WordSize) >= n
    BY <1>1, RoundUpIsLeast
  <1>3. n <= BlockSize => RoundUp(n, WordSize) <= BlockSize
    BY <1>1, <1>2, RoundUpIsLeast
  <1> QED BY <1>1, <1>2, <1>3 DEF IterSize

LEMMA TypesStep ==
  ASSUME LoaderTypes, PathInv, [Next]_vars
  PROVE  LoaderTypes'
  <1> USE DEF HeaderType
  <1> DEFINE Pcs == {"off", "init", "eot", "tx", "ticks", "header", "table", "got",
                     "fit", "block", "loaded", "deinit", "jumped"}
             Stages == /\ pc \in Pcs
                       /\ base = Unset <=> who = "old"
                       /\ pc = "fit" => who = "old"
                       /\ pc \in {"block", "loaded", "deinit", "jumped"} => who = "new"
                       /\ pc \in {"block", "loaded"} => section.area > 0
  <1>0. L2Start \in Places /\ L2Start \in Nat /\ 0 \in 0..MaxAreas /\ MaxAreas \in Nat
        /\ BlockSize \in Nat \ {0} /\ Wrap \in Nat \ {0}
    <2>1. L2Start \in Nat /\ L2Start + DataSize <= MemTop + 1 /\ L2Start % BlockSize = 0
      BY SizesAssumption
    <2> QED BY <2>1, SizesAssumption DEF Places
  <1>a. /\ header \in [{"old", "new"} -> [nb : 0..MaxAreas, entry : Int, bootaddr : Int]]
        /\ table \in [{"old", "new"} -> [1..MaxAreas -> Areas]]
        /\ who \in {"old", "new"}
        /\ fit \in [area : 0..MaxAreas, addr : Places]
        /\ section \in [area : 0..MaxAreas, block : Nat, dst : Nat, src : Nat, left : 0..Wrap - 1]
        /\ transfers \in Seq(TransferType)
    BY DEF LoaderTypes
  <1>b. /\ header["old"].nb \in 0..MaxAreas /\ header["new"].nb \in 0..MaxAreas
        /\ header[who].nb \in 0..MaxAreas
        /\ fit.area \in 0..MaxAreas /\ fit.addr \in Places
        /\ section.area \in 0..MaxAreas /\ section.left \in Nat
        /\ section.dst \in Nat /\ section.src \in Nat
    <2>1. header["old"].nb \in 0..MaxAreas /\ header["new"].nb \in 0..MaxAreas /\ header[who].nb \in 0..MaxAreas
      BY <1>a
    <2>2. fit.area \in 0..MaxAreas /\ fit.addr \in Places
      BY <1>a
    <2>3. section.area \in 0..MaxAreas /\ section.left \in 0..Wrap - 1 /\ section.dst \in Nat /\ section.src \in Nat
      BY <1>a
    <2> QED BY <2>1, <2>2, <2>3, SizesAssumption
  <1>1. CASE UNCHANGED <<program, mem, transfers>>
    BY <1>1 DEF program, LoaderTypes
  <1>2. CASE UNCHANGED fvars \/ UartOpen \/ PrintLine \/ ClockStep \/ LatchStep \/ UartStep
    BY <1>1, <1>2 DEF fvars, UartOpen, PrintLine, ClockStep, LatchStep, UartStep, UartDone, devices
  <1>3. CASE StartFlash
    <2>1. /\ pc' = "init"
          /\ UNCHANGED <<image, header, table, who, base, fit, section, buffer, mem, transfers>>
      BY <1>3 DEF StartFlash, BootQspi, devices
    <2> QED BY <2>1 DEF LoaderTypes
  <1>4. CASE SpiStep
    <2> DEFINE t == Head(transfers)
               im == Sampled(image, NoImage)
    <2>1. /\ transfers # <<>>
          /\ header' = IF t.to = "header" THEN [header EXCEPT ![t.who] = Header(im)] ELSE header
          /\ table' = IF t.to = "table"
                      THEN [table EXCEPT ![t.who] = [i \in 1..MaxAreas |->
                              IF i <= t.size THEN Table(im)[i] ELSE @[i]]]
                      ELSE table
          /\ mem' = IF t.to = "mem"
                    THEN [a \in DOMAIN mem |-> IF a \in Span(t.dst, t.size)
                            THEN Sampled(t.src + a - t.dst, Zero) ELSE mem[a]]
                    ELSE mem
          /\ buffer' = IF t.to = "buffer"
                       THEN [i \in 0..BlockSize - 1 |->
                               IF i < t.size THEN Sampled(t.src + i, Zero) ELSE buffer[i]]
                       ELSE buffer
          /\ transfers' = Tail(transfers)
          /\ UNCHANGED <<image, pc, who, base, fit, section>>
      BY <1>4 DEF SpiStep, SpiDone
    <2>2. t \in TransferType /\ Tail(transfers) \in Seq(TransferType)
      BY <2>1 DEF LoaderTypes
    <2>3. t.who \in {"old", "new"} /\ t.src \in Nat /\ t.dst \in Nat
      BY <2>2 DEF TransferType
    <2>4. im \in Images \cup {NoImage} /\ Header(im) \in HeaderType /\ Table(im) \in [1..MaxAreas -> Areas]
      BY SampledIsOneOf, ImageTypes DEF LoaderTypes
    <2> HIDE DEF im, t, HeaderType
    <2>5. header' \in [{"old", "new"} -> HeaderType]
      BY <2>1, <2>3, <2>4 DEF LoaderTypes, HeaderType
    <2>6. table' \in [{"old", "new"} -> [1..MaxAreas -> Areas]]
      <3>1. table \in [{"old", "new"} -> [1..MaxAreas -> Areas]]
        BY DEF LoaderTypes
      <3>2. [i \in 1..MaxAreas |-> IF i <= t.size THEN Table(im)[i] ELSE table[t.who][i]]
              \in [1..MaxAreas -> Areas]
        BY <2>3, <2>4, <3>1
      <3> QED BY <2>1, <2>3, <3>1, <3>2
    <2>7. \A n \in Int : Sampled(n, Zero) \in Int
      BY SampledIsOneOf DEF Zero
    <2>8. mem' \in [0..MemTop -> Int]
      <3>1. mem \in [0..MemTop -> Int] /\ MemTop \in Nat
        BY SizesAssumption DEF LoaderTypes
      <3>2. ASSUME NEW a \in 0..MemTop PROVE Sampled(t.src + a - t.dst, Zero) \in Int
        <4>1. t.src + a - t.dst \in Int
          BY <2>3, <3>1
        <4> QED BY <4>1, <2>7
      <3> QED BY <2>1, <3>1, <3>2
    <2>9. buffer' \in [0..BlockSize - 1 -> Int]
      <3>1. \A i \in 0..BlockSize - 1 : Sampled(t.src + i, Zero) \in Int
        BY <2>3, <2>7, <1>0
      <3> QED BY <2>1, <3>1 DEF LoaderTypes
    <2>10. transfers' \in Seq(TransferType)
      BY <2>1, <2>2
    <2> QED BY <2>1, <2>5, <2>6, <2>8, <2>9, <2>10 DEF LoaderTypes, HeaderType
  <1>5. CASE QspiStep
    <2>1. Processor
      BY <1>5 DEF QspiStep
    <2>2. CASE Wait /\ UNCHANGED <<program, devices>>
      BY <1>1, <2>2 DEF devices
    <2>3. CASE FlashInit
      <3>1. /\ pc' \in {"eot", "tx", "ticks", "header"}
            /\ UNCHANGED <<image, header, table, who, base, fit, section, buffer, mem, transfers>>
        BY <2>3 DEF FlashInit, Goto, devices
      <3> QED BY <3>1 DEF LoaderTypes
    <2>4. CASE GetMemSections
      <3>1. /\ pc' \in {"table", "got"}
            /\ UNCHANGED <<image, header, table, who, base, fit, section, buffer, mem>>
        BY <2>4 DEF GetMemSections, Goto, FlashRead, devices
      <3>2. NbAreas(header[who]) \in Nat
        BY <1>0, <1>b DEF NbAreas
      <3>3. \/ transfers' = transfers
            \/ transfers' = Append(transfers, [to |-> "header", who |-> who, dst |-> 0, src |-> 0, size |-> 0])
            \/ transfers' = Append(transfers, [to |-> "table", who |-> who, dst |-> 0, src |-> 0,
                                               size |-> NbAreas(header[who])])
        BY <2>4 DEF GetMemSections, FlashRead, devices
      <3>4. /\ [to |-> "header", who |-> who, dst |-> 0, src |-> 0, size |-> 0] \in TransferType
            /\ [to |-> "table", who |-> who, dst |-> 0, src |-> 0, size |-> NbAreas(header[who])] \in TransferType
        BY <1>a, <3>2 DEF TransferType
      <3>5. transfers' \in Seq(TransferType)
        <4>1. \A x \in TransferType : Append(transfers, x) \in Seq(TransferType)
          BY <1>a, AppendProperties
        <4> QED BY <1>a, <3>3, <3>4, <4>1
      <3> QED BY <3>1, <3>5 DEF LoaderTypes
    <2>5. CASE FindDataFit
      <3>1. /\ pc' = "fit" /\ who = "old"
            /\ UNCHANGED <<image, header, table, who, base, section, buffer, mem, transfers>>
        BY <2>5 DEF FindDataFit, devices
      <3>2. fit' \in [area : 0..MaxAreas, addr : Places]
        <4>1. CASE fit' = [area |-> 0, addr |-> L2Start]
          BY <1>0, <4>1
        <4>2. CASE /\ fit.area < header["old"].nb
                   /\ fit' = [area |-> fit.area + 1,
                              addr |-> FitAfter(fit.addr, table["old"][fit.area + 1])]
          <5>1. fit.area + 1 \in 1..MaxAreas /\ fit.addr \in Places
            BY <1>0, <1>b, <4>2
          <5>2. FitAfter(fit.addr, table["old"][fit.area + 1]) \in Places
            BY <1>a, <5>1, FitAfterFits
          <5> QED BY <4>2, <5>1, <5>2
        <4> QED BY <2>5, <4>1, <4>2 DEF FindDataFit
      <3> QED BY <3>1, <3>2 DEF LoaderTypes
    <2>6. CASE MoveData
      <3>1. /\ pc = "fit" /\ pc' = "header" /\ who' = "new" /\ base' = fit.addr
            /\ UNCHANGED <<image, header, table, fit, section, buffer, mem, transfers>>
        BY <2>6 DEF MoveData, At, devices
      <3>2. fit.addr \in Places /\ fit.addr # Unset
        BY DEF LoaderTypes, Places, Unset
      <3> QED BY <3>1, <3>2 DEF LoaderTypes
    <2>7. CASE NextSection
      <3>1. /\ who = "new" \/ pc = "block"
            /\ UNCHANGED <<image, header, table, who, base, fit, buffer, mem, transfers>>
        BY <2>7 DEF NextSection, At, devices
      <3>2. who = "new"
        BY <3>1 DEF LoaderTypes
      <3>3. CASE section' = SectionStart(section.area + 1) /\ pc' = "block" /\ section.area < header["new"].nb
        <4>1. section.area + 1 \in 1..MaxAreas
          BY <1>0, <1>b, <3>3
        <4>2. table["new"][section.area + 1] \in AreaType
          BY <1>a, <4>1 DEF Areas
        <4>3. section' \in [area : 0..MaxAreas, block : Nat, dst : Nat, src : Nat, left : 0..Wrap - 1]
              /\ section'.area > 0
          BY <1>0, <3>2, <3>3, <4>1, <4>2 DEF SectionStart, AreaType
        <4> QED BY <3>1, <3>2, <3>3, <4>3 DEF LoaderTypes
      <3>4. CASE pc' = "deinit" /\ UNCHANGED section
        BY <3>1, <3>2, <3>4 DEF LoaderTypes
      <3> QED BY <2>7, <3>3, <3>4 DEF NextSection
    <2>8. CASE LoadBlock
      <3>1. /\ pc = "block" /\ pc' = "loaded"
            /\ UNCHANGED <<image, header, table, who, base, fit, section, buffer, mem>>
            /\ \E to \in {"mem", "buffer"} :
                 transfers' = Append(transfers, [to |-> to, who |-> who, dst |-> section.dst,
                                src |-> section.src, size |-> IterSize(section.left)])
        BY <2>8 DEF LoadBlock, At, FlashRead, Goto
      <3>2. IterSize(section.left) \in Nat
        BY <1>0, <1>b, IterFits
      <3>3. transfers' \in Seq(TransferType)
        BY <1>a, <1>b, <3>1, <3>2 DEF TransferType
      <3> QED BY <3>1, <3>3 DEF LoaderTypes
    <2>9. CASE BlockLoaded
      <3> DEFINE n == IterSize(section.left)
      <3>1. /\ pc = "loaded" /\ pc' = "block"
            /\ UNCHANGED <<image, header, table, who, base, fit, buffer, transfers>>
            /\ mem' = IF IsL2(section.area) THEN mem
                      ELSE [a \in DOMAIN mem |-> IF a \in Span(section.dst, n)
                                                 THEN buffer[a - section.dst] ELSE mem[a]]
            /\ section' = [section EXCEPT !.block = @ + 1, !.dst = @ + n, !.src = @ + n,
                                          !.left = (@ - n) % Wrap]
        BY <2>9 DEF BlockLoaded, At
      <3>2. n \in 0..BlockSize
        BY <1>0, <1>b, IterFits
      <3> HIDE DEF n
      <3>3. section \in [area : 0..MaxAreas, block : Nat, dst : Nat, src : Nat, left : 0..Wrap - 1]
        BY DEF LoaderTypes
      <3>4. (section.left - n) % Wrap \in 0..Wrap - 1
        BY <1>0, <3>2, <3>3
      <3>5. section' \in [area : 0..MaxAreas, block : Nat, dst : Nat, src : Nat, left : 0..Wrap - 1]
            /\ section'.area = section.area
        <4>1. section.block + 1 \in Nat /\ section.dst + n \in Nat /\ section.src + n \in Nat
          BY <1>0, <3>2, <3>3
        <4>2. section' = [area |-> section.area, block |-> section.block + 1, dst |-> section.dst + n,
                          src |-> section.src + n, left |-> (section.left - n) % Wrap]
          BY <3>1, <3>3
        <4> QED BY <3>3, <3>4, <4>1, <4>2
      <3>6. mem' \in [0..MemTop -> Int]
        <4>1. mem \in [0..MemTop -> Int] /\ buffer \in [0..BlockSize - 1 -> Int]
          BY DEF LoaderTypes
        <4>2. \A a \in 0..MemTop : a \in Span(section.dst, n) => buffer[a - section.dst] \in Int
          <5> TAKE a \in 0..MemTop
          <5> HAVE a \in Span(section.dst, n)
          <5>1. a - section.dst \in 0..BlockSize - 1
            BY <1>0, <3>2, <3>3 DEF Span
          <5> QED BY <4>1, <5>1
        <4> QED BY <3>1, <4>1, <4>2
      <3> QED BY <3>1, <3>5, <3>6 DEF LoaderTypes
    <2>10. CASE Jump
      <3>1. /\ pc = "deinit" /\ pc' = "jumped"
            /\ UNCHANGED <<image, header, table, who, base, fit, section, buffer, mem, transfers>>
        BY <2>10 DEF Jump, At, devices
      <3> QED BY <3>1 DEF LoaderTypes
    <2> QED BY <2>1, <2>2, <2>3, <2>4, <2>5, <2>6, <2>7, <2>8, <2>9, <2>10 DEF Processor
  <1> QED BY <1>2, <1>3, <1>4, <1>5, Kinds

-----------------------------------------------------------------------------
(* What the flash boot reads, from reset *)

\* From reset nothing raises an event but the SPI master.
LEMMA ResetKinds ==
  ASSUME PathInv, FromReset, [Next]_vars
  PROVE  /\ FromReset'
         /\ \/ UNCHANGED fvars
            \/ UNCHANGED <<program, devices>> /\ (ClockRef \/ Latch \/ Wait)
            \/ StartFlash \/ SpiStep
            \/ FlashInit \/ GetMemSections \/ FindDataFit \/ MoveData \/ NextSection
            \/ LoadBlock \/ BlockLoaded \/ Jump
  <1> USE DEF PathInv, FromReset
  <1>1. FromReset'
    BY Kinds
  <1>2. ~UartOpen /\ ~PrintLine
    BY DEF UartOpen, PrintLine, Stage
  <1>3. ~UartStep
    BY DEF UartStep, UartDone
  <1>4. CASE ClockStep \/ LatchStep
    BY <1>1, <1>4 DEF ClockStep, LatchStep
  <1>5. CASE QspiStep
    BY <1>1, <1>5 DEF QspiStep, Processor
  <1> QED BY <1>1, <1>2, <1>3, <1>4, <1>5, Kinds

LEMMA ReadStep ==
  ASSUME EventsInv, PathInv, LoaderTypes, ReadInv, FromReset, [Next]_vars
  PROVE  ReadInv'
  <1> USE DEF ReadInv
  <1>0. pc = "off" => waiting = "no"
    BY DEF PathInv
  <1>1. CASE UNCHANGED <<program, transfers, unmasked, fifo, waiting>>
    BY <1>1 DEF program, Ordered, IsL2
  <1>2. CASE UNCHANGED fvars \/ (UNCHANGED <<program, devices>> /\ (ClockRef \/ Latch))
    BY <1>1, <1>2 DEF fvars, devices, evars, controller, waiter, ClockRef, Latch
  <1>3. CASE UNCHANGED <<program, devices>> /\ Wait
    <2>1. UNCHANGED <<pc, transfers, unmasked>> /\ Ordered' = Ordered
      BY <1>3 DEF program, devices, Ordered, IsL2, Wait, SocEnable, SocPoll, FifoPop, SocClear, SocDisable,
                  Wfi, TickClear, TicksDone, controller
    <2>2. CASE SocEnable \/ SocPoll
      BY <2>1, <2>2 DEF SocEnable, SocPoll, controller
    <2>3. CASE FifoPop
      <3>1. waiting = "pop" /\ waiting' = "clear" /\ fifo # <<>> /\ fifo' = Tail(fifo)
        BY <2>3 DEF FifoPop, EventsInv
      <3>2. transfers = <<>> /\ fifo = <<SpiEot>>
        BY <3>1
      <3>3. fifo' = <<>>
        BY <3>1, <3>2
      <3> QED BY <2>1, <3>1, <3>2, <3>3
    <2>4. CASE SocClear \/ SocDisable \/ Wfi \/ TickClear \/ TicksDone
      BY <2>1, <2>4 DEF SocClear, SocDisable, Wfi, TickClear, TicksDone, controller
    <2> QED BY <1>3, <2>2, <2>3, <2>4 DEF Wait
  <1>4. CASE StartFlash
    BY <1>0, <1>4 DEF StartFlash, BootQspi, evars, controller, waiter, devices
  <1>5. CASE SpiStep
    <2>1. /\ transfers # <<>> /\ transfers' = Tail(transfers)
          /\ Raise(SpiEot) /\ UNCHANGED <<waiting, pc, unmasked>>
      BY <1>5 DEF SpiStep, SpiDone, waiter, Raise
    <2>2. /\ waiting \in {"soc", "poll", "pop"} /\ pc \in {"table", "got", "loaded"}
          /\ transfers = <<Ordered>> /\ fifo = <<>>
      BY <2>1 DEF EventsInv, EventsTypeOK
    <2>3. SpiEot \in unmasked /\ Len(fifo) < FifoDepth
      BY <2>2, FifoDepthAssumption
    <2>4. fifo' = Append(fifo, SpiEot)
      BY <2>1, <2>3 DEF Raise
    <2>5. fifo' = <<SpiEot>> /\ transfers' = <<>>
      <3> DEFINE o == Ordered
      <3>1. transfers = <<o>>
        BY <2>2
      <3> HIDE DEF o
      <3> QED BY <2>1, <2>2, <2>4, <3>1
    <2> QED BY <2>1, <2>2, <2>3, <2>5
  <1>6. CASE FlashInit
    <2>1. waiting = "no" /\ transfers = <<>> /\ fifo = <<>>
      BY <1>6 DEF FlashInit, At
    <2>2. UNCHANGED <<transfers, fifo>> /\ waiting' \in {"no", "tick"}
      BY <1>6, <2>1 DEF FlashInit, EventMaskReset, SetEvent, WaitClockRef, waiter, devices
    <2>3. pc' \in {"tx", "ticks", "header"} => SpiEot \in unmasked'
      BY <1>6 DEF FlashInit, At, EventMaskReset, SetEvent, WaitClockRef, Goto
    <2>4. pc' \in {"eot", "tx", "ticks", "header"}
      BY <1>6 DEF FlashInit, Goto
    <2> QED BY <2>1, <2>2, <2>3, <2>4
  <1>7. CASE GetMemSections
    <2>1. /\ waiting = "no" /\ transfers = <<>> /\ fifo = <<>> /\ SpiEot \in unmasked
          /\ pc' \in {"table", "got"} /\ UNCHANGED <<who, header, fifo, unmasked>>
      BY <1>7 DEF GetMemSections, At, Goto, FlashRead, evars, controller, devices
    <2>2. \/ UNCHANGED <<transfers, waiting>>
          \/ waiting' = "soc" /\ transfers' = <<Ordered'>>
      <3>1. CASE At("header")
        BY <1>7, <2>1, <3>1 DEF GetMemSections, At, Goto, FlashRead, WaitSocEvent, Ordered
      <3>2. CASE At("table")
        BY <1>7, <2>1, <3>2 DEF GetMemSections, At, Goto, FlashRead, WaitSocEvent, Ordered,
                                evars, waiter, devices, NbAreas
      <3> QED BY <1>7, <3>1, <3>2 DEF GetMemSections
    <2> QED BY <2>1, <2>2
  <1>8. CASE FindDataFit \/ MoveData \/ NextSection \/ BlockLoaded
    <2>1. /\ waiting = "no" /\ transfers = <<>> /\ fifo = <<>> /\ SpiEot \in unmasked
          /\ UNCHANGED <<waiting, transfers, fifo, unmasked>>
      BY <1>8 DEF FindDataFit, MoveData, NextSection, BlockLoaded, At, evars, controller, waiter, devices
    <2> QED BY <2>1
  <1>9. CASE LoadBlock
    <2>1. /\ waiting = "no" /\ transfers = <<>> /\ fifo = <<>> /\ SpiEot \in unmasked
          /\ pc' = "loaded" /\ UNCHANGED <<who, header, table, section, fifo, unmasked>>
      BY <1>9 DEF LoadBlock, At, Goto, FlashRead, controller
    <2>2. waiting' = "soc" /\ transfers' = <<Ordered'>>
      BY <1>9, <2>1 DEF LoadBlock, At, Goto, FlashRead, WaitSocEvent, Ordered, IsL2, IterSize
    <2> QED BY <2>1, <2>2
  <1>10. CASE Jump
    BY <1>10 DEF Jump, At, EventMaskReset, waiter, devices
  <1> QED BY <1>2, <1>3, <1>4, <1>5, <1>6, <1>7, <1>8, <1>9, <1>10, ResetKinds

LEMMA NbAreasIsAll ==
  ASSUME LoaderTypes, NEW d \in {"old", "new"}, HasHeader(d)
  PROVE  /\ header[d].nb = Len(image.areas)
         /\ NbAreas(header[d]) = Len(image.areas)
         /\ Len(image.areas) \in 0..MaxAreas
  <1>1. image \in ImageType /\ Len(image.areas) <= MaxAreas /\ MaxAreas \in Nat
    BY ImagesAssumption, SizesAssumption DEF LoaderTypes
  <1>2. Len(image.areas) \in Nat
    BY <1>1 DEF ImageType
  <1> QED BY <1>1, <1>2 DEF HasHeader, Header, NbAreas

\* What the transfer at the front of the queue brings, from reset.
LEMMA DeliveryStep ==
  ASSUME EventsInv, PathInv, ReadInv, FromReset, SpiStep
  PROVE  /\ pc \in {"table", "got", "loaded"}
         /\ transfers = <<Ordered>> /\ Head(transfers) = Ordered
         /\ UNCHANGED <<pc, image, who, base, fit, section, boot>>
         /\ SpiRouted
         /\ Sampled(image, NoImage) = image /\ \A v \in Int : Sampled(v, Zero) = v
  <1>1. /\ transfers # <<>>
        /\ UNCHANGED <<pc, image, who, base, fit, section, boot>>
    BY DEF SpiStep, SpiDone
  <1>2. pc \in {"table", "got", "loaded"} /\ transfers = <<Ordered>>
    BY <1>1 DEF ReadInv, EventsInv, EventsTypeOK
  <1>3. Head(transfers) = Ordered
    <2> DEFINE o == Ordered
    <2>1. transfers = <<o>>
      BY <1>2
    <2> HIDE DEF o
    <2>2. Head(transfers) = o
      BY <2>1
    <2> QED BY <2>2 DEF o
  <1>4. SpiRouted
    BY <1>2 DEF PathInv, FromReset
  <1> QED BY <1>1, <1>2, <1>3, <1>4, ConnectedIsSampled

LEMMA TableStep ==
  ASSUME EventsInv, PathInv, LoaderTypes, ReadInv, TableInv, FromReset, [Next]_vars
  PROVE  TableInv'
  <1> USE DEF TableInv
  <1>1. CASE UNCHANGED <<program, transfers>>
    BY <1>1 DEF program, HasHeader, HasTable, Delivered
  <1>2. CASE UNCHANGED fvars \/ UNCHANGED <<program, devices>>
    BY <1>1, <1>2 DEF fvars, devices
  <1>3. CASE StartFlash \/ FlashInit
    BY <1>3 DEF StartFlash, BootQspi, FlashInit, Goto
  <1>4. CASE SpiStep
    <2>1. /\ pc \in {"table", "got", "loaded"} /\ Head(transfers) = Ordered
          /\ UNCHANGED <<pc, image, who>> /\ Sampled(image, NoImage) = image
      BY <1>4, DeliveryStep
    <2>2. /\ header' = IF Head(transfers).to = "header"
                       THEN [header EXCEPT ![Head(transfers).who] = Header(Sampled(image, NoImage))]
                       ELSE header
          /\ table' = IF Head(transfers).to = "table"
                      THEN [table EXCEPT ![Head(transfers).who] = [i \in 1..MaxAreas |->
                              IF i <= Head(transfers).size THEN Table(Sampled(image, NoImage))[i] ELSE @[i]]]
                      ELSE table
      BY <1>4 DEF SpiStep, SpiDone
    <2>3. who \in {"old", "new"} /\ DOMAIN header = {"old", "new"} /\ DOMAIN table = {"old", "new"}
      BY DEF LoaderTypes
    <2>4. CASE pc = "table"
      <3>1. Head(transfers).to = "header" /\ Head(transfers).who = who
        BY <2>1, <2>4 DEF Ordered
      <3>2. header'[who] = Header(image)
        BY <2>1, <2>2, <2>3, <3>1
      <3> QED BY <2>1, <2>4, <3>2 DEF HasHeader
    <2>5. CASE pc = "got"
      <3>1. /\ Head(transfers).to = "table" /\ Head(transfers).who = who
            /\ Head(transfers).size = NbAreas(header[who])
        BY <2>1, <2>5 DEF Ordered
      <3>2. HasHeader(who) /\ header' = header
        BY <2>2, <2>5, <3>1
      <3>3. NbAreas(header[who]) = Len(image.areas) /\ Len(image.areas) \in 0..MaxAreas
        BY <2>3, <3>2, NbAreasIsAll
      <3>4. \A i \in 1..Len(image.areas) : i \in 1..MaxAreas /\ i <= Len(image.areas)
        BY <3>3, SizesAssumption
      <3>5. \A i \in 1..Len(image.areas) : table'[who][i] = Table(image)[i]
        BY <2>1, <2>2, <2>3, <3>1, <3>3, <3>4
      <3>6. \A i \in 1..Len(image.areas) : table'[who][i] = image.areas[i]
        BY <3>4, <3>5 DEF Table
      <3> QED BY <2>1, <2>5, <3>2, <3>6 DEF HasHeader, HasTable
    <2>6. CASE pc = "loaded"
      <3>1. Head(transfers).to \in {"mem", "buffer"}
        BY <2>1, <2>6 DEF Ordered
      <3> QED BY <2>1, <2>2, <2>6, <3>1 DEF HasHeader, HasTable
    <2> QED BY <2>1, <2>4, <2>5, <2>6
  <1>5. CASE GetMemSections
    <2>1. transfers = <<>> /\ UNCHANGED <<image, header, table, who>>
      BY <1>5 DEF GetMemSections, At, Goto, ReadInv
    <2>2. CASE At("header")
      BY <1>5, <2>1, <2>2 DEF GetMemSections, At, Goto, FlashRead, Delivered
    <2>3. CASE At("table")
      <3>1. HasHeader(who) /\ pc' = "got"
        BY <1>5, <2>1, <2>3 DEF GetMemSections, At, Goto, Delivered
      <3>2. NbAreas(header[who]) = Len(image.areas)
        BY <3>1, NbAreasIsAll DEF LoaderTypes
      <3>3. CASE NbAreas(header[who]) # 0
        BY <1>5, <2>1, <2>3, <3>1, <3>3 DEF GetMemSections, At, FlashRead, Delivered, HasHeader
      <3>4. CASE NbAreas(header[who]) = 0
        <4>1. Len(image.areas) = 0
          BY <3>2, <3>4
        <4>2. HasTable(who)' /\ HasHeader(who)'
          BY <2>1, <3>1, <4>1 DEF HasHeader, HasTable
        <4> QED BY <2>1, <3>1, <4>2
      <3> QED BY <3>3, <3>4
    <2> QED BY <1>5, <2>2, <2>3 DEF GetMemSections
  <1>6. CASE FindDataFit
    <2>1. /\ who = "old" /\ pc \in {"got", "fit"} /\ pc' = "fit" /\ transfers = <<>>
          /\ UNCHANGED <<image, header, table>>
      BY <1>6 DEF FindDataFit, At, ReadInv
    <2>2. HasHeader("old") /\ HasTable("old")
      BY <2>1 DEF Delivered
    <2> QED BY <2>1, <2>2 DEF HasHeader, HasTable
  <1>7. CASE MoveData
    BY <1>7 DEF MoveData
  <1>8. CASE NextSection \/ LoadBlock \/ BlockLoaded \/ Jump
    <2>1. /\ UNCHANGED <<image, header, table, who>>
          /\ pc' \in {"block", "loaded", "deinit", "jumped"}
          /\ \/ pc = "got" /\ who = "new" /\ transfers = <<>>
             \/ pc \in {"block", "loaded", "deinit"}
      BY <1>8 DEF NextSection, LoadBlock, BlockLoaded, Jump, At, Goto, ReadInv
    <2>2. HasHeader("new") /\ HasTable("new")
      BY <2>1 DEF Delivered
    <2> QED BY <2>1, <2>2 DEF HasHeader, HasTable
  <1> QED BY <1>2, <1>3, <1>4, <1>5, <1>6, <1>7, <1>8, ResetKinds

LEMMA FitStep ==
  ASSUME PathInv, LoaderTypes, TableInv, FitInv, FromReset, [Next]_vars
  PROVE  FitInv'
  <1> USE DEF FitInv
  <1>0. /\ image \in Images /\ fit.area \in 0..MaxAreas /\ fit.addr \in Places
        /\ \A i \in 1..Len(image.areas) : image.areas[i] \in Areas
    BY ImageTypes DEF LoaderTypes
  <1>1. CASE UNCHANGED <<image, fit, base>> /\ (pc' = "fit" => pc = "fit")
    BY <1>1 DEF Apart
  <1>2. CASE \/ UNCHANGED fvars \/ UNCHANGED <<program, devices>>
             \/ StartFlash \/ SpiStep \/ FlashInit \/ GetMemSections
             \/ NextSection \/ LoadBlock \/ BlockLoaded \/ Jump
    BY <1>1, <1>2 DEF fvars, program, StartFlash, BootQspi, SpiStep, SpiDone, FlashInit, GetMemSections,
                      NextSection, LoadBlock, BlockLoaded, Jump, Goto
  <1>3. CASE FindDataFit
    <2>1. who = "old" /\ pc' = "fit" /\ UNCHANGED <<image, base>>
      BY <1>3 DEF FindDataFit
    <2>2. base = Unset
      BY <2>1 DEF LoaderTypes
    <2>3. Len(image.areas) \in Nat
      BY <1>0, ImagesAssumption DEF ImageType
    <2>4. CASE fit' = [area |-> 0, addr |-> L2Start]
      BY <2>1, <2>2, <2>3, <2>4
    <2>5. CASE /\ pc = "fit" /\ fit.area < header["old"].nb
               /\ fit' = [area |-> fit.area + 1,
                          addr |-> FitAfter(fit.addr, table["old"][fit.area + 1])]
      <3> DEFINE n == fit.area + 1
                 a == image.areas[n]
      <3>1. header["old"].nb = Len(image.areas)
        BY <2>5, NbAreasIsAll DEF TableInv
      <3>2. n \in 1..Len(image.areas) /\ fit.area \in Nat
        BY <1>0, <2>3, <2>5, <3>1, SizesAssumption
      <3>3. table["old"][n] = a /\ a \in Areas
        BY <1>0, <2>5, <3>2 DEF TableInv, HasTable
      <3>4. fit'.area = n /\ fit'.addr = FitAfter(fit.addr, a)
        BY <2>5, <3>3
      <3> HIDE DEF n, a
      <3>5. /\ Apart(fit'.addr, a) /\ fit'.addr \in Nat
            /\ fit'.addr # fit.addr => fit'.addr >= a.ptr + a.size
        BY <1>0, <3>3, <3>4, FitAfterFits DEF Places
      <3>6. ASSUME NEW i \in 1..fit.area PROVE Apart(fit'.addr, image.areas[i])
        <4>1. i \in 1..Len(image.areas) /\ n \in i + 1 .. Len(image.areas)
          BY <2>3, <3>2 DEF n
        <4>2. image.areas[i].ptr + image.areas[i].size <= a.ptr
          BY <1>0, <4>1, ImagesAssumption DEF a
        <4>3. CASE fit'.addr = fit.addr
          BY <2>5, <4>3
        <4>4. CASE fit'.addr # fit.addr
          <5>1. /\ fit'.addr >= a.ptr + a.size
                /\ a.ptr \in Nat /\ a.size \in Nat
            BY <3>3, <3>5, <4>4, SizesAssumption DEF Areas, AreaType
          <5>2. image.areas[i].ptr \in Nat /\ image.areas[i].size \in Nat
            BY <1>0, <4>1, SizesAssumption DEF Areas, AreaType
          <5> QED BY <3>5, <4>2, <5>1, <5>2 DEF Apart
        <4> QED BY <4>3, <4>4
      <3>7. \A i \in 1..n : i = n \/ i \in 1..fit.area
        BY <3>2 DEF n
      <3>8. \A i \in 1..n : Apart(fit'.addr, image.areas[i])
        BY <3>5, <3>6, <3>7 DEF a
      <3>9. \A i \in 1..fit'.area : Apart(fit.addr, image.areas[i])'
        BY <2>1, <3>4, <3>8 DEF Apart
      <3> QED BY <2>1, <2>2, <3>2, <3>4, <3>9
    <2> QED BY <1>3, <2>4, <2>5 DEF FindDataFit, At
  <1>4. CASE MoveData
    <2>1. /\ pc = "fit" /\ fit.area = header["old"].nb /\ base' = fit.addr /\ pc' = "header"
          /\ UNCHANGED image
      BY <1>4 DEF MoveData, At
    <2>2. header["old"].nb = Len(image.areas)
      BY <2>1, NbAreasIsAll DEF TableInv
    <2> QED BY <2>1, <2>2 DEF Apart
  <1> QED BY <1>2, <1>3, <1>4, ResetKinds

-----------------------------------------------------------------------------
(* What the flash boot loads, from reset *)

LEMMA Sizes ==
  /\ BlockSize \in Nat /\ BlockSize > 0 /\ WordSize \in Nat \ {0} /\ Wrap \in Nat /\ Wrap > 0
  /\ MaxAreas \in Nat /\ DataSize \in Nat /\ L2Start \in Nat /\ MemTop \in Nat
  BY SizesAssumption

LEMMA AreaFacts ==
  ASSUME image \in Images, NEW i \in 1..Len(image.areas)
  PROVE  LET a == image.areas[i] IN
         /\ a.ptr \in Nat /\ a.start \in Nat /\ a.size \in Nat /\ a.size < Wrap /\ a.blocks \in Nat
         /\ a.ptr % WordSize = 0 /\ a.blocks = Blocks(a.size)
         /\ a.ptr + a.size <= MemTop + 1
         /\ \A j \in i + 1 .. Len(image.areas) : a.ptr + a.size <= image.areas[j].ptr
  <1> DEFINE a == image.areas[i]
  <1>1. a \in AreaType /\ RoundUp(a.ptr + a.size, BlockSize) + DataSize <= MemTop + 1
    BY ImageTypes DEF Areas
  <1>2. a.ptr \in Nat /\ a.start \in Nat /\ a.size \in Nat /\ a.size < Wrap /\ a.blocks \in Nat
    BY <1>1, Sizes DEF AreaType
  <1>3. a.ptr + a.size \in Nat /\ BlockSize \in Nat \ {0} /\ DataSize \in Nat /\ MemTop \in Nat
    BY <1>2, Sizes
  <1>4. /\ RoundUp(a.ptr + a.size, BlockSize) >= a.ptr + a.size
        /\ RoundUp(a.ptr + a.size, BlockSize) \in Nat
    BY <1>3, RoundUpIsLeast
  <1>5. a.ptr + a.size <= MemTop + 1
    <2> HIDE DEF a
    <2> QED BY <1>1, <1>3, <1>4
  <1>6. /\ a.ptr % WordSize = 0 /\ a.blocks = Blocks(a.size)
        /\ \A j \in i + 1 .. Len(image.areas) : a.ptr + a.size <= image.areas[j].ptr
    BY ImagesAssumption DEF Blocks
  <1> QED BY <1>2, <1>5, <1>6

\* While an area is loaded: its facts, and those of the turn.
LEMMA SectionFacts ==
  ASSUME LoaderTypes, TableInv, LoadInv, pc \in {"block", "loaded"}
  PROVE  /\ section.area \in 1..Len(image.areas) /\ image \in Images
         /\ table["new"][section.area] = Current
         /\ Current.ptr \in Nat /\ Current.start \in Nat /\ Current.size \in Nat
         /\ Current.blocks = Blocks(Current.size) /\ Current.blocks \in Nat
         /\ Current.ptr + Current.size <= MemTop + 1
         /\ section.dst \in Nat /\ section.src \in Nat /\ section.block \in Nat
         /\ section.left \in Nat /\ section.left < Wrap
         /\ Done \in Nat /\ section.dst = Current.ptr + Done
  <1>1. /\ image \in Images /\ section.area \in 0..MaxAreas /\ section.area > 0
        /\ section.dst \in Nat /\ section.src \in Nat /\ section.block \in Nat
        /\ section.left \in 0..Wrap - 1
    BY DEF LoaderTypes
  <1>2. section.area <= Len(image.areas) /\ Done \in Nat
    BY DEF LoadInv, SectionInv
  <1>3. Len(image.areas) \in Nat
    BY <1>1, ImagesAssumption DEF ImageType
  <1>4. section.area \in 1..Len(image.areas)
    BY <1>1, <1>2, <1>3, Sizes
  <1>5. table["new"][section.area] = Current
    BY <1>4 DEF TableInv, HasTable, Current
  <1>6. /\ Current.ptr \in Nat /\ Current.start \in Nat /\ Current.size \in Nat
        /\ Current.blocks = Blocks(Current.size) /\ Current.blocks \in Nat
        /\ Current.ptr + Current.size <= MemTop + 1
    BY <1>1, <1>4, AreaFacts DEF Current
  <1>7. section.dst = Current.ptr + Done
    BY <1>1, <1>6 DEF Done
  <1> QED BY <1>1, <1>2, <1>4, <1>5, <1>6, <1>7, Sizes

\* A block is written to none of the memory that is already loaded, and not to
\* the loader's data.
LEMMA WritesApart ==
  ASSUME LoaderTypes, TableInv, FitInv, LoadInv, pc = "loaded",
         NEW n, n = IterSize(section.left)
  PROVE  /\ n \in 0..BlockSize
         /\ \A i \in 1..section.area - 1 : \A k \in 0..image.areas[i].size - 1 :
              /\ image.areas[i].ptr + k \in 0..MemTop
              /\ image.areas[i].ptr + k \notin Span(section.dst, n)
         /\ \A k \in 0..Current.size - 1 :
              /\ Current.ptr + k \in 0..MemTop
              /\ k < Done => Current.ptr + k \notin Span(section.dst, n)
         /\ \A a \in Span(base, DataSize) : a \in 0..MemTop /\ a \notin Span(section.dst, n)
  <1>1. /\ section.area \in 1..Len(image.areas) /\ image \in Images
        /\ Current.ptr \in Nat /\ Current.size \in Nat
        /\ Current.ptr + Current.size <= MemTop + 1
        /\ section.dst \in Nat /\ section.left \in Nat
        /\ Done \in Nat /\ section.dst = Current.ptr + Done
    BY SectionFacts
  <1>2. section.left = Current.size - Done
    BY DEF LoadInv, SectionInv, BlockInv
  <1>a. section.dst % WordSize = 0
    BY DEF LoadInv, SectionInv, BlockInv
  <1>b. BlockSize % WordSize = 0
    BY SizesAssumption
  <1>3. BlockSize \in Nat /\ BlockSize > 0 /\ WordSize \in Nat \ {0}
        /\ MemTop \in Nat /\ DataSize \in Nat /\ L2Start \in Nat
    BY Sizes
  <1>c. section.left \in Nat /\ section.dst \in Nat /\ Current.ptr \in Nat
    BY <1>1
  <1>d. section.dst >= Current.ptr
    BY <1>1
  <1>4. n \in 0..BlockSize /\ n \in Nat
    <2>1. n \in 0..BlockSize
      BY <1>c, IterFits
    <2> QED BY <1>3, <2>1
  <1>5. ASSUME NEW i \in 1..section.area - 1, NEW k \in 0..image.areas[i].size - 1
        PROVE  /\ image.areas[i].ptr + k \in 0..MemTop
               /\ image.areas[i].ptr + k \notin Span(section.dst, n)
    <2> DEFINE a == image.areas[i]
    <2>1. i \in 1..Len(image.areas) /\ section.area \in i + 1 .. Len(image.areas)
      BY <1>1
    <2>2. /\ a.ptr \in Nat /\ a.size \in Nat /\ a.ptr + a.size <= MemTop + 1
          /\ a.ptr + a.size <= Current.ptr
      BY <1>1, <2>1, AreaFacts DEF Current
    <2>3. k \in 0..a.size - 1
      OBVIOUS
    <2> DEFINE p == a.ptr
               s == a.size
    <2>4. p \in Nat /\ s \in Nat /\ k \in 0..s - 1 /\ p + s <= MemTop + 1 /\ p + s <= section.dst
      <3>1. p \in Nat /\ s \in Nat /\ k \in 0..s - 1 /\ p + s <= MemTop + 1 /\ p + s <= Current.ptr
        BY <2>2, <2>3
      <3> HIDE DEF p, s
      <3> QED BY <1>c, <1>d, <3>1
    <2> HIDE DEF p, s
    <2>5. p + k \in 0..MemTop /\ p + k < section.dst
      BY <1>c, <1>3, <2>4
    <2>6. p + k \notin Span(section.dst, n)
      BY <1>c, <1>4, <2>4, <2>5 DEF Span
    <2> QED BY <2>5, <2>6 DEF p
  <1>6. ASSUME NEW k \in 0..Current.size - 1
        PROVE  /\ Current.ptr + k \in 0..MemTop
               /\ k < Done => Current.ptr + k \notin Span(section.dst, n)
    <2> DEFINE p == Current.ptr
               s == Current.size
               d == Done
               e == section.dst
    <2>1. p \in Nat /\ s \in Nat /\ d \in Nat /\ e = p + d /\ k \in 0..s - 1 /\ p + s <= MemTop + 1
      BY <1>1
    <2> HIDE DEF p, s, d, e
    <2>2. p + k \in 0..MemTop
      BY <1>3, <2>1
    <2>3. k < d => p + k \notin Span(e, n)
      BY <1>4, <2>1 DEF Span
    <2> QED BY <2>2, <2>3 DEF p, d, e
  <1>7. ASSUME NEW a \in Span(base, DataSize)
        PROVE  a \in 0..MemTop /\ a \notin Span(section.dst, n)
    <2>1. base # Unset /\ base \in Places
      BY DEF LoaderTypes
    <2>2. base \in Nat /\ base + DataSize <= MemTop + 1
      BY <2>1 DEF Places
    <2>a. base % BlockSize = 0
      BY <2>1 DEF Places
    <2>3. a \in 0..MemTop /\ a >= base /\ a < base + DataSize
      BY <1>3, <2>2 DEF Span
    <2>4. base >= Current.ptr + Current.size \/ base + DataSize <= Current.ptr
      BY <1>1, <2>1 DEF FitInv, Apart, Current
    <2>5. CASE base + DataSize <= Current.ptr
      <3> DEFINE p == Current.ptr
      <3>1. p \in Nat /\ base + DataSize <= p /\ section.dst >= p
        BY <1>1, <2>5
      <3> HIDE DEF p
      <3> QED BY <1>c, <1>3, <1>4, <2>2, <2>3, <3>1 DEF Span
    <2>6. CASE base >= Current.ptr + Current.size
      <3>1. base >= section.dst + section.left
        BY <1>1, <1>2, <2>2, <2>6
      <3>2. base % WordSize = 0
        <4>1. BlockSize \in Nat \ {0}
          BY <1>3
        <4> QED BY <1>3, <1>b, <2>2, <2>a, <4>1, MultipleOfMultiple
      <3>3. base >= section.dst + n
        <4>1. CASE section.left >= BlockSize
          <5>1. n = BlockSize
            BY <1>c, <4>1, IterFits
          <5> QED BY <1>c, <1>3, <2>2, <3>1, <4>1, <5>1
        <4>2. CASE section.left < BlockSize
          <5>1. n = RoundUp(section.left, WordSize)
            BY <1>1, <4>2, IterFits
          <5>2. base >= section.dst + RoundUp(section.left, WordSize)
            BY <1>1, <1>3, <1>a, <2>2, <3>1, <3>2, RoundUpStaysBelow
          <5> QED BY <5>1, <5>2
        <4> QED BY <1>c, <1>3, <4>1, <4>2
      <3> QED BY <1>1, <1>4, <2>2, <2>3, <3>3 DEF Span
    <2> QED BY <2>3, <2>4, <2>5, <2>6
  <1> QED BY <1>4, <1>5, <1>6, <1>7

\* What is loaded stays when a block is written.
LEMMA WriteKeeps ==
  ASSUME LoaderTypes, TableInv, FitInv, LoadInv, FromReset, pc = "loaded",
         UNCHANGED <<image, base>>,
         \A a \in 0..MemTop : a \notin Span(section.dst, IterSize(section.left)) => mem'[a] = mem[a]
  PROVE  /\ \A i \in 1..section.area - 1 : InPlace(image.areas[i], image.areas[i].size)'
         /\ \A k \in 0..Current.size - 1 : k < Done => mem'[Current.ptr + k] = Current.start + k
         /\ DataUntouched'
  <1> DEFINE n == IterSize(section.left)
  <1>0. /\ \A i \in 1..section.area - 1 : InPlace(image.areas[i], image.areas[i].size)
        /\ InPlace(Current, Done) /\ DataUntouched
    BY DEF LoadInv, SectionInv
  <1>1. /\ \A i \in 1..section.area - 1 : \A k \in 0..image.areas[i].size - 1 :
              /\ image.areas[i].ptr + k \in 0..MemTop
              /\ image.areas[i].ptr + k \notin Span(section.dst, n)
        /\ \A k \in 0..Current.size - 1 :
              /\ Current.ptr + k \in 0..MemTop
              /\ k < Done => Current.ptr + k \notin Span(section.dst, n)
        /\ \A a \in Span(base, DataSize) : a \in 0..MemTop /\ a \notin Span(section.dst, n)
    BY WritesApart
  <1> HIDE DEF n
  <1>2. \A a \in 0..MemTop : a \notin Span(section.dst, n) => mem'[a] = mem[a]
    BY DEF n
  <1>3. \A i \in 1..section.area - 1 : InPlace(image.areas[i], image.areas[i].size)'
    <2> TAKE i \in 1..section.area - 1
    <2>1. \A k \in 0..image.areas[i].size - 1 :
            mem'[image.areas[i].ptr + k] = mem[image.areas[i].ptr + k]
      BY <1>1, <1>2
    <2>2. InPlace(image.areas[i], image.areas[i].size)
      BY <1>0
    <2> QED BY <2>1, <2>2 DEF InPlace
  <1>4. \A k \in 0..Current.size - 1 : k < Done => mem'[Current.ptr + k] = Current.start + k
    BY <1>0, <1>1, <1>2 DEF InPlace
  <1>5. DataUntouched'
    <2>1. FromReset /\ base # Unset => \A a \in Span(base, DataSize) : mem[a] = Unset
      BY <1>0 DEF DataUntouched
    <2>2. FromReset /\ base # Unset => \A a \in Span(base, DataSize) : mem'[a] = Unset
      BY <1>1, <1>2, <2>1
    <2> QED BY <2>2 DEF DataUntouched
  <1> QED BY <1>3, <1>4, <1>5

LEMMA SpiLoads ==
  ASSUME EventsInv, PathInv, LoaderTypes, ReadInv, TableInv, FitInv, LoadInv, FromReset, SpiStep
  PROVE  LoadInv'
  <1>1. /\ pc \in {"table", "got", "loaded"} /\ Head(transfers) = Ordered
        /\ UNCHANGED <<pc, image, who, base, fit, section, boot>>
        /\ \A v \in Int : Sampled(v, Zero) = v
    BY DeliveryStep
  <1> DEFINE o == Ordered
  <1>2. /\ mem' = IF o.to = "mem"
                  THEN [a \in DOMAIN mem |-> IF a \in Span(o.dst, o.size)
                                             THEN Sampled(o.src + a - o.dst, Zero) ELSE mem[a]]
                  ELSE mem
        /\ buffer' = IF o.to = "buffer"
                     THEN [i \in 0..BlockSize - 1 |->
                             IF i < o.size THEN Sampled(o.src + i, Zero) ELSE buffer[i]]
                     ELSE buffer
    BY <1>1 DEF SpiStep, SpiDone
  <1> HIDE DEF o
  <1>3. CASE pc \in {"table", "got"}
    <2>1. o.to \notin {"mem", "buffer"}
      BY <1>3 DEF o, Ordered
    <2> QED BY <1>1, <1>2, <1>3, <2>1 DEF LoadInv, DataUntouched, FromReset
  <1>4. CASE pc = "loaded"
    <2> DEFINE n == IterSize(section.left)
    <2>1. /\ o.to = (IF IsL2(section.area) THEN "mem" ELSE "buffer")
          /\ o.dst = section.dst /\ o.src = section.src /\ o.size = n
      BY <1>4 DEF o, Ordered
    <2>2. SectionInv /\ BlockInv
      BY <1>4 DEF LoadInv
    <2>3. DOMAIN mem = 0..MemTop /\ section.src \in Nat /\ section.dst \in Nat /\ n \in 0..BlockSize
      <3>1. DOMAIN mem = 0..MemTop
        BY DEF LoaderTypes
      <3> QED BY <1>4, <3>1, SectionFacts, WritesApart
    <2> HIDE DEF n
    <2>4. \A a \in 0..MemTop : a \notin Span(section.dst, n) => mem'[a] = mem[a]
      BY <1>2, <2>1, <2>3
    <2>5. /\ \A i \in 1..section.area - 1 : InPlace(image.areas[i], image.areas[i].size)'
          /\ \A k \in 0..Current.size - 1 : k < Done => mem'[Current.ptr + k] = Current.start + k
          /\ DataUntouched'
      BY <1>1, <1>4, <2>4, WriteKeeps DEF n
    <2>6. Current' = Current /\ Done' = Done
      BY <1>1 DEF Current, Done
    <2>7. InPlace(Current, Done)'
      BY <2>5, <2>6 DEF InPlace
    <2>8. SectionInv'
      BY <1>1, <2>2, <2>5, <2>6, <2>7 DEF SectionInv
    <2>9. IsL2(section.area)' = IsL2(section.area)
      <3>1. table' = table
        BY <1>1, <2>1 DEF SpiStep, SpiDone, o
      <3> QED BY <1>1, <3>1 DEF IsL2
    <2>10. \A k \in 0..n - 1 :
             IF IsL2(section.area)
             THEN section.dst + k \in 0..MemTop => mem'[section.dst + k] = section.src + k
             ELSE buffer'[k] = section.src + k
      <3> TAKE k \in 0..n - 1
      <3>1. CASE IsL2(section.area)
        <4> SUFFICES ASSUME section.dst + k \in 0..MemTop PROVE mem'[section.dst + k] = section.src + k
          BY <3>1
        <4>1. section.dst + k \in Span(section.dst, n)
          BY <2>3 DEF Span
        <4> DEFINE v == section.src + (section.dst + k) - section.dst
        <4>2. v = section.src + k /\ v \in Int
          BY <2>3
        <4> HIDE DEF v
        <4>3. mem'[section.dst + k] = Sampled(v, Zero)
          BY <1>2, <2>1, <2>3, <3>1, <4>1 DEF v
        <4> QED BY <1>1, <4>2, <4>3
      <3>2. CASE ~IsL2(section.area)
        <4>1. k \in 0..BlockSize - 1 /\ k < n /\ section.src + k \in Int
          BY <2>3, Sizes
        <4> QED BY <1>1, <1>2, <2>1, <3>2, <4>1
      <3> QED BY <3>1, <3>2
    <2>11. BlockInv'
      <3>1. section.block < Current.blocks /\ DOMAIN mem' = 0..MemTop
        BY <1>2, <2>2, <2>3 DEF BlockInv
      <3>2. \A k \in 0..IterSize(section'.left) - 1 :
             IF IsL2(section.area)'
             THEN section'.dst + k \in DOMAIN mem' => mem'[section'.dst + k] = section'.src + k
             ELSE buffer'[k] = section'.src + k
        BY <1>1, <2>9, <2>10, <3>1 DEF n
      <3> QED BY <1>1, <2>6, <3>1, <3>2 DEF BlockInv
    <2>12. base # Unset
      BY <1>4 DEF LoaderTypes
    <2> QED BY <1>1, <1>4, <2>5, <2>8, <2>11, <2>12 DEF LoadInv
  <1> QED BY <1>1, <1>3, <1>4

\* How the count of blocks, what is left and what is done go on together.
LEMMA TurnCounts ==
  ASSUME NEW size \in Nat, NEW done \in Nat, NEW left \in Nat, NEW blocks \in Nat, NEW block \in Nat,
         left = size - done, left > 0, left < Wrap, block < blocks, blocks - block = Blocks(left),
         NEW n, n = IterSize(left)
  PROVE  /\ block + 1 < blocks =>
              /\ (left - n) % Wrap = size - (done + n) /\ (left - n) % Wrap > 0
              /\ blocks - (block + 1) = Blocks((left - n) % Wrap)
              /\ n = BlockSize
         /\ block + 1 = blocks => done + n >= size
  <1>1. n \in 0..BlockSize /\ BlockSize \in Nat /\ BlockSize > 0 /\ Wrap \in Nat /\ Wrap > 0
    BY IterFits, Sizes
  <1>2. left <= BlockSize => Blocks(left) = 1
    BY BlocksStep
  <1>3. left > BlockSize => Blocks(left) = Blocks(left - BlockSize) + 1 /\ Blocks(left - BlockSize) \in Nat \ {0}
    BY BlocksStep
  <1>4. ASSUME block + 1 < blocks
        PROVE  /\ (left - n) % Wrap = size - (done + n) /\ (left - n) % Wrap > 0
               /\ blocks - (block + 1) = Blocks((left - n) % Wrap)
               /\ n = BlockSize
    <2>1. left > BlockSize
      BY <1>1, <1>2, <1>4
    <2>2. n = BlockSize
      BY <1>1, <2>1, IterFits
    <2> DEFINE rest == left - n
    <2>3. rest \in 0..Wrap - 1 /\ rest > 0 /\ rest = size - (done + n) /\ rest = left - BlockSize
      BY <1>1, <2>1, <2>2
    <2> HIDE DEF rest
    <2>4. rest % Wrap = rest
      BY <1>1, <2>3
    <2>5. Blocks(left) = Blocks(rest) + 1 /\ Blocks(rest) \in Nat
      BY <1>3, <2>1, <2>3
    <2>6. blocks - (block + 1) = Blocks(rest)
      BY <2>5
    <2>7. rest % Wrap = size - (done + n) /\ rest % Wrap > 0 /\ blocks - (block + 1) = Blocks(rest % Wrap)
      BY <2>3, <2>4, <2>6
    <2> QED BY <2>2, <2>7 DEF rest
  <1>5. ASSUME block + 1 = blocks PROVE done + n >= size
    <2>1. left <= BlockSize
      BY <1>1, <1>3, <1>5
    <2>2. n >= left
      <3>1. left < BlockSize => n >= left
        BY IterFits
      <3>2. left >= BlockSize => n = BlockSize
        BY IterFits
      <3> QED BY <1>1, <2>1, <3>1, <3>2
    <2> QED BY <1>1, <2>2
  <1> QED BY <1>4, <1>5

LEMMA BlockLoads ==
  ASSUME LoaderTypes, ReadInv, TableInv, FitInv, LoadInv, FromReset, BlockLoaded, entered' = entered
  PROVE  LoadInv'
  <1> DEFINE n == IterSize(section.left)
             m == (section.left - n) % Wrap
  <1>1. /\ pc = "loaded" /\ pc' = "block" /\ transfers = <<>>
        /\ UNCHANGED <<image, base, who, header, table>>
        /\ mem' = IF IsL2(section.area) THEN mem
                  ELSE [a \in DOMAIN mem |-> IF a \in Span(section.dst, n)
                                             THEN buffer[a - section.dst] ELSE mem[a]]
        /\ section' = [section EXCEPT !.block = @ + 1, !.dst = @ + n, !.src = @ + n, !.left = (@ - n) % Wrap]
    BY DEF BlockLoaded, At, ReadInv
  <1>2. SectionInv /\ BlockInv
    BY <1>1 DEF LoadInv
  <1>3. /\ DOMAIN mem = 0..MemTop
        /\ section \in [area : 0..MaxAreas, block : Nat, dst : Nat, src : Nat, left : 0..Wrap - 1]
    BY DEF LoaderTypes
  <1>4. n \in 0..BlockSize /\ n \in Nat
    <2>1. n \in 0..BlockSize
      BY <1>1, WritesApart
    <2> QED BY <2>1, Sizes
  <1>5. /\ Current.ptr \in Nat /\ Current.start \in Nat /\ Current.size \in Nat /\ Current.blocks \in Nat
        /\ Current.ptr + Current.size <= MemTop + 1
        /\ section.dst \in Nat /\ section.src \in Nat /\ section.block \in Nat
        /\ section.left \in Nat /\ section.left < Wrap
        /\ Done \in Nat /\ section.dst = Current.ptr + Done
    BY <1>1, SectionFacts
  <1>6. /\ section'.area = section.area /\ section'.block = section.block + 1
        /\ section'.dst = section.dst + n /\ section'.src = section.src + n /\ section'.left = m
    BY <1>1, <1>3
  <1>7. Current' = Current
    BY <1>1, <1>6 DEF Current
  <1> HIDE DEF m
  <1>8. Done' = Done + n
    <2> HIDE DEF n
    <2>1. Done' = section'.dst - Current.ptr
      BY <1>7 DEF Done
    <2> QED BY <1>4, <1>5, <1>6, <2>1
  <1>9. \A a \in 0..MemTop : a \notin Span(section.dst, n) => mem'[a] = mem[a]
    <2> HIDE DEF n
    <2> QED BY <1>1, <1>3
  <1>10. /\ \A i \in 1..section.area - 1 : InPlace(image.areas[i], image.areas[i].size)'
         /\ \A k \in 0..Current.size - 1 : k < Done => mem'[Current.ptr + k] = Current.start + k
         /\ DataUntouched'
    BY <1>1, <1>9, WriteKeeps
  <1>11. \A k \in 0..n - 1 : section.dst + k \in 0..MemTop => mem'[section.dst + k] = section.src + k
    <2>1. \A k \in 0..n - 1 :
            IF IsL2(section.area)
            THEN section.dst + k \in DOMAIN mem => mem[section.dst + k] = section.src + k
            ELSE buffer[k] = section.src + k
      BY <1>1, <1>2 DEF BlockInv, Delivered
    <2> HIDE DEF n
    <2> TAKE k \in 0..n - 1
    <2> HAVE section.dst + k \in 0..MemTop
    <2>2. CASE IsL2(section.area)
      BY <1>1, <1>3, <2>1, <2>2
    <2>3. CASE ~IsL2(section.area)
      <3>1. section.dst + k \in Span(section.dst, n) /\ (section.dst + k) - section.dst = k
        BY <1>4, <1>5 DEF Span
      <3> QED BY <1>1, <1>3, <2>1, <2>3, <3>1
    <2> QED BY <2>2, <2>3
  <1>12. InPlace(Current, Done)'
    <2> DEFINE p == Current.ptr
               s == Current.start
               z == Current.size
               d == Done
    <2>1. /\ p \in Nat /\ s \in Nat /\ z \in Nat /\ d \in Nat /\ p + z <= MemTop + 1
          /\ section.dst = p + d
      BY <1>5
    <2>2. section.src = s + d
      BY <1>2 DEF SectionInv
    <2>3. \A k \in 0..z - 1 : k < d => mem'[p + k] = s + k
      BY <1>10
    <2>4. MemTop \in Nat
      BY Sizes
    <2> HIDE DEF n, p, s, z, d
    <2>5. ASSUME NEW k \in 0..z - 1, k < d + n, k >= d PROVE mem'[p + k] = s + k
      <3> DEFINE j == k - d
      <3>1. /\ j \in 0..n - 1 /\ p + k \in 0..MemTop
            /\ section.dst + j = p + k /\ section.src + j = s + k
        BY <1>4, <2>1, <2>2, <2>4, <2>5
      <3> HIDE DEF j
      <3> QED BY <1>11, <3>1
    <2>6. \A k \in 0..z - 1 : k < d + n => mem'[p + k] = s + k
      BY <1>4, <2>1, <2>3, <2>5
    <2> QED BY <1>7, <1>8, <2>6 DEF InPlace, p, s, z, d
  <1>13. /\ section.left = Current.size - Done /\ section.left > 0
         /\ Current.blocks - section.block = Blocks(section.left)
         /\ section.block < Current.blocks
    BY <1>2 DEF SectionInv, BlockInv
  <1>14. /\ section.block + 1 < Current.blocks =>
              /\ m = Current.size - (Done + n) /\ m > 0
              /\ Current.blocks - (section.block + 1) = Blocks(m)
              /\ n = BlockSize
         /\ section.block + 1 = Current.blocks => Done + n >= Current.size
    <2> DEFINE z == Current.size
               d == Done
               l == section.left
               bs == Current.blocks
               b == section.block
    <2>1. z \in Nat /\ d \in Nat /\ l \in Nat /\ bs \in Nat /\ b \in Nat /\ l < Wrap
      BY <1>5
    <2>2. l = z - d /\ l > 0 /\ b < bs /\ bs - b = Blocks(l) /\ n = IterSize(l) /\ m = (l - n) % Wrap
      BY <1>13 DEF m
    <2> HIDE DEF n, z, d, l, bs, b
    <2>3. /\ b + 1 < bs => m = z - (d + n) /\ m > 0 /\ bs - (b + 1) = Blocks(m) /\ n = BlockSize
          /\ b + 1 = bs => d + n >= z
      BY <2>1, <2>2, TurnCounts
    <2> QED BY <2>3 DEF z, d, bs, b
  <1>15. section.block + 1 < Current.blocks => (section.dst + n) % WordSize = 0
    <2>1. section.dst % WordSize = 0
      BY <1>2, <1>13 DEF SectionInv
    <2>2. BlockSize % WordSize = 0
      BY SizesAssumption
    <2>3. (section.dst + BlockSize) % WordSize = 0
      BY <1>5, <2>1, <2>2, Sizes, SumOfMultiples
    <2> QED BY <1>14, <2>3
  <1>16. SectionInv'
    <2> HIDE DEF n
    <2>1. (section.area <= Len(image.areas))'
      BY <1>1, <1>2, <1>6 DEF SectionInv
    <2>2. (\A i \in 1..section.area - 1 : InPlace(image.areas[i], image.areas[i].size))'
      BY <1>1, <1>6, <1>10
    <2>3. Done' \in Nat /\ section'.src = Current.start + Done'
      <3>1. section.src = Current.start + Done
        BY <1>2 DEF SectionInv
      <3> QED BY <1>4, <1>5, <1>6, <1>8, <3>1
    <2>4. section'.block <= Current.blocks
      BY <1>5, <1>6, <1>13
    <2>5. section'.block < Current.blocks =>
            /\ section'.left = Current.size - Done' /\ section'.left > 0
            /\ Current.blocks - section'.block = Blocks(section'.left)
            /\ section'.dst % WordSize = 0
      BY <1>6, <1>8, <1>14, <1>15
    <2>6. section'.block = Current.blocks => Done' >= Current.size
      BY <1>6, <1>8, <1>14
    <2>7. \A x : Blocks(x)' = Blocks(x)
      BY DEF Blocks
    <2> QED BY <1>7, <1>12, <2>1, <2>2, <2>3, <2>4, <2>5, <2>6, <2>7 DEF SectionInv
  <1>17. base # Unset
    BY <1>1 DEF LoaderTypes
  <1> QED BY <1>1, <1>10, <1>16, <1>17 DEF LoadInv

LEMMA SectionBegins ==
  ASSUME LoaderTypes, ReadInv, TableInv, LoadInv, FromReset, NextSection, entered' = entered
  PROVE  LoadInv'
  <1>1. /\ pc \in {"got", "block"} /\ (pc = "got" => who = "new")
        /\ pc = "block" => section.block >= table["new"][section.area].blocks
        /\ transfers = <<>>
        /\ UNCHANGED <<image, header, table, who, base, mem>>
    BY DEF NextSection, At, ReadInv, devices
  <1>2. who = "new" /\ base # Unset /\ HasHeader("new") /\ HasTable("new")
    BY <1>1 DEF LoaderTypes, TableInv, Delivered
  <1>3. /\ image \in Images /\ header["new"].nb = Len(image.areas) /\ Len(image.areas) \in Nat
    <2>1. header["new"].nb = Len(image.areas) /\ Len(image.areas) \in 0..MaxAreas
      BY <1>2, NbAreasIsAll
    <2>2. image \in Images
      BY DEF LoaderTypes
    <2>3. Len(image.areas) \in Nat
      BY <2>1, Sizes
    <2> QED BY <2>1, <2>2, <2>3
  <1>4. /\ section.area \in Nat /\ section.area <= Len(image.areas)
        /\ \A i \in 1..section.area : InPlace(image.areas[i], image.areas[i].size)
    <2>1. CASE pc = "got"
      <3>1. section.area = 0
        BY <2>1 DEF LoadInv, NoSection
      <3> QED BY <1>3, <3>1
    <2>2. CASE pc = "block"
      <3>1. SectionInv
        BY <2>2 DEF LoadInv
      <3>2. /\ section.area \in 1..Len(image.areas) /\ table["new"][section.area] = Current
            /\ Current.blocks \in Nat /\ section.block \in Nat /\ Done \in Nat /\ Current.size \in Nat
        BY <2>2, SectionFacts
      <3>3. section.block = Current.blocks
        <4>1. section.block >= Current.blocks /\ section.block <= Current.blocks
          BY <1>1, <2>2, <3>1, <3>2 DEF SectionInv
        <4> QED BY <3>2, <4>1
      <3>4. Done >= Current.size /\ InPlace(Current, Done)
        BY <3>1, <3>3 DEF SectionInv
      <3>5. InPlace(Current, Current.size)
        BY <3>2, <3>4 DEF InPlace
      <3>6. \A i \in 1..section.area - 1 : InPlace(image.areas[i], image.areas[i].size)
        BY <3>1 DEF SectionInv
      <3>7. \A i \in 1..section.area : i = section.area \/ i \in 1..section.area - 1
        BY <1>3, <3>2
      <3> QED BY <1>3, <3>2, <3>5, <3>6, <3>7 DEF Current
    <2> QED BY <1>1, <2>1, <2>2
  <1>5. DataUntouched'
    BY <1>1 DEF LoadInv, DataUntouched, FromReset
  <1>6. CASE section.area < header["new"].nb /\ section' = SectionStart(section.area + 1) /\ pc' = "block"
    <2> DEFINE i == section.area + 1
               a == image.areas[i]
    <2>1. i \in 1..Len(image.areas)
      BY <1>3, <1>4, <1>6
    <2>2. table["new"][i] = a
      BY <1>2, <2>1 DEF HasTable
    <2>3. section' = [area |-> i, block |-> 0, dst |-> a.ptr, src |-> a.start, left |-> a.size]
      BY <1>2, <1>6, <2>2 DEF SectionStart
    <2>4. /\ a.ptr \in Nat /\ a.start \in Nat /\ a.size \in Nat /\ a.blocks \in Nat
          /\ a.blocks = Blocks(a.size)
      BY <1>3, <2>1, AreaFacts
    <2>5. a.ptr % WordSize = 0
      BY <1>3, <2>1, AreaFacts
    <2>6. Current' = a
      BY <1>1, <2>3 DEF Current
    <2> HIDE DEF a
    <2>7. Done' = 0
      BY <2>3, <2>4, <2>6 DEF Done
    <2>8. InPlace(Current, Done)'
      BY <2>7 DEF InPlace
    <2>9. \A j \in 1..i - 1 : j \in 1..section.area
      BY <1>4
    <2>10. (\A j \in 1..section.area - 1 : InPlace(image.areas[j], image.areas[j].size))'
      BY <1>1, <1>4, <2>3, <2>9 DEF InPlace
    <2> HIDE DEF i
    <2>11. Blocks(a.size) > 0 <=> a.size > 0
      <3> DEFINE z == a.size
      <3>1. z \in Nat
        BY <2>4
      <3> HIDE DEF z
      <3>2. z > 0 => Blocks(z) > 0
        <4>1. z > 0 /\ z <= BlockSize => Blocks(z) = 1
          BY <3>1, BlocksStep
        <4>2. z > BlockSize => Blocks(z) = Blocks(z - BlockSize) + 1 /\ Blocks(z - BlockSize) \in Nat
          BY <3>1, BlocksStep
        <4> QED BY <3>1, <4>1, <4>2, Sizes
      <3>3. z = 0 => Blocks(z) = 0
        BY BlocksStep
      <3> QED BY <3>1, <3>2, <3>3 DEF z
    <2>12. /\ section'.block <= a.blocks /\ section'.src = a.start + 0
           /\ section'.block < a.blocks =>
                /\ section'.left = a.size - 0 /\ section'.left > 0
                /\ a.blocks - section'.block = Blocks(section'.left)
           /\ section'.block = a.blocks => 0 >= a.size
      BY <2>3, <2>4, <2>11
    <2>13. section'.dst % WordSize = 0
      BY <2>3, <2>5
    <2>14. \A x : Blocks(x)' = Blocks(x)
      BY DEF Blocks
    <2>15. (section.area <= Len(image.areas))'
      BY <1>1, <2>1, <2>3
    <2>16. SectionInv'
      BY <2>6, <2>7, <2>8, <2>10, <2>12, <2>13, <2>14, <2>15 DEF SectionInv
    <2> QED BY <1>1, <1>2, <1>5, <1>6, <2>16 DEF LoadInv
  <1>7. CASE ~(section.area < header["new"].nb) /\ pc' = "deinit" /\ UNCHANGED section
    <2>1. section.area = Len(image.areas)
      BY <1>3, <1>4, <1>7
    <2>2. (\A i \in 1..Len(image.areas) : InPlace(image.areas[i], image.areas[i].size))'
      BY <1>1, <1>4, <2>1 DEF InPlace
    <2> QED BY <1>1, <1>2, <1>5, <1>7, <2>2 DEF LoadInv
  <1> QED BY <1>6, <1>7 DEF NextSection

LEMMA LoadStep ==
  ASSUME EventsInv, PathInv, LoaderTypes, ReadInv, TableInv, FitInv, LoadInv, FromReset, [Next]_vars
  PROVE  LoadInv'
  <1> USE DEF FromReset
  <1> DEFINE Early == {"off", "init", "eot", "tx", "ticks", "header", "table", "got", "fit"}
  <1>0. entered' = entered
    BY Kinds
  <1>1. CASE UNCHANGED <<image, section, base, mem, boot>> /\ pc \in Early /\ pc' \in Early
    BY <1>0, <1>1 DEF LoadInv, DataUntouched
  <1>2. CASE UNCHANGED fvars \/ UNCHANGED <<program, devices>>
    <2>1. UNCHANGED <<program, devices>>
      BY <1>2 DEF fvars
    <2>2. UNCHANGED <<pc, image, section, base, who, mem, buffer, transfers, boot, table>>
      BY <2>1 DEF program, devices
    <2>3. SectionInv' = SectionInv
      BY <2>2 DEF SectionInv, Current, Done, InPlace, Blocks
    <2>4. BlockInv' = BlockInv
      BY <2>2 DEF BlockInv, Current, IsL2, Delivered, IterSize, RoundUp
    <2>5. DataUntouched' = DataUntouched
      BY <1>0, <2>2 DEF DataUntouched
    <2> QED BY <2>2, <2>3, <2>4, <2>5 DEF LoadInv, InPlace
  <1>3. CASE StartFlash \/ FlashInit \/ GetMemSections \/ FindDataFit
    <2>1. UNCHANGED <<image, section, base, mem, boot>> /\ pc \in Early /\ pc' \in Early
      BY <1>3 DEF StartFlash, BootQspi, FlashInit, GetMemSections, FindDataFit, FlashRead, At, Goto,
                  devices
    <2> QED BY <1>1, <2>1
  <1>4. CASE SpiStep
    BY <1>4, SpiLoads
  <1>5. CASE MoveData
    <2>1. /\ pc = "fit" /\ pc' = "header" /\ who = "old" /\ base' = fit.addr
          /\ UNCHANGED <<image, section, mem, boot>>
      BY <1>5 DEF MoveData, At, LoaderTypes, devices
    <2>2. base = Unset /\ fit.addr \in Places /\ DOMAIN mem = 0..MemTop
      BY <2>1 DEF LoaderTypes
    <2>3. base' \in Nat /\ base' + DataSize <= MemTop + 1
      BY <2>1, <2>2 DEF Places
    <2>4. \A a \in Span(base', DataSize) : a \in 0..MemTop
      <3> DEFINE b == base'
      <3>1. b \in Nat /\ b + DataSize <= MemTop + 1
        BY <2>3
      <3> HIDE DEF b
      <3>2. \A a \in Span(b, DataSize) : a \in 0..MemTop
        BY <3>1, Sizes DEF Span
      <3> QED BY <3>2 DEF b
    <2>5. DataUntouched'
      BY <2>1, <2>2, <2>4 DEF LoadInv, DataUntouched
    <2>6. base' # Unset
      BY <2>3 DEF Unset
    <2> QED BY <2>1, <2>5, <2>6 DEF LoadInv
  <1>6. CASE NextSection
    BY <1>0, <1>6, SectionBegins
  <1>7. CASE LoadBlock
    <2>1. /\ pc = "block" /\ pc' = "loaded"
          /\ section.block < table["new"][section.area].blocks
          /\ transfers' # <<>>
          /\ UNCHANGED <<image, section, base, mem, boot>>
      <3>1. transfers' # <<>>
        BY <1>7, AppendProperties DEF LoadBlock, FlashRead, LoaderTypes
      <3> QED BY <1>7, <3>1 DEF LoadBlock, At, FlashRead, Goto
    <2>2. table["new"][section.area] = Current /\ base # Unset
      BY <2>1, SectionFacts DEF LoaderTypes
    <2>3. SectionInv'
      BY <2>1 DEF LoadInv, SectionInv, Current, Done, InPlace, Blocks
    <2>4. BlockInv'
      BY <2>1, <2>2 DEF BlockInv, Current, Delivered
    <2>5. DataUntouched'
      BY <1>0, <2>1 DEF LoadInv, DataUntouched
    <2> QED BY <2>1, <2>2, <2>3, <2>4, <2>5 DEF LoadInv
  <1>8. CASE BlockLoaded
    BY <1>0, <1>8, BlockLoads
  <1>9. CASE Jump
    <2>1. /\ pc = "deinit" /\ pc' = "jumped" /\ UNCHANGED <<image, base, mem>>
          /\ boot' = [entry |-> header["new"].entry, bootaddr |-> header["new"].bootaddr]
      BY <1>9 DEF Jump, At, devices
    <2>2. header["new"] = Header(image) /\ base # Unset
      BY <2>1 DEF TableInv, HasHeader, LoaderTypes
    <2>3. DataUntouched'
      BY <1>0, <2>1 DEF LoadInv, DataUntouched
    <2>4. (\A i \in 1..Len(image.areas) : InPlace(image.areas[i], image.areas[i].size))'
      BY <2>1 DEF LoadInv, InPlace
    <2> QED BY <2>1, <2>2, <2>3, <2>4 DEF LoadInv, Header
  <1> QED BY <1>2, <1>3, <1>4, <1>5, <1>6, <1>7, <1>8, <1>9, ResetKinds

-----------------------------------------------------------------------------
(* The invariant, and what it shows *)

LEMMA InitBootIInv ==
  ASSUME Init
  PROVE  BootIInv
  <1>0. /\ pc = "off" /\ waiting = "no" /\ stage = "reset" /\ PadsInit
        /\ unmasked = {} /\ fifo = <<>> /\ status \in SUBSET {"CLK"} /\ enabled = {}
        /\ ticksLeft = 0 /\ ticks = 0
        /\ image \in Images /\ who = "old" /\ base = Unset
        /\ fit = [area |-> 0, addr |-> L2Start]
        /\ section = NoSection /\ transfers = <<>> /\ uart = 0 /\ prints = 0
        /\ buffer = [i \in 0..BlockSize - 1 |-> Unset]
        /\ mem = [a \in 0..MemTop |-> Unset]
        /\ \E l \in Leftovers : /\ header = [d \in {"old", "new"} |-> Header(l)]
                                /\ table = [d \in {"old", "new"} |-> Table(l)]
        /\ bootsel \in 0..3 /\ entered = IF bootsel = 2 THEN "reset" ELSE "console"
    BY DEF Init, EventsInit, LoaderInit
  <1>1. EventsInv
    BY <1>0, NbTicksAssumption, FifoDepthAssumption DEF EventsInv, EventsTypeOK, Lines
  <1>2. PathInv
    BY <1>0 DEF PathInv, FromReset
  <1>3. LoaderTypes
    <2>1. L2Start \in Places
      <3>1. L2Start \in Nat /\ L2Start + DataSize <= MemTop + 1 /\ L2Start % BlockSize = 0
        BY SizesAssumption
      <3> QED BY <3>1 DEF Places
    <2>2. fit \in [area : 0..MaxAreas, addr : Places]
      BY <1>0, <2>1, Sizes
    <2>3. section \in [area : 0..MaxAreas, block : Nat, dst : Nat, src : Nat, left : 0..Wrap - 1]
      BY <1>0, Sizes DEF NoSection
    <2>4. /\ header \in [{"old", "new"} -> [nb : 0..MaxAreas, entry : Int, bootaddr : Int]]
          /\ table \in [{"old", "new"} -> [1..MaxAreas -> Areas]]
      BY <1>0, ImageTypes DEF HeaderType
    <2>5. /\ buffer \in [0..BlockSize - 1 -> Int] /\ mem \in [0..MemTop -> Int]
          /\ transfers \in Seq(TransferType)
      BY <1>0 DEF Unset
    <2> QED BY <1>0, <2>2, <2>3, <2>4, <2>5 DEF LoaderTypes
  <1>4. ReadInv /\ TableInv /\ FitInv
    BY <1>0 DEF ReadInv, TableInv, FitInv
  <1>5. LoadInv
    BY <1>0 DEF LoadInv, DataUntouched
  <1> QED BY <1>1, <1>2, <1>3, <1>4, <1>5 DEF BootIInv

LEMMA BootIInvHolds == Spec => []BootIInv
  <1>1. Init => BootIInv
    BY InitBootIInv
  <1>2. BootIInv /\ [Next]_vars => BootIInv'
    <2> SUFFICES ASSUME BootIInv, [Next]_vars PROVE BootIInv'
      OBVIOUS
    <2>1. EventsInv' /\ PathInv' /\ LoaderTypes'
      BY EventsStep, PathStep, TypesStep DEF BootIInv
    <2>2. FromReset' => FromReset
      BY Kinds DEF FromReset
    <2>3. FromReset => ReadInv' /\ TableInv' /\ FitInv' /\ LoadInv'
      BY ReadStep, TableStep, FitStep, LoadStep DEF BootIInv
    <2> QED BY <2>1, <2>2, <2>3 DEF BootIInv
  <1> QED BY <1>1, <1>2, PTL DEF Spec

\* However the flash boot is entered, wait_soc_event pops an event that was
\* raised, never an empty FIFO on the status bit of an earlier wait.
THEOREM WaitsConsumeEvents == Spec => []EventConsumed
  <1>1. BootIInv => EventConsumed
    BY DEF BootIInv, EventsInv, EventConsumed
  <1> QED BY <1>1, BootIInvHolds, PTL

\* wait_clock_ref(n) lets n - 1 ticks pass, although its first wfi may end at
\* a tick that was latched before.
THEOREM PowerUpTimeIsWaited == Spec => TicksWaited
  <1>1. BootIInv /\ [Next]_vars => [waiting = "tick" /\ waiting' = "no" => ticks >= NbTicks - 1]_fvars
    <2> SUFFICES ASSUME BootIInv, [Next]_vars, waiting = "tick", waiting' = "no"
                 PROVE  ticks >= NbTicks - 1
      OBVIOUS
    <2>1. QspiStep
      BY Kinds DEF fvars, evars, waiter, UartOpen, PrintLine, StartFlash, BootQspi, ClockStep, ClockRef,
                   LatchStep, Latch, SpiStep, SpiDone, UartStep, UartDone
    <2>2. TicksDone
      BY <2>1 DEF QspiStep, Processor, FlashInit, GetMemSections, FindDataFit, MoveData, NextSection,
                  LoadBlock, BlockLoaded, Jump, At, Wait, SocEnable, SocPoll, FifoPop, SocClear, SocDisable, Wfi,
                  TickClear
    <2>3. ticksLeft = 0 /\ NbTicks - ticksLeft <= ticks + 1
      <3>1. ticksLeft = 0 /\ Turns <= ticks + 1
        BY <2>2 DEF TicksDone, BootIInv, EventsInv
      <3>2. Turns = NbTicks - ticksLeft
        BY <3>1, NbTicksAssumption DEF Turns
      <3> QED BY <3>1, <3>2
    <2>4. ticks \in Nat
      BY NbTicksAssumption DEF BootIInv, EventsInv, EventsTypeOK
    <2> QED BY <2>3, <2>4, NbTicksAssumption
  <1> QED BY <1>1, BootIInvHolds, PTL DEF Spec, TicksWaited

\* The flash boot stays in its tables, its memory and its word size, and from
\* reset it has one transfer at a time.
THEOREM FlashBootTypes == Spec => []TypeOK
  <1>1. BootIInv => TypeOK
    <2> SUFFICES ASSUME BootIInv PROVE TypeOK
      OBVIOUS
    <2>1. base \in {Unset} \cup {a \in L2Start..MemTop : a % BlockSize = 0}
      <3>1. base # Unset => base \in Nat /\ base >= L2Start /\ base + DataSize <= MemTop + 1
        BY DEF BootIInv, LoaderTypes, Places
      <3>2. base # Unset => base % BlockSize = 0
        BY DEF BootIInv, LoaderTypes, Places
      <3>3. DataSize > 0
        BY Sizes, SizesAssumption
      <3>4. base # Unset => base \in L2Start..MemTop
        BY <3>1, <3>3, Sizes
      <3> QED BY <3>2, <3>4
    <2>2. FromReset => Len(transfers) <= 1
      <3> SUFFICES ASSUME FromReset PROVE Len(transfers) <= 1
        OBVIOUS
      <3> DEFINE o == Ordered
      <3>1. transfers = <<>> \/ transfers = <<o>>
        BY DEF BootIInv, ReadInv, EventsInv, EventsTypeOK
      <3> HIDE DEF o
      <3>2. Len(<<>>) <= 1 /\ Len(<<o>>) <= 1
        OBVIOUS
      <3> QED BY <3>1, <3>2
    <2>3. section.left \in 0..Wrap - 1 /\ mem \in [0..MemTop -> Int]
      BY DEF BootIInv, LoaderTypes
    <2> QED BY <2>1, <2>2, <2>3 DEF BootIInv, EventsInv, LoaderTypes, TypeOK
  <1> QED BY <1>1, BootIInvHolds, PTL

\* From reset, the program that is started is the one in the flash: its entry,
\* its boot address, and every byte of every area, for any number of areas, any
\* block and word size, and areas inside and outside L2.
THEOREM FlashProgramIsLoaded == Spec => []LoadedAtJump
  <1>1. BootIInv => LoadedAtJump
    <2> SUFFICES ASSUME BootIInv, FromReset, pc = "jumped"
                 PROVE  /\ boot = [entry |-> image.entry, bootaddr |-> image.bootaddr]
                        /\ \A i \in 1..Len(image.areas) : LET a == image.areas[i] IN
                             \A k \in 0..a.size - 1 : mem[a.ptr + k] = a.start + k
      BY DEF LoadedAtJump
    <2>1. /\ boot = [entry |-> image.entry, bootaddr |-> image.bootaddr]
          /\ \A i \in 1..Len(image.areas) : InPlace(image.areas[i], image.areas[i].size)
      BY DEF BootIInv, LoadInv
    <2>2. image \in Images
      BY DEF BootIInv, LoaderTypes
    <2>3. ASSUME NEW i \in 1..Len(image.areas), NEW k \in 0..image.areas[i].size - 1
          PROVE  mem[image.areas[i].ptr + k] = image.areas[i].start + k
      <3>1. image.areas[i].size \in Nat
        BY <2>2, AreaFacts
      <3>2. k < image.areas[i].size
        BY <3>1
      <3> QED BY <2>1, <3>2 DEF InPlace
    <2> QED BY <2>1, <2>3
  <1> QED BY <1>1, BootIInvHolds, PTL

\* From reset, the loader never writes what it runs on: find_data_fit's place
\* is apart from every area, and from the padding of their last blocks.
THEOREM LoaderDataIsSafe == Spec => []DataUntouched
  <1>1. BootIInv => DataUntouched
    BY DEF BootIInv, LoadInv, DataUntouched
  <1> QED BY <1>1, BootIInvHolds, PTL

\* The program finds every event masked and every line disabled, and from reset
\* no SoC event in the FIFO or in the status that its first wait_soc_event could
\* take for its own (flash_deinit, wait_soc_event).  Nothing is said of the bit of
\* the reference clock, which goes on ticking and may be latched.
THEOREM ProgramStartsQuiet == Spec => []QuietAtJump
  <1>1. BootIInv => QuietAtJump
    BY DEF BootIInv, EventsInv, PathInv, ReadInv, QuietAtJump
  <1> QED BY <1>1, BootIInvHolds, PTL

-----------------------------------------------------------------------------
(* The S-record boot in the boot ROM *)

SrecProof == INSTANCE SrecProofs WITH mem <- srecMem

\* The definitions of SrecBoot under its two names here, as far as the
\* theorems of SrecProofs need them.
LEMMA SameBytes == ASSUME NEW r PROVE Srec!Bytes(r) = SrecProof!Bytes(r)
  BY DEF Srec!Bytes, Srec!Total, SrecProof!Bytes, SrecProof!Total

LEMMA SameAddress == ASSUME NEW r PROVE Srec!Address(r) = SrecProof!Address(r)
  BY DEF Srec!Address, SrecProof!Address

LEMMA SameCallbacks ==
  ASSUME NEW t, NEW c, NEW n, NEW d
  PROVE  Srec!EndRead(t, c, n, d) = SrecProof!EndRead(t, c, n, d)
  BY DEF Srec!EndRead, Srec!AddressBytes, Srec!Prefix, Srec!SumError, Srec!Total,
         SrecProof!EndRead, SrecProof!AddressBytes, SrecProof!Prefix, SrecProof!SumError,
         SrecProof!Total

LEMMA SameReader ==
  ASSUME NEW c
  PROVE  Srec!ReadByte(c) <=> SrecProof!ReadByte(c)
<1>1. ASSUME NEW tt, NEW cc, NEW n, NEW d, NEW s
      PROVE  Srec!Finish(tt, cc, n, d, s) <=> SrecProof!Finish(tt, cc, n, d, s)
  BY SameCallbacks DEF Srec!Finish, Srec!NoCall, SrecProof!Finish, SrecProof!NoCall
<1>2. Srec!ReadS <=> SrecProof!ReadS
  BY <1>1 DEF Srec!ReadS, SrecProof!ReadS
<1>3. Srec!ReadDigit(c) <=> SrecProof!ReadDigit(c)
  BY <1>1
     DEF Srec!ReadDigit, Srec!ReadType, Srec!ReadHigh, Srec!Combined, Srec!ReadCountLow,
         Srec!ReadDataLow, Srec!SkipDigit, Srec!NoCall, Srec!reader, SrecProof!ReadDigit,
         SrecProof!ReadType, SrecProof!ReadHigh, SrecProof!Combined,
         SrecProof!ReadCountLow, SrecProof!ReadDataLow, SrecProof!SkipDigit,
         SrecProof!NoCall, SrecProof!reader
<1>4. Srec!ReadOther <=> SrecProof!ReadOther
  BY DEF Srec!ReadOther, Srec!NoCall, Srec!reader, SrecProof!ReadOther, SrecProof!NoCall,
         SrecProof!reader
<1>5. ASSUME NEW r PROVE Srec!DataRead(r) <=> SrecProof!DataRead(r)
  BY SameAddress
     DEF Srec!DataRead, Srec!Stored, Srec!IsData, Srec!IsTermination, Srec!loaded,
         SrecProof!DataRead, SrecProof!Stored, SrecProof!IsData, SrecProof!IsTermination,
         SrecProof!loaded
<1> QED BY <1>2, <1>3, <1>4, <1>5
    DEF Srec!ReadByte, Srec!S, Srec!Other, Srec!NoEntry, SrecProof!ReadByte, SrecProof!S,
         SrecProof!Other, SrecProof!NoEntry

LEMMA SameSteps ==
  /\ Srec!Init => SrecProof!Init
  /\ [Srec!Next]_(Srec!bvars) => [SrecProof!Next]_(SrecProof!bvars)
<1>1. Srec!Init => SrecProof!Init
  BY DEF Srec!Init, Srec!ReaderInit, Srec!NoCall, Srec!NoEntry, SrecProof!Init,
         SrecProof!ReaderInit, SrecProof!NoCall, SrecProof!NoEntry
<1>2. ASSUME NEW r
      PROVE  Srec!Encode(r) = SrecProof!Encode(r)
  BY SameBytes DEF Srec!Encode, Srec!S, SrecProof!Encode, SrecProof!S
<1>3. Srec!Current = SrecProof!Current
  BY <1>2 DEF Srec!Current, Srec!Coded, Srec!Records, SrecProof!Current, SrecProof!Coded,
         SrecProof!Records
<1>4. [Srec!Next]_(Srec!bvars) => [SrecProof!Next]_(SrecProof!bvars)
  BY <1>3, SameReader
     DEF Srec!Next, Srec!Send, Srec!SendOther, Srec!Damage, Srec!Corrupt, Srec!Lose,
         Srec!Advance, Srec!Sending, Srec!Other, Srec!NoCall, Srec!NoEntry, Srec!bvars,
         Srec!rvars, Srec!reader, Srec!sender, Srec!loaded, SrecProof!Next,
         SrecProof!Send, SrecProof!SendOther, SrecProof!Damage, SrecProof!Corrupt,
         SrecProof!Lose, SrecProof!Advance, SrecProof!Sending, SrecProof!Other,
         SrecProof!NoCall, SrecProof!NoEntry, SrecProof!bvars, SrecProof!rvars,
         SrecProof!reader, SrecProof!sender, SrecProof!loaded
<1> QED BY <1>1, <1>4

LEMMA SrecFramed == SrecProof!Framed
<1>1. ASSUME NEW f \in Files
      PROVE  SrecProof!FileOK(f)
  <2>1. Srec!FileOK(f)
    BY FilesAssumption
  <2> QED BY <2>1, SameBytes, SameAddress
          DEF Srec!FileOK, Srec!Record, Srec!Byte, Srec!AddressBytes, Srec!IsTermination,
              Srec!IsData, SrecProof!FileOK, SrecProof!Record, SrecProof!Byte,
              SrecProof!AddressBytes, SrecProof!IsTermination, SrecProof!IsData
<1> QED BY <1>1, LineMaxAssumption, DigitsAssumption DEF SrecProof!Framed

\* Seen from the reader, the boot ROM is the reader and its sender: whatever
\* else it does leaves them alone.
LEMMA SrecIsFollowed == Spec => SrecProof!Spec
<1>1. Init => SrecProof!Init
  BY SameSteps DEF Init
<1>2. [Next]_vars => [Srec!Next]_(Srec!bvars)
  <2>1. CASE SrecSend \/ SrecNoise
    BY <2>1 DEF SrecSend, SrecNoise, Srec!Next
  <2>2. ASSUME ~(SrecSend \/ SrecNoise), [Next]_vars
        PROVE  UNCHANGED srec
    BY <2>2 DEF Next, vars, Main, Command, SelectBoot, SetClock, ConnectUart, UartOpen,
                StartPreloaded, PrintLine, StartFlash, StartSrec, StartJtag, QspiStep,
                ClockStep, LatchStep, SpiStep, UartStep, Around
  <2> QED BY <2>1, <2>2
      DEF srec, Srec!bvars, Srec!rvars, Srec!reader, Srec!sender, Srec!loaded
<1> QED BY <1>1, <1>2, SameSteps, PTL DEF Spec, SrecProof!Spec

\* The program the S-record boot starts is the one that was sent, in the boot
\* ROM: srec_data_read stores words, and none of them reaches a byte in place.
THEOREM SrecProgramIsLoaded == Spec => []LoadedAtEntry
<1>1. SrecProof!Spec => []SrecProof!LoadedAtEntry
  BY SrecFramed, SrecProof!ProgramIsLoaded
<1>2. SrecProof!LoadedAtEntry => LoadedAtEntry
  BY SameBytes, SameAddress
     DEF LoadedAtEntry,
         Srec!LoadedAtEntry, Srec!NoEntry, Srec!DataRecords, Srec!IsData, Srec!Fits,
         SrecProof!LoadedAtEntry, SrecProof!NoEntry, SrecProof!DataRecords,
         SrecProof!IsData, SrecProof!Fits
<1> QED BY <1>1, <1>2, SrecIsFollowed, PTL

\* After an "S" a record begins with an empty buffer, in the boot ROM too, as
\* long as the line leaves the head of each record intact.
THEOREM SrecRecordsBeginEmpty == ASSUME Exposed \cap 1..4 = {} PROVE Spec => []SyncAtS
<1>1. SrecProof!Spec => []SrecProof!SyncAtS
  BY SrecFramed, SrecProof!RecordsBeginEmpty DEF SrecProof!HeadsIntact
<1>2. SrecProof!SyncAtS => SyncAtS
  BY DEF SyncAtS, Srec!SyncAtS, SrecProof!SyncAtS
<1> QED BY <1>1, <1>2, SrecIsFollowed, PTL

\* The types of the boots: whatever the image, the timing and the commands, the
\* flash boot stays in its memory, and the S-record reader in its buffer as
\* long as the line leaves the head of each record intact.
THEOREM BootTypes == ASSUME Exposed \cap 1..4 = {} PROVE Spec => []BootTypeOK
<1>1. SrecProof!Spec => []SrecProof!TypeOK
  BY SrecFramed, SrecProof!ReaderStaysInBuffer DEF SrecProof!HeadsIntact
<1>2. SrecProof!TypeOK => Srec!TypeOK
  BY DEF Srec!TypeOK, Srec!States, Srec!Byte, Srec!NoEntry, SrecProof!TypeOK,
         SrecProof!States, SrecProof!Byte, SrecProof!NoEntry
<1>3. TypeOK /\ Srec!TypeOK => BootTypeOK
  BY DEF BootTypeOK
<1> QED BY <1>1, <1>2, <1>3, SrecIsFollowed, FlashBootTypes, PTL

\* One damaged character behind the count of a record never goes unnoticed:
\* the checksum of srec_end_read covers every byte, and a lost digit leaves the
\* count short, so what reaches srec_data_read without an error is as it was
\* sent.
THEOREM SrecDamageIsNoticed ==
  ASSUME Exposed \cap 1..4 = {}, MaxFaults \in 0..1
  PROVE  Spec => NothingSilent
<1>1. SrecProof!Spec => SrecProof!NothingSilent
  BY SrecFramed, SrecProof!DamageIsNoticed DEF SrecProof!HeadsIntact
<1>2. SrecProof!NothingSilent => NothingSilent
  BY PTL DEF NothingSilent, Srec!NothingSilent, Srec!bvars, Srec!rvars, Srec!reader, Srec!sender,
         Srec!loaded, SrecProof!NothingSilent, SrecProof!bvars, SrecProof!rvars,
         SrecProof!reader, SrecProof!sender, SrecProof!loaded
<1> QED BY <1>1, <1>2, SrecIsFollowed, PTL

-----------------------------------------------------------------------------
(* Powers of two, which the provers know by their values and as the sizes of *)
(* sets of subsets                                                           *)

\* The values the highest bit of a number can have.
LEMMA Powers ==
  /\ 2^0 = 1 /\ 2^1 = 2 /\ 2^2 = 4 /\ 2^3 = 8
  /\ 2^4 = 16 /\ 2^5 = 32 /\ 2^6 = 64 /\ 2^7 = 128
  /\ 2^8 = 256 /\ 2^9 = 512 /\ 2^10 = 1024 /\ 2^11 = 2048
  /\ 2^12 = 4096 /\ 2^13 = 8192 /\ 2^14 = 16384 /\ 2^15 = 32768
  /\ 2^16 = 65536 /\ 2^17 = 131072 /\ 2^18 = 262144 /\ 2^19 = 524288
  /\ 2^20 = 1048576 /\ 2^21 = 2097152 /\ 2^22 = 4194304 /\ 2^23 = 8388608
  /\ 2^24 = 16777216 /\ 2^25 = 33554432 /\ 2^26 = 67108864 /\ 2^27 = 134217728
  /\ 2^28 = 268435456 /\ 2^29 = 536870912 /\ 2^30 = 1073741824
OBVIOUS

\* A power of two is positive, and above one for a positive exponent.
LEMMA PowersOfTwo == \A n \in Nat : 2^n \in Nat /\ 2^n > 0 /\ (n > 0 => 2^n > 1)
<1> SUFFICES ASSUME NEW n \in Nat PROVE 2^n \in Nat /\ 2^n > 0 /\ (n > 0 => 2^n > 1)
  OBVIOUS
<1> DEFINE S == 1 .. n
           T == SUBSET S
           two == {{}} \cup {{1}}
<1>1. IsFiniteSet(S) /\ Cardinality(S) = n
  <2>1. 1 \in Int /\ n \in Int
    OBVIOUS
  <2>2. IsFiniteSet(S) /\ Cardinality(S) = IF 1 > n THEN 0 ELSE n - 1 + 1
    BY <2>1, FS_Interval
  <2> HIDE DEF S
  <2> QED BY <2>2
<1>2. {} \in T /\ (n > 0 => two \in SUBSET T)
  OBVIOUS
<1>3. {1} \notin {{}} /\ IsFiniteSet({{}}) /\ Cardinality({{}}) = 1
  BY FS_Singleton
<1>4. IsFiniteSet(two) /\ Cardinality(two) = 2
  <2>1. /\ IsFiniteSet(two)
        /\ Cardinality(two) = IF {1} \in {{}} THEN Cardinality({{}}) ELSE Cardinality({{}}) + 1
    BY <1>3, FS_AddElement
  <2> QED BY <1>3, <2>1
<1> HIDE DEF S, two
<1>5. IsFiniteSet(T) /\ Cardinality(T) = 2^n
  BY <1>1, FS_SUBSET
<1> HIDE DEF T
<1>6. Cardinality(T) \in Nat /\ Cardinality(T) # 0
  <2>1. T # {}
    BY <1>2
  <2> QED BY <1>5, <2>1, FS_CardinalityType, FS_EmptySet
<1>7. n > 0 => Cardinality(two) <= Cardinality(T)
  BY <1>2, <1>5, FS_Subset
<1> QED BY <1>4, <1>5, <1>6, <1>7

\* A positive number that __FL1 can take, of at most 31 bits, has a highest bit.
Counted(x) == 0 < x /\ x <= 2147483647

LEMMA HighestBit == \A x \in Nat : Counted(x) => FL1(x) \in 0 .. 30
<1> SUFFICES ASSUME NEW x \in Nat, 0 < x, x <= 2147483647 PROVE FL1(x) \in 0 .. 30
  BY DEF Counted
<1>1. \E e \in 0 .. 30 : 2^e <= x /\ x < 2^e + 2^e
  BY Powers
<1>2. \A y \in Nat : y > 0 /\ y <= x /\ x < y + y => x \div y = 1
  OBVIOUS
<1>3. \E e \in 0 .. 30 : x \div 2^e = 1
  BY <1>1, <1>2, PowersOfTwo
<1> QED BY <1>3 DEF FL1

-----------------------------------------------------------------------------
(* The clock and the divider of the UART *)

\* What the two roundings of the FLL lose of a frequency.
LEMMA FllIsNear ==
  ASSUME NEW f \in Nat, Counted(f), Counted(RefClock)
  PROVE  LET r == MultDivFromFreq(f)
             a == FreqFromMultDiv(r.mult, r.div)
         IN  a \in Nat /\ a <= f /\ f <= a + RefClock \div 2 + 1
<1> DEFINE log == FL1(f) - FL1(RefClock)
           d == AtLeast(1, (Log2MaxM - log) \div 2)
           m == (f * 2^d) \div RefClock
           r == MultDivFromFreq(f)
           a == FreqFromMultDiv(r.mult, r.div)
           p == 2^d
<1>1. log \in Int
  BY HighestBit, RefClockAssumption
<1>2. d \in Nat /\ d >= 1
  <2> HIDE DEF log
  <2>1. (Log2MaxM - log) \div 2 \in Int
    BY <1>1, RefClockAssumption
  <2> QED BY <2>1 DEF AtLeast
<1>3. r.mult = m /\ r.div = d + 1
  BY DEF MultDivFromFreq
<1> HIDE DEF r, d
<1>4. r.div - 1 = d
  BY <1>2, <1>3
<1>5. a = (RefClock * m) \div p
  <2>1. a = (RefClock * r.mult) \div 2^(r.div - 1)
    BY DEF FreqFromMultDiv
  <2> HIDE DEF a, m
  <2> QED BY <1>3, <1>4, <2>1, Zenon
<1>6. p \in Nat /\ p >= 2
  BY <1>2, PowersOfTwo
<1> HIDE DEF a, p
<1>7. m = (f * p) \div RefClock
  BY DEF p
<1> HIDE DEF m
<1> DEFINE x == f * p
           y == RefClock * m
<1>8. x \in Nat
  BY <1>6
<1> HIDE DEF x
<1>9. m \in Nat /\ m * RefClock <= x /\ x < m * RefClock + RefClock
  <2>1. m = x \div RefClock
    BY <1>7 DEF x
  <2> QED BY <1>8, <2>1, Quotients, RefClockAssumption
<1>10. y \in Nat /\ y <= x /\ x < y + RefClock
  BY <1>9, RefClockAssumption
<1> HIDE DEF y
<1>11. a \in Nat /\ a * p \in Nat /\ a * p <= y /\ y < a * p + p
  <2>1. a = y \div p /\ p \in Nat \ {0}
    BY <1>5, <1>6 DEF y
  <2> QED BY <1>10, <2>1, Quotients
<1>12. a * p <= f * p /\ f * p < a * p + p + RefClock
  BY <1>6, <1>8, <1>10, <1>11, RefClockAssumption DEF x
<1>13. a <= f
  <2> SUFFICES ASSUME f + 1 <= a PROVE FALSE
    BY <1>11
  <2>1. (f + 1) * p <= a * p
    BY <1>6, <1>11
  <2>2. (f + 1) * p = f * p + p
    BY <1>6
  <2> QED BY <1>6, <1>11, <1>12, <2>1, <2>2
<1> DEFINE g == f - a - 1
<1>14. f <= a + RefClock \div 2 + 1
  <2>1. CASE f = a
    BY <1>11, <2>1, RefClockAssumption
  <2>2. CASE f # a
    <3>1. g \in Nat /\ f = a + 1 + g
      BY <1>11, <1>13, <2>2
    <3> HIDE DEF g
    <3>2. (a + 1 + g) * p = a * p + p + g * p
      BY <1>6, <1>11, <3>1
    <3>3. g * p < RefClock /\ g * p \in Nat
      BY <1>6, <1>11, <1>12, <3>1, <3>2, RefClockAssumption
    <3>4. g * 2 <= g * p
      BY <1>6, <3>1
    <3>5. g * 2 < RefClock
      BY <3>1, <3>3, <3>4, RefClockAssumption
    <3> QED BY <1>11, <3>1, <3>5, RefClockAssumption
  <2> QED BY <2>1, <2>2
<1> QED BY <1>11, <1>13, <1>14 DEF a, r

\* What the rounding of the divider loses.
LEMMA DividerIsNear ==
  ASSUME NEW f \in Nat
  PROVE  LET b == Baudrate * ((f + Baudrate \div 2) \div Baudrate)
         IN  b \in Nat /\ b <= f + Baudrate \div 2 /\ f <= b + Baudrate \div 2
<1> DEFINE x == f + Baudrate \div 2
           q == x \div Baudrate
<1>1. Baudrate \div 2 \in Nat /\ Baudrate <= 2 * (Baudrate \div 2) + 1
  BY BaudrateAssumption
<1>2. x \in Nat
  BY <1>1
<1> HIDE DEF x
<1>3. q \in Nat /\ q * Baudrate \in Nat /\ q * Baudrate <= x /\ x < q * Baudrate + Baudrate
  BY <1>2, Quotients, BaudrateAssumption
<1> HIDE DEF q
<1>4. Baudrate * q = q * Baudrate
  BY <1>3, BaudrateAssumption
<1>5. Baudrate * q <= f + Baudrate \div 2 /\ f <= Baudrate * q + Baudrate \div 2
  BY <1>1, <1>3, <1>4, BaudrateAssumption DEF x
<1> QED BY <1>3, <1>4, <1>5 DEF q, x

\* A frequency of the peripherals that the FLL can count in 31 bits, and that
\* is high enough for the roundings of the FLL and of the divider to be small.
Fast(f) ==
  /\ Counted(f)
  /\ 50 * (Baudrate \div 2 + RefClock \div 2 + 1) + RefClock \div 2 + 1 <= f

\* The rate the divider gives at the frequency asked for is within 2 % of the
\* clock that the FLL really makes.
LEMMA RatesAgree ==
  ASSUME NEW f \in Nat, Fast(f), Counted(RefClock)
  PROVE  LET r == MultDivFromFreq(f)
             a == FreqFromMultDiv(r.mult, r.div)
         IN  Difference(a, Baudrate * ((f + Baudrate \div 2) \div Baudrate)) <= a \div 50
<1> DEFINE r == MultDivFromFreq(f)
           a == FreqFromMultDiv(r.mult, r.div)
           b == Baudrate * ((f + Baudrate \div 2) \div Baudrate)
           h == Baudrate \div 2
           c == RefClock \div 2 + 1
<1>1. h \in Nat /\ c \in Nat /\ c >= 1
  BY BaudrateAssumption, RefClockAssumption
<1>2. Counted(f) /\ 50 * (h + c) + c <= f
  BY <1>1, BaudrateAssumption, RefClockAssumption DEF Fast
<1>4. a \in Nat /\ a <= f /\ f <= a + c
  <2>1. a \in Nat /\ a <= f /\ f <= a + RefClock \div 2 + 1
    BY <1>2, FllIsNear
  <2> HIDE DEF a
  <2> QED BY <2>1, RefClockAssumption
<1>5. b \in Nat /\ b <= f + h /\ f <= b + h
  BY DividerIsNear
<1> HIDE DEF a, b, h, c
<1>6. Difference(a, b) <= h + c
  BY <1>1, <1>4, <1>5 DEF Difference
<1>7. 50 * (h + c) <= a
  BY <1>1, <1>2, <1>4
<1>8. h + c <= a \div 50
  BY <1>1, <1>4, <1>7
<1>9. Difference(a, b) \in Int
  BY <1>4, <1>5 DEF Difference
<1>10. a \div 50 \in Int
  BY <1>4
<1>11. Difference(a, b) <= a \div 50
  BY <1>1, <1>6, <1>8, <1>9, <1>10
<1> QED BY <1>11 DEF a, b

\* On pads as after reset, expose_uart connects the two pads of the UART.
LEMMA ExposeUartRoutes ==
  ASSUME PadsInit, ExposeUart
  PROVE  UartRouted'
<1>1. {0, 1} \subseteq PadSet
  BY PadCountAssumption DEF PadSet
<1>2. padMode' = [p \in PadSet |->
                    CASE p = 0 -> "UART0_TX" [] p = 1 -> "UART0_RX" [] OTHER -> "GPIO"]
  BY <1>1 DEF PadsInit, ExposeUart, ModeSet
<1>3. \A s \in UartSignals : Selecting(s)' = {p \in PadSet : padMode'[p] = s}
  BY DEF Selecting
<1>4. Selecting("UART0_TX")' = {0} /\ Selecting("UART0_RX")' = {1}
  BY <1>1, <1>2, <1>3 DEF UartSignals
<1>5. Wiring("UART0_TX") = 0 /\ Wiring("UART0_RX") = 1
  BY DEF Wiring
<1> QED BY <1>4, <1>5 DEF UartRouted, Routed, UartSignals, Selecting, Wiring

\* From reset to the console: the FLL is on when it is set, and set when the
\* UART is opened, at pads that nothing else has claimed.
ClockInv ==
  /\ bootsel \in 0 .. 3
  /\ frequency \in Frequencies
  /\ DOMAIN conf1 = {"mode", "mult", "div"}
  /\ stage = "fll_set" => fllIsOn
  /\ stage \in {"expose_uart", "open", "console", "srec_open", "srec"} =>
       LET r == MultDivFromFreq(frequency) IN conf1.mult = r.mult /\ conf1.div = r.div
  /\ stage \in {"reset", "constructor", "fll_init", "fll_set", "expose_uart"} => PadsInit
  /\ stage \in {"open", "console", "srec_open", "srec"} => UartRouted
  /\ stage \in {"console", "srec_open", "srec"} =>
       uartDiv = (frequency + Baudrate \div 2) \div Baudrate

\* Every step of the boot keeps it.
LEMMA ClockStepKeeps ==
  ASSUME ClockInv, [Next]_vars
  PROVE  ClockInv'
<1> DEFINE Pads == <<bootsel, padMode, conf1, frequency, fllIsOn, uartDiv>>
<1>1. CASE UNCHANGED stage /\ UNCHANGED Pads
  BY <1>1 DEF ClockInv, PadsInit, UartRouted, Routed, Selecting
<1>2. CASE SelectBoot \/ StartPreloaded \/ StartSrec \/ StartJtag
  <2>1. UNCHANGED Pads
    BY <1>2 DEF SelectBoot, StartPreloaded, StartSrec, StartJtag, Stage, choice, fll, flash
  <2>2. \/ stage = "reset" /\ stage' \in {"constructor", "jtag", "expose_spi", "preloaded"}
        \/ stage = "preloaded" /\ stage' = "started"
        \/ stage = "console" /\ stage' \in {"srec_open", "jtag"}
    BY <1>2 DEF ClockInv, SelectBoot, StartPreloaded, StartSrec, StartJtag, Stage
  <2> QED BY <2>1, <2>2 DEF ClockInv, PadsInit, UartRouted, Routed, Selecting
<1>3. CASE SetClock
  <2>1. UNCHANGED <<bootsel, padMode, frequency, uartDiv>>
    BY <1>3 DEF SetClock, Stage, choice, flash
  <2>2. CASE Stage("constructor", "fll_init") /\ FllConstructor
    BY <2>1, <2>2 DEF ClockInv, Stage, FllConstructor, PadsInit
  <2>3. CASE Stage("fll_init", "fll_set") /\ FllInit
    BY <2>1, <2>3 DEF ClockInv, Stage, FllInit, PadsInit
  <2>4. CASE Stage("fll_set", "expose_uart") /\ FllSetFreq(frequency)
    <3> DEFINE r == MultDivFromFreq(frequency)
    <3>1. conf1' = [conf1 EXCEPT !.mult = r.mult, !.div = r.div]
      BY <2>4 DEF ClockInv, Stage, FllSetFreq
    <3>2. stage = "fll_set" /\ stage' = "expose_uart"
      BY <2>4 DEF Stage
    <3> HIDE DEF r
    <3>3. /\ DOMAIN conf1' = {"mode", "mult", "div"}
          /\ conf1'.mult = r.mult /\ conf1'.div = r.div
      BY <3>1 DEF ClockInv
    <3>4. MultDivFromFreq(frequency') = r
      BY <2>1 DEF r
    <3> QED BY <2>1, <3>2, <3>3, <3>4 DEF ClockInv, PadsInit
  <2> QED BY <1>3, <2>2, <2>3, <2>4 DEF SetClock
<1>4. CASE ConnectUart
  <2>1. UNCHANGED <<bootsel, conf1, frequency, fllIsOn, uartDiv>> /\ ExposeUart
    BY <1>4 DEF ConnectUart, Stage, choice, fll
  <2>2. stage = "expose_uart" /\ stage' = "open"
    BY <1>4 DEF ConnectUart, Stage
  <2>3. UartRouted'
    BY <2>1, <2>2, ExposeUartRoutes DEF ClockInv
  <2> QED BY <2>1, <2>2, <2>3 DEF ClockInv
<1>5. CASE UartOpen
  <2>1. /\ UNCHANGED <<bootsel, conf1, frequency, fllIsOn, padMode>>
        /\ uartDiv' = (frequency + Baudrate \div 2) \div Baudrate
    BY <1>5 DEF UartOpen, Stage, choice, fll
  <2>2. \/ stage = "open" /\ stage' = "console"
        \/ stage = "srec_open" /\ stage' = "srec"
    BY <1>5 DEF UartOpen, Stage
  <2> QED BY <2>1, <2>2 DEF ClockInv, UartRouted, Routed, Selecting
<1>6. CASE StartFlash
  <2>1. UNCHANGED <<bootsel, conf1, frequency, fllIsOn, uartDiv>> /\ stage' = "qspi"
    BY <1>6 DEF StartFlash, Stage, choice, fll
  <2> QED BY <2>1 DEF ClockInv
<1>7. CASE PrintLine \/ QspiStep \/ ClockStep \/ LatchStep \/ SpiStep \/ UartStep
  <2>1. UNCHANGED stage /\ UNCHANGED Pads
    BY <1>7 DEF PrintLine, QspiStep, ClockStep, LatchStep, SpiStep, UartStep, Around, choice, fll
  <2> QED BY <1>1, <2>1
<1>8. CASE SrecSend \/ SrecNoise \/ UNCHANGED vars
  <2>1. UNCHANGED stage /\ UNCHANGED Pads
    BY <1>8 DEF SrecSend, SrecNoise, Outside, vars, choice, fll, flash
  <2> QED BY <1>1, <2>1
<1> QED BY <1>2, <1>3, <1>4, <1>5, <1>6, <1>7, <1>8 DEF Next, Main, Command

\* Whoever uses the UART is connected to it, and the rate of the FLL and the
\* divider of the UART agree to 2 %: for every frequency of the build that is
\* high enough, above 3.72 MHz with the chip's reference clock and rate.
THEOREM UartIsInRate ==
  ASSUME \A f \in Frequencies : Fast(f), Counted(RefClock)
  PROVE  Spec => []BaudRight
<1>1. Init => ClockInv
  BY ResetConf1Assumption DEF Init, FllReset, ClockInv
<1>2. ClockInv /\ [Next]_vars => ClockInv'
  BY ClockStepKeeps
<1>3. ClockInv => BaudRight
  <2> SUFFICES ASSUME ClockInv, stage \in {"console", "srec"}
               PROVE  UartRouted /\ Difference(Applied, Baudrate * uartDiv) <= Applied \div 50
    BY DEF BaudRight
  <2> DEFINE r == MultDivFromFreq(frequency)
  <2>1. frequency \in Nat /\ Fast(frequency)
    BY FrequenciesAssumption DEF ClockInv
  <2>2. Applied = FreqFromMultDiv(r.mult, r.div)
    BY DEF ClockInv, Applied
  <2>3. uartDiv = (frequency + Baudrate \div 2) \div Baudrate /\ UartRouted
    BY DEF ClockInv
  <2> HIDE DEF r
  <2>4. LET a == FreqFromMultDiv(r.mult, r.div)
        IN  Difference(a, Baudrate * ((frequency + Baudrate \div 2) \div Baudrate)) <= a \div 50
    BY <2>1, RatesAgree DEF r
  <2> QED BY <2>2, <2>3, <2>4
<1> QED BY <1>1, <1>2, <1>3, PTL DEF Spec
=============================================================================
