------------------------------ MODULE FlashBoot ------------------------------
(***************************************************************************)
(* The QSPI boot of boot_code.c: boot_qspi reads the image's header and    *)
(* area table into a boot_code_t, chooses with find_data_fit a place in L2 *)
(* that no area covers, continues there on a new stack, reads header and   *)
(* table again, loads every area block by block and jumps.  Each           *)
(* flash_read queues a uDMA transfer and calls wait_soc_event once.        *)
(*                                                                         *)
(* The boot is entered from reset (bootsel 2), or by the BOOT_FLASH word   *)
(* of the zForth console, whose uart_open has unmasked the UART's events.  *)
(* The SPI master and the flash are hardware; a transfer that ends has     *)
(* delivered its data and raises the end-of-transfer event, and what it    *)
(* delivered is zeros when the pads are not connected to the flash.  The   *)
(* commands of a transfer are taken to be fetched when it is queued.  The  *)
(* byte at offset i of the flash is the number i, a byte of zeros is Zero, *)
(* and memory no transfer has written is Unset.  Module BootRom says how   *)
(* the boot is entered.                                                    *)
(***************************************************************************)
EXTENDS SocEvents, Pads

CONSTANTS
  Images,       \* boot images in the flash: records of entry, bootaddr, areas
  Leftovers,    \* what an uninitialised boot_code_t may hold, of the same form
  MaxAreas,     \* MAX_NB_AREA, 16
  BlockSize,    \* FLASH_BLOCK_SIZE, 4096
  WordSize,     \* 4
  Wrap,         \* 2^32
  DataSize,     \* sizeof(boot_code_t)
  L2Start,      \* 0x1c000000
  L2End,        \* 0x1d000000
  MemTop,       \* bound: the highest address
  MaxPrints     \* bound: console transfers

RoundUp(a, unit) == ((a + unit - 1) \div unit) * unit

AreaType  == [start : Nat, ptr : Nat, size : 0..Wrap - 1, blocks : Nat]
ImageType == [entry : Nat, bootaddr : Nat, areas : Seq(AreaType)]

\* What the loader takes for granted of an image: at most MaxAreas areas, in
\* ascending order, disjoint, word aligned, each with the blocks of its size,
\* and room for its data behind every one.
ASSUME ImagesAssumption ==
  /\ Images \cup Leftovers \subseteq ImageType
  /\ \A im \in Images \cup Leftovers :
       /\ Len(im.areas) <= MaxAreas
       /\ \A i \in 1..Len(im.areas) :
            RoundUp(im.areas[i].ptr + im.areas[i].size, BlockSize) + DataSize <= MemTop + 1
  /\ \A im \in Images : \A i \in 1..Len(im.areas) : LET a == im.areas[i] IN
       /\ a.ptr % WordSize = 0
       /\ a.blocks = (a.size + BlockSize - 1) \div BlockSize
       /\ \A j \in i + 1 .. Len(im.areas) : a.ptr + a.size <= im.areas[j].ptr
ASSUME SizesAssumption ==
  /\ {BlockSize, WordSize, Wrap} \subseteq Nat \ {0}
  /\ {MaxAreas, DataSize, L2Start, L2End, MemTop} \subseteq Nat
  /\ L2Start + DataSize <= MemTop + 1
  /\ BlockSize % WordSize = 0
  /\ L2Start % BlockSize = 0
  /\ DataSize >= BlockSize

VARIABLES
  image,      \* the image in the flash
  entered,    \* the way into the boot: "reset" or "console"
  pc,         \* where the processor is in the boot
  header,     \* header of the old and of the new boot_code_t
  table,      \* mem_area of both
  who,        \* the boot_code_t in use, "old" or "new"
  base,       \* address of the new one
  fit,        \* find_data_fit: areas looked at, and addr
  section,    \* flash_load_section: area index, block, addresses, bytes left
  buffer,     \* flash_buffer, the bytes of the last block read into it
  mem,        \* memory the areas are loaded to
  transfers,  \* SPI transfers queued
  uart,       \* console transfers not ended
  prints,     \* console transfers so far
  boot        \* where the boot jumped to: entry and boot address

program == <<image, entered, pc, header, table, who, base, fit, section, buffer, boot>>
devices == <<mem, transfers, uart, prints>>
fvars   == <<evars, program, devices>>

Unset   == -1
Zero    == -2
SpiEot  == "SPI_EOT"
UartTx  == "UART_TX"
UartRx  == "UART_RX"

ASSUME EventsAssumption == {SpiEot, UartTx, UartRx} \subseteq Events

NoBoot  == [entry |-> Unset, bootaddr |-> Unset]

Header(im) == [nb |-> Len(im.areas), entry |-> im.entry, bootaddr |-> im.bootaddr]

\* The table of an image, with room for MaxAreas; nothing is behind it.
NoArea == [start |-> 0, ptr |-> 0, size |-> 0, blocks |-> 0]
Table(im) == [i \in 1..MaxAreas |-> IF i <= Len(im.areas) THEN im.areas[i] ELSE NoArea]

NoImage == [entry |-> 0, bootaddr |-> 0, areas |-> <<>>]

Span(a, n) == a .. a + n - 1

-----------------------------------------------------------------------------
(* The SPI master, the UART and the clock *)

\* What the master reads: the flash answers when it is connected, and its
\* answer arrives over SDIO1.
Sampled(v, zeros) == Input("QSPIM0_SDIO1", IF SpiRouted THEN v ELSE zeros, zeros)

\* The transfer at the front of the queue ends.
SpiDone ==
  /\ transfers # <<>>
  /\ LET t  == Head(transfers)
         im == Sampled(image, NoImage)
     IN
     /\ header' = IF t.to = "header" THEN [header EXCEPT ![t.who] = Header(im)] ELSE header
     /\ table' = IF t.to = "table"
                 THEN [table EXCEPT ![t.who] = [i \in 1..MaxAreas |->
                         IF i <= t.size THEN Table(im)[i] ELSE @[i]]]
                 ELSE table
     /\ mem' = IF t.to = "mem"
               THEN [a \in DOMAIN mem |-> IF a \in Span(t.dst, t.size)
                                          THEN Sampled(t.src + a - t.dst, Zero) ELSE mem[a]]
               ELSE mem
     /\ buffer' = IF t.to = "buffer"
                  THEN [i \in 0..BlockSize - 1 |->
                          IF i < t.size THEN Sampled(t.src + i, Zero) ELSE buffer[i]]
                  ELSE buffer
  /\ transfers' = Tail(transfers)
  /\ Raise(SpiEot)
  /\ UNCHANGED <<waiter, image, entered, pc, who, base, fit, section, boot, uart, prints>>

UartDone ==
  /\ uart > 0
  /\ uart' = uart - 1
  /\ Raise(UartTx)
  /\ UNCHANGED <<waiter, program, mem, transfers, prints>>

Hardware ==
  \/ (Latch \/ ClockRef) /\ UNCHANGED <<program, devices>>
  \/ SpiDone
  \/ UartDone

-----------------------------------------------------------------------------
(* The boot.  A step of it runs when no wait is in progress. *)

At(l) == pc = l /\ waiting = "no"

\* boot_qspi is called.
BootQspi ==
  /\ pc = "off"
  /\ pc' = "init"
  /\ UNCHANGED <<evars, image, entered, header, table, who, base, fit, section, buffer, boot, devices>>

Goto(l) == pc' = l /\ UNCHANGED <<image, entered, header, table, who, base, fit, section, buffer, boot>>

\* Fault: the end of transfer stays masked.
FlashInitNoEot ==
  \/ /\ At("init") /\ EventMaskReset /\ Goto("tx")
     /\ UNCHANGED <<waiter, devices>>
  \/ /\ At("tx") /\ SetEvent(UartTx) /\ Goto("ticks")
     /\ UNCHANGED <<waiter, devices>>
  \/ /\ At("ticks") /\ WaitClockRef /\ Goto("header")
     /\ UNCHANGED devices

\* flash_init: the masks, one register after the other, and the power-up time.
FlashInit ==
  \/ /\ At("init") /\ EventMaskReset /\ Goto("eot")
     /\ UNCHANGED <<waiter, devices>>
  \/ /\ At("eot") /\ SetEvent(SpiEot) /\ Goto("tx")
     /\ UNCHANGED <<waiter, devices>>
  \/ /\ At("tx") /\ SetEvent(UartTx) /\ Goto("ticks")
     /\ UNCHANGED <<waiter, devices>>
  \/ /\ At("ticks") /\ WaitClockRef /\ Goto("header")
     /\ UNCHANGED devices

\* flash_read: queue the transfer and wait for an event.
FlashRead(to, dst, src, size) ==
  /\ transfers' = Append(transfers, [to |-> to, who |-> who, dst |-> dst,
                                     src |-> src, size |-> size])
  /\ WaitSocEvent
  /\ UNCHANGED <<controller, mem, uart, prints>>

NbAreas(h) == IF h.nb >= MaxAreas THEN MaxAreas ELSE h.nb

\* flash_get_mem_sections for the boot_code_t in use.
GetMemSections ==
  \/ At("header") /\ FlashRead("header", 0, 0, 0) /\ Goto("table")
  \/ /\ At("table")
     /\ Goto("got")
     /\ LET n == NbAreas(header[who]) IN
        IF n # 0 THEN FlashRead("table", 0, 0, n) ELSE UNCHANGED <<evars, devices>>

\* Fault: an area that begins behind addr is not looked at.
FitAfterInside(addr, area) ==
  IF addr >= area.ptr /\ addr < area.ptr + area.size
  THEN RoundUp(area.ptr + area.size, BlockSize)
  ELSE addr

FitAfter(addr, area) ==
  IF \/ addr >= area.ptr /\ addr < area.ptr + area.size
     \/ addr < area.ptr /\ addr + DataSize > area.ptr
  THEN RoundUp(area.ptr + area.size, BlockSize)
  ELSE addr

\* find_data_fit: the start of L2, and one turn of the loop over the areas.
FindDataFit ==
  /\ who = "old"
  /\ \/ At("got") /\ fit' = [area |-> 0, addr |-> L2Start]
     \/ /\ At("fit") /\ fit.area < header["old"].nb
        /\ fit' = [area |-> fit.area + 1,
                   addr |-> FitAfter(fit.addr, table["old"][fit.area + 1])]
  /\ pc' = "fit"
  /\ UNCHANGED <<evars, image, entered, header, table, who, base, section, buffer, boot, devices>>

\* Its result becomes the new boot_code_t: change_stack.
MoveData ==
  /\ At("fit") /\ fit.area = header["old"].nb
  /\ base' = fit.addr
  /\ who' = "new"
  /\ pc' = "header"
  /\ UNCHANGED <<evars, image, entered, header, table, fit, section, buffer, boot, devices>>

SectionStart(i) ==
  LET a == table[who][i] IN
  [area |-> i, block |-> 0, dst |-> a.ptr, src |-> a.start, left |-> a.size]

NoSection == [area |-> 0, block |-> 0, dst |-> 0, src |-> 0, left |-> 0]

\* The loop of flash_load_and_start over the areas.
NextSection ==
  /\ \/ At("got") /\ who = "new"
     \/ At("block") /\ section.block >= table["new"][section.area].blocks
  /\ IF section.area < header["new"].nb
     THEN section' = SectionStart(section.area + 1) /\ pc' = "block"
     ELSE pc' = "deinit" /\ UNCHANGED section
  /\ UNCHANGED <<evars, image, entered, header, table, who, base, fit, buffer, boot, devices>>

\* Fault: the size of the last block is not rounded up to words.
IterSizeUnrounded(left) == IF BlockSize > left THEN left - (left % WordSize) ELSE BlockSize

IterSize(left) == IF BlockSize > left THEN RoundUp(left, WordSize) ELSE BlockSize

IsL2(i) == table["new"][i].ptr >= L2Start /\ table["new"][i].ptr < L2End

\* One turn of flash_load_section up to its wait ...
LoadBlock ==
  /\ At("block")
  /\ section.block < table["new"][section.area].blocks
  /\ FlashRead(IF IsL2(section.area) THEN "mem" ELSE "buffer",
               section.dst, section.src, IterSize(section.left))
  /\ Goto("loaded")

\* ... and behind it: memcpy for an area outside L2, and the next addresses.
BlockLoaded ==
  /\ At("loaded")
  /\ LET n == IterSize(section.left) IN
     /\ mem' = IF IsL2(section.area) THEN mem
               ELSE [a \in DOMAIN mem |-> IF a \in Span(section.dst, n)
                                          THEN buffer[a - section.dst] ELSE mem[a]]
     /\ section' = [section EXCEPT !.block = @ + 1, !.dst = @ + n, !.src = @ + n,
                                   !.left = (@ - n) % Wrap]
  /\ pc' = "block"
  /\ UNCHANGED <<evars, image, entered, header, table, who, base, fit, buffer, boot, transfers, uart, prints>>

\* flash_deinit and jump_to_entry.
Jump ==
  /\ At("deinit")
  /\ EventMaskReset
  /\ boot' = [entry |-> header["new"].entry, bootaddr |-> header["new"].bootaddr]
  /\ pc' = "jumped"
  /\ UNCHANGED <<waiter, image, entered, header, table, who, base, fit, section, buffer, devices>>

Processor ==
  \/ Wait /\ UNCHANGED <<program, devices>>
  \/ FlashInit \/ GetMemSections \/ FindDataFit \/ MoveData \/ NextSection \/ LoadBlock
  \/ BlockLoaded \/ Jump

-----------------------------------------------------------------------------
LoaderInit ==
  /\ image \in Images
  /\ \E l \in Leftovers :
       /\ header = [d \in {"old", "new"} |-> Header(l)]
       /\ table = [d \in {"old", "new"} |-> Table(l)]
  /\ who = "old"
  /\ base = Unset
  /\ fit = [area |-> 0, addr |-> L2Start]
  /\ section = NoSection
  /\ buffer = [i \in 0..BlockSize - 1 |-> Unset]
  /\ mem = [a \in 0..MemTop |-> Unset]
  /\ transfers = <<>>
  /\ uart = 0
  /\ prints = 0
  /\ boot = NoBoot
  /\ pc = "off"

-----------------------------------------------------------------------------
(* Properties *)

FromReset == entered = "reset"

\* Type invariant.
TypeOK ==
  /\ EventsTypeOK
  /\ pc \in {"off", "init", "eot", "tx", "ticks", "header", "table", "got",
             "fit", "block", "loaded", "deinit", "jumped"}
  /\ who \in {"old", "new"}
  /\ base \in {Unset} \cup {a \in L2Start..MemTop : a % BlockSize = 0}
  /\ section.left \in 0..Wrap - 1
  /\ mem \in [0..MemTop -> Int]
  /\ FromReset => Len(transfers) <= 1

\* wait_soc_event consumes one event that was raised; it never pops an empty
\* FIFO on a status bit left over from an earlier wait.
EventConsumed == waiting = "pop" => fifo # <<>>

\* wait_clock_ref(n) lets at least n - 1 ticks pass: only its first wfi may
\* end at a tick latched before.
TicksWaited == [][waiting = "tick" /\ waiting' = "no" => ticks >= NbTicks - 1]_fvars

\* The program that is started from reset is the one in the flash: every area
\* is at its address, whatever its size, its memory and its blocks.
LoadedAtJump ==
  FromReset /\ pc = "jumped" =>
    /\ boot = [entry |-> image.entry, bootaddr |-> image.bootaddr]
    /\ \A i \in 1..Len(image.areas) : LET a == image.areas[i] IN
         \A k \in 0..a.size - 1 : mem[a.ptr + k] = a.start + k

\* Loading never writes the boot_code_t that the loader runs on: its stack,
\* table and flash buffer.
DataUntouched ==
  FromReset /\ base # Unset => \A a \in Span(base, DataSize) : mem[a] = Unset

\* The program that is started finds every event masked and every line of the
\* interrupt controller disabled, and from reset no SoC event left behind: the
\* FIFO is empty and the status bit of the events is clear.  A tick of the
\* reference clock may be latched, since wait_clock_ref disables its line after
\* its last clear; from the console earlier events may be in the FIFO too.
QuietAtJump ==
  pc = "jumped" => /\ unmasked = {} /\ enabled = {}
                   /\ FromReset => fifo = <<>> /\ "SOC" \notin status

\* However it was entered: no code runs on behind a flash_read that has not
\* delivered, and the flash is connected while it is read.
ReadDone      == At(pc) /\ pc \in {"table", "got", "loaded"} => transfers = <<>>
ReadConnected == transfers # <<>> => SpiRouted

=============================================================================
