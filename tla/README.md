# PULPissimo in TLA+

Formal models of the parts of this repository that carry logic of their own: the boot ROM
(`sw/bootcode`: boot selection, FLL and pad setup, flash boot, S-record boot, the console with its
uDMA driver and the zForth interpreter behind it), two peripherals in RTL (the custom actuator of
`hw/custom_actuator_ctrl.sv` with its driver, and the GPIO block of `hw/vendored_ips/gpio`), and two
programs of the test environment (the Verilator testbench and the remote bit-bang server). Most of
the rest of the SoC is wiring, generated registers, or IP fetched from other repositories. Paths
below are relative to the repository's root.

Every definition is translated from the code; `PROJECT.json` names the lines each one stands for.
Definitions introduced by a comment `Fault:` are not part of any specification. They are variants of
the definition that follows them, with a plausible bug; a property is kept only if some variant
violates it.

## 1. Inventory

### Components

| Component | State | Operations | Hard behaviour | What makes it correct |
|---|---|---|---|---|
| **Custom actuator block** `hw/custom_actuator_ctrl.sv` | CTRL, POSITION, VELOCITY, CONFIG, an FSM (IDLE, RUNNING, POSITIONING), current position, PWM counter | APB writes and reads; one clock edge; asynchronous reset | a self-clearing reset that overrides the bus; retargeting, disabling or resetting in the middle of a move | no write is lost; the interrupt is a pulse; moves end; a disabled block goes idle |
| **Actuator driver** `sw/bootcode/include/custom_actuator_ctrl.h` | none; read-modify-write through the bus | init, enable, disable, reset, set_mode, set_position, set_velocity, irq on/off, queries | the block changes CTRL between a load and a store | each call is one atomic change of one setting |
| **Boot mode selection** `boot_code.c`, `main` | boot mode pins, what the user types | one switch, then one of the boots | the console reaches the boots by another way than `main` | a chosen boot starts its program |
| **FLL driver** `fll-v1.c` | frequency and on/off flag per FLL, CONF1 | constructor, init, set_freq | the order of the three; two roundings | the UART's divider fits the frequency applied |
| **Pad multiplexer** `io_mux` | one selection per pad | `io_mux_mode_set`, `io_mux_expose_uart`, `io_mux_expose_spi` | a peripheral is used before it is connected | who reads through a pad is connected to it |
| **Console output** `zforth-riscv/libc.c`, `udma.c` | `write_buf`, the two halves of `copyout_buf`, `which_buf`; the uDMA channel's two slots | `putchar`, `fflush`, `uart_write`; the channel's fetches and completions | a buffer is refilled while hardware still reads from the other one | every byte leaves once, in order |
| **Console input** `udma.c`, `hal/udma/uart/uart_rb.h` | UART SETUP register, receive buffer, overflow flag | `uart_open`, `uart_read_char`, `hal_uart_clear_rx_fifo`, `hal_uart_disable` | bytes arrive during recovery from an overflow, and while the console prints | order, nothing invented, no byte stuck |
| **zForth** `zforth/zforth.c`, `zforth-main.c` | dictionary, two stacks, compile state, postpone flag, word being read | one character; a primitive; suspension for input; abort; system calls | an abort leaves a half-made definition behind; input asked for in the middle of a word | the dictionary stays a list of whole words; every line ends |
| **S-record boot** `kk_srec.c`, `boot_code.c` | reader state (record type, nibble position, count, length, buffer), memory, entry | one character; the record callback | damaged and lost characters; resynchronisation in the middle of a record | the program started is the one sent, and damage is flagged |
| **QSPI flash boot** `boot_code.c` | two `boot_code_t` (stack, table, flash buffer), section cursor, memory | `flash_init`, `flash_read`, `flash_get_mem_sections`, `find_data_fit`, `change_stack`, `flash_load_section`, `flash_deinit`, `jump_to_entry` | the loader moves itself around areas it is about to load; transfers end on events nobody identifies | every area in place at the jump, the loader intact, every wait ends for the right reason |
| **Event waits** `boot_code.c`, `hal/soc_eu`, `hal/itc` | event mask, event FIFO, status and enable bits | `wait_soc_event`, `wait_clock_ref`, mask updates | three registers cleared one after the other while events arrive | one wait, one event |
| **GPIO** `hw/vendored_ips/gpio` | mode, enable, output, interrupt enables and statuses, CFG, input synchronisers | register writes, one clock edge | a pin raises what a write clears in the same cycle; a synchroniser stands still while its clock is gated | no edge lost or invented, a held interrupt falls only when cleared |
| **Remote bit-bang server** `target/sim/tb/tb_lib/remote_bitbang`, `SimJTAG.sv` | connections, `client_fd`, pins, quit flag, tick counter | tick: accept or execute one command | clients come and go between ticks; TDO is sampled before the command is read | clients see a cable on which commands act in order |
| **Verilator bench** `target/sim/verilator/tb_main.cpp` | debug-bus request state, words left, counts, result | half cycles; request, grant, response, timeout; polls | a late answer meets the next request | the report and the result are true, and the bench ends |
| SoC top level, clock generators, ROM images and build tools, register generator, JTAG packages | see section 6 | | | |

### How they interact

`main` of `boot_code.c` reads the boot mode and goes to one of: wait for a debugger, the flash boot,
a preloaded program, or the console, for which it first sets the FLL and connects the UART's pads.
The console can start both boots (system calls `BOOT_UART`, `BOOT_FLASH`), which is how the flash
boot comes to run with the UART's events unmasked, its transfers in progress, and no pads connected
to the flash. The console's output and input share one UART, through two uDMA channels and one SETUP
register. The interpreter prints and reads through them. The flash boot uses the event waits for
every transfer; the S-record boot polls the UART. The driver reaches the actuator block by APB loads
and stores; the block is not instantiated in `soc_domain.sv` yet (`hw/CUSTOM_PERIPHERAL_README.md`
lists the steps left), so its bus master is modelled as every legal one. The GPIO block, the bench
and the bit-bang server stand alone: their other side (pads and software, the SoC, clients and the
TAP) is the environment of their models.

### Hazards

`PROJECT.json` lists them with the line where each bites and the properties that watch it. The
recurring ones: a register that hardware changes inside a software read-modify-write or an
acknowledge, buffers shared with a DMA channel, event registers that are cleared in several steps,
state that survives an abort or a gated clock, resynchronising a parser in the middle of its input,
an answer that arrives after its timeout, and moves, waits or lines that must end.

## 2. Modules

| Module | Models | Uses |
|---|---|---|
| `Actuator` | the block, one step per clock edge, under any APB master | |
| `ActuatorDriver` | a processor calling the driver | `Actuator` |
| `ActuatorApi` | abstract: each call takes effect once, in one step | |
| `ActuatorSystem` | the block with either master | `ActuatorDriver`, `ActuatorApi` |
| `UartTx` | console output and the transmit channel | |
| `ByteChannel` | abstract: a reliable byte stream | |
| `UartRx` | console input and the receiver | |
| `Console` | one processor that reads and prints on one UART | `UartTx`, `UartRx` |
| `ForthCells` | the encoding of cells in the dictionary | |
| `ZForth` | the interpreter | `ForthCells`, `WordList` |
| `WordList` | abstract: a list of words that only grows | |
| `SrecReader` | `kk_srec.c`, one character per step | |
| `SrecBoot` | `boot_srec_uart`, the record callback, a sender and a noisy line | `SrecReader` |
| `SocEvents` | `wait_soc_event`, `wait_clock_ref` and the two event devices | |
| `Pads` | the pad multiplexer | |
| `FlashBoot` | the flash boot and the SPI master | `SocEvents`, `Pads` |
| `Fll` | the FLL driver | |
| `BootRom` | the boot ROM from reset into each boot | `FlashBoot`, `Fll`, `SrecBoot` |
| `Gpio` | the GPIO block with its input stages, one step per clock edge | |
| `DebugBusLoader` | the Verilator testbench on buses that answer late, repeatedly or never | |
| `Tap` | one bit of a TAP (external) | |
| `JtagCable` | abstract: commands act at once and in order | `Tap` |
| `RemoteBitbang` | the server, SimJTAG and the clients | `Tap`, `JtagCable` |
| `ActuatorProofs` | theorems about the block and about the driver on it | `ActuatorSystem` |
| `ConsoleProofs` | theorems about the transmitter, alone and beside the receiver, and about the receiver | `Console` |
| `ZForthProofs` | theorems about the interpreter | `ZForth` |
| `BootRomProofs` | theorems about the event waits, the flash boot, the UART's clock and, carried over, the S-record boot | `BootRom`, `SrecProofs` |
| `SrecProofs` | theorems about the S-record reader, its callback and its checksum | `SrecBoot` |
| `GpioProofs`, `DebugBusLoaderProofs`, `RemoteBitbangProofs` | theorems about the modules they are named for | |
| `MCBootRom`, `MCZForth`, `MCGpio`, `MCDebugBusLoader`, `MCRemoteBitbang` | instances: images, files, sessions, masks, levels | |

### Actuator, ActuatorDriver, ActuatorSystem

A step `Clock` is one rising edge: all registers take their next values together
(`RegisterUpdate` is the register `always_ff`, `FsmNext` the FSM's `always_comb`, `CurrentNext` and
`pwmCounter` the other two processes), and the bus goes to its next cycle. `phase` and `req` are the
APB signals of the current cycle. `HardReset` is `rst_ni`. The 16-bit quantities wrap at `MaxPos`;
POSITION is a pair `[hi, lo]` because the code compares all 32 bits of it with a 16-bit position and
drives the direction pin from bit 16.

`ActuatorDriver` is a processor that executes the inline functions: a load (setup cycle, access
cycle), any number of idle cycles, and a store. `ActuatorSystem` chooses the
master at the start, any legal one or the driver, so every property is checked under both.
`CallsAreAtomic` is the refinement: between start and end of a
call, the settings (as software sees them, with a RESET that has not cleared itself yet counted as
done) change exactly once, as the call's name says.

### UartTx, ByteChannel, UartRx, Console

`Putchar`, `Fflush` are the calls; `WaitTxDone`, `Copy`, `Enqueue` the three parts of `uart_write`
between which the channel runs. The channel is external; from `plp_udma_enqueue`,
`plp_udma_canEnqueue` and `plp_udma_busy` it has a transfer in progress and a shadow slot, and it
fetches each byte from memory only when it sends it (the worst case for the software). `half` is
the memory the channel reads. `asked` and `out` are histories of what was printed and what left.

In `UartRx` bytes arrive numbered, so their order shows. `CheckOverflow` is the read of ERROR at the
top of `uart_read_char`, `ClearRxFifo1/2` the two writes of SETUP in `hal_uart_clear_rx_fifo` and
`ReadData` the poll of VALID with the read of DATA. The receiver is external: it works as configured
while SETUP is what `uart_open` wrote, and with any other SETUP it may miss a byte or receive an
unreadable one. Whether reading ERROR clears the overflow flag is not visible in this repository;
both are allowed.

`Console` puts both on one processor: it prints only between two reads and reads only between two
calls of `putchar` or `fflush`, while the channel and the other side run on. What is new there is
that the recovery from a receive overflow rewrites the divider under a transmission: `mixed` records
a byte that left under another SETUP, `overflowed` that a typed byte found the receiver full, and
`SentAsConfigured` says that the first happens only after the second.

### ForthCells, ZForth, WordList

The dictionary is the byte array of the code, with cells of one, two or five bytes, so that the
bounds checks (`addr < SIZE - len`, and two bytes read for every cell) are those of the code. A
machine is a record; the operators of the primitives map machines to machines, and `ok` turns false
at a failed `CHECK`, which is the `longjmp`: what was stored before stays stored (a five-byte cell
may be cut behind its first byte, a header behind its length). `HandleChar` is one turn of `zf_eval`
and `RunStep` one of `run`; `Proceed` is the way back into `zf_eval` with its abort branch. A word's
name is one character and a number a character of the table `Digits`; scanning of longer words and
number formats is left out. `p@` and `p!` reach the bus, outside of the model; a `p!` to an address of
the dictionary is left out. Integers are not wrapped to the 32 bits of a cell after `+`, `-` and `*`
(`zforth.c:609-640`).

`WordsFrom` reads the chain of headers from `LATEST` as a list; `DictionaryIsWordList` says that the
bytes implement `WordList`.

### SrecReader, SrecBoot

`ReadS` and `ReadDigit` are the two halves of `srec_read_byte`, `Finish`/`EndRead` are
`srec_end_read` with its early return on a count of zero, `DataRead` is the callback
`srec_data_read`, which stores every byte as a 32-bit word and jumps at a termination record. The
sender encodes a file's records; the line may replace or lose digits at positions `Exposed`.
Addresses of four bytes follow the same path and are left out of the instances (TLC's integers have
32 bits).

### SocEvents, Pads, FlashBoot, Fll, BootRom

The event unit and the interrupt controller are external and modelled from how `soc_eu_v3.h` and
`itc_v1.h` use them. Each register access of `wait_soc_event` and `wait_clock_ref` is
a step, so that events can arrive between any two (`SocClear` and `SocDisable` are the two accesses
that end a wait). `FlashRead` queues a transfer and starts a wait;
`SpiDone` delivers the data and raises the end-of-transfer event. The commands of a transfer are
taken to be fetched by the SPI master when it is queued. Byte *i* of the flash is the number *i*, so
a misplaced byte shows; through pads that are not connected (`Sampled`, from the muxer's default of
0) zeros arrive. The 32-bit subtraction of the remaining size wraps (`Wrap`). The loop of
`find_data_fit` is a step per area (`fit` holds the area and the address so far). An area is in L2
when it begins at or behind `L2Start` and before `L2End`, and is read into place; one outside goes
through the flash buffer.

Uninitialised memory: the second `boot_code_t` is not initialised before `flash_get_mem_sections`
reads into it, so its content is chosen among `Leftovers`.

`Fll` keeps the integer arithmetic of multiplier and divider. `BootRom` is `main` for the build of
the chip (`CONFIG_FLL`, `ENABLE_ZFORTH_BOOT`, `ENABLE_QSPI_BOOT`): `stage` is where it is, and of
the console it keeps what the boots can notice: that it opens the UART, prints (`PrintLine`), and
starts what the user asks for (`StartFlash`, `StartSrec`, `StartJtag`).

### Gpio

One step per clock edge, with at most one register write in it. A register with a bit per pin is the
set of its pins. `InputStage` has the three stages of the repository: with a clock gate (chip),
without (FPGA), and the stub of the Verilator build. `StatusAfter` is the priority of clearing over
setting; `before` and `steady` remember the pads at the last three edges, against which the
properties compare what the block reports.

### DebugBusLoader

A step is one half cycle with its `eval()`, or what the code does between two of them. `Words` and
`Word` are what `main` and `load_memory` make of the file. The SoC behind the bus (`Eval`) may grant
in any `eval()`, with or without a request, or never. It may take the request that is on the bus in
any `eval()`, also again while the bench holds it and waits for the answer. `due` holds what was taken
with its age: it may be answered in the same half cycle and up to `latency` half cycles later, once,
repeatedly, behind a younger one, or not at all. Each behaviour has a bus of one latency. `answered`
is a history, the words whose request ended with an answer. `Program` is the program under test
writing its count and its marker.

### Tap, JtagCable, RemoteBitbang

`Clock` is a clock of `SimJTAG.sv` with its tick counter; at 0 it calls `jtag_tick`, whose call ends
with `Accept`, `ReadNothing`, `ExecuteCommand` or `Abort`. A poll that finds nothing is no step: the
simulator stands still. `Follow` is the TAP that sees new pins after at most `TapClocks` clocks. The
cable of the abstract specification acts at once; the mapping is the identity on connections and
pins and lets the TAP have followed already.

## 3. Runs

| Run | Instance | What it shows |
|---|---|---|
| `actuator` | positions 0..2, upper half 0 or 1, two modes | the reset never meets a bus transfer, so no completed write is lost; the interrupt is a pulse; moves to 16-bit targets end; disabling ends in IDLE, also in the middle of a move; no read-modify-write of the driver is undercut, and each of its calls is atomic |
| `actuator_direction` | positions 0..1 | **violation**, finding 1 |
| `console` | lines of 2, 3 printed bytes, buffer of 1, 3 typed bytes | no half is overwritten in flight, no printed byte is dropped, output implements the byte channel and arrives once flushed; typed bytes come in order and none sticks; SETUP changes under a transmission only after a byte found the receiver full |
| `uart_setup` | buffer of 2, 5 bytes | **violation**, findings 2 and 3 |
| `boot_rom` | 7 flash images, 3 S-record files, one fault, one ignored character, one line printed before a boot | every boot that is chosen starts; everything is loaded and the loader intact at the jump; a wait consumes its own event; at the jump every event is masked and every line disabled, and from reset no SoC event is in the FIFO or latched; the UART's divider fits the clock; `wait_clock_ref` waits its ticks; a damaged or lost digit behind a byte count is flagged |
| `srec_sync` | one file, a fault in a byte count | **violation**, finding 4 |
| `flash_console` | one image, started from the console | **violation**, findings 5 and 6 |
| `zforth` | 256 bytes of dictionary, stacks of 5 and 3, four lines, 60 turns | stack pointers stay in their arrays, the chain of headers is whole after every abort, input suspends the word that asked, every line comes back, the dictionary implements a growing list of words, compiled code is not changed by later lines |
| `zforth_tell` | two lines | **violation**, finding 7 |
| `gpio` | 2 pins, 1 wired to a pad, 3 register writes, gated and plain stage | the input stages delay by exactly their depth or stand still, an edge is reported in the cycle it is seen, whatever is cleared in that cycle, a level goes on triggering, a held interrupt falls only when it is cleared |
| `bench` | files with nothing to load, two words, and four records of which two are unaligned or beyond the moved part; ROM 16..32, L2 40..47, waits of 1 and 2, a poll every 3 cycles, 18 cycles; buses of latency 1, 2 and 3 | on every bus: the request is released before the SoC runs, each word is counted once and as written only if answered, memory holds only words of the file, a result is reported only of a finished program, the bench ends. With a latency below 3 each word counted as written is in memory; below 2 the cycles reported are the program's |
| `jtag` | 2 commands per client, 3 clients, one clock per tick, TAP at most one clock behind | the server and SimJTAG implement the cable; what was sent is executed; a client that leaves after quit makes room for the next |

A violation run checks one property only, which states what a comment, a document or a test says.

### Bounds and why they are enough

* *Actuator.* With positions 0..2 a move can start below, above or at the target, take more than one
  step, and be retargeted to either side on the way. One upper bit distinguishes the two ways a
  32-bit target can relate to a 16-bit position. `Modes` are not interpreted by the block; two are
  enough for a lost mode to show.
* *Console.* Three bytes with lines of two fill one half and part of the other, so that a fetch runs
  while the other half is copied; three characters more or less do not change which half is free. A
  receive buffer of one with three typed bytes overflows, recovers, and overflows again. The theorems
  about the output need none of these bounds.
* *S-records.* `LineMax` is 7 instead of 37. The files have records with 16- and 24-bit addresses, a
  header, a record count, an empty record, one of exactly `LineMax` bytes and one too long by one.
  Every exposed digit can arrive as every other digit, or not at all.
* *Flash.* Blocks of 4 bytes and words of 2 make areas of several blocks with a short, unaligned last
  one; the images put areas before, at, and just far enough behind the place the loader would move to,
  before, in and behind L2 (8..27 of a memory of 36 bytes), empty, and fill the table. The FIFO has
  two places and the console one transfer, enough for an event of the UART before and during a wait.
* *Clock.* The frequencies are the ones the boot ROM asks for (18 MHz), one below and one above it,
  with the real reference clock, so that multiplier and divider take their real values.
* *zForth.* 256 bytes hold the primitives, the variables and a few words more, so lines run into the
  end of the dictionary; stacks of 5 and 3 are filled by one line. A session is four lines chosen
  among those of `MCZForth`, which between them use every primitive and stop at different ones; the last line runs what the third
  may have cut off. A store of the program to an address (`Poking`) is excepted from `CodeIsKept`: the
  interpreter lets a program overwrite itself, but the lines of the session store only to variables and at HERE.
  `MaxTurns` ends loops.
* *GPIO.* Pins do not interact, so one wired pin beside an unwired one shows all there is; three
  writes configure an interrupt, clear it, and change the configuration afterwards.
* *Bench.* In the code a grant is waited for 5000 cycles, a response 200, each half of a read 100; the
  result is polled every 1000 cycles and the run ends after ten million by default. A wait of one or
  two cycles already lets an answer come in time, in the last moment, and too late. The latencies lie
  on both sides of the two delays the code leaves: with 1 the last answer comes within the two half
  cycles after a read, with 2 within the three after a write, with 3 behind both. On the last bus the two conclusions
  do not hold, as the model checker shows when the conditions `latency < 3` and `latency < 2` are
  dropped. 18 cycles hold the longest load of the files, the reset and several polls.
* *Bit-bang.* Three clients: one that quits, one that leaves without, one that waits. Two commands are
  enough for a set and a read in either order. `TickDelay` is the 1 of `tb_pulp.sv:476`.

### Fairness

* The actuator's clock does not stop (`WF(Clock)`); hard resets are not fair, and the liveness
  properties are about behaviours in which software settles, so no fairness of software is assumed.
* The processor runs: steps of a call that has begun are weakly fair (there is one thread and no
  interrupt handler runs in the boot ROM). What the user types or the program prints is not fair. In
  `Console` a read is strongly fair: the interpreter does not print for ever between two reads.
* A uDMA or SPI transfer that was queued ends, a pending event is latched, and the reference clock
  ticks: hardware the boot cannot go on without. In `BootRom` these and the processor are weakly fair,
  the user's commands are not.
* The S-record sender sends its whole file. Faults and ignored characters are bounded and not fair.
* The testbench runs (weak fairness of its own steps); nothing is assumed of the SoC.
* The simulator's clock runs and the TAP follows it, and a tick that has begun goes on; nothing is
  assumed of the clients.

### Faults

A line that damages or loses a character, a flash boot entered with events pending, an interpreter that aborts at any `CHECK`, clients
that leave with or without `Q`, and a bus that answers late, repeatedly or never. There is no crash recovery to
model: nothing in this repository persists.

### Assumptions

Named in the modules, and evaluated by every run of a module that extends them. Most give a constant
its type (or, like `UserVarsAssumption`, the number of entries the code gives a table). Those that say something about the environment:

* `ImagesAssumption` and `SizesAssumption` of `FlashBoot`: an image has at most `MAX_NB_AREA` areas,
  ascending and disjoint, word-aligned, `blocks` the rounded-up size, and memory goes on behind each
  far enough for the loader's data. The code checks none of it. `flash_get_mem_sections` reads at most
  `MAX_NB_AREA` entries but the later loops run to `nbAreas`, and `find_data_fit` makes a single pass,
  which finds a free place only in an ascending table. `DataSize >= BlockSize` holds because the
  buffer of a block is part of the data.
* `FilesAssumption` of `BootRom` (`FileOK` of `SrecBoot`): what is sent is an S-record file: counts
  and checksums fit in a byte, an address has the length of the record's type, data ascends, and only
  the last record ends the file. `kk_srec.c` takes files as they come.
* `FilesAssumption` of `DebugBusLoader` bounds a line's bytes to bytes and nothing else;
  `RegionsAssumption` and `WaitsAssumption` are the memory map and positive timeouts.
  `LatenciesAssumption` says only that latencies are natural numbers; that a bus is fast enough is a
  condition in the properties.
* `DelayAssumption` of `RemoteBitbang`: the TAP sees new pins before the next tick.
* `DictSizeAssumption` of `ForthCells`: the dictionary has 24 bytes, which hold the user variables
  and the first header, and its addresses are cells (`ZF_DICT_SIZE` is 4096).
* `ResetConf1Assumption` of `Fll`: CONF1 comes out of reset with a divider that is not 0.

Theorems may have a hypothesis of their own, stated with them:

* `RealStages`: the chip's and the FPGA's input stage, not the stub.
* `HeadsIntact`: the line leaves the head of a record alone; for `DamageIsNoticed` also that it
  damages one character at most (`MaxFaults \in 0..1`), because two can cancel out in a sum.
* `StoresSpareHeaders`: a step in which the program itself executes `!!` (`Poking`) does not set HERE
  back or out of the dictionary, and leaves LATEST and every byte of a header as they were. Nothing in `zforth.c` enforces it:
  a program that stores to LATEST breaks the dictionary, as in any Forth. The sessions of the run `zforth` keep
  to it, and they do store, so the run is an instance of the theorems.
* `Fast` for each of `Frequencies`: 50 times the roundings of the FLL and the divider are below the
  frequency. With the chip's 32768 Hz and 115200 baud that is above 3.72 MHz; the boot ROM asks for 18.

## 4. Findings

1. `hw/custom_actuator_ctrl.sv:197` compares the 32-bit POSITION with the 16-bit current position,
   while line 232 uses bit 16 as the direction. A target with that bit set is never reached, and
   POSITIONING, which ignores ENABLE, is never left. Run `actuator_direction`.
2. `hal_uart_clear_rx_fifo` (`uart_rb.h:267-269`) does not toggle the clean bit; it sets every other
   field of SETUP. Run `uart_setup`.
3. `hal_uart_disable` (`uart_rb.h:194`) ors zeros into SETUP. Run `uart_setup`.
4. After a byte count of 0, `srec_end_read` returns before it resets `length`, so the next record is
   read behind stale bytes. Run `srec_sync`.
5. `wait_soc_event` takes whichever event is in the FIFO. After `BOOT_FLASH` in the console, UART
   events end the waits of `flash_read` before the data is there. Run `flash_console`. From reset
   only SPI events can arrive, and `EventConsumed` and `LoadedAtJump` hold.
6. The console starts the flash boot without connecting the flash's pads, which only `main` does. The
   same run: what is read is not what the flash holds.
7. The system call TELL has no `break` and falls through into `BOOT_UART` (`zforth-main.c:300-304`).
   Run `zforth_tell`.

Observations that no run states, because no document of the repository is contradicted outright or
no code reaches them:

* BUSY is 1 in RUNNING, where an enabled block rests. The example of
  `hw/CUSTOM_PERIPHERAL_README.md:66-69`, which polls BUSY after a move, therefore never ends. A duty
  cycle of 100% cannot be set.
* GPIO: the block's README says (98-100) that a disabled input generates no interrupts. The clock-gated
  stage freezes, so a pin whose low level is its trigger goes on triggering when it is disabled, and
  so does a pin that was frozen with its edge. A pin that is high when it is enabled reports a rise.
* `gpio_input_stage_stub.sv:26` exchanges rise and fall; with `Stages = {"stub"}` the run `gpio`
  violates `InputsOK` and `EdgesReported`. Only the Verilator build uses it.
* FLL: `fll-v1.c:124-125` wants a frequency set before the init to be applied by it; the registers keep
  the old value. No caller does this. In boot mode 2 the FLL is not initialised, while the divider in
  `boot_code.c:189` assumes `PERIPH_FREQUENCY`.
* Bit-bang: polling for a character never returns while a client is silent (152), so the simulator
  stands still; the quit flag is never reset (256); a client that leaves without `Q` keeps
  `client_fd` for good (164-167: the read that finds the connection closed returns without giving it up), so
  no other client is ever accepted.
* Verilator bench: between two words the debug bus is left alone for three half cycles (`tb_main.cpp:247`), after
  a read for two (309), while an answer is waited for 200 and 100 cycles. On a bus that makes use of
  that, a late answer, or the second one to a request that was held, is counted for the next word, and
  the repeated answer to the read of the marker can be reported as the cycle count.
* Verilator bench: reference clock and reset are not driven (see
  `VERILATOR_DEBUG_BUS_INVESTIGATION.md:16`); ROM addresses are remapped in a window of 0x2000
  (`tb_main.cpp:432`) but the entry point is compared with the end of the ROM (505); the 10000
  reference clock cycles of the comment at 488-490 are half cycles.
* zForth: the last byte of the dictionary cannot be used, and a POSTPONE whose word aborts still holds
  for the next word.

## 5. Proofs

For every value of the constants that satisfies the named assumptions: any number of pins, clients,
bytes, areas, records or words, any length of a wait, any timing of the other side. Each proof rests
on an inductive invariant that says why the property holds; TLC checked each of them on the run's
instance before it was proved.

### Actuator (`ActuatorProofs`)

* `TypeCorrect`: `TypeOK`, inductive as it stands; the position stays in range because it only moves
  towards `position.lo`.
* `ResetCycleIsOffBus`: `ResetOffBus`. RESET rises only at the end of an access cycle; the cycle after
  one is idle or setup; the reset then clears itself. Hence `WritesLand` (`NoWriteLost`), and from the
  types `ArrivalIsAPulse` (`IrqPulse`).
* `SystemIsSound` (`SystemInv`): with the driver on the bus. `SysIInv` adds that there is one master,
  and that while the driver writes CTRL back RESET is down and `tmp` is what CTRL still holds.
* `DriverIsLegalMaster`: the driver on the block is the block under some legal master, so everything
  proved of the block holds in the system (`SystemWritesLand`, `SystemArrivalIsAPulse`).
* `CallsTakeEffectOnce` (`CallsAreAtomic`): each step of driver and block is a step of `ActuatorApi` or
  leaves calls and settings alone. A call's effect is the access cycle of its store. A reset counts
  as done when it is written, which is why the mapping shows the settings with a RESET that has not
  cleared itself yet already carried out.

### Console (`ConsoleProofs`)

* `Bookkeeping`: the invariant `IInv` of the transmitter. `NoOverwrite` alone is not inductive: it has
  to be known *which* half is in flight (`Slots`: the half next in turn is not the one in progress,
  until the shadow slot holds a transfer), and *what* it holds. `Copies` says that every transfer
  covers exactly what was copied for it, `Stream` that the bytes printed are those sent, then those
  left in the two slots, then those in the line; `Room` that a full line is never met by `putchar`.
* `HalvesAreSafe` (`NoOverwrite`), `NothingDropped` (`NoDrop`) follow, and `ConsoleImplementsChannel`
  (`ConsoleIsChannel`): every step is a `Put`, an `Emit`, or leaves both ends of the channel alone.
* `ConsoleHasTransmitter`: the composed console is a behaviour of the transmitter, whatever the
  receiver does to SETUP, so these hold there too.
* `TypedBytesAreRead` (`ReadAsTyped`): `Order` relates what was read to what is still buffered, both
  to what was typed, and allows garbage only once SETUP is not what `uart_open` wrote.
* `OnlyOverflowsDisturb` (`SentAsConfigured`): `Recovery` follows the one cause, a byte that found the
  receiver full, through the overflow flag and the two writes of the recovery to SETUP; `Opened` says
  that nothing is printed before SETUP is written.

### zForth (`ZForthProofs`)

For every session, every list of primitives and all sizes: also for words no session of the run has, which
leave the stacks unbalanced or overwrite the dictionary.

* `Safe` says that a machine is in its arrays. Each operator of the machine has a lemma that it keeps
  `Safe` and asks for nothing (`After`), from `PutCell` with its two ways to fail up to `Create`, then one
  lemma for each group of primitives; `DoPrimSafe` puts the groups together, and adds that a primitive
  which asks for input has changed nothing else (`Asks`). `StaysInItsArrays` (`StaysInMemory`, a part of
  `TypeOK`) follows.
* `AskIInv` adds that nothing is awaited while `run` or the bootstrap is going on, and that a machine
  which fails (the bootstrap ran out of room) awaits nothing and has not begun a word. So the suspended
  primitive is still what the dictionary has at `ip`: `InputGoesToTheAsker` (`AskerWaits`).

What the bytes of the dictionary mean, under `StoresSpareHeaders`:

* `RawRoundTrip` and `CellRoundTrip`: what `dict_put_cell_typed` encodes `dict_get_cell_typed` reads
  back, for each of the three lengths.
* Every operator makes one of three changes to the dictionary, or one after the other: it writes from
  HERE on and moves HERE up (`Grows`), puts a whole header there and makes it LATEST (`CreateEffect`),
  or sets the flag of the last word (`MakeImmediateEffect`). `create` does the second only after its
  last byte is in place, so an abort in the middle of it is still of the first kind.
* `Sound`, the inductive part, needs no recursion: the words are the least set that holds LATEST and
  is closed under links (`Words`), and each has a whole header, linked to one that ends before it
  begins. `SealedSound` says that a change which keeps the headers but for their flags (`Sealed`) keeps
  the words.
* `SoundIsChainSound` and `ListExists` lead from there to the recursive definitions of the properties: the walk of
  `find_word` ends because links go down, and the list of words is that of the link with one more.
  Both follow a recursive function by its least counterexample (`LeastCounterexample`, from the
  library's well-foundedness of the naturals), where the induction theorem itself cannot be used.
* `HeadersStayWhole` (`ChainSound`), `DictionaryImplementsWordList` (`DictionaryIsWordList`: each step
  is a step of `WordList` or leaves the list alone) and `CompiledCodeIsFinal` (`CodeIsKept`) follow.

### Flash boot, event waits and the UART's clock (`BootRomProofs`)

The invariant `BootIInv` follows the boot from reset or from the console:

* `EventsInv`: what each part of a wait has enabled; that a latched status bit means an event in the
  FIFO, except in the step that clears it; and how many reference ticks the turns of `wait_clock_ref`
  have seen, all but one that may have been latched before. `WaitsConsumeEvents` (`EventConsumed`) and
  `PowerUpTimeIsWaited` (`TicksWaited`) follow, on both ways into the boot.
* `ReadInv` (from reset): while `flash_read` waits there is either the one transfer it ordered and no
  event, or no transfer and its one event. This is what makes it harmless that `wait_soc_event` does
  not look at the event, and what fails when the console starts the boot (finding 5).
* `TableInv`: the header and table read are the image's, in the old `boot_code_t` before the move and
  in the new one after it, whatever was left there.
* `FitInv`: the place of `find_data_fit` is apart from the areas looked at so far. Moving it behind an
  area keeps that only because areas ascend; it is also apart from the padding that rounding up to
  blocks adds, because the place is block-aligned.
* `LoadInv`: so many areas are complete and so many bytes of this one as `dst`, `src`, `left` and the
  block counter say, which all count the same thing; the block read last is in memory or in the
  buffer; no block reaches an area in place or the loader's data.

`FlashBootTypes` (`TypeOK`), `FlashProgramIsLoaded` (`LoadedAtJump`), `LoaderDataIsSafe`
(`DataUntouched`) and `ProgramStartsQuiet` (`QuietAtJump`) follow. The last one is about the mask,
the lines, the FIFO and the status bit of the SoC events. The status bit of the reference clock is not
in it: a tick that comes after the last clear of `wait_clock_ref` (`boot_code.c:156`) stays latched,
with its line disabled.

`UartIsInRate` (`BaudRight`) has an invariant of its own. `ClockInv` follows the order of the calls:
the FLL is on before it is set, so CONF1 has the multiplier and divider of the frequency when the UART
is opened, and the pads of the UART are connected to it and claimed by nobody else. The rest is
arithmetic: `HighestBit` says that `__FL1` finds a bit (`Powers`, `PowersOfTwo`), `FllIsNear` that the
frequency the registers ask for is at most half a reference clock and one from the one asked for,
`DividerIsNear` that the divider is at most half a bit rate off, and `RatesAgree` that for a `Fast`
frequency both together stay in 2 %.

### S-record boot (`SrecProofs`, carried over in `BootRomProofs`)

* Lemmas say what a sent record is made of: its bytes, its digits, and that a byte read from its two
  digits is that byte (`BytesOfRecord`, `CharactersOfRecord`, `ByteIsTwoNibbles`).
* `ReaderInv` holds whatever the line does behind the heads of records: which states the reader can be
  in at which position, and that inside a record `length < byteCount <= LineMax`, outside both are 0.
  `ReaderStaysInBuffer` (`TypeOK`) and `RecordsBeginEmpty` (`SyncAtS`) follow. The hypothesis
  `HeadsIntact` is needed: each count that arrives as 0 leaves `length` one higher (finding 4), so
  enough of them leave the buffer.
* `InStep` (no faults): the reader has the type, the count and the bytes that were sent, or skips a
  record that is too long. `MemoryInv`: every data record behind the sender is in memory. A byte is
  stored as a word and clears three bytes above it; these are free because data ascends.
* `ProgramIsLoaded` (`LoadedAtEntry`) follows, for any line as long as no fault has happened.
* `DamageIsNoticed` (`NothingSilent`): the sum is a recursive function over the bytes, followed by its
  least counterexample (`SumsExist`, `SumsAgree`, `TotalIsSum`). The sums of two sequences that differ
  in one byte differ by what these differ by (`TotalGrows`), which is less than 256, so the low
  byte shows it (`LowBytesDiffer`, `OneWrongShows`), the checksum byte itself included. The invariant
  `Arriving` says what one fault can have done to the record being read: nothing, one wrong byte
  (`Aligned`, with `Wrong` a single place), or a lost digit that leaves the reader one character
  behind the sender to the end of the record (`Behind`), where the next "S" ends it a byte short.
* `SrecIsFollowed` shows that the boot ROM, seen from the reader, is `SrecBoot`; so
  `SrecProgramIsLoaded`, `SrecRecordsBeginEmpty`, `SrecDamageIsNoticed` and `BootTypes` (`BootTypeOK`)
  hold from reset.

### GPIO (`GpioProofs`)

* `Follows`: a pin sampled at the last *n* edges has the pad of the *n*-th of them in the *n*-th
  flip-flop. `InputsAreSynchronized` (`InputsOK`), `NoEdgeLost` (`EdgesReported`) and
  `LevelsKeepTriggering` follow under `RealStages`; the lemma `StatusStep` says that a clear takes
  what it names and no more.
* `LineIsHeld` (`HeldUntilCleared`), for every stage.

### Testbench and bit-bang server (`DebugBusLoaderProofs`, `RemoteBitbangProofs`)

* `BenchIInv`: what the bench drives in each wait (`Driven`), that on a fast enough bus the half cycles
  after a transaction let its last answer pass before the next request (`Quiet`, from the ages of what
  is due), what is in memory and who put it there (`Contents`), that words to do, written and failed
  add up and a word counted as written was answered, and stored if the bus is fast enough (`Counted`),
  and where a marker on its way came from (`Answers`). `MasterIsWellBehaved` (`MasterOK`),
  `LoadReportIsTrue` (`ReportIsTrue`) and `ReportedResultIsTrue` (`ResultIsTrue`) follow.
* `ServerIsCable` (`CableIsTransparent`): the TAP lags only between calls and catches up before the
  next one (`InTime`), the server polls only for a command that was sent (`Polls`), and what it last
  handed over is on the wires (`Handed`). So the cable may act at once.

### Only model-checked

* Liveness: `Arrives`, `DisableEndsIdle`, `FlushedArrives`, `Delivered`, `Boots`, `Ends`, `Drained`,
  `MakesRoom`. Fairness and ENABLED are outside the prover.
* Of the interpreter `EveryLineEnds` and the rest of `TypeOK`: they hold for the sessions of the run and
  not for every program. One may jump back for ever, drop its way back from the return stack, or
  overflow a cell.
* The properties of violation runs, which do not hold.

## 6. What is not modelled, and why

The implementation counts some 18500 lines of C, C++ and SystemVerilog outside of the generated register
files; most of them are register headers and accessor libraries (the pad register header alone has 4285
lines, the uDMA HyperBus header 999, the GPIO HAL 850, the RISC-V HAL 667, the timer header 617, emulated
builtins 331). They define constants, or accessors that nothing in the boot ROM calls. The models cover
about 2700 lines, which are nearly all of those that decide something.

* `uart_read`, `uart_close` and `pos_fll_deinit` have no caller. HyperFlash is compiled only with
  `PLP_UDMA_HAS_HYPER`, `DEBUG_BOOTROM` only adds output, and `crt0.S` only sets up stack and memory.
* Pads: `io_mux_gpio_set` and the electrical settings have no caller in the boot ROM.
* The APB and AXI wrappers of the GPIO block only convert the bus, and the boot ROM does not use its HAL.
* zForth: words of more than one character, number syntax, tracing and number formatting. The bootstrap
  text of `zforth-main.c` is input like any other; lines of its kind are in `MCZForth`.
* Verilator bench: the parsing of a line of hexadecimal text, and tracing.
* SoC top level, clock generators: structural wiring and vendor primitives. The interconnect, core,
  uDMA and event unit are other repositories.
* ROM images, build tools, register generator, JTAG packages: generated or vendored code, and one-pass
  conversions without state.

## 7. Plan

All components that carry logic are modelled, and every safety property that a run checks is proved,
except the two of section 5's last list. What could be added: images whose table is not ascending or
has more than `MAX_NB_AREA` areas (two hazards without a property; `ImagesAssumption` excludes both),
and the pad settings and HAL accessors once a program of this repository calls them.
