------------------------------- MODULE BootRom -------------------------------
(***************************************************************************)
(* The boot ROM from reset: main of boot_code.c reads the boot mode and    *)
(* goes to the debugger's wait loop, to the flash boot, to the program     *)
(* already in memory, or to the zForth console, from where the user's      *)
(* command starts the flash boot, the S-record boot or the wait loop.      *)
(* This is the build for the chip: CONFIG_FLL and ENABLE_ZFORTH_BOOT.      *)
(*                                                                         *)
(* It composes the FLL driver, the pads, the flash boot with its event     *)
(* waits, and the S-record boot.  Of the console only what the boots can   *)
(* notice is here: it opens the UART, and its transfers raise events.  The *)
(* console's own text is the subject of modules Console and ZForth.        *)
(***************************************************************************)
EXTENDS FlashBoot, Fll

CONSTANTS
  Frequencies,  \* values of PERIPH_FREQUENCY
  Nominal,      \* the one the boots are followed with
  Baudrate,     \* UART_BAUDRATE, 115200
  \* of SrecBoot
  LineMax, Digits, Files, Exposed, MaxFaults, MaxIgnored

ASSUME FrequenciesAssumption == Nominal \in Frequencies /\ Frequencies \subseteq Nat
ASSUME BaudrateAssumption == Baudrate \in Nat \ {0}
ASSUME LineMaxAssumption == LineMax \in Nat /\ LineMax >= 6
ASSUME DigitsAssumption == Digits \subseteq 0..15
ASSUME SrecBoundsAssumption == MaxFaults \in Nat /\ MaxIgnored \in Nat

VARIABLES
  bootsel,    \* the boot mode pins
  command,    \* what the user will type at the console
  frequency,  \* PERIPH_FREQUENCY of the build
  stage,      \* where the boot is
  uartDiv,    \* the UART's clock divider, 0 before uart_open
  \* of SrecBoot
  recordType, readState, byteCount, length, data, callback,
  file, record, position, faults, ignored, srecMem, entry

Srec == INSTANCE SrecBoot WITH mem <- srecMem

\* The sender's files are S-record files; kk_srec.c takes them as they come.
ASSUME FilesAssumption == \A f \in Files : Srec!FileOK(f)

choice == <<bootsel, command, frequency>>
flash  == <<fvars, padMode>>
srec   == <<recordType, readState, byteCount, length, data, callback,
            file, record, position, faults, ignored, srecMem, entry>>
vars   == <<choice, stage, uartDiv, fll, flash, srec>>

\* The boots that the pins and the command lead to.
FlashPath == bootsel = 2 \/ (bootsel = 0 /\ command = "BOOT_FLASH")
SrecPath  == bootsel = 0 /\ command = "BOOT_UART"

-----------------------------------------------------------------------------
(* main *)

Stage(from, to) == stage = from /\ stage' = to /\ UNCHANGED choice

SelectBoot ==
  /\ Stage("reset", CASE bootsel = 0 -> "constructor"
                      [] bootsel = 1 -> "jtag"
                      [] bootsel = 2 -> "expose_spi"
                      [] bootsel = 3 -> "preloaded")
  /\ UNCHANGED <<uartDiv, fll, flash, srec>>

\* The peripherals' clock for the console.
SetClock ==
  /\ \/ Stage("constructor", "fll_init") /\ FllConstructor
     \/ Stage("fll_init", "fll_set") /\ FllInit
     \/ Stage("fll_set", "expose_uart") /\ FllSetFreq(frequency)
  /\ UNCHANGED <<uartDiv, flash, srec>>

ConnectUart ==
  /\ Stage("expose_uart", "open")
  /\ ExposeUart
  /\ UNCHANGED <<uartDiv, fll, fvars, srec>>

\* uart_open, from zforth_main and again from boot_srec_uart: both events of
\* the channel, and the divider for the frequency of the build.
UartOpen ==
  /\ \/ Stage("open", "console")
     \/ Stage("srec_open", "srec")
  /\ unmasked' = unmasked \cup {UartRx, UartTx}
  /\ uartDiv' = (frequency + Baudrate \div 2) \div Baudrate
  /\ UNCHANGED <<fifo, status, enabled, waiter, program, devices, padMode, fll, srec>>

\* The console prints; followed only where a later boot waits for events.
PrintLine ==
  /\ stage = "console"
  /\ command = "BOOT_FLASH"
  /\ prints < MaxPrints
  /\ prints' = prints + 1
  /\ uart' = uart + 1
  /\ UNCHANGED <<choice, stage, uartDiv, fll, evars, program, mem, transfers, padMode, srec>>

\* boot_qspi: main connects the flash first, the console's command does not.
StartFlash ==
  /\ \/ Stage("expose_spi", "qspi") /\ ExposeSpi
     \/ command = "BOOT_FLASH" /\ Stage("console", "qspi") /\ UNCHANGED padMode
  /\ BootQspi
  /\ UNCHANGED <<uartDiv, fll, srec>>

StartSrec ==
  /\ command = "BOOT_UART" /\ Stage("console", "srec_open")
  /\ UNCHANGED <<uartDiv, fll, flash, srec>>

StartJtag ==
  /\ command = "BOOT_JTAG" /\ Stage("console", "jtag")
  /\ UNCHANGED <<uartDiv, fll, flash, srec>>

StartPreloaded ==
  /\ Stage("preloaded", "started")
  /\ UNCHANGED <<uartDiv, fll, flash, srec>>

Main    == SelectBoot \/ SetClock \/ ConnectUart \/ UartOpen \/ StartPreloaded
Command == PrintLine \/ StartFlash \/ StartSrec \/ StartJtag

-----------------------------------------------------------------------------
(* The boots *)

Around == UNCHANGED <<choice, stage, uartDiv, fll, padMode, srec>>

QspiStep == stage = "qspi" /\ Processor /\ Around

\* The devices, where somebody will wait for them.
ClockStep == FlashPath /\ ClockRef /\ UNCHANGED <<program, devices>> /\ Around
LatchStep == Latch /\ UNCHANGED <<program, devices>> /\ Around
SpiStep   == SpiDone /\ Around
UartStep  == UartDone /\ Around

Outside == UNCHANGED <<choice, stage, uartDiv, fll, flash>>

SrecSend  == stage = "srec" /\ Srec!Send /\ Outside
SrecNoise == stage = "srec" /\ (Srec!SendOther \/ Srec!Corrupt \/ Srec!Lose) /\ Outside

-----------------------------------------------------------------------------
Init ==
  /\ bootsel \in 0..3
  /\ command \in {"BOOT_FLASH", "BOOT_UART", "BOOT_JTAG"}
  /\ frequency \in Frequencies
  /\ command # "BOOT_JTAG" => frequency = Nominal
  /\ bootsel # 0 => command = "BOOT_FLASH"
  /\ stage = "reset"
  /\ uartDiv = 0
  /\ FllReset
  /\ PadsInit
  /\ EventsInit({})
  /\ LoaderInit
  /\ entered = IF bootsel = 2 THEN "reset" ELSE "console"
  /\ ~FlashPath => /\ image = CHOOSE im \in Images : TRUE
                   /\ table["old"] = Table(CHOOSE l \in Leftovers : TRUE)
                   /\ status = {}
  /\ Srec!Init
  /\ ~SrecPath => file = CHOOSE f \in Files : TRUE

Next ==
  \/ Main \/ Command
  \/ QspiStep \/ ClockStep \/ LatchStep \/ SpiStep \/ UartStep
  \/ SrecSend \/ SrecNoise

Spec == Init /\ [][Next]_vars

\* The processor runs, with the sender's next character when it waits for one,
\* and the clock, the interrupt controller and the SPI master go on.  Nothing
\* makes the user type a command, and no boot waits for the UART to be idle.
Running == Main \/ (bootsel = 2 /\ StartFlash) \/ QspiStep \/ SrecSend

FairSpec ==
  /\ Spec
  /\ WF_vars(Running) /\ WF_vars(ClockStep) /\ WF_vars(LatchStep) /\ WF_vars(SpiStep)

-----------------------------------------------------------------------------
(* Properties *)

\* A boot, once chosen, starts its program: no wait of boot_qspi hangs,
\* whatever events the console left behind, boot_srec_uart starts every file
\* that arrives without faults, and for the modes 2 and 3 main gets there
\* from reset.
Launched ==
  IF SrecPath THEN Srec!Started
  ELSE IF bootsel = 3 THEN stage = "started" ELSE pc = "jumped"
Boots == (bootsel \in {2, 3} \/ stage \in {"qspi", "srec"}) ~> Launched

\* Types of the boots: the flash boot stays in its memory, and the reader of
\* S-records in its buffer, at every record length.
BootTypeOK == TypeOK /\ Srec!TypeOK

\* The S-record boot starts the program that was sent (see SrecBoot).
LoadedAtEntry == Srec!LoadedAtEntry

\* After an "S" a record begins with an empty buffer (see SrecBoot).
SyncAtS == Srec!SyncAtS

\* A damaged record is never passed on as a good one (see SrecBoot).
NothingSilent == Srec!NothingSilent

\* Whoever uses the UART is connected to it, and the FLL's frequency and the
\* UART's divider, set from the same constant in two places, agree to 2 %.
Difference(a, b) == IF a > b THEN a - b ELSE b - a
BaudRight ==
  stage \in {"console", "srec"} =>
    /\ UartRouted
    /\ Difference(Applied, Baudrate * uartDiv) <= Applied \div 50

\* What the boot from the console promises, one way or the other: that
\* flash_read has its data when it returns, or that the flash is connected.
FlashCommandWorks == []ReadDone \/ []ReadConnected

=============================================================================
