-------------------------------- MODULE Pads --------------------------------
(***************************************************************************)
(* The pad multiplexer as the boot ROM uses it: io_mux_mode_set of         *)
(* io_mux.c selects what a pad is connected to, io_mux_expose_uart and     *)
(* io_mux_expose_spi of boot_code.c connect the boot's peripherals.  The   *)
(* board is wired for the default pads of boot_code.c.  Of the muxer       *)
(* (pulpissimo_padframe_all_pads_muxer.sv) only the connections are kept:  *)
(* a signal that no pad selects reads 0, and of several pads that select   *)
(* an input the lowest one drives it.                                      *)
(***************************************************************************)
EXTENDS Integers, FiniteSetsExt

CONSTANT PadCount    \* pads modelled, from pad 0 up

ASSUME PadCountAssumption == PadCount \in Nat /\ PadCount >= 6

VARIABLE padMode     \* the MUX_SEL register of each pad

PadSet == 0 .. PadCount - 1

UartSignals == {"UART0_TX", "UART0_RX"}
SpiSignals  == {"QSPIM0_SCK", "QSPIM0_CSN0", "QSPIM0_SDIO0", "QSPIM0_SDIO1"}
Modes       == {"GPIO"} \cup UartSignals \cup SpiSignals

\* The pads the board expects the signals at.
Wiring(signal) ==
  CASE signal = "UART0_TX"     -> 0
    [] signal = "UART0_RX"     -> 1
    [] signal = "QSPIM0_SCK"   -> 2
    [] signal = "QSPIM0_CSN0"  -> 3
    [] signal = "QSPIM0_SDIO0" -> 4
    [] signal = "QSPIM0_SDIO1" -> 5

ModeSet(m, pad, mode) == [m EXCEPT ![pad] = mode]

ExposeUart ==
  padMode' = ModeSet(ModeSet(padMode, 0, "UART0_TX"), 1, "UART0_RX")

ExposeSpi ==
  padMode' = ModeSet(ModeSet(ModeSet(ModeSet(padMode,
               2, "QSPIM0_SCK"), 3, "QSPIM0_CSN0"),
               4, "QSPIM0_SDIO0"), 5, "QSPIM0_SDIO1")

PadsInit == padMode = [p \in PadSet |-> "GPIO"]

Selecting(signal) == {p \in PadSet : padMode[p] = signal}

\* The signal is at its pad and that pad alone.
Routed(signal) == Selecting(signal) = {Wiring(signal)}

\* What the muxer feeds an input of the SoC that outside drives with v.
Input(signal, v, unconnected) ==
  IF Selecting(signal) # {} /\ Min(Selecting(signal)) = Wiring(signal)
  THEN v ELSE unconnected

UartRouted == \A s \in UartSignals : Routed(s)
SpiRouted  == \A s \in SpiSignals : Routed(s)
=============================================================================
