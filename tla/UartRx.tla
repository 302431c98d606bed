------------------------------- MODULE UartRx -------------------------------
(***************************************************************************)
(* The receive side of the console from one uart_open on: uart_read_char of*)
(* zforth-riscv/udma.c with the register accesses of hal/udma/uart/        *)
(* uart_rb.h, and hal_uart_disable as flash_deinit calls it.  SETUP is the *)
(* set of its bits that are 1; the divider's sixteen bits are two, those   *)
(* uart_open sets and the others.                                          *)
(*                                                                         *)
(* The UART itself is hardware outside this repository: a receive buffer   *)
(* of Depth bytes that raises the overflow flag when a byte finds it full, *)
(* delivers nothing readable when SETUP is not the one of uart_open, and   *)
(* is emptied while CLEAN_FIFO is 1.  Whether reading ERROR clears the     *)
(* flag is left open.                                                      *)
(***************************************************************************)
EXTENDS Integers, Sequences

CONSTANTS Depth,      \* bytes the receiver can hold
          MaxBytes    \* bound: bytes sent in a behaviour, numbered 1, 2, ...

VARIABLES
  setup,      \* the SETUP register
  buffer,     \* received bytes not read yet
  overflow,   \* ERROR.RX_ERR_OVERFLOW
  sent,       \* bytes the other side has sent
  got,        \* history: bytes uart_read_char returned
  pc          \* where the processor is

vars == <<setup, buffer, overflow, sent, got, pc>>

Bits == {"PARITY_ENA", "BIT_LENGTH", "STOP_BITS", "POLLING_EN", "CLEAN_FIFO",
         "TX_ENA", "RX_ENA", "CLKDIV_SET", "CLKDIV_REST"}

RegSet(field, v) == IF v = 1 THEN {field} ELSE {}

\* hal_uart_setup(channel, 0, 1, div - 1)
Configured ==
  RegSet("TX_ENA", 1) \cup RegSet("RX_ENA", 1) \cup RegSet("BIT_LENGTH", 1)
    \cup RegSet("PARITY_ENA", 0) \cup RegSet("POLLING_EN", 1) \cup {"CLKDIV_SET"}

Garbage == 0

-----------------------------------------------------------------------------
(* The UART *)

\* Fault: the receiver keeps a byte twice.
ReceiveTwice ==
  /\ sent < MaxBytes
  /\ sent' = sent + 1
  /\ IF Len(buffer) < Depth
     THEN buffer' = buffer \o <<sent', sent'>> /\ UNCHANGED overflow
     ELSE overflow' = TRUE /\ UNCHANGED buffer
  /\ UNCHANGED <<setup, got, pc>>

\* A byte arrives; with another SETUP it is unreadable or not noticed at all.
Receive ==
  /\ sent < MaxBytes
  /\ sent' = sent + 1
  /\ \/ /\ setup = Configured
        /\ IF Len(buffer) < Depth
           THEN buffer' = Append(buffer, sent') /\ UNCHANGED overflow
           ELSE overflow' = TRUE /\ UNCHANGED buffer
     \/ /\ setup # Configured
        /\ "RX_ENA" \in setup /\ Len(buffer) < Depth
        /\ buffer' = Append(buffer, Garbage)
        /\ UNCHANGED overflow
     \/ /\ setup # Configured
        /\ UNCHANGED <<buffer, overflow>>
  /\ UNCHANGED <<setup, got, pc>>

\* A register write; CLEAN_FIFO empties the buffer.
WriteSetup(v) ==
  /\ setup' = v
  /\ buffer' = IF "CLEAN_FIFO" \in v THEN <<>> ELSE buffer

-----------------------------------------------------------------------------
(* The processor *)

UartOpen ==
  /\ pc = "closed"
  /\ WriteSetup(Configured)
  /\ pc' = "check"
  /\ UNCHANGED <<overflow, sent, got>>

\* Faults: the buffer is cleared before every byte; a byte is only read when
\* no overflow is flagged.
CheckOverflowClears ==
  /\ pc = "check"
  /\ pc' = "clear"
  /\ overflow' \in {overflow, FALSE}
  /\ UNCHANGED <<setup, buffer, sent, got>>

CheckOverflowSpins ==
  /\ pc = "check"
  /\ pc' = IF overflow THEN "check" ELSE "poll"
  /\ UNCHANGED <<setup, buffer, overflow, sent, got>>

\* uart_read_char looks at the overflow flag once per byte.
CheckOverflow ==
  /\ pc = "check"
  /\ pc' = IF overflow THEN "clear" ELSE "poll"
  /\ overflow' \in {overflow, FALSE}
  /\ UNCHANGED <<setup, buffer, sent, got>>

\* hal_uart_clear_rx_fifo, its two writes of SETUP.
ClearRxFifo1 ==
  /\ pc = "clear"
  /\ WriteSetup(setup \cup (Bits \ RegSet("CLEAN_FIFO", 1)))
  /\ pc' = "cleared"
  /\ UNCHANGED <<overflow, sent, got>>

ClearRxFifo2 ==
  /\ pc = "cleared"
  /\ WriteSetup(setup \cap (Bits \ RegSet("CLEAN_FIFO", 1)))
  /\ pc' = "poll"
  /\ UNCHANGED <<overflow, sent, got>>

\* The poll of VALID and the read of DATA, which takes the byte.
ReadData ==
  /\ pc = "poll"
  /\ buffer # <<>>
  /\ got' = Append(got, Head(buffer))
  /\ buffer' = Tail(buffer)
  /\ pc' = "check"
  /\ UNCHANGED <<setup, overflow, sent>>

\* flash_deinit: hal_uart_disable(0), at any moment between two reads.
UartDisable ==
  /\ pc \in {"closed", "check"}
  /\ WriteSetup(setup \cup RegSet("TX_ENA", 0) \cup RegSet("RX_ENA", 0))
  /\ pc' = "disabled"
  /\ UNCHANGED <<overflow, sent, got>>

-----------------------------------------------------------------------------
Init ==
  /\ setup = {}
  /\ buffer = <<>>
  /\ overflow = FALSE
  /\ sent = 0
  /\ got = <<>>
  /\ pc = "closed"

ReadChar == CheckOverflow \/ ClearRxFifo1 \/ ClearRxFifo2 \/ ReadData

Next == Receive \/ UartOpen \/ ReadChar \/ UartDisable

Spec == Init /\ [][Next]_vars

\* The processor keeps reading; the other side may stop.
FairSpec == Spec /\ WF_vars(ReadChar)

-----------------------------------------------------------------------------
(* Properties *)

TypeOK ==
  /\ setup \subseteq Bits
  /\ buffer \in Seq(0..MaxBytes) /\ Len(buffer) <= Depth
  /\ overflow \in BOOLEAN
  /\ sent \in 0..MaxBytes
  /\ got \in Seq(0..MaxBytes)
  /\ pc \in {"closed", "check", "clear", "cleared", "poll", "disabled"}

\* Bytes are returned in the order they were sent and none twice, whatever
\* was lost in between.
InOrder ==
  \A i, j \in 1..Len(got) :
    i < j /\ got[i] # Garbage /\ got[j] # Garbage => got[i] < got[j]

\* An open console that never overflowed returns only what was sent.
NoGarbage == Garbage \in {got[i] : i \in 1..Len(got)} => setup # Configured

\* A byte in the buffer of a console that stays open is returned.
Delivered == (buffer # <<>> /\ pc # "closed") ~> (buffer = <<>> \/ pc = "disabled")

\* The two helpers that rewrite SETUP: hal_uart_clear_rx_fifo empties the
\* buffer and leaves the configuration as it was,
ClearOk == pc = "cleared" => buffer = <<>> /\ setup \ {"CLEAN_FIFO"} = Configured

\* and hal_uart_disable leaves neither transmitter nor receiver enabled.
DisableOk == pc = "disabled" => {"TX_ENA", "RX_ENA"} \cap setup = {}

\* At least one of hal_uart_clear_rx_fifo and hal_uart_disable does what its
\* comment says, throughout a behaviour.
SetupWorks == []ClearOk \/ []DisableOk

=============================================================================
