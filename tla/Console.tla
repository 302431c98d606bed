------------------------------ MODULE Console ------------------------------
(***************************************************************************)
(* The console as the interpreter uses it (zforth-main.c, zforth_main): one*)
(* processor opens the UART, reads what is typed with uart_read_char and   *)
(* prints with putchar and fflush.  Both directions are on one UART, whose *)
(* SETUP register the recovery from a receive overflow rewrites while      *)
(* transfers are on the wire.  The uDMA channel and the other side run     *)
(* while the processor reads, prints or polls.                             *)
(***************************************************************************)
EXTENDS UartTx

CONSTANTS
  Depth,      \* bytes the receiver can hold
  MaxTyped    \* bound: bytes typed in a behaviour

ASSUME DepthAssumption == Depth \in Nat \ {0}
ASSUME MaxTypedAssumption == MaxTyped \in Nat

VARIABLES
  setup, buffer, overflow, sent, got,   \* as in UartRx
  rxPc,                                 \* its pc
  mixed,      \* history: a byte left with another SETUP than uart_open's
  overflowed  \* history: a byte found the receiver full

Rx == INSTANCE UartRx WITH MaxBytes <- MaxTyped, pc <- rxPc

receiver == <<setup, buffer, overflow, sent, got, rxPc>>
history  == <<mixed, overflowed>>
cvars    == <<vars, receiver, history>>

-----------------------------------------------------------------------------
(* One processor: it prints between two reads, and reads between two prints.*)

Reading  == pc = "ready"
Printing == rxPc = "check"

\* A byte that arrives when the receiver is full is noted.
Type ==
  /\ Rx!Receive
  /\ overflowed' = (overflowed \/ (setup = Rx!Configured /\ Len(buffer) >= Depth))
  /\ UNCHANGED <<vars, mixed>>

Open == Rx!UartOpen /\ UNCHANGED <<vars, history>>

Read == Reading /\ Rx!ReadChar /\ UNCHANGED <<vars, history>>

Disable == Reading /\ Rx!UartDisable /\ UNCHANGED <<vars, history>>

Call == /\ Printing
        /\ (\E c \in Chars : Putchar(c)) \/ Fflush
        /\ UNCHANGED <<receiver, history>>

PrintByte == Printing /\ UartWrite /\ UNCHANGED <<receiver, history>>

\* A byte that leaves while SETUP is another one is counted.
Transmit ==
  /\ Udma
  /\ mixed' = (mixed \/ (out' # out /\ setup # Rx!Configured))
  /\ UNCHANGED <<receiver, overflowed>>

ConsoleInit == Init /\ Rx!Init /\ mixed = FALSE /\ overflowed = FALSE

ConsoleNext == Type \/ Open \/ Read \/ Disable \/ Call \/ PrintByte \/ Transmit

ConsoleSpec == ConsoleInit /\ [][ConsoleNext]_cvars

\* A call that began runs on, the channel keeps sending, and the interpreter
\* does not print for ever without reading again.
ConsoleFairSpec ==
  /\ ConsoleSpec
  /\ WF_cvars(PrintByte)
  /\ WF_cvars(Transmit)
  /\ SF_cvars(Read)

-----------------------------------------------------------------------------
(* Properties *)

\* What is read: bytes in the order they were typed and none twice, whatever
\* was printed or lost in between, and in a console that never overflowed
\* nothing else.
ReadAsTyped == Rx!TypeOK /\ Rx!InOrder /\ Rx!NoGarbage

\* A typed byte that reached the buffer is read, although the processor
\* prints, and polls for the shadow slot, in between.
Delivered == Rx!Delivered

\* Only an overflow that happened disturbs a transmission: as long as no byte
\* found the receiver full, every byte leaves with the SETUP of uart_open.
\* uart_read_char clears the FIFO for no other reason, nothing is printed
\* before uart_open, and flash_deinit changes nothing.
SentAsConfigured == mixed => overflowed

=============================================================================
