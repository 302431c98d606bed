------------------------------ MODULE SocEvents ------------------------------
(***************************************************************************)
(* Waiting in the boot ROM: wait_soc_event and wait_clock_ref of           *)
(* boot_code.c, lines 139-159, against the event unit and the interrupt    *)
(* controller.                                                             *)
(*                                                                         *)
(* Both devices are outside this repository and modelled from how          *)
(* hal/soc_eu/soc_eu_v3.h and hal/itc/itc_v1.h use them.  Peripheral       *)
(* events that are not masked enter a FIFO, or are lost when it is full;   *)
(* while the FIFO holds an event the controller latches its SOC status     *)
(* bit.  Ticks of the reference clock latch the CLK bit.  wfi ends when a  *)
(* latched bit is enabled.                                                 *)
(***************************************************************************)
EXTENDS Integers, Sequences

CONSTANTS
  Events,     \* the peripheral events
  FifoDepth,  \* events the FIFO holds
  NbTicks     \* turns of wait_clock_ref, 20

ASSUME FifoDepthAssumption == FifoDepth \in Nat \ {0}
ASSUME NbTicksAssumption == NbTicks \in Nat \ {0}

VARIABLES
  unmasked,   \* the events the FC event mask lets through
  fifo,       \* the event FIFO
  status,     \* latched bits of the interrupt controller
  enabled,    \* enabled bits of it
  waiting,    \* where the processor is in a wait, or "no"
  ticksLeft,  \* turns left in the loop of wait_clock_ref
  ticks       \* history: clock ticks since that wait began

controller == <<unmasked, fifo, status, enabled>>
waiter     == <<waiting, ticksLeft, ticks>>
evars      == <<controller, waiter>>

Lines == {"SOC", "CLK"}

-----------------------------------------------------------------------------
(* The event unit and the interrupt controller *)

\* A peripheral raises e.
Raise(e) ==
  /\ fifo' = IF e \in unmasked /\ Len(fifo) < FifoDepth THEN Append(fifo, e) ELSE fifo
  /\ UNCHANGED <<unmasked, status, enabled>>

Latch ==
  /\ fifo # <<>> /\ "SOC" \notin status
  /\ status' = status \cup {"SOC"}
  /\ UNCHANGED <<unmasked, fifo, enabled, waiter>>

\* The history is kept up to NbTicks.
ClockRef ==
  /\ status' = status \cup {"CLK"}
  /\ ticks' = IF waiting # "no" /\ ticks < NbTicks THEN ticks + 1 ELSE ticks
  /\ UNCHANGED <<unmasked, fifo, enabled, waiting, ticksLeft>>

-----------------------------------------------------------------------------
(* Event masks; a set bit of the register masks an event *)

EventMaskReset == unmasked' = {} /\ UNCHANGED <<fifo, status, enabled>>

SetEvent(e) == unmasked' = unmasked \cup {e} /\ UNCHANGED <<fifo, status, enabled>>

-----------------------------------------------------------------------------
(* wait_soc_event *)

WaitSocEvent ==
  /\ waiting' = "soc"
  /\ UNCHANGED <<ticksLeft, ticks>>

\* The enable, and the poll of the status bit around wfi.
SocEnable ==
  /\ waiting = "soc"
  /\ enabled' = enabled \cup {"SOC"}
  /\ waiting' = "poll"
  /\ UNCHANGED <<unmasked, fifo, status, ticksLeft, ticks>>

SocPoll ==
  /\ waiting = "poll"
  /\ "SOC" \in status
  /\ waiting' = "pop"
  /\ UNCHANGED <<controller, ticksLeft, ticks>>

\* The popped event is not looked at.
FifoPop ==
  /\ waiting = "pop"
  /\ fifo' = IF fifo = <<>> THEN <<>> ELSE Tail(fifo)
  /\ waiting' = "clear"
  /\ UNCHANGED <<unmasked, status, enabled, ticksLeft, ticks>>

\* Fault: the status bit is left set.
SocClearNone ==
  /\ waiting = "clear"
  /\ waiting' = "disable"
  /\ UNCHANGED <<controller, ticksLeft, ticks>>

SocClear ==
  /\ waiting = "clear"
  /\ status' = status \ {"SOC"}
  /\ waiting' = "disable"
  /\ UNCHANGED <<unmasked, fifo, enabled, ticksLeft, ticks>>

\* Fault: the line is left enabled.
SocDisableNone ==
  /\ waiting = "disable"
  /\ waiting' = "no"
  /\ UNCHANGED <<controller, ticksLeft, ticks>>

SocDisable ==
  /\ waiting = "disable"
  /\ enabled' = enabled \ {"SOC"}
  /\ waiting' = "no"
  /\ UNCHANGED <<unmasked, fifo, status, ticksLeft, ticks>>

-----------------------------------------------------------------------------
(* wait_clock_ref(NbTicks) *)

WaitClockRef ==
  /\ enabled' = enabled \cup {"CLK"}
  /\ waiting' = "tick"
  /\ ticksLeft' = NbTicks
  /\ ticks' = 0
  /\ UNCHANGED <<unmasked, fifo, status>>

\* wfi ends at any enabled bit; the cause is not looked at.
Wfi ==
  /\ waiting = "tick"
  /\ ticksLeft > 0
  /\ status \cap enabled # {}
  /\ waiting' = "tock"
  /\ UNCHANGED <<controller, ticksLeft, ticks>>

\* Fault: the tick is not acknowledged.
TickClearNoStatus ==
  /\ waiting = "tock"
  /\ ticksLeft' = ticksLeft - 1
  /\ waiting' = "tick"
  /\ UNCHANGED <<controller, ticks>>

TickClear ==
  /\ waiting = "tock"
  /\ status' = status \ {"CLK"}
  /\ ticksLeft' = ticksLeft - 1
  /\ waiting' = "tick"
  /\ UNCHANGED <<unmasked, fifo, enabled, ticks>>

TicksDone ==
  /\ waiting = "tick"
  /\ ticksLeft = 0
  /\ enabled' = enabled \ {"CLK"}
  /\ waiting' = "no"
  /\ UNCHANGED <<unmasked, fifo, status, ticksLeft, ticks>>

Wait == \/ SocEnable \/ SocPoll \/ FifoPop \/ SocClear \/ SocDisable
        \/ Wfi \/ TickClear \/ TicksDone

-----------------------------------------------------------------------------
\* The events in u are unmasked; a tick may be latched already.
EventsInit(u) ==
  /\ unmasked = u
  /\ fifo = <<>>
  /\ status \in SUBSET {"CLK"}
  /\ enabled = {}
  /\ waiting = "no"
  /\ ticksLeft = 0
  /\ ticks = 0

EventsTypeOK ==
  /\ unmasked \subseteq Events
  /\ fifo \in Seq(Events) /\ Len(fifo) <= FifoDepth
  /\ status \subseteq Lines
  /\ enabled \subseteq Lines
  /\ waiting \in {"no", "soc", "poll", "pop", "clear", "disable", "tick", "tock"}
  /\ ticksLeft \in 0..NbTicks
  /\ ticks \in 0..NbTicks
=============================================================================
