------------------------------ MODULE Actuator ------------------------------
(***************************************************************************)
(* The custom actuator peripheral, hw/custom_actuator_ctrl.sv, one step    *)
(* per clock edge.  Software reaches the block through an APB port; the    *)
(* variables phase and req are the port's signals in the current cycle.    *)
(* The interconnect that drives them is outside this repository, so the    *)
(* port may carry every sequence of transfers the APB protocol allows: one *)
(* setup cycle, then one access cycle (the block has no wait states).      *)
(*                                                                         *)
(* The 16-bit quantities of the RTL wrap and compare at MaxPos; the 32-bit *)
(* POSITION register is a pair of halves, of which only lo is a position.  *)
(* Bit 16, the lowest of hi, is the direction output.                      *)
(***************************************************************************)
EXTENDS Integers

CONSTANTS
  MaxPos,   \* largest 16-bit value: positions, velocities, PWM counter
  Upper,    \* upper halves software may write into POSITION
  Modes     \* values of CTRL.MODE software may write

ASSUME MaxPosAssumption == MaxPos \in Nat \ {0}
ASSUME UpperAssumption  == Upper \subseteq Nat /\ 0 \in Upper
ASSUME ModesAssumption  == 0 \in Modes

VARIABLES
  phase,        \* APB cycle type: psel_i and penable_i
  req,          \* the transfer on the port: pwrite_i, paddr_i, pwdata_i
  ctrl,         \* ctrl_reg_q
  position,     \* position_reg_q
  velocity,     \* velocity_reg_q[15:0]
  irqEnable,    \* config_reg_q[0]
  state,        \* state_q
  current,      \* current_position_q
  pwmCounter    \* pwm_counter_q

regs == <<ctrl, position, velocity, irqEnable>>
core == <<state, current, pwmCounter>>
vars == <<phase, req, regs, core>>

-----------------------------------------------------------------------------
(* Register contents and APB transfers *)

Word    == 0..MaxPos
Ctrl    == [enable: BOOLEAN, reset: BOOLEAN, mode: Modes]
CtrlZero == [enable |-> FALSE, reset |-> FALSE, mode |-> 0]
Target  == [hi: Upper, lo: Word]
TargetZero == [hi |-> 0, lo |-> 0]

Registers == {"CTRL", "STATUS", "POSITION", "VELOCITY", "FEEDBACK", "CONFIG"}

Write(r, d) == [write |-> TRUE, reg |-> r, data |-> d]
Read(r)     == [write |-> FALSE, reg |-> r, data |-> 0]

Transfers ==
  {Read(r) : r \in Registers}
    \cup {Write("CTRL", d) : d \in Ctrl}
    \cup {Write("POSITION", d) : d \in Target}
    \cup {Write("VELOCITY", d) : d \in Word}
    \cup {Write("CONFIG", d) : d \in BOOLEAN}
    \cup {Write(r, 0) : r \in {"STATUS", "FEEDBACK"}}

\* A register is written in the access cycle of a write transfer to it.
Written(r) == phase = "access" /\ req.write /\ req.reg = r

-----------------------------------------------------------------------------
(* One clock edge of the block *)

\* Fault: the reset bit is not self-clearing.
RegisterUpdateSticky ==
  /\ ctrl' = IF Written("CTRL") THEN req.data ELSE ctrl
  /\ position' = IF ctrl.reset THEN TargetZero
                 ELSE IF Written("POSITION") THEN req.data ELSE position
  /\ velocity' = IF ctrl.reset THEN 0
                 ELSE IF Written("VELOCITY") THEN req.data ELSE velocity
  /\ irqEnable' = IF Written("CONFIG") THEN req.data ELSE irqEnable

\* Fault: a reset waits until no move is in progress.
RegisterUpdateLazy ==
  LET clears == ctrl.reset /\ state # "POSITIONING" IN
  /\ ctrl' = IF clears THEN CtrlZero
             ELSE IF Written("CTRL") THEN req.data ELSE ctrl
  /\ position' = IF clears THEN TargetZero
                 ELSE IF Written("POSITION") THEN req.data ELSE position
  /\ velocity' = IF clears THEN 0
                 ELSE IF Written("VELOCITY") THEN req.data ELSE velocity
  /\ irqEnable' = IF Written("CONFIG") THEN req.data ELSE irqEnable

\* Software reset clears CTRL, POSITION and VELOCITY, and wins over a write
\* in the same cycle; CONFIG is not part of it.
RegisterUpdate ==
  /\ ctrl' = IF ctrl.reset THEN CtrlZero
             ELSE IF Written("CTRL") THEN req.data ELSE ctrl
  /\ position' = IF ctrl.reset THEN TargetZero
                 ELSE IF Written("POSITION") THEN req.data ELSE position
  /\ velocity' = IF ctrl.reset THEN 0
                 ELSE IF Written("VELOCITY") THEN req.data ELSE velocity
  /\ irqEnable' = IF Written("CONFIG") THEN req.data ELSE irqEnable

\* The comparison of the 32-bit target with the 16-bit position.
AtTarget == position.hi = 0 /\ position.lo = current

FsmNext ==
  CASE state = "IDLE" -> IF ctrl.enable THEN "RUNNING" ELSE "IDLE"
    [] state = "RUNNING" -> IF ~ctrl.enable THEN "IDLE"
                            ELSE IF AtTarget THEN "RUNNING" ELSE "POSITIONING"
    [] state = "POSITIONING" -> IF AtTarget THEN "RUNNING" ELSE "POSITIONING"
    [] OTHER -> IF ctrl.enable THEN "ERROR" ELSE "IDLE"

\* Faults: a move stops when the block is disabled; a move steps past its
\* target; a move only ever counts up.
CurrentNextGated ==
  IF state # "POSITIONING" \/ ~ctrl.enable THEN current
  ELSE IF current < position.lo THEN current + 1
  ELSE IF current > position.lo THEN current - 1
  ELSE current

CurrentNextPast ==
  IF state # "POSITIONING" THEN current
  ELSE IF current <= position.lo THEN current + 1
  ELSE IF current > position.lo THEN current - 1
  ELSE current

CurrentNextUpOnly ==
  IF state = "POSITIONING" /\ current < position.lo THEN current + 1 ELSE current

CurrentNext ==
  IF state # "POSITIONING" THEN current
  ELSE IF current < position.lo THEN current + 1
  ELSE IF current > position.lo THEN current - 1
  ELSE current

CoreUpdate ==
  /\ state' = FsmNext
  /\ current' = CurrentNext
  /\ pwmCounter' = (pwmCounter + 1) % (MaxPos + 1)

(* Outputs *)
Busy    == state \in {"RUNNING", "POSITIONING"}
Enabled == ctrl.enable /\ Busy

Pwm == IF pwmCounter < velocity THEN current ELSE 0

\* Fault: the interrupt is a level, not tied to the end of a move.
InterruptLevel == irqEnable /\ Busy /\ current = position.lo

Interrupt == irqEnable /\ state = "POSITIONING" /\ current = position.lo

-----------------------------------------------------------------------------
(* The APB master: any sequence of protocol-conforming transfers *)

NewTransfer == phase' = "setup" /\ req' \in Transfers

ApbIdle    == phase \in {"idle", "access"} /\ phase' = "idle" /\ req' = req
ApbSetup   == phase \in {"idle", "access"} /\ NewTransfer
ApbAccess  == phase = "setup" /\ phase' = "access" /\ req' = req

Init ==
  /\ phase = "idle"
  /\ req = Read("STATUS")
  /\ ctrl = CtrlZero
  /\ position = TargetZero
  /\ velocity = 0
  /\ irqEnable = FALSE
  /\ state = "IDLE"
  /\ current = 0
  /\ pwmCounter = 0

Tick == RegisterUpdate /\ CoreUpdate

Clock == Tick /\ (ApbIdle \/ ApbSetup \/ ApbAccess)

\* The asynchronous reset rst_ni, which also resets the bus.
HardReset ==
  /\ phase' = "idle"
  /\ req' = Read("STATUS")
  /\ ctrl' = CtrlZero
  /\ position' = TargetZero
  /\ velocity' = 0
  /\ irqEnable' = FALSE
  /\ state' = "IDLE"
  /\ current' = 0
  /\ pwmCounter' = 0

Next == Clock \/ HardReset

Spec == Init /\ [][Next]_vars

\* The clock does not stop.
FairSpec == Spec /\ WF_vars(Clock)

-----------------------------------------------------------------------------
(* Properties *)

\* Types of the registers; the ERROR state, for which the RTL has an encoding
\* and software a query (custom_actuator_has_error), is never entered.
TypeOK ==
  /\ phase \in {"idle", "setup", "access"}
  /\ req \in Transfers
  /\ ctrl \in Ctrl
  /\ position \in Target
  /\ velocity \in Word
  /\ irqEnable \in BOOLEAN
  /\ state \in {"IDLE", "RUNNING", "POSITIONING"}
  /\ current \in Word
  /\ pwmCounter \in Word

\* A software reset takes one cycle during which the register file ignores
\* CTRL, POSITION and VELOCITY writes.  That cycle is always the bus's idle
\* or setup cycle after the CTRL write, so no completed write is lost to it.
ResetOffBus == ctrl.reset => phase # "access"

\* Every write that completes on the bus is in its register afterwards: the
\* port is always ready, so software has no other way to learn of a lost one.
NoWriteLost ==
  [][Clock =>
       /\ Written("CTRL") => ctrl' = req.data
       /\ Written("POSITION") => position' = req.data
       /\ Written("VELOCITY") => velocity' = req.data
       /\ Written("CONFIG") => irqEnable' = req.data]_vars

\* With plain 16-bit targets the interrupt is a one-cycle pulse: arriving at
\* a target raises it once, even if software moves the target in that cycle.
IrqPulse ==
  [][Clock /\ Interrupt /\ position.hi = 0 => ~Interrupt']_vars

\* A block that software leaves enabled with a 16-bit target arrives there
\* and then stays out of POSITIONING, also after retargeting and resets.
Arrives ==
  \A t \in Word :
    <>[](ctrl.enable /\ position = [hi |-> 0, lo |-> t])
      => <>[](current = t /\ state = "RUNNING")

\* A block that software leaves disabled with a 16-bit target goes idle, also
\* when it was disabled in the middle of a move (POSITIONING ignores ENABLE;
\* a target that keeps changing can hold it there, so the target is kept).
Idles(t) == <>[](~ctrl.enable /\ position = t) => <>[](state = "IDLE")

DisableEndsIdle == \A t \in Target : t.hi = 0 => Idles(t)

\* The direction output is bit 16 of the target, so a target may have it
\* set; a block left disabled with such a target goes idle as well.
DirectedMoveEnds == \A t \in Target : Idles(t)

=============================================================================
