-------------------------------- MODULE Gpio --------------------------------
(***************************************************************************)
(* The GPIO peripheral, hw/vendored_ips/gpio/src/gpio.sv, with its register*)
(* file and its input stages, one step per clock edge.  A register with a  *)
(* bit per pin is the set of the pins whose bit is set.                    *)
(*                                                                         *)
(* Three input stages exist: "gated" (gpio_input_stage.sv, the stage of the*)
(* chip), "plain" (gpio_input_stage_no_clk_gates.sv, for FPGAs) and "stub" *)
(* (hw/stubs/gpio_input_stage_stub.sv, the Verilator build).  The pads may *)
(* take any value in every cycle; software may write any register in every *)
(* cycle, which is what the register interface accepts.                    *)
(***************************************************************************)
EXTENDS Naturals, FiniteSets

CONSTANTS
  Pins,       \* the GPIOs; gpio_reg_pkg has 32 of them
  Wired,      \* the pins whose pad something outside drives
  Stages,     \* the input stages the run builds the peripheral with
  Values,     \* the values software writes into a register with a bit per pin
  ModeValues, \* the values software writes into GPIO_MODE
  MaxWrites   \* bound on writes to registers other than the status registers

ASSUME WiredAssumption  == Wired \subseteq Pins
ASSUME StagesAssumption == Stages \subseteq {"gated", "plain", "stub"}
ASSUME ValuesAssumption == Values \subseteq SUBSET Pins
ASSUME ModeValuesAssumption ==
  ModeValues \subseteq [Pins -> {"input", "active", "drain0", "drain1"}]
ASSUME MaxWritesAssumption == MaxWrites \in Nat

VARIABLES
  stage,      \* the input stage of this build
  pad,        \* gpio_in
  ff1, ff2,   \* the two flip-flops of the synchroniser
  serialQ,    \* serial_q, the flip-flop behind it (none in the stub)
  mode, en, out,        \* GPIO_MODE, GPIO_EN, GPIO_OUT
  cfg,        \* CFG: which interrupt outputs hold until cleared
  intrptEn,   \* INTRPT_*_EN
  status,     \* INTRPT_*_STATUS
  acked,      \* ghost: the pins software cleared a status bit of in the last cycle
  before,     \* ghost: the pads at the last three edges, newest first
  steady,     \* ghost: for how many edges each pin has been sampled, up to 3
  writes      \* number of bounded writes so far

inputs == <<stage, pad, ff1, ff2, serialQ, before, steady>>
regs   == <<mode, en, out, cfg, intrptEn, status>>
vars   == <<inputs, regs, acked, writes>>

Causes == {"rise", "fall", "high", "low"}

-----------------------------------------------------------------------------
(* The input stages *)

\* en_i of the stage of a pin.
Sampled == {p \in en : mode[p] = "input"}

\* The edge and level outputs of the stages.
InSync == IF stage = "stub" THEN ff2 ELSE serialQ

\* Fault of REdge: the falling edge, as the stub has it in its own terms.
RisesOnFall == IF stage = "stub" THEN (ff2 \ ff1) \cap Sampled ELSE serialQ \ ff2

REdge == IF stage = "stub" THEN (ff2 \ ff1) \cap Sampled ELSE ff2 \ serialQ
FEdge == IF stage = "stub" THEN (ff1 \ ff2) \cap Sampled ELSE serialQ \ ff2

\* A set of flip-flops that takes the value d for the pins that are clocked.
Load(ff, d, clocked) == (ff \ clocked) \cup (d \cap clocked)

\* The clock gate stops the whole stage; without it only serial_q is held.
InputStage ==
  LET clocked == IF stage = "gated" THEN Sampled ELSE Pins
  IN  /\ ff1' = Load(ff1, pad, clocked)
      /\ ff2' = Load(ff2, ff1, clocked)
      /\ serialQ' = IF stage = "stub" THEN serialQ ELSE Load(serialQ, ff2, Sampled)

-----------------------------------------------------------------------------
(* Interrupts *)

\* Fault of Signal: the low-level interrupt looks at the pad's register, not at
\* its complement.
LowIsHigh == [rise |-> REdge, fall |-> FEdge, high |-> InSync, low |-> InSync]

\* The interrupt signals of the pins before the masks.
Signal == [rise |-> REdge, fall |-> FEdge, high |-> InSync, low |-> Pins \ InSync]

\* s_gpio_*_intrpt: the masked signals.
New == [c \in Causes |-> Signal[c] \cap intrptEn[c]]

Edges   == UNION {New[c] : c \in Causes}
Pending == UNION {status[c] : c \in Causes}

GlobalInterrupt == (IF "glbl" \in cfg THEN Pending ELSE Edges) # {}
PinLevelInterrupts == IF "pin_lvl" \in cfg THEN Pending ELSE Edges

-----------------------------------------------------------------------------
(* Outputs *)

TxEn == {p \in Pins : \/ mode[p] = "active"
                      \/ mode[p] = "drain0" /\ p \in out
                      \/ mode[p] = "drain1" /\ p \notin out}

-----------------------------------------------------------------------------
(* Register writes *)

\* GPIO_OUT after a write of v to register r.
OutAfter(r, v) ==
  CASE r = "GPIO_OUT"    -> v
    [] r = "GPIO_SET"    -> out \cup v
    [] r = "GPIO_CLEAR"  -> out \ v
    [] r = "GPIO_TOGGLE" -> (out \ v) \cup (v \ out)
    [] OTHER             -> out

\* Fault of StatusAfter: a clear for any pin takes the place of the new
\* interrupts of that edge, as with a single de for the whole register.
ClearOrSet(c, all, own) ==
  IF all \cup own # {} THEN (status[c] \ all) \ own ELSE status[c] \cup New[c]

\* Fault of StatusAfter: status registers that follow the interrupt signals.
NotSticky(c, all, own) == (New[c] \ all) \ own

\* The status register of cause c after an edge at which INTRPT_STATUS clears
\* the pins of all and the register itself those of own: clearing has priority
\* over a new interrupt, in gpio.sv for all and in prim_subreg for own.
StatusAfter(c, all, own) == ((status[c] \cup New[c]) \ all) \ own

NoAck == [c \in Causes |-> {}]

\* The flip-flops of the status registers at an edge at which software clears
\* with INTRPT_STATUS the pins of all, and own[c] with the register of cause c.
StatusRegs(all, own) ==
  /\ status' = [c \in Causes |-> StatusAfter(c, all, own[c])]
  /\ acked' = all \cup UNION {own[c] : c \in Causes}

\* Everything that happens at a clock edge besides the write of a register.
Edge ==
  /\ InputStage
  /\ \E driven \in SUBSET Wired : pad' = driven
  /\ before' = <<pad \cap Sampled, before[1] \cap Sampled, before[2] \cap Sampled>>
  /\ steady' = [p \in Pins |-> IF p \notin Sampled THEN 0
                               ELSE IF steady[p] < 3 THEN steady[p] + 1 ELSE 3]
  /\ UNCHANGED stage

Idle ==
  /\ Edge
  /\ StatusRegs({}, NoAck)
  /\ UNCHANGED <<mode, en, out, cfg, intrptEn, writes>>

ClearAll == \E v \in Values :
  /\ Edge
  /\ StatusRegs(v, NoAck)
  /\ UNCHANGED <<mode, en, out, cfg, intrptEn, writes>>

ClearOne == \E c \in Causes, v \in Values :
  /\ Edge
  /\ StatusRegs({}, [NoAck EXCEPT ![c] = v])
  /\ UNCHANGED <<mode, en, out, cfg, intrptEn, writes>>

Counted ==
  /\ writes < MaxWrites
  /\ writes' = writes + 1
  /\ Edge
  /\ StatusRegs({}, NoAck)

WriteOut == \E r \in {"GPIO_OUT", "GPIO_SET", "GPIO_CLEAR", "GPIO_TOGGLE"} :
  \E v \in Values :
    /\ Counted
    /\ out' = OutAfter(r, v)
    /\ UNCHANGED <<mode, en, cfg, intrptEn>>

WriteMode == \E v \in ModeValues :
  /\ Counted
  /\ mode' = v
  /\ UNCHANGED <<en, out, cfg, intrptEn>>

WriteEn == \E v \in Values :
  /\ Counted
  /\ en' = v
  /\ UNCHANGED <<mode, out, cfg, intrptEn>>

WriteCfg == \E v \in SUBSET {"glbl", "pin_lvl"} :
  /\ Counted
  /\ cfg' = v
  /\ UNCHANGED <<mode, en, out, intrptEn>>

WriteIntrptEn == \E c \in Causes, v \in Values :
  /\ Counted
  /\ intrptEn' = [intrptEn EXCEPT ![c] = v]
  /\ UNCHANGED <<mode, en, out, cfg>>

-----------------------------------------------------------------------------
(* The specification *)

Init ==
  /\ stage \in Stages
  /\ pad \in SUBSET Wired
  /\ ff1 = {} /\ ff2 = {} /\ serialQ = {}
  /\ mode = [p \in Pins |-> "input"] /\ en = {} /\ out = {} /\ cfg = {}
  /\ intrptEn = NoAck /\ status = NoAck
  /\ acked = {}
  /\ before = <<{}, {}, {}>>
  /\ steady = [p \in Pins |-> 0]
  /\ writes = 0

Next == Idle \/ ClearAll \/ ClearOne \/ WriteOut \/ WriteMode \/ WriteEn \/ WriteCfg \/ WriteIntrptEn

Spec == Init /\ [][Next]_vars

-----------------------------------------------------------------------------
(* Properties *)

\* Every register holds a value of its width.
TypeOK ==
  /\ stage \in Stages
  /\ {pad, ff1, ff2, serialQ, en, out, acked} \subseteq SUBSET Pins
  /\ mode \in [Pins -> {"input", "active", "drain0", "drain1"}]
  /\ cfg \subseteq {"glbl", "pin_lvl"}
  /\ intrptEn \in [Causes -> SUBSET Pins] /\ status \in [Causes -> SUBSET Pins]
  /\ before \in [1..3 -> SUBSET Pins]
  /\ steady \in [Pins -> 0..3]
  /\ writes \in 0..MaxWrites

\* A pin that has been sampled at the last three edges reads as its pad was at
\* the third of them, and its edge outputs compare that with the second: what
\* the pin did before it was enabled, and the values a stage kept while its
\* clock was gated, are flushed by then.
Synchronized == \A p \in Pins : steady[p] = 3 =>
  /\ p \in InSync <=> p \in before[3]
  /\ p \in REdge <=> p \in before[2] /\ p \notin before[3]
  /\ p \in FEdge <=> p \notin before[2] /\ p \in before[3]

\* The registers of the block and what its inputs show.
InputsOK == TypeOK /\ Synchronized

\* The status bits of cause c that a step sets are those of the pins that
\* changed, except where software clears bits of the pin in the same cycle.
Reported(c, changed) == \A p \in Wired : steady[p] = 3 =>
  /\ p \in changed \cap intrptEn[c] => p \in status'[c] \cup acked'
  /\ p \in status'[c] \ status[c] => p \in changed

\* A pin that has been sampled at the last three edges gets the status bit of
\* an enabled edge interrupt exactly when its pad changed between the third and
\* the second of them: neither the synchroniser, nor the write of another
\* register, nor a clear for another pin loses or makes an edge.
EdgesReported ==
  [][Reported("rise", before[2] \ before[3]) /\ Reported("fall", before[3] \ before[2])]_vars

\* A level interrupt keeps getting triggered while its pin has the level, so an
\* acknowledge does not silence it for longer than a cycle.
LevelKeepsTriggering == [][\A p \in Wired :
  steady[p] = 3 /\ p \in intrptEn[IF p \in before[3] THEN "high" ELSE "low"]
    => p \in Pending' \cup acked']_vars

\* In the holding mode of CFG the interrupt line falls only when software has
\* cleared the last pending interrupt, whatever else it writes.
HeldUntilCleared ==
  [][GlobalInterrupt /\ "glbl" \in cfg \cap cfg' => GlobalInterrupt' \/ acked' # {}]_vars

=============================================================================
