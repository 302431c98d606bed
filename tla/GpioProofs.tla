----------------------------- MODULE GpioProofs -----------------------------
(* Proofs about Gpio for any number of pins and any registers' values.     *)
EXTENDS Gpio, TLAPS

USE WiredAssumption, StagesAssumption, ValuesAssumption, ModeValuesAssumption,
    MaxWritesAssumption

\* The chip and the FPGA builds use the stages of the repository's gpio IP.
RealStages == Stages \subseteq {"gated", "plain"}

\* A pin that has been sampled at the last n edges has its pad of the n-th of
\* them in the n-th flip-flop of the stage.
Follows ==
  \A p \in Pins :
    /\ steady[p] >= 1 => (p \in ff1 <=> p \in before[1])
    /\ steady[p] >= 2 => (p \in ff2 <=> p \in before[2])
    /\ steady[p] >= 3 => (p \in serialQ <=> p \in before[3])

GpioIInv == TypeOK /\ Follows

(***************************************************************************)
(* What every step has in common: a clock edge at which software clears    *)
(* some status bits, perhaps none.                                         *)
(***************************************************************************)
LEMMA StepIsEdge ==
  ASSUME TypeOK, Next
  PROVE  /\ Edge
         /\ \E all \in SUBSET Pins, own \in [Causes -> SUBSET Pins] : StatusRegs(all, own)
<1>1. {} \in SUBSET Pins /\ NoAck \in [Causes -> SUBSET Pins]
  BY DEF NoAck
<1>2. CASE Idle \/ WriteOut \/ WriteMode \/ WriteEn \/ WriteCfg \/ WriteIntrptEn
  BY <1>1, <1>2 DEF Idle, Counted, WriteOut, WriteMode, WriteEn, WriteCfg, WriteIntrptEn
<1>3. CASE ClearAll
  BY <1>1, <1>3 DEF ClearAll
<1>4. CASE ClearOne
  <2>1. PICK c \in Causes, v \in Values : Edge /\ StatusRegs({}, [NoAck EXCEPT ![c] = v])
    BY <1>4 DEF ClearOne
  <2>2. [NoAck EXCEPT ![c] = v] \in [Causes -> SUBSET Pins]
    BY <1>1
  <2>3. QED
    BY <1>1, <2>1, <2>2
<1>5. QED
  BY <1>2, <1>3, <1>4 DEF Next

(***************************************************************************)
(* A clear takes nothing but what it names, and nothing else sets a bit.   *)
(***************************************************************************)
LEMMA StatusStep ==
  ASSUME TypeOK, Next
  PROVE  /\ status' \in [Causes -> SUBSET Pins] /\ acked' \in SUBSET Pins
         /\ \A c \in Causes : /\ status'[c] \subseteq status[c] \cup New[c]
                              /\ status[c] \cup New[c] \subseteq status'[c] \cup acked'
<1>1. PICK all \in SUBSET Pins, own \in [Causes -> SUBSET Pins] : StatusRegs(all, own)
  BY StepIsEdge
<1>2. New \in [Causes -> SUBSET Pins]
  BY DEF New, TypeOK
<1>3. status' = [c \in Causes |-> StatusAfter(c, all, own[c])]
  BY <1>1 DEF StatusRegs
<1>4. acked' = all \cup UNION {own[c] : c \in Causes}
  BY <1>1 DEF StatusRegs
<1>5. ASSUME NEW c \in Causes
      PROVE  /\ status'[c] = ((status[c] \cup New[c]) \ all) \ own[c]
             /\ own[c] \subseteq acked' /\ all \subseteq acked'
             /\ status'[c] \in SUBSET Pins
  <2>1. own[c] \in SUBSET Pins /\ status[c] \in SUBSET Pins /\ New[c] \in SUBSET Pins
    BY <1>2 DEF TypeOK
  <2>2. status'[c] = ((status[c] \cup New[c]) \ all) \ own[c]
    BY <1>3 DEF StatusAfter
  <2>3. QED
    BY <1>4, <2>1, <2>2
<1>6. acked' \in SUBSET Pins
  BY <1>4
<1>7. QED
  BY <1>3, <1>5, <1>6

(***************************************************************************)
(* The registers keep their types.                                         *)
(***************************************************************************)
LEMMA RegistersStep ==
  ASSUME TypeOK, Next
  PROVE  /\ en' \subseteq Pins /\ out' \subseteq Pins
         /\ mode' \in [Pins -> {"input", "active", "drain0", "drain1"}]
         /\ cfg' \subseteq {"glbl", "pin_lvl"}
         /\ intrptEn' \in [Causes -> SUBSET Pins]
         /\ writes' \in 0..MaxWrites
<1> USE DEF TypeOK
<1>1. CASE Idle \/ ClearAll \/ ClearOne
  BY <1>1 DEF Idle, ClearAll, ClearOne
<1>2. CASE WriteOut
  <2>1. PICK r \in {"GPIO_OUT", "GPIO_SET", "GPIO_CLEAR", "GPIO_TOGGLE"}, v \in Values :
          out' = OutAfter(r, v)
    BY <1>2 DEF WriteOut
  <2>2. out' \subseteq Pins
    BY <2>1 DEF OutAfter
  <2>3. QED
    BY <1>2, <2>2 DEF WriteOut, Counted
<1>3. CASE WriteMode
  BY <1>3 DEF WriteMode, Counted
<1>4. CASE WriteEn
  BY <1>4 DEF WriteEn, Counted
<1>5. CASE WriteCfg
  BY <1>5 DEF WriteCfg, Counted
<1>6. CASE WriteIntrptEn
  BY <1>6 DEF WriteIntrptEn, Counted
<1>7. QED
  BY <1>1, <1>2, <1>3, <1>4, <1>5, <1>6 DEF Next

LEMMA InputsStep ==
  ASSUME TypeOK, Edge
  PROVE  /\ stage' = stage
         /\ pad' \in SUBSET Pins /\ ff1' \in SUBSET Pins /\ ff2' \in SUBSET Pins
         /\ serialQ' \in SUBSET Pins
         /\ before' \in [1..3 -> SUBSET Pins]
         /\ before'[1] = pad \cap Sampled /\ before'[2] = before[1] \cap Sampled
         /\ before'[3] = before[2] \cap Sampled
         /\ steady' \in [Pins -> 0..3]
<1> USE DEF TypeOK, Edge
<1>1. Sampled \subseteq Pins
  BY DEF Sampled
<1>2. ff1' \in SUBSET Pins /\ ff2' \in SUBSET Pins /\ serialQ' \in SUBSET Pins
  BY <1>1 DEF InputStage, Load
<1>3. /\ before'[1] = pad \cap Sampled /\ before'[2] = before[1] \cap Sampled
      /\ before'[3] = before[2] \cap Sampled
  OBVIOUS
<1>4. before' \in [1..3 -> SUBSET Pins]
  BY <1>1
<1>5. steady' \in [Pins -> 0..3]
  OBVIOUS
<1>6. QED
  BY <1>2, <1>3, <1>4, <1>5

LEMMA FollowsStep ==
  ASSUME GpioIInv, stage # "stub", Edge
  PROVE  Follows'
<1> USE DEF GpioIInv
<1> SUFFICES ASSUME NEW p \in Pins, steady'[p] >= 1
             PROVE  /\ p \in ff1' <=> p \in before'[1]
                    /\ steady'[p] >= 2 => (p \in ff2' <=> p \in before'[2])
                    /\ steady'[p] >= 3 => (p \in serialQ' <=> p \in before'[3])
  BY InputsStep DEF Follows
<1>1. steady'[p] = IF p \notin Sampled THEN 0 ELSE IF steady[p] < 3 THEN steady[p] + 1 ELSE 3
  BY DEF Edge
<1>2. p \in Sampled /\ steady[p] \in 0..3
  BY <1>1 DEF TypeOK
<1>3. /\ steady'[p] >= 2 => steady[p] >= 1
      /\ steady'[p] >= 3 => steady[p] >= 2
  BY <1>1, <1>2
<1>4. /\ p \in ff1' <=> p \in pad
      /\ p \in ff2' <=> p \in ff1
      /\ p \in serialQ' <=> p \in ff2
  BY <1>2 DEF Edge, InputStage, Load
<1>5. /\ p \in before'[1] <=> p \in pad
      /\ p \in before'[2] <=> p \in before[1]
      /\ p \in before'[3] <=> p \in before[2]
  BY <1>2, InputsStep
<1>6. QED
  BY <1>3, <1>4, <1>5 DEF Follows

(***************************************************************************)
(* Types need nothing of the stage.                                        *)
(***************************************************************************)
LEMMA GpioTypes == Spec => []TypeOK
<1>1. Init => TypeOK
  <2> SUFFICES ASSUME Init PROVE TypeOK
    OBVIOUS
  <2>1. before \in [1..3 -> SUBSET Pins] /\ NoAck \in [Causes -> SUBSET Pins]
    BY DEF Init, NoAck
  <2>2. QED
    BY <2>1 DEF Init, TypeOK
<1>2. TypeOK /\ [Next]_vars => TypeOK'
  <2>1. ASSUME TypeOK, Next PROVE TypeOK'
    BY <2>1, StepIsEdge, InputsStep, RegistersStep, StatusStep DEF TypeOK
  <2>2. ASSUME TypeOK, UNCHANGED vars PROVE TypeOK'
    BY <2>2 DEF vars, inputs, regs, TypeOK
  <2>3. QED
    BY <2>1, <2>2
<1>3. QED
  BY <1>1, <1>2, PTL DEF Spec

LEMMA GpioIInvHolds ==
  ASSUME RealStages
  PROVE  Spec => []GpioIInv
<1>1. Init => Follows
  BY DEF Init, Follows
<1>2. GpioIInv /\ [Next]_vars => Follows'
  <2> SUFFICES ASSUME GpioIInv, [Next]_vars PROVE Follows'
    OBVIOUS
  <2>1. CASE Next
    BY <2>1, StepIsEdge, FollowsStep DEF RealStages, GpioIInv, TypeOK
  <2>2. CASE UNCHANGED vars
    BY <2>2 DEF vars, inputs, GpioIInv, Follows
  <2>3. QED
    BY <2>1, <2>2
<1>3. QED
  BY <1>1, <1>2, GpioTypes, PTL DEF Spec, GpioIInv

(***************************************************************************)
(* What a stage's outputs say of a pin that has been sampled three times.  *)
(***************************************************************************)
LEMMA FollowsIsSynchronized ==
  ASSUME GpioIInv, RealStages
  PROVE  Synchronized
<1>1. stage # "stub"
  BY DEF RealStages, GpioIInv, TypeOK
<1>2. QED
  BY <1>1 DEF GpioIInv, Follows, Synchronized, InSync, REdge, FEdge

(***************************************************************************)
(* The registers have their widths, and a pin that has been sampled at the *)
(* last three edges reads as its pad was at the third of them.             *)
(***************************************************************************)
THEOREM InputsAreSynchronized ==
  ASSUME RealStages
  PROVE  Spec => []InputsOK
<1>1. GpioIInv => InputsOK
  BY FollowsIsSynchronized DEF InputsOK, GpioIInv
<1>2. QED
  BY <1>1, GpioIInvHolds, PTL

(***************************************************************************)
(* No edge of a sampled pin is lost or made up: its status bit is set when *)
(* the pad changed three edges ago, whatever software writes meanwhile.    *)
(***************************************************************************)
THEOREM NoEdgeLost ==
  ASSUME RealStages
  PROVE  Spec => EdgesReported
<1> DEFINE Both == /\ Reported("rise", before[2] \ before[3])
                   /\ Reported("fall", before[3] \ before[2])
<1>1. GpioIInv /\ [Next]_vars => [Both]_vars
  <2> SUFFICES ASSUME GpioIInv, Next PROVE Both
    OBVIOUS
  <2>1. Synchronized /\ TypeOK
    BY FollowsIsSynchronized DEF GpioIInv
  <2>2. ASSUME NEW c \in Causes, NEW changed,
               \A p \in Pins : steady[p] = 3 => (p \in Signal[c] <=> p \in changed)
        PROVE  Reported(c, changed)
    <3>1. New[c] = Signal[c] \cap intrptEn[c]
      BY DEF New
    <3>2. /\ status'[c] \subseteq status[c] \cup New[c]
          /\ status[c] \cup New[c] \subseteq status'[c] \cup acked'
      BY <2>1, StatusStep
    <3>3. QED
      BY <2>2, <3>1, <3>2 DEF Reported
  <2>3. Signal["rise"] = REdge /\ Signal["fall"] = FEdge
    BY DEF Signal
  <2>4. Reported("rise", before[2] \ before[3])
    BY <2>1, <2>2, <2>3 DEF Causes, Synchronized
  <2>5. Reported("fall", before[3] \ before[2])
    BY <2>1, <2>2, <2>3 DEF Causes, Synchronized
  <2>6. QED
    BY <2>4, <2>5
<1>2. QED
  BY <1>1, GpioIInvHolds, PTL DEF Spec, EdgesReported

(***************************************************************************)
(* A level interrupt stays pending, or is set again, while the pin has the *)
(* level.                                                                  *)
(***************************************************************************)
THEOREM LevelsKeepTriggering ==
  ASSUME RealStages
  PROVE  Spec => LevelKeepsTriggering
<1> DEFINE Kept == \A p \in Wired :
      steady[p] = 3 /\ p \in intrptEn[IF p \in before[3] THEN "high" ELSE "low"]
        => p \in Pending' \cup acked'
<1>1. GpioIInv /\ [Next]_vars => [Kept]_vars
  <2> SUFFICES ASSUME GpioIInv, Next, NEW p \in Wired, steady[p] = 3,
                      p \in intrptEn[IF p \in before[3] THEN "high" ELSE "low"]
               PROVE  p \in Pending' \cup acked'
    OBVIOUS
  <2> DEFINE c == IF p \in before[3] THEN "high" ELSE "low"
  <2>1. Synchronized /\ TypeOK /\ c \in Causes
    BY FollowsIsSynchronized DEF GpioIInv, Causes
  <2>2. p \in Signal[c]
    <3>1. Signal["high"] = InSync /\ Signal["low"] = Pins \ InSync
      BY DEF Signal
    <3>2. QED
      BY <2>1, <3>1 DEF Synchronized
  <2>3. p \in New[c]
    BY <2>1, <2>2 DEF New
  <2>4. p \in status'[c] \cup acked'
    BY <2>1, <2>3, StatusStep
  <2>5. QED
    BY <2>1, <2>4 DEF Pending
<1>2. QED
  BY <1>1, GpioIInvHolds, PTL DEF Spec, LevelKeepsTriggering

(***************************************************************************)
(* In the holding mode the interrupt line falls only at an acknowledge.    *)
(***************************************************************************)
THEOREM LineIsHeld == Spec => HeldUntilCleared
<1> DEFINE Held == GlobalInterrupt /\ "glbl" \in cfg \cap cfg'
                     => GlobalInterrupt' \/ acked' # {}
<1>1. TypeOK /\ [Next]_vars => [Held]_vars
  <2> SUFFICES ASSUME TypeOK, Next, GlobalInterrupt, "glbl" \in cfg, "glbl" \in cfg',
                      acked' = {}
               PROVE  GlobalInterrupt'
    OBVIOUS
  <2>0. PICK p \in Pending : TRUE
    BY DEF GlobalInterrupt
  <2>1. PICK c \in Causes : p \in status[c]
    BY <2>0 DEF Pending
  <2>2. p \in status'[c]
    BY <2>1, StatusStep
  <2>3. p \in Pending'
    BY <2>2 DEF Pending
  <2>4. QED
    BY <2>3 DEF GlobalInterrupt
<1>2. QED
  BY <1>1, GpioTypes, PTL DEF Spec, HeldUntilCleared

=============================================================================
