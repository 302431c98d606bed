--------------------------- MODULE ActuatorProofs ---------------------------
(* Proofs about the actuator, for every width, every set of upper halves    *)
(* and every set of modes and speeds: first about the block of Actuator on  *)
(* its bus, then about ActuatorSystem, where the driver is a legal bus      *)
(* master, none of its read-modify-writes is undercut, and every call of it *)
(* is one atomic change of the settings.                                    *)
EXTENDS ActuatorSystem, TLAPS

USE MaxPosAssumption, UpperAssumption, ModesAssumption

(***************************************************************************)
(* What a completed write carries fits the register it goes to.            *)
(***************************************************************************)
LEMMA WrittenData ==
  ASSUME req \in Transfers
  PROVE  /\ Written("CTRL") => req.data \in Ctrl
         /\ Written("POSITION") => req.data \in Target
         /\ Written("VELOCITY") => req.data \in Word
         /\ Written("CONFIG") => req.data \in BOOLEAN
<1>1. CASE \E r \in Registers : req = Read(r)
  BY <1>1 DEF Read, Written
<1>2. CASE \E d \in Ctrl : req = Write("CTRL", d)
  BY <1>2 DEF Write, Written
<1>3. CASE \E d \in Target : req = Write("POSITION", d)
  BY <1>3 DEF Write, Written
<1>4. CASE \E d \in Word : req = Write("VELOCITY", d)
  BY <1>4 DEF Write, Written
<1>5. CASE \E d \in BOOLEAN : req = Write("CONFIG", d)
  BY <1>5 DEF Write, Written
<1>6. CASE \E r \in {"STATUS", "FEEDBACK"} : req = Write(r, 0)
  BY <1>6 DEF Write, Written
<1>7. QED
  BY <1>1, <1>2, <1>3, <1>4, <1>5, <1>6 DEF Transfers

LEMMA ResetValues ==
  /\ CtrlZero \in Ctrl
  /\ TargetZero \in Target
  /\ 0 \in Word
  /\ Read("STATUS") \in Transfers
BY DEF CtrlZero, Ctrl, TargetZero, Target, Word, Transfers, Registers

(***************************************************************************)
(* A clock edge or a reset keeps the types.                                *)
(***************************************************************************)
LEMMA TypeIsKept == TypeOK /\ [Next]_vars => TypeOK'
<1> SUFFICES ASSUME TypeOK, [Next]_vars PROVE TypeOK'
  OBVIOUS
<1>1. CASE Clock
  <2>1. phase' \in {"idle", "setup", "access"} /\ req' \in Transfers
    BY <1>1 DEF Clock, ApbIdle, ApbSetup, ApbAccess, NewTransfer, TypeOK
  <2>2. /\ ctrl' \in Ctrl
        /\ position' \in Target
        /\ velocity' \in Word
        /\ irqEnable' \in BOOLEAN
    BY <1>1, WrittenData, ResetValues DEF Clock, Tick, RegisterUpdate, TypeOK
  <2>3. state' \in {"IDLE", "RUNNING", "POSITIONING"}
    BY <1>1 DEF Clock, Tick, CoreUpdate, FsmNext, TypeOK
  <2>4. current' \in Word
    BY <1>1 DEF Clock, Tick, CoreUpdate, CurrentNext, TypeOK, Word, Target
  <2>5. pwmCounter' \in Word
    BY <1>1 DEF Clock, Tick, CoreUpdate, TypeOK, Word
  <2>6. QED
    BY <2>1, <2>2, <2>3, <2>4, <2>5 DEF TypeOK
<1>2. CASE HardReset
  BY <1>2, ResetValues DEF HardReset, TypeOK
<1>3. CASE UNCHANGED vars
  BY <1>3 DEF vars, regs, core, TypeOK
<1>4. QED
  BY <1>1, <1>2, <1>3 DEF Next

(***************************************************************************)
(* Every register keeps its type, and the ERROR state is never entered.    *)
(***************************************************************************)
THEOREM TypeCorrect == Spec => []TypeOK
<1>1. Init => TypeOK
  BY ResetValues DEF Init, TypeOK
<1>2. QED
  BY <1>1, TypeIsKept, PTL DEF Spec

(***************************************************************************)
(* The cycle a software reset spends clearing the registers never holds    *)
(* the access phase of another transfer.  The invariant is inductive as it *)
(* stands: CTRL.RESET rises only out of an access cycle, the cycle after   *)
(* an access cycle is idle or setup, and the reset then clears itself.     *)
(***************************************************************************)
LEMMA ResetOffBusIsKept == ResetOffBus /\ [Next]_vars => ResetOffBus'
<1> SUFFICES ASSUME ResetOffBus, [Next]_vars PROVE ResetOffBus'
  OBVIOUS
<1>1. CASE Clock
  <2>1. CASE ApbIdle \/ ApbSetup
    BY <2>1 DEF ApbIdle, ApbSetup, NewTransfer, ResetOffBus
  <2>2. CASE ApbAccess
    <3>1. ~Written("CTRL")
      BY <2>2 DEF ApbAccess, Written
    <3>2. ctrl' = IF ctrl.reset THEN CtrlZero ELSE ctrl
      BY <1>1, <3>1 DEF Clock, Tick, RegisterUpdate
    <3>3. ~ctrl'.reset
      BY <3>2 DEF CtrlZero
    <3>4. QED
      BY <3>3 DEF ResetOffBus
  <2>3. QED
    BY <1>1, <2>1, <2>2 DEF Clock
<1>2. CASE HardReset
  BY <1>2 DEF HardReset, ResetOffBus
<1>3. CASE UNCHANGED vars
  BY <1>3 DEF vars, regs, ResetOffBus
<1>4. QED
  BY <1>1, <1>2, <1>3 DEF Next

(***************************************************************************)
(* The self-clearing reset is never up in an access cycle.                 *)
(***************************************************************************)
THEOREM ResetCycleIsOffBus == Spec => []ResetOffBus
<1>1. Init => ResetOffBus
  BY DEF Init, ResetOffBus
<1>2. QED
  BY <1>1, ResetOffBusIsKept, PTL DEF Spec

(***************************************************************************)
(* Hence no write that completes on the bus is dropped by a reset.         *)
(***************************************************************************)
THEOREM WritesLand == Spec => NoWriteLost
<1> DEFINE Lands == /\ Written("CTRL") => ctrl' = req.data
                    /\ Written("POSITION") => position' = req.data
                    /\ Written("VELOCITY") => velocity' = req.data
                    /\ Written("CONFIG") => irqEnable' = req.data
<1>1. ResetOffBus /\ [Next]_vars => [Clock => Lands]_vars
  <2> SUFFICES ASSUME ResetOffBus, Clock PROVE Lands
    OBVIOUS
  <2>1. (\E r \in Registers : Written(r)) => ~ctrl.reset
    BY DEF Written, ResetOffBus
  <2>2. QED
    BY <2>1 DEF Clock, Tick, RegisterUpdate, Registers
<1>2. QED
  BY <1>1, ResetCycleIsOffBus, PTL DEF Spec, NoWriteLost

(***************************************************************************)
(* With a 16-bit target the arrival interrupt lasts exactly one cycle.     *)
(***************************************************************************)
THEOREM ArrivalIsAPulse == Spec => IrqPulse
<1>1. TypeOK /\ [Next]_vars
        => [Clock /\ Interrupt /\ position.hi = 0 => ~Interrupt']_vars
  <2> SUFFICES ASSUME TypeOK, Clock, Interrupt, position.hi = 0
               PROVE  ~Interrupt'
    OBVIOUS
  <2>1. state = "POSITIONING" /\ AtTarget
    BY DEF Interrupt, AtTarget
  <2>2. state' = "RUNNING"
    BY <2>1 DEF Clock, Tick, CoreUpdate, FsmNext
  <2>3. QED
    BY <2>2 DEF Interrupt
<1>2. QED
  BY <1>1, TypeCorrect, PTL DEF Spec, IrqPulse

-----------------------------------------------------------------------------
(* The system *)

USE SpeedsAssumption

CtrlWrite == call.name \in CtrlUpdates /\ pc \in {"loaded", "storing"}

\* Where the processor is fixes the cycle on the bus and the transfer in it.
BusFollows ==
  /\ pc \in {"ready", "loaded"} => phase = "idle"
  /\ pc \in {"loading", "storing"} => phase \in {"setup", "access"}
  /\ pc = "loading" => Loads(call) /\ req = Read(LoadReg(call))
  /\ pc = "loaded" => Loads(call) /\ call.name \notin Queries
  /\ pc = "storing" => /\ call.name \notin Queries
                       /\ req = Store(call, IF Loads(call) THEN tmp[2] ELSE 0)

\* The processor calls driver functions, or there is none.
OneMaster ==
  /\ master \in {"any", "driver"}
  /\ master = "any" => call = NoCall /\ pc = "ready"
  /\ master = "driver" => BusFollows
  /\ call \in Calls \cup {NoCall} /\ (pc # "ready" => call \in Calls)
  /\ pc \in {"ready", "loading", "loaded", "storing"}

\* RmwFresh needs that CTRL was not about to clear itself when it was loaded.
SysIInv ==
  /\ TypeOK
  /\ ResetOffBus
  /\ OneMaster
  /\ CtrlWrite => ~ctrl.reset /\ tmp = <<"CTRL", ctrl>>

(***************************************************************************)
(* The names and arguments of the driver's calls.                          *)
(***************************************************************************)
LEMMA CallFacts ==
  ASSUME NEW c \in Calls
  PROVE  /\ c.name \in {"init_ctrl", "init_config", "enable", "disable", "reset",
                        "irq_enable", "irq_disable", "is_busy", "set_mode",
                        "set_position", "set_velocity"}
         /\ c.name = "set_mode" => c.arg \in Modes
         /\ c.name = "set_position" => c.arg \in Target
         /\ c.name = "set_velocity" => c.arg \in Word
BY DEF Calls, Call

(***************************************************************************)
(* What the driver stores is a transfer the bus allows: every field of the *)
(* value it writes has the type of the register.                           *)
(***************************************************************************)
LEMMA StoreIsTransfer ==
  ASSUME NEW c \in Calls, NEW v, c.name \notin Queries,
         c.name \in CtrlUpdates => v \in Ctrl
  PROVE  Store(c, v) \in Transfers
<1> USE CallFacts DEF Queries, CtrlUpdates
<1>1. CASE c.name \in CtrlUpdates
  <2>1. /\ [v EXCEPT !.enable = TRUE] \in Ctrl
        /\ [v EXCEPT !.enable = FALSE] \in Ctrl
        /\ [v EXCEPT !.reset = TRUE] \in Ctrl
        /\ c.name = "set_mode" => [v EXCEPT !.mode = c.arg] \in Ctrl
    BY <1>1 DEF Ctrl
  <2>2. \E d \in Ctrl : Store(c, v) = Write("CTRL", d)
    BY <1>1, <2>1 DEF Store
  <2>3. QED
    BY <2>2 DEF Transfers
<1>2. CASE c.name = "init_ctrl"
  BY <1>2, ResetValues DEF Store, Transfers
<1>3. CASE c.name \in {"set_position", "set_velocity"}
  BY <1>3 DEF Store, Transfers
<1>4. CASE c.name \in {"irq_enable", "irq_disable", "init_config"}
  BY <1>4 DEF Store, Transfers
<1>5. QED
  BY <1>1, <1>2, <1>3, <1>4

LEMMA LoadIsTransfer ==
  ASSUME NEW c
  PROVE  Read(LoadReg(c)) \in Transfers
BY DEF LoadReg, Transfers, Registers

(***************************************************************************)
(* A step of the driver is a clock edge with a transfer the bus allows.    *)
(***************************************************************************)
LEMMA DriverIsMaster ==
  ASSUME SysIInv, master = "driver", DriverClock
  PROVE  Clock
<1> USE DEF SysIInv, OneMaster, BusFollows
<1>1. CASE Pause \/ Access \/ Loaded \/ Return
  BY <1>1 DEF Pause, Access, Loaded, Return, DriverClock, Clock
<1>2. ASSUME NEW c \in Calls, Start(c) PROVE Clock
  <2>1. Loads(c) \/ Store(c, 0) \in Transfers
    BY StoreIsTransfer DEF Loads
  <2>2. req' \in Transfers
    BY <1>2, <2>1, LoadIsTransfer DEF Start
  <2>3. QED
    BY <1>2, <2>2 DEF Start, DriverClock, Clock, ApbSetup, NewTransfer
<1>3. CASE StoreBack
  <2>1. call \in Calls /\ call.name \notin Queries
    BY <1>3 DEF StoreBack
  <2>2. call.name \in CtrlUpdates => tmp[2] \in Ctrl
    BY <1>3 DEF StoreBack, CtrlWrite, TypeOK
  <2>3. QED
    BY <1>3, <2>1, <2>2, StoreIsTransfer
       DEF StoreBack, DriverClock, Clock, ApbSetup, NewTransfer
<1>4. QED
  BY <1>1, <1>2, <1>3 DEF DriverClock, Run

LEMMA SystemStepIsBlockStep == SysIInv /\ [SystemNext]_svars => [Next]_vars
BY DriverIsMaster
   DEF SystemNext, SystemClock, SystemReset, Next, svars, dvars, OneMaster, SysIInv

-----------------------------------------------------------------------------
(***************************************************************************)
(* A transfer's store goes to the register the call is named for.          *)
(***************************************************************************)
LEMMA LoadStays ==
  ASSUME SysIInv, Tick, ~Written("CTRL"), ~ctrl.reset
  PROVE  ctrl' = ctrl
BY DEF Tick, RegisterUpdate

LEMMA DriverInvariant ==
  ASSUME SysIInv, master = "driver", UNCHANGED master, DriverClock
  PROVE  OneMaster' /\ (CtrlWrite => ~ctrl.reset /\ tmp = <<"CTRL", ctrl>>)'
<1> USE DEF SysIInv, OneMaster, BusFollows, CtrlWrite
<1>0. Tick
  BY DEF DriverClock
<1>1. CASE Pause
  <2>1. phase = "idle" /\ phase' = "idle" /\ UNCHANGED cpu /\ req' = req
    BY <1>1 DEF Pause, ApbIdle
  <2>2. CtrlWrite => ctrl' = ctrl
    BY <1>0, <2>1, LoadStays DEF Written
  <2>3. QED
    BY <1>1, <2>1, <2>2 DEF cpu, Pause
<1>2. ASSUME NEW c \in Calls, Start(c)
      PROVE  OneMaster' /\ (CtrlWrite => ~ctrl.reset /\ tmp = <<"CTRL", ctrl>>)'
  <2>1. /\ call' = c /\ phase' = "setup" /\ tmp' = tmp
        /\ pc' = IF Loads(c) THEN "loading" ELSE "storing"
        /\ req' = IF Loads(c) THEN Read(LoadReg(c)) ELSE Store(c, 0)
    BY <1>2 DEF Start
  <2>2. c.name \in CtrlUpdates \cup Queries => Loads(c)
    BY DEF Loads
  <2>3. QED
    BY <2>1, <2>2
<1>3. CASE Access
  <2>1. phase = "setup" /\ phase' = "access" /\ UNCHANGED cpu /\ req' = req
    BY <1>3 DEF Access, ApbAccess
  <2>2. CtrlWrite => ctrl' = ctrl
    BY <1>0, <2>1, LoadStays DEF Written
  <2>3. QED
    BY <2>1, <2>2 DEF cpu
<1>4. CASE Loaded
  <2>1. /\ pc = "loading" /\ phase = "access" /\ phase' = "idle" /\ call' = call
        /\ tmp' = <<req.reg, ReadData(req.reg)>>
        /\ pc' = IF call.name \in Queries THEN "ready" ELSE "loaded"
    BY <1>4 DEF Loaded, ApbIdle
  <2>2. req = Read(LoadReg(call)) /\ Loads(call)
    BY <2>1
  <2>3. ~ctrl.reset /\ ~Written("CTRL")
    BY <2>1, <2>2 DEF ResetOffBus, Written, Read
  <2>4. ctrl' = ctrl
    BY <1>0, <2>3, LoadStays
  <2>5. call.name \in CtrlUpdates => tmp' = <<"CTRL", ctrl>>
    BY <2>1, <2>2 DEF Read, LoadReg, ReadData
  <2>6. QED
    BY <2>1, <2>2, <2>3, <2>4, <2>5
<1>5. CASE StoreBack
  <2>1. /\ pc = "loaded" /\ phase = "idle" /\ phase' = "setup" /\ pc' = "storing"
        /\ req' = Store(call, tmp[2]) /\ UNCHANGED <<call, tmp>>
    BY <1>5 DEF StoreBack
  <2>2. CtrlWrite => ctrl' = ctrl
    BY <1>0, <2>1, LoadStays DEF Written
  <2>3. QED
    BY <2>1, <2>2
<1>6. CASE Return
  BY <1>6 DEF Return, ApbIdle
<1>7. QED
  BY <1>1, <1>2, <1>3, <1>4, <1>5, <1>6 DEF DriverClock, Run

LEMMA SysIInvKept == SysIInv /\ [SystemNext]_svars => SysIInv'
<1> SUFFICES ASSUME SysIInv, [SystemNext]_svars PROVE SysIInv'
  OBVIOUS
<1>1. [Next]_vars
  BY SystemStepIsBlockStep
<1>2. TypeOK' /\ ResetOffBus'
  BY <1>1, TypeIsKept, ResetOffBusIsKept DEF SysIInv
<1>3. CASE SystemClock /\ master = "any"
  BY <1>2, <1>3 DEF SystemClock, SysIInv, OneMaster, CtrlWrite, cpu, NoCall, Call, CtrlUpdates
<1>4. CASE SystemClock /\ master = "driver"
  BY <1>2, <1>4, DriverInvariant DEF SystemClock, SysIInv
<1>5. CASE SystemReset
  BY <1>2, <1>5 DEF SystemReset, HardReset, CpuReset, SysIInv, OneMaster, BusFollows, CtrlWrite
<1>6. CASE UNCHANGED svars
  BY <1>2, <1>6 DEF svars, dvars, vars, regs, cpu, SysIInv, OneMaster, BusFollows, CtrlWrite
<1>7. QED
  BY <1>3, <1>4, <1>5, <1>6 DEF SystemNext, SystemClock

LEMMA SysIInvHolds == SystemSpec => []SysIInv
<1>1. SystemInit => SysIInv
  BY ResetValues
     DEF SystemInit, DriverInit, Init, CpuInit, SysIInv, TypeOK, ResetOffBus, OneMaster,
         BusFollows, CtrlWrite, CtrlZero
<1>2. QED
  BY <1>1, SysIInvKept, PTL DEF SystemSpec

(***************************************************************************)
(* Under either master the registers keep their types, a software reset    *)
(* never meets a transfer, and what the driver loaded from CTRL is still   *)
(* there when it stores.                                                   *)
(***************************************************************************)
THEOREM SystemIsSound == SystemSpec => []SystemInv
<1>1. SysIInv => SystemInv
  BY DEF SysIInv, SystemInv, DriverTypeOK, OneMaster, RmwFresh, CtrlWrite, TypeOK
<1>2. QED
  BY <1>1, SysIInvHolds, PTL

(***************************************************************************)
(* The block under either master is the block of Actuator, so that its     *)
(* theorems hold in the system.                                            *)
(***************************************************************************)
THEOREM DriverIsLegalMaster == SystemSpec => Spec
<1>1. SystemInit => Init
  BY DEF SystemInit, DriverInit
<1>2. QED
  BY <1>1, SystemStepIsBlockStep, SysIInvHolds, PTL DEF SystemSpec, Spec

\* No write that completes on the bus is lost, whoever drives it.
THEOREM SystemWritesLand == SystemSpec => NoWriteLost
BY DriverIsLegalMaster, WritesLand

\* The interrupt is a pulse, whoever drives the bus.
THEOREM SystemArrivalIsAPulse == SystemSpec => IrqPulse
BY DriverIsLegalMaster, ArrivalIsAPulse

-----------------------------------------------------------------------------
(***************************************************************************)
(* An edge without a write leaves the settings as they are: what a reset   *)
(* then clears, software has already seen cleared.                         *)
(***************************************************************************)
LEMMA SettingsStay ==
  ASSUME Tick, \A r \in Registers : ~Written(r)
  PROVE  Settings' = Settings
<1>1. /\ ctrl' = IF ctrl.reset THEN CtrlZero ELSE ctrl
      /\ position' = IF ctrl.reset THEN TargetZero ELSE position
      /\ velocity' = IF ctrl.reset THEN 0 ELSE velocity
      /\ irqEnable' = irqEnable
  BY DEF Tick, RegisterUpdate, Registers
<1>2. CASE ctrl.reset
  BY <1>1, <1>2 DEF Settings, CtrlZero
<1>3. CASE ~ctrl.reset
  BY <1>1, <1>3 DEF Settings
<1>4. QED
  BY <1>2, <1>3

(***************************************************************************)
(* The access cycle of a call's store changes the settings as the call's   *)
(* name says.                                                              *)
(***************************************************************************)
LEMMA StoreApplies ==
  ASSUME SysIInv, TypeOK', master = "driver", Tick, Return
  PROVE  Settings' = Api!Apply(call, Settings)
<1> USE DEF SysIInv, OneMaster, BusFollows, Queries, CtrlUpdates, ConfigUpdates
<1> DEFINE v == IF Loads(call) THEN tmp[2] ELSE 0
<1>1. /\ pc = "storing" /\ phase = "access" /\ req = Store(call, v)
      /\ ~ctrl.reset /\ call \in Calls /\ call.name \notin Queries
  BY DEF Return, ResetOffBus
<1>2. /\ ctrl' = IF Written("CTRL") THEN req.data ELSE ctrl
      /\ position' = IF Written("POSITION") THEN req.data ELSE position
      /\ velocity' = IF Written("VELOCITY") THEN req.data ELSE velocity
      /\ irqEnable' = IF Written("CONFIG") THEN req.data ELSE irqEnable
  BY <1>1 DEF Tick, RegisterUpdate
<1>3. Settings = [enable |-> ctrl.enable, mode |-> ctrl.mode, position |-> position,
                  velocity |-> velocity, irq |-> irqEnable]
  BY <1>1 DEF Settings, TypeOK, Ctrl
<1>4. /\ ctrl = [enable |-> ctrl.enable, reset |-> FALSE, mode |-> ctrl.mode]
      /\ ctrl.enable \in BOOLEAN /\ ctrl \in Ctrl /\ ctrl' \in Ctrl
  BY <1>1 DEF TypeOK, Ctrl
<1>5. CASE call.name \in CtrlUpdates \cup {"init_ctrl"}
  <2>1. call.name \in CtrlUpdates => v = ctrl
    BY <1>1 DEF CtrlWrite, Loads
  <2>2. Written("CTRL") /\ ctrl' = req.data
    BY <1>1, <1>2, <1>5 DEF Store, Written, Write
  <2>3. UNCHANGED <<position, velocity, irqEnable>>
    BY <1>1, <1>2, <1>5 DEF Store, Written, Write
  <2>4. CASE call.name = "reset"
    <3>1. ctrl' = [ctrl EXCEPT !.reset = TRUE]
      BY <1>1, <2>1, <2>2, <2>4 DEF Store, Write
    <3>2. ctrl'.reset = TRUE
      BY <1>4, <3>1 DEF Ctrl
    <3>3. Settings' = [enable |-> FALSE, mode |-> 0, position |-> TargetZero,
                       velocity |-> 0, irq |-> irqEnable]
      BY <2>3, <3>2 DEF Settings
    <3>4. QED
      BY <3>3, <2>4, <1>3 DEF Api!Apply, Api!Zero
  <2>5. CASE call.name # "reset"
    <3>1. req.data = CASE call.name = "init_ctrl" -> CtrlZero
                       [] call.name = "enable" -> [ctrl EXCEPT !.enable = TRUE]
                       [] call.name = "disable" -> [ctrl EXCEPT !.enable = FALSE]
                       [] OTHER -> [ctrl EXCEPT !.mode = call.arg]
      BY <1>1, <1>5, <2>1, <2>5 DEF Store, Write
    <3>2. ~ctrl'.reset
      BY <1>4, <2>2, <3>1 DEF Ctrl, CtrlZero
    <3>3. Settings' = [enable |-> ctrl'.enable, mode |-> ctrl'.mode, position |-> position,
                       velocity |-> velocity, irq |-> irqEnable]
      BY <1>4, <2>3, <3>2 DEF Settings, Ctrl
    <3>4. CASE call.name = "init_ctrl"
      <4>1. ctrl'.enable = FALSE /\ ctrl'.mode = 0
        BY <2>2, <3>1, <3>4 DEF CtrlZero
      <4>2. QED
        BY <1>3, <3>3, <3>4, <4>1 DEF Api!Apply
    <3>5. CASE call.name = "enable"
      <4>1. ctrl'.enable = TRUE /\ ctrl'.mode = ctrl.mode
        BY <1>4, <2>2, <3>1, <3>5 DEF Ctrl
      <4>2. QED
        BY <1>3, <3>3, <3>5, <4>1 DEF Api!Apply
    <3>6. CASE call.name = "disable"
      <4>1. ctrl'.enable = FALSE /\ ctrl'.mode = ctrl.mode
        BY <1>4, <2>2, <3>1, <3>6 DEF Ctrl
      <4>2. QED
        BY <1>3, <3>3, <3>6, <4>1 DEF Api!Apply
    <3>7. CASE call.name = "set_mode"
      BY <1>3, <1>4, <2>2, <3>1, <3>3, <3>7 DEF Api!Apply, Ctrl
    <3>8. QED
      BY <1>5, <2>5, <3>4, <3>5, <3>6, <3>7
  <2>6. QED
    BY <2>4, <2>5
<1>6. CASE call.name \notin CtrlUpdates \cup {"init_ctrl"}
  <2>1. ~Written("CTRL") /\ ctrl' = ctrl
    BY <1>1, <1>2, <1>6, CallFacts DEF Store, Written, Write
  <2>2. Settings' = [enable |-> ctrl.enable, mode |-> ctrl.mode, position |-> position',
                     velocity |-> velocity', irq |-> irqEnable']
    <3>1. ~ctrl'.reset
      BY <1>1, <2>1
    <3>2. QED
      BY <1>4, <2>1, <3>1 DEF Settings, Ctrl
  <2>3. CASE call.name = "set_position"
    BY <1>1, <1>2, <1>3, <2>2, <2>3 DEF Store, Written, Write, Api!Apply
  <2>4. CASE call.name = "set_velocity"
    BY <1>1, <1>2, <1>3, <2>2, <2>4 DEF Store, Written, Write, Api!Apply
  <2>5. CASE call.name \in {"irq_enable", "irq_disable", "init_config"}
    BY <1>1, <1>2, <1>3, <2>2, <2>5 DEF Store, Written, Write, Api!Apply
  <2>6. QED
    BY <2>3, <2>4, <2>5, <1>1, <1>6, CallFacts
<1>7. QED
  BY <1>5, <1>6

(***************************************************************************)
(* A clock edge under the driver: a call begins, takes effect, or nothing  *)
(* is seen of it.                                                          *)
(***************************************************************************)
LEMMA DriverStepIsApiStep ==
  ASSUME SysIInv, TypeOK', master = "driver", UNCHANGED master, DriverClock
  PROVE  [Api!Next]_(Api!vars)
<1> USE DEF SysIInv, OneMaster, BusFollows
<1>0. Tick /\ master' = "driver"
  BY DEF DriverClock
<1>1. CASE Pause \/ Access \/ StoreBack
  <2>1. Settings' = Settings
    BY <1>0, <1>1, SettingsStay DEF Pause, Access, StoreBack, ApbAccess, Written
  <2>2. call' = call /\ (pc # "ready")' = (pc # "ready")
    BY <1>1 DEF Pause, Access, StoreBack, cpu
  <2>3. QED
    BY <1>0, <2>1, <2>2 DEF Api!vars
<1>2. ASSUME NEW c \in Calls, Start(c) PROVE Api!Invoke(c)
  <2>1. Settings' = Settings
    BY <1>0, <1>2, SettingsStay DEF Start, Written
  <2>2. pc = "ready" /\ pc' # "ready" /\ call' = c
    BY <1>2 DEF Start
  <2>3. QED
    BY <1>0, <2>1, <2>2 DEF Api!Invoke
<1>3. CASE Loaded
  <2>1. pc = "loading" /\ req = Read(LoadReg(call)) /\ call' = call
    BY <1>3 DEF Loaded
  <2>2. Settings' = Settings
    BY <1>0, <2>1, SettingsStay DEF Written, Read
  <2>3. CASE call.name \in Queries
    <3>1. Api!Apply(call, Settings) = Settings
      BY <2>3 DEF Api!Apply, Queries
    <3>2. Api!TakeEffect
      BY <1>0, <1>3, <2>1, <2>2, <2>3, <3>1 DEF Api!TakeEffect, Loaded
    <3>3. QED
      BY <3>2 DEF Api!Next
  <2>4. CASE call.name \notin Queries
    BY <1>0, <1>3, <2>1, <2>2, <2>4 DEF Api!vars, Loaded
  <2>5. QED
    BY <2>3, <2>4
<1>4. CASE Return
  <2>1. Settings' = Api!Apply(call, Settings)
    BY <1>0, <1>4, StoreApplies
  <2>2. Api!TakeEffect
    BY <1>0, <1>4, <2>1 DEF Return, Api!TakeEffect
  <2>3. QED
    BY <2>2 DEF Api!Next
<1>5. QED
  BY <1>1, <1>2, <1>3, <1>4 DEF DriverClock, Run, Api!Next

(***************************************************************************)
(* The driver on the block implements the API of atomic calls.             *)
(***************************************************************************)
THEOREM CallsTakeEffectOnce == SystemSpec => CallsAreAtomic
<1>1. SystemInit => Api!Init
  <2> SUFFICES ASSUME SystemInit PROVE Api!Init
    OBVIOUS
  <2>1. ctrl.enable = FALSE /\ ctrl.mode = 0 /\ ctrl.reset = FALSE
    BY DEF SystemInit, DriverInit, Init, CtrlZero
  <2>2. Settings = Api!Zero
    BY <2>1 DEF SystemInit, DriverInit, Init, Settings, Api!Zero
  <2>3. QED
    BY <2>2 DEF SystemInit, DriverInit, CpuInit, Api!Init, Api!Zero
<1>2. SysIInv /\ [SystemNext]_svars => [Api!Next]_(Api!vars)
  <2> SUFFICES ASSUME SysIInv, [SystemNext]_svars PROVE [Api!Next]_(Api!vars)
    OBVIOUS
  <2>1. CASE SystemClock /\ master = "any"
    BY <2>1 DEF SystemClock, cpu, Api!vars
  <2>2. CASE SystemClock /\ master = "driver"
    BY <2>2, DriverStepIsApiStep, SystemStepIsBlockStep, TypeIsKept
       DEF SystemClock, SystemNext, SysIInv
  <2>3. CASE SystemReset
    <3>1. Settings' = Api!Zero
      BY <2>3 DEF SystemReset, HardReset, Settings, CtrlZero, Api!Zero
    <3>2. Api!PowerCycle
      BY <2>3, <3>1 DEF SystemReset, CpuReset, Api!PowerCycle, Api!Zero
    <3>3. QED
      BY <3>2 DEF Api!Next
  <2>4. CASE UNCHANGED svars
    BY <2>4 DEF svars, dvars, vars, regs, cpu, Api!vars, Settings
  <2>5. QED
    BY <2>1, <2>2, <2>3, <2>4 DEF SystemNext, SystemClock, SysIInv, OneMaster
<1>3. QED
  BY <1>1, <1>2, SysIInvHolds, PTL DEF SystemSpec, CallsAreAtomic, Api!Spec

=============================================================================
