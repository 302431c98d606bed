--------------------------- MODULE ActuatorDriver ---------------------------
(***************************************************************************)
(* One processor using the actuator through the inline functions of        *)
(* include/custom_actuator_ctrl.h, on the cycle-level block of Actuator.   *)
(* A setter that keeps other bits (|=, &=~, set_mode) is a load, a change  *)
(* and a store: the block runs on between the two bus transfers.  The      *)
(* processor may pause for any number of cycles between transfers.         *)
(***************************************************************************)
EXTENDS Actuator

CONSTANT Speeds    \* bound: the velocities calls of set_velocity ask for

ASSUME SpeedsAssumption == Speeds \subseteq Word

VARIABLES
  call,   \* the driver function executing, or the last one executed
  pc,     \* "ready", "loading", "loaded", "storing"
  tmp     \* <<register, value>> loaded last

cpu   == <<call, pc, tmp>>
dvars == <<vars, cpu>>

Call(n, a) == [name |-> n, arg |-> a]
NoCall     == Call("none", 0)

\* custom_actuator_init is two stores; the second is a call that follows it.
Calls ==
  {Call(n, 0) : n \in {"init_ctrl", "init_config", "enable", "disable", "reset",
                       "irq_enable", "irq_disable", "is_busy"}}
    \cup {Call("set_mode", m) : m \in Modes}
    \cup {Call("set_position", t) : t \in Target}
    \cup {Call("set_velocity", v) : v \in Speeds}

CtrlUpdates   == {"enable", "disable", "reset", "set_mode"}
ConfigUpdates == {"irq_enable", "irq_disable"}
Queries       == {"is_busy"}

\* The register a load is from, and the value the bus returns.
LoadReg(c) == IF c.name \in CtrlUpdates THEN "CTRL"
              ELSE IF c.name \in ConfigUpdates THEN "CONFIG" ELSE "STATUS"

ReadData(r) ==
  CASE r = "CTRL" -> ctrl
    [] r = "CONFIG" -> irqEnable
    [] OTHER -> Busy

\* Fault: set_mode writes the mode field alone.
StoreClobbers(c, v) ==
  CASE c.name = "init_ctrl"    -> Write("CTRL", CtrlZero)
    [] c.name = "enable"       -> Write("CTRL", [v EXCEPT !.enable = TRUE])
    [] c.name = "disable"      -> Write("CTRL", [v EXCEPT !.enable = FALSE])
    [] c.name = "reset"        -> Write("CTRL", [v EXCEPT !.reset = TRUE])
    [] c.name = "set_mode"     -> Write("CTRL", [CtrlZero EXCEPT !.mode = c.arg])
    [] c.name = "set_position" -> Write("POSITION", c.arg)
    [] c.name = "set_velocity" -> Write("VELOCITY", c.arg)
    [] c.name = "irq_enable"   -> Write("CONFIG", TRUE)
    [] OTHER                   -> Write("CONFIG", FALSE)

\* The stores, v being the value loaded before.
Store(c, v) ==
  CASE c.name = "init_ctrl"    -> Write("CTRL", CtrlZero)
    [] c.name = "enable"       -> Write("CTRL", [v EXCEPT !.enable = TRUE])
    [] c.name = "disable"      -> Write("CTRL", [v EXCEPT !.enable = FALSE])
    [] c.name = "reset"        -> Write("CTRL", [v EXCEPT !.reset = TRUE])
    [] c.name = "set_mode"     -> Write("CTRL", [v EXCEPT !.mode = c.arg])
    [] c.name = "set_position" -> Write("POSITION", c.arg)
    [] c.name = "set_velocity" -> Write("VELOCITY", c.arg)
    [] c.name = "irq_enable"   -> Write("CONFIG", TRUE)
    [] OTHER                   -> Write("CONFIG", FALSE)

Loads(c) == c.name \in CtrlUpdates \cup ConfigUpdates \cup Queries

-----------------------------------------------------------------------------
(* The processor, one clock cycle at a time *)

Pause == pc \in {"ready", "loaded"} /\ ApbIdle /\ UNCHANGED cpu

Start(c) ==
  /\ pc = "ready"
  /\ phase = "idle"
  /\ (call.name = "init_ctrl") <=> (c.name = "init_config")
  /\ call' = c
  /\ phase' = "setup"
  /\ req' = IF Loads(c) THEN Read(LoadReg(c)) ELSE Store(c, 0)
  /\ pc' = IF Loads(c) THEN "loading" ELSE "storing"
  /\ UNCHANGED tmp

Access == ApbAccess /\ UNCHANGED cpu

Loaded ==
  /\ pc = "loading"
  /\ phase = "access"
  /\ ApbIdle
  /\ tmp' = <<req.reg, ReadData(req.reg)>>
  /\ pc' = IF call.name \in Queries THEN "ready" ELSE "loaded"
  /\ UNCHANGED call

StoreBack ==
  /\ pc = "loaded"
  /\ phase = "idle"
  /\ phase' = "setup"
  /\ req' = Store(call, tmp[2])
  /\ pc' = "storing"
  /\ UNCHANGED <<call, tmp>>

Return ==
  /\ pc = "storing"
  /\ phase = "access"
  /\ ApbIdle
  /\ pc' = "ready"
  /\ UNCHANGED <<call, tmp>>

NothingLoaded == <<"none", 0>>

CpuInit == call = NoCall /\ pc = "ready" /\ tmp = NothingLoaded

Run == (\E c \in Calls : Start(c)) \/ Access \/ Loaded \/ StoreBack \/ Return

DriverInit == Init /\ CpuInit

DriverClock == Tick /\ (Pause \/ Run)

CpuReset == call' = NoCall /\ pc' = "ready" /\ tmp' = NothingLoaded

-----------------------------------------------------------------------------
(* Properties *)

DriverTypeOK ==
  /\ TypeOK
  /\ call \in Calls \cup {NoCall}
  /\ pc \in {"ready", "loading", "loaded", "storing"}
  /\ call.name \in CtrlUpdates /\ pc \in {"loaded", "storing"} => tmp[2] \in Ctrl

\* Between the load and the end of the store of a read-modify-write of CTRL
\* the register keeps the value that was loaded: the hardware's clearing of
\* RESET never falls inside the sequence, so the store undoes nothing.
RmwFresh ==
  (call.name \in CtrlUpdates /\ pc \in {"loaded", "storing"}) => tmp = <<"CTRL", ctrl>>

\* The settings software sees: a reset that is still in the register has
\* already cleared everything but CONFIG.
Settings ==
  [enable   |-> ctrl.enable /\ ~ctrl.reset,
   mode     |-> IF ctrl.reset THEN 0 ELSE ctrl.mode,
   position |-> IF ctrl.reset THEN TargetZero ELSE position,
   velocity |-> IF ctrl.reset THEN 0 ELSE velocity,
   irq      |-> irqEnable]

=============================================================================
