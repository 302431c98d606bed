--------------------------- MODULE ActuatorSystem ---------------------------
(***************************************************************************)
(* The actuator block with a master on its bus.  The block is not wired    *)
(* into soc_domain.sv yet, so the master is either of two, fixed for a     *)
(* behaviour: any sequence of legal APB transfers, or a processor that     *)
(* calls the driver.                                                       *)
(***************************************************************************)
EXTENDS ActuatorDriver

VARIABLE master

svars == <<dvars, master>>

SystemInit == DriverInit /\ master \in {"any", "driver"}

SystemClock ==
  /\ UNCHANGED master
  /\ \/ master = "any" /\ Clock /\ UNCHANGED cpu
     \/ master = "driver" /\ DriverClock

SystemReset == HardReset /\ CpuReset /\ UNCHANGED master

SystemNext == SystemClock \/ SystemReset

SystemSpec == SystemInit /\ [][SystemNext]_svars

\* The clock does not stop.
SystemFairSpec == SystemSpec /\ WF_vars(SystemClock)

-----------------------------------------------------------------------------
(* Properties *)

\* The block and a processor that calls the driver, in one invariant: types, a
\* reset that is never up in an access cycle, and no load that goes stale
\* before its store.
SystemInv == DriverTypeOK /\ ResetOffBus /\ RmwFresh

Api == INSTANCE ActuatorApi WITH
  ZeroPosition <- TargetZero,
  pending  <- pc # "ready",
  settings <- IF master = "driver" THEN Settings
              ELSE [enable |-> FALSE, mode |-> 0, position |-> TargetZero,
                    velocity |-> 0, irq |-> FALSE]

\* Every driver call takes effect once and changes only its own setting
\* (under the other master no call is ever made).
CallsAreAtomic == Api!Spec

=============================================================================
