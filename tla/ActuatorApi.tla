----------------------------- MODULE ActuatorApi -----------------------------
(***************************************************************************)
(* What the driver functions of include/custom_actuator_ctrl.h promise: a  *)
(* call takes effect on the settings exactly once, in one step, and        *)
(* changes nothing but the setting it is named for.                        *)
(***************************************************************************)
EXTENDS Integers

CONSTANTS Calls,          \* the driver calls, records with a name and an arg
          NoCall,         \* nothing has been called since reset
          ZeroPosition    \* the position after a reset

VARIABLES call,       \* the last call made
          pending,    \* it has not taken effect yet
          settings    \* [enable, mode, position, velocity, irq]

vars == <<call, pending, settings>>

Zero == [enable |-> FALSE, mode |-> 0, position |-> ZeroPosition,
         velocity |-> 0, irq |-> FALSE]

\* The settings after call c; queries and unlisted names change nothing.
Apply(c, s) ==
  CASE c.name = "enable"       -> [s EXCEPT !.enable = TRUE]
    [] c.name = "disable"      -> [s EXCEPT !.enable = FALSE]
    [] c.name = "set_mode"     -> [s EXCEPT !.mode = c.arg]
    [] c.name = "init_ctrl"    -> [s EXCEPT !.enable = FALSE, !.mode = 0]
    [] c.name = "reset"        -> [Zero EXCEPT !.irq = s.irq]
    [] c.name = "set_position" -> [s EXCEPT !.position = c.arg]
    [] c.name = "set_velocity" -> [s EXCEPT !.velocity = c.arg]
    [] c.name = "irq_enable"   -> [s EXCEPT !.irq = TRUE]
    [] c.name \in {"irq_disable", "init_config"} -> [s EXCEPT !.irq = FALSE]
    [] OTHER -> s

Init == call = NoCall /\ pending = FALSE /\ settings = Zero

Invoke(c) ==
  /\ ~pending
  /\ call' = c
  /\ pending' = TRUE
  /\ UNCHANGED settings

TakeEffect ==
  /\ pending
  /\ settings' = Apply(call, settings)
  /\ pending' = FALSE
  /\ UNCHANGED call

PowerCycle == call' = NoCall /\ pending' = FALSE /\ settings' = Zero

Next == (\E c \in Calls : Invoke(c)) \/ TakeEffect \/ PowerCycle

Spec == Init /\ [][Next]_vars
=============================================================================
