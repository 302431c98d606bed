------------------------------- MODULE MCGpio -------------------------------
(* An instance of Gpio for TLC: two pins, of which pin 0 has a driven pad.  *)
EXTENDS Gpio, TLC

SmallMasks == {{}, {0}, {1}}
TwoModes == {0 :> m @@ 1 :> "input" : m \in {"input", "active", "drain0", "drain1"}}
=============================================================================
