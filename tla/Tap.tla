-------------------------------- MODULE Tap --------------------------------
(***************************************************************************)
(* The TAP behind the JTAG pins, which is external: the register of one bit*)
(* that BYPASS puts between TDI and TDO.  It shifts with the rising edge of*)
(* TCK while TMS is 0 and shows its bit with the falling edge.  Pins are   *)
(* <<tck, tms, tdi>>.                                                      *)
(***************************************************************************)
EXTENDS Integers

Taps == [bit : {0, 1}, tdo : {0, 1}]

TapAfter(t, old, new) ==
  IF old[1] = 0 /\ new[1] = 1 /\ new[2] = 0 THEN [t EXCEPT !.bit = new[3]]
  ELSE IF old[1] = 1 /\ new[1] = 0 THEN [t EXCEPT !.tdo = t.bit]
  ELSE t

=============================================================================
