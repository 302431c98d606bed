-------------------------------- MODULE Fll --------------------------------
(***************************************************************************)
(* The driver of the frequency-locked loop that clocks the peripherals     *)
(* (fll-v1.c), one of its FLLs; the others differ in their index only.     *)
(* CONF1 is the register the driver writes; pos_fll_deinit has no caller.  *)
(* A frequency is at least 2 and below 2^30, where the unsigned arithmetic *)
(* of the code does not wrap.                                              *)
(***************************************************************************)
EXTENDS Integers

CONSTANTS
  RefClock,   \* ARCHI_REF_CLOCK, 32768
  Log2MaxM,   \* FLL_LOG2_MAXM, 14
  ResetConf1  \* CONF1 after reset: mode, mult, div

ASSUME RefClockAssumption == RefClock \in Nat \ {0} /\ Log2MaxM \in Nat
ASSUME ResetConf1Assumption == ResetConf1 \in [mode : {0, 1}, mult : Nat, div : Nat \ {0}]

VARIABLES
  fllFreq,    \* pos_fll_freq
  fllIsOn,    \* pos_fll_is_on
  conf1       \* CONF1

fll == <<fllFreq, fllIsOn, conf1>>

\* __FL1, the position of the highest bit set.
FL1(x) == CHOOSE e \in 0..30 : x \div 2^e = 1

AtLeast(a, b) == IF a > b THEN a ELSE b

\* pos_fll_get_mult_div_from_freq, with the frequency it returns.
MultDivFromFreq(f) ==
  LET log == FL1(f) - FL1(RefClock)
      d   == AtLeast(1, (Log2MaxM - log) \div 2)
      m   == (f * 2^d) \div RefClock
  IN  [mult |-> m, div |-> d + 1, real |-> (RefClock * m + 2^(d - 1)) \div 2^d]

\* pos_fll_get_freq_from_mult_div: FreqOut = Fref * Mult / 2^(Div - 1).
FreqFromMultDiv(mult, div) == (RefClock * mult) \div 2^(div - 1)

FllConstructor == fllFreq' = 0 /\ fllIsOn' = FALSE /\ UNCHANGED conf1

\* Fault: the flag is set by the caller that wants the FLL.
FllInitLeavesOff ==
  /\ conf1' = [conf1 EXCEPT !.mode = 1]
  /\ fllFreq' = IF fllFreq # 0 THEN MultDivFromFreq(fllFreq).real
                ELSE FreqFromMultDiv(conf1.mult, conf1.div)
  /\ UNCHANGED fllIsOn

\* pos_fll_init: lock the loop unless it is, and learn its frequency.  A
\* frequency asked for earlier only rounds the recorded one: pos_fll_set_freq
\* still finds the FLL off and leaves CONF1 alone.
FllInit ==
  /\ conf1' = [conf1 EXCEPT !.mode = 1]
  /\ fllFreq' = IF fllFreq # 0 THEN MultDivFromFreq(fllFreq).real
                ELSE FreqFromMultDiv(conf1.mult, conf1.div)
  /\ fllIsOn' = TRUE

FllSetFreq(f) ==
  LET r == MultDivFromFreq(f) IN
  /\ fllFreq' = r.real
  /\ conf1' = IF fllIsOn THEN [conf1 EXCEPT !.mult = r.mult, !.div = r.div] ELSE conf1
  /\ UNCHANGED fllIsOn

FllReset == fllFreq = 0 /\ fllIsOn = FALSE /\ conf1 = ResetConf1

\* The frequency the registers ask for.
Applied == FreqFromMultDiv(conf1.mult, conf1.div)
=============================================================================
