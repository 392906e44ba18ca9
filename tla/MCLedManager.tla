---------------------------- MODULE MCLedManager ----------------------------
(***************************************************************************)
(* Small timings for TLC: a ramp of 3 steps, strobes of 3 and 2 ticks, a   *)
(* Morse word of two marks and two gaps with one-tick and longer elements, *)
(* 4-bit bytes and a tick counter that wraps in the middle of a strobe     *)
(* phase.  The proportions that matter are kept: a byte holds more than    *)
(* the ramp and more than full brightness, which is 10; commands ask for 6 *)
(* or for 15, that is 60 % or the 150 % a command may say as well.         *)
(***************************************************************************)
EXTENDS LedManager

MCSosPattern == <<1, 2, 2, 1>>

(* 77 and 90 degrees: a throttle factor above the 20 % floor and one on it *)
MCTemps == {25, 77, 90, 95}

(* Every mode of the enum; and the modes 6 and 7, which name none *)
ValidModes == 0 .. 4
AnyModes   == {1, 6, 7}
=============================================================================
