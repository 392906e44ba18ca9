--------------------------- MODULE MCLightControl ---------------------------
(***************************************************************************)
(* A system small enough for TLC: one autopilot, a ramp of two steps,      *)
(* queues of one slot each, and commands for the steady mode, for the      *)
(* police strobe, and for the mode 7, which names no mode and sends the    *)
(* FSM to a state that has no case.                                        *)
(***************************************************************************)
EXTENDS LightControl

MCModes    == {1, 3, 7}
MCReadings == {25, 80, 95, OpenOrShort}
MCTemps    == {0, 25, 80, 95}
MCSosPattern == <<1, 1>>

(* HEARTBEATs, full and truncated, and LED commands *)
MCFrames ==
  {Rx!HeartbeatFrame("fc", armed, TRUE) : armed \in BOOLEAN} \union
  {Rx!HeartbeatFrame("fc", FALSE, FALSE)} \union
  {Rx!CommandFrame("fc", TRUE, TRUE, [mode |-> m, brightness_pct |-> 4], TRUE) :
     m \in MCModes}
=============================================================================
