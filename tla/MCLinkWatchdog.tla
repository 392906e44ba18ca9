--------------------------- MODULE MCLinkWatchdog ---------------------------
(***************************************************************************)
(* The times are scaled down with their order kept, and the clock wraps    *)
(* after 13 units, so that TLC goes through every alignment of the clock,  *)
(* the stamp and the check, and through outages longer than the clock.     *)
(***************************************************************************)
EXTENDS LinkWatchdog

CONSTANT NoLed  \* the LED field of a command that is not for the LED

(* HEARTBEATs, and setpoints and commands (no LED command) from a ground    *)
(* station, for this unit and for another                                   *)
MCFrames ==
  {Rx!HeartbeatFrame("fc", TRUE, TRUE)} \union
  {Rx!SetAttitudeFrame("gcs", for_us, neutral, TRUE) :
     for_us \in BOOLEAN, neutral \in BOOLEAN} \union
  {Rx!CommandFrame("gcs", for_us, FALSE, NoLed, TRUE) : for_us \in BOOLEAN}
=============================================================================
