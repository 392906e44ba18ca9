-------------------------------- MODULE Lamp --------------------------------
(***************************************************************************)
(* What the LED manager promises, without its states, modes and timings:   *)
(* a lamp that heat kills for good, that is dark whenever the autopilot is *)
(* not armed, and that needs two armed ticks in a row before it lights     *)
(* (the first one only arms it).  It may be dark at any time.              *)
(***************************************************************************)
VARIABLES
  alive,     \* no tick has seen the emergency temperature
  permit,    \* the latest tick saw the autopilot armed
  critical,  \* the latest tick saw the emergency temperature
  lit        \* some LED is lit

lampVars == <<alive, permit, critical, lit>>

Init ==
  /\ alive = TRUE
  /\ permit = FALSE
  /\ critical = FALSE
  /\ lit = FALSE

Next ==
  /\ permit' \in BOOLEAN
  /\ critical' \in BOOLEAN
  /\ alive' = (alive /\ ~critical')
  /\ lit' \in BOOLEAN
  /\ lit' => alive' /\ permit /\ permit'

Spec == Init /\ [][Next]_lampVars
=============================================================================
