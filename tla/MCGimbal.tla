------------------------------ MODULE MCGimbal -------------------------------
(***************************************************************************)
(* One axis with the joint limits of pitch in steps of 30 degrees; the     *)
(* axes share nothing but mode and lock_captured.                          *)
(***************************************************************************)
EXTENDS Gimbal

MCJointMin   == [a \in Axes |-> -3]
MCJointMax   == [a \in Axes |-> 1]
MCAngleGains == [a \in Axes |-> [kp |-> 1, ki |-> 1, kd |-> 1,
                                 integrator_limit |-> 3, output_limit |-> 3]]
MCRateGains  == [a \in Axes |-> [kp |-> 1, ki |-> 1, kd |-> 1,
                                 integrator_limit |-> 3, output_limit |-> 2]]
MCServoId    == [a \in Axes |-> 2]
MCAngles     == {-2, 0, 1}
MCRates      == {-1, 0, 1}
MCSetpoints  == [mode : Modes, angle : [Axes -> {0, 1}]]
=============================================================================
