--------------------------- MODULE ThermalManager ---------------------------
(***************************************************************************)
(* The pure part of app/thermal_manager.c: what one pair of NTC readings   *)
(* becomes in g_thermal.  Temperatures are whole degrees Celsius; the two  *)
(* NTC fields are kept only as their maximum, the one number every reader  *)
(* of the structure uses.                                                  *)
(***************************************************************************)
EXTENDS Integers

THROTTLE_THRESHOLD_C == 75
SHUTDOWN_THRESHOLD_C == 95

(***************************************************************************)
(* The NTC curve is strictly monotonic between the rails, so a valid       *)
(* reading is represented by the temperature it stands for.  A reading at  *)
(* a rail (0 or ADC_MAX_VAL: open or shorted NTC) is represented by a      *)
(* number below absolute zero, and converts to 25 degrees.                 *)
(***************************************************************************)
OpenOrShort == -274

adc_to_celsius(reading) == IF reading = OpenOrShort THEN 25 ELSE reading

(* g_thermal as thermal_manager_sample leaves it for the hotter NTC max_c  *)
ThermalState(max_c) ==
  [max_c              |-> max_c,
   throttle_active    |-> max_c >= THROTTLE_THRESHOLD_C,
   emergency_shutdown |-> max_c >= SHUTDOWN_THRESHOLD_C]

(* g_thermal before the first sample: a zeroed static                      *)
ColdThermal ==
  [max_c |-> 0, throttle_active |-> FALSE, emergency_shutdown |-> FALSE]

(* What the readings of the LED and driver NTCs become                     *)
SampledThermal(led, driver) ==
  LET led_c    == adc_to_celsius(led)
      driver_c == adc_to_celsius(driver)
  IN  ThermalState(IF led_c > driver_c THEN led_c ELSE driver_c)
=============================================================================
