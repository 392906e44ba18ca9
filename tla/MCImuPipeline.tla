--------------------------- MODULE MCImuPipeline ----------------------------
(***************************************************************************)
(* A tick is 1 ms, so both timeouts and the angle thread's sleep are the   *)
(* code's own 5 ms.  The processor may be behind by a tick, and one SPI    *)
(* transfer in a row may fail.  Ages are counted up to 20 ticks, one more  *)
(* than the largest that ServoDataIsFresh allows.                          *)
(***************************************************************************)
EXTENDS ImuPipeline
=============================================================================
