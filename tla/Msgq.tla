-------------------------------- MODULE Msgq --------------------------------
(* Zephyr's k_msgq as the firmware uses it: never waiting, on either side  *)
EXTENDS Integers, Sequences

(* Mutant of MsgqPut: the size check is off by one *)
MsgqPut_OneTooMany(queue, len, item) ==
  IF Len(queue) <= len THEN Append(queue, item) ELSE queue

(***************************************************************************)
(* k_msgq_put with K_NO_WAIT on a queue of len slots: a full queue refuses *)
(* the newcomer, and no caller looks at the result.                        *)
(***************************************************************************)
MsgqPut(queue, len, item) ==
  IF Len(queue) < len THEN Append(queue, item) ELSE queue
=============================================================================
