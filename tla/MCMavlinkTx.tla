---------------------------- MODULE MCMavlinkTx -----------------------------
(***************************************************************************)
(* The unit of time is 50 ms: 5 to the loop, 1 to the send timeout.        *)
(* loop_count wraps at 8, a multiple of 4 like 256.  Three slots and three *)
(* acknowledgements per loop instead of four and four keep the equality    *)
(* the drain relies on.                                                    *)
(***************************************************************************)
EXTENDS MavlinkTx
=============================================================================
