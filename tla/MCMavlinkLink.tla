--------------------------- MODULE MCMavlinkLink ----------------------------
(***************************************************************************)
(* Frames with a header of the two bytes that the parser looks at, a       *)
(* one-byte checksum, and at most one byte of payload.  Payload and        *)
(* checksum may be an STX, and STX, the largest byte, may be taken for a   *)
(* length, so that a parser out of step can swallow more than a whole      *)
(* frame.  The ring and the DMA buffer hold about one frame: both overflow.*)
(***************************************************************************)
EXTENDS MavlinkLink

MCFrames == {<<3, 0, 3>>, <<3, 1, 1, 1>>, <<3, 1, 3, 1>>}
=============================================================================
