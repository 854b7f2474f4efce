---------------------------- MODULE MCRtcBuffer -----------------------------
(* Model-checking instance of RtcBuffer: buffers are independent of each   *)
(* other, two of them let one message overtake the other.                  *)
EXTENDS RtcBuffer
=============================================================================
