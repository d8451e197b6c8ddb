--------------------------- MODULE MCAudioPlayback ---------------------------
(***************************************************************************)
(* AudioPlayback for TLC: the offload stream and one PCM stream beside it, *)
(* which may be directed to AUX_DIGITAL.  One message may wait while the   *)
(* callback thread is busy with another.                                   *)
(***************************************************************************)
EXTENDS AudioPlayback
=============================================================================
