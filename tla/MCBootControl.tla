---------------------------- MODULE MCBootControl ----------------------------
(***************************************************************************)
(* BootControl for TLC.  Two merge statuses are enough to see one being    *)
(* lost, and one descriptor to run out of them.  The queries treat the     *)
(* slots alike, so they are asked about one, the one that is not active    *)
(* after a reset.                                                          *)
(***************************************************************************)
EXTENDS BootControl
=============================================================================
