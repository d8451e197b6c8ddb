----------------------------- MODULE MCUsbWorker -----------------------------
(* UsbWorker for TLC. *)
EXTENDS UsbWorker
=============================================================================
