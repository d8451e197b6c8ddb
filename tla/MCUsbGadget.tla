----------------------------- MODULE MCUsbGadget -----------------------------
(* UsbGadget for TLC. *)
EXTENDS UsbGadget
=============================================================================
