--------------------------- MODULE MCUsbRoleSwitch ---------------------------
(* UsbRoleSwitch for TLC. *)
EXTENDS UsbRoleSwitch
=============================================================================
