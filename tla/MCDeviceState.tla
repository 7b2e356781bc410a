--------------------------- MODULE MCDeviceState ---------------------------
(***************************************************************************)
(* Instance of DeviceState for TLC: a device in one of two homes, enough   *)
(* for a switch away from it, to it, and away and back.                    *)
(***************************************************************************)
EXTENDS DeviceState

MCHomeOf == [d \in Device |-> "A"]
=============================================================================
