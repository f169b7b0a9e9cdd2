------------------------- MODULE MCFirmwareUpdates -------------------------
(* Two devices, numbered in the order of their ids. *)
EXTENDS FirmwareUpdates

MCDevices == {1, 2}
=============================================================================
