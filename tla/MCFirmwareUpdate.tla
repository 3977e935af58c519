-------------------------- MODULE MCFirmwareUpdate --------------------------
(* Small instances of FirmwareUpdate.                                      *)
EXTENDS FirmwareUpdate
=============================================================================
