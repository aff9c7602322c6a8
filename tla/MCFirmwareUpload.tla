-------------------------- MODULE MCFirmwareUpload --------------------------
(* Small instances of FirmwareUpload. *)
EXTENDS FirmwareUpload, TLC

CONSTANTS A, B           \* two files

MCFiles == {A, B}
MCSize == (A :> 3 @@ B :> 2)
=============================================================================
