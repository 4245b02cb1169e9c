------------------------------ MODULE MCSyncLog ------------------------------
(* One local and one remote device. *)
EXTENDS SyncLog

CONSTANTS me, peer

MCDevice == {me, peer}

=============================================================================
