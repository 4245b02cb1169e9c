----------------------------- MODULE MCSyncCore -----------------------------
(* One local and one remote device. *)
EXTENDS SyncCore

CONSTANTS me, peer

MCDevice == {me, peer}
MCTag == SyncTags
MCPeriodicTag == {SYNC_INTEREST_TAG}

\* A peer that has the state we start from: as it arrives, even this hash is unknown.
MCPeerHash == {FirstState}

NoPeerHash == {}

\* A peer device is told of when it has published something (and not with number 0,
\* which says no more than Absent does), or is deleted.
MCTold == {Absent} \cup 1..MaxSeq

Peers == {peer}
Nobody == {}

=============================================================================
