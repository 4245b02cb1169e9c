------------------------------ MODULE SyncState ------------------------------
(***************************************************************************)
(* The data of the sync protocol: what SyncLog keeps in its SyncNodes      *)
(* table, what one row of the state log (SyncLog + SyncStateNodes) holds,  *)
(* and the SyncStateMsg that FindStateDifferences builds from two of them  *)
(* (src/sync-log.cc, src/sync-state.proto).                                *)
(*                                                                         *)
(* A snapshot maps every device name to the sequence number recorded for   *)
(* it, or to Absent when the table has no row for that device.  The SQL    *)
(* function hash() (src/db-helper.cc) digests exactly the (name, seq_no)   *)
(* rows in name order, so a state hash is represented by its snapshot:     *)
(* SHA-256 is taken to be collision free.                                  *)
(***************************************************************************)
EXTENDS Integers

CONSTANTS
    Device,     \* device names (wire encodings, the key of SyncNodes)
    Local,      \* SyncLog::m_localName
    MaxSeq      \* bound on the sequence numbers of the model

ASSUME MaxSeqAssumption == MaxSeq \in Nat

\* No row: the NULL of the LEFT JOINs in FindStateDifferences.
Absent == -1

SeqNo == 0..MaxSeq

Snapshot == [Device -> SeqNo \cup {Absent}]

\* The empty table.  hash() over no rows is the single zero byte, Hash::Origin.
Origin == [d \in Device |-> Absent]

\* Pointwise order: t records everything s does.
AtMost(s, t) == \A d \in Device : s[d] <= t[d]

\* Mutant: the last write wins, however old it is.
UpdateDeviceSeqNoAny(s, d, seq) == [s EXCEPT ![d] = seq]

\* The SyncNodesUpdater trigger and the UPDATE statement: a known device keeps
\* the larger number, an unknown one gets a row.
UpdateDeviceSeqNo(s, d, seq) ==
    [s EXCEPT ![d] = IF seq > @ THEN seq ELSE @]

\* Mutant: the NULL of a device the old state does not have is not tested.
SyncStateRecNoNull(d, old, new) ==
    [name |-> d, old_seq |-> old[d], seq |-> new[d]]

\* One SyncState of a message.  seq = Absent stands for a state of type DELETE,
\* which carries no sequence number; old_seq is 0 when the old side is NULL.
SyncStateRec(d, old, new) ==
    [name    |-> d,
     old_seq |-> IF old[d] = Absent THEN 0 ELSE old[d],
     seq     |-> new[d]]

\* The rows that differ between two snapshots: rows of the old one that are
\* changed or gone, and (UNION ALL) rows that only the new one has.
FindStateDifferences(old, new) ==
    {SyncStateRec(d, old, new) : d \in {e \in Device : old[e] # new[e]}}

\* What a receiver does with one SyncState: UPDATE raises the number, DELETE
\* only calls deregister(), which is empty.
ApplyState(s, st) ==
    IF st.seq = Absent THEN s ELSE UpdateDeviceSeqNo(s, st.name, st.seq)

=============================================================================
