------------------------- MODULE MCSchedulerClients -------------------------
(* Two tags, one of each kind. *)
EXTENDS SchedulerClients

CONSTANTS c1, c2

MCClient == {c1, c2}
OneClient == {c1}

MCTag == {"once", "period"}
MCPeriodicTag == {"period"}

=============================================================================
