------------------------------ MODULE MCFetcher ------------------------------
(* One fetcher, more segments than its pipeline holds.                      *)
EXTENDS Fetcher
=============================================================================
