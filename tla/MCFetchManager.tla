--------------------------- MODULE MCFetchManager ---------------------------
(* Two fetches of one name, whose device has a locator, and one slot.       *)
EXTENDS FetchManager, TLC

CONSTANT a

MCNames == {a}
MCMapping == a :> "located"
=============================================================================
