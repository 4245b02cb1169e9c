-------------------------- MODULE MCCcnxWrapper --------------------------
(* CcnxWrapper with two callbacks for one prefix and one Interest, sent by *)
(* get: an Interest of the application's own only lacks the wait.          *)
EXTENDS CcnxWrapper

MCCallback == {1, 2}
=============================================================================
