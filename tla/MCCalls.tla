------------------------------- MODULE MCCalls -------------------------------
(* Instances of Calls for TLC.                                             *)
EXTENDS Calls

CONSTANTS clock, kwh, d1, d2
=============================================================================
