------------------------------ MODULE MCConsole ------------------------------
(* Instances of Console and Query for TLC.                                 *)
EXTENDS Console

CONSTANTS f, c1, c2

MCEle == <<0, 1>>
MCBefore == {<<2>>}
=============================================================================
