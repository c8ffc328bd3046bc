------------------------------ MODULE MCJzqList ------------------------------
(* Instances of JzqList for TLC.                                           *)
EXTENDS JzqList

CONSTANTS a1, a2

MCDB == <<a1>>
MCEle == [a \in Addr |-> IF a = a1 THEN 1 ELSE 0]
MCDB2 == <<a2, a1>>
=============================================================================
