------------------------------ MODULE MCJzqTraffic ------------------------------
(* Instances of JzqTraffic for TLC.                                        *)
EXTENDS JzqTraffic

CONSTANTS a1, a2

MCDB == <<a1>>
MCEle == [a \in Addr |-> IF a = a1 THEN 1 ELSE 0]
=============================================================================
