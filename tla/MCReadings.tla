----------------------------- MODULE MCReadings -----------------------------
(* Instances of Readings for TLC.                                          *)
EXTENDS Readings

MCMemory == {[DA1 |-> {1, 2}, DA2 |-> 255]}

Winter == <<2017, 12, 31, 23, 59, 58>>
Minute == <<2017, 10, 9, 8, 7, 0>>

BlockOf(n) == <<n, 300 + n, 3, 299, 17, Winter, Minute>>

(* Counts at both ends of what is allowed and beyond them, missing values, *)
(* registers that use every digit.                                         *)
MCContents ==
  {[Fn |-> 2, vals |-> <<d>>] : d \in {Winter, NoDate}}
    \cup {[Fn |-> 11, vals |-> <<0>>],
          [Fn |-> 11, vals |-> <<1>> \o BlockOf(1)],
          [Fn |-> 11, vals |-> <<2>> \o BlockOf(4) \o BlockOf(9)]}
    \cup {[Fn |-> 33, vals |-> <<Minute, 0, 1, 2, 3, 4>>],
          [Fn |-> 33, vals |-> <<Minute, 1, 1234567890, Missing, 87654321, 2, 30, 40, 506, 700>>],
          [Fn |-> 33, vals |-> <<NoDate, 5>> \o [i \in 1 .. 24 |-> 100 + i]],
          [Fn |-> 33, vals |-> <<Minute, 13, 1, 2, 3>>]}
=============================================================================
