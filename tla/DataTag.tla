------------------------------- MODULE DataTag -------------------------------
(***************************************************************************)
(* Unit identifiers of Q/GDW 1376.1 (AFNPackage.cpp): an information point *)
(* pn is a group DA2 and a member DA1 of it, an information type Fn a      *)
(* group DT2 and a member DT1.  DA1 and DT1 are bytes with one bit for     *)
(* each member: sets of bit numbers here.                                  *)
(***************************************************************************)
EXTENDS Integers

Bit == 0 .. 7
Byte == 0 .. 255
Word == 65536

(* Points and types that have an identifier; 0 is the terminal itself and  *)
(* 2041 stands for every measuring point.                                  *)
Measuring == 1 .. 2040
Point == {0, 2041} \cup Measuring
Type == 1 .. 248

Lowest(bits) == CHOOSE n \in bits : \A k \in bits : n <= k

(* Faulty variant: the group is that of pn, not of pn - 1.                 *)
GetDAShift(pn, da) ==
  CASE pn = 0 -> [DA1 |-> {}, DA2 |-> 0]
    [] pn = 2041 -> [DA1 |-> Bit, DA2 |-> 0]
    [] pn \in Measuring -> [DA1 |-> {(pn - 1) % 8}, DA2 |-> (pn \div 8) + 1]
    [] OTHER -> da

(* The references DA1 and DA2 keep what they hold where no point matches.  *)
GetDA(pn, da) ==
  CASE pn = 0 -> [DA1 |-> {}, DA2 |-> 0]
    [] pn = 2041 -> [DA1 |-> Bit, DA2 |-> 0]
    [] pn \in Measuring -> [DA1 |-> {(pn - 1) % 8}, DA2 |-> ((pn - 1) \div 8) + 1]
    [] OTHER -> da

(* (group << 3) plus the number of the lowest bit, if any, in a WORD.      *)
Member(group, bits) ==
  (8 * group + (IF bits = {} THEN 0 ELSE Lowest(bits) + 1)) % Word

Getpn(da) ==
  CASE da.DA2 = 0 /\ da.DA1 = {} -> 0
    [] da.DA2 = 0 /\ da.DA1 = Bit -> 2041
    [] OTHER -> Member(da.DA2 - 1, da.DA1)

GetDT(Fn, dt) ==
  IF Fn \in Type THEN [DT1 |-> {(Fn - 1) % 8}, DT2 |-> (Fn - 1) \div 8] ELSE dt

GetFn(dt) == IF dt.DT2 <= 30 THEN Member(dt.DT2, dt.DT1) ELSE 0
=============================================================================
