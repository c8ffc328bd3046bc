------------------------------- MODULE Package -------------------------------
(***************************************************************************)
(* One package of the master station from its fields to bytes and back:    *)
(* Create, REQUEST_DATA, CreateAck, okPkg and Serialize on one side,       *)
(* ParseProto on the other, with a byte damaged on the way.  Every field   *)
(* that is added up, counted or copied is a number; the 512 bytes of a     *)
(* status setting are shortened to StatusLen.                              *)
(***************************************************************************)
EXTENDS DataTag, Sequences

CONSTANTS
  Points,     \* numbers the telnet command and the database ask for
  Types,      \* Fn of AFN0C requests
  Address,    \* values of A1 and A2
  Seq16,      \* values of PRSEQ
  Memory,     \* what a new m_Tag may hold before it is written
  StatusLen,  \* 512
  Damages     \* values a damaged byte may take

ASSUME ValueAssumption ==
  /\ Points \subseteq 0 .. Word - 1 /\ Types \subseteq Type
  /\ Address \subseteq 0 .. Word - 1 /\ Seq16 \subseteq 0 .. 15
  /\ Memory \subseteq [DA1 : SUBSET Bit, DA2 : Byte]
  /\ StatusLen \in Nat /\ Damages \subseteq Byte

VARIABLES
  pkg,      \* the package being sent
  wire,     \* its bytes
  damaged,  \* one of them has changed
  got       \* what ParseProto made of them

vars == <<pkg, wire, damaged, got>>

None == [kind |-> "none"]
Unread == [res |-> "unread"]

UserHead == 6   \* PKG_USER_HEADLEN, as long as PKG_HEADLEN
AfnHead == 2
TagLen == 4
TailLen == 2
BufSize == 4000

Total(s) ==
  LET sum[n \in 0 .. Len(s)] == IF n = 0 THEN 0 ELSE sum[n - 1] + s[n]
  IN  sum[Len(s)]
Zeros(n) == [i \in 1 .. n |-> 0]

(* The two bytes of a word, the lower one first.                           *)
Lo(w) == w % 256
Hi(w) == w \div 256
Two(w) == <<Lo(w), Hi(w)>>

(* Bit k of a byte is worth Weight[k + 1].                                 *)
Weight == <<1, 2, 4, 8, 16, 32, 64, 128>>
Bits(b) == {k \in Bit : (b \div Weight[k + 1]) % 2 = 1}
Value(bits) == Total([i \in 1 .. 8 |-> IF i - 1 \in bits THEN Weight[i] ELSE 0])
TagBytes(tag) == <<Value(tag.DA1), tag.DA2, Value(tag.DT1), tag.DT2>>

(***************************************************************************)
(* Building a package.  SetL counts the control and address fields, the    *)
(* AFN header, the unit with its identifier, and the auxiliary field;      *)
(* CreateCS adds the same bytes, a word as it is and shifted by eight, but *)
(* not those of the auxiliary field, whose password is all zeros.          *)
(***************************************************************************)

(* Faulty variant: the auxiliary field is not counted.                     *)
SetLShort(p) == UserHead + AfnHead + TagLen + Len(p.data)

SetL(p) == UserHead + AfnHead + TagLen + Len(p.data) + Len(p.aux)
CreateCS(p) ==
  (p.c + p.a1 + Hi(p.a1) + p.a2 + Hi(p.a2) + p.a3 + p.afn + p.seq
     + Value(p.tag.DA1) + p.tag.DA2 + Value(p.tag.DT1) + p.tag.DT2
     + Total(p.data)) % 256

(* DIR = FCV = FCB = 0, PRM = 1; A3: single address, MSA = 1.              *)
Control(prm, fun) == 64 * prm + fun
A3 == 2
(* TPV = 0, FIR = FIN = 1.                                                 *)
SeqByte(con, n) == 96 + 16 * con + n

Tag(pn, Fn, memory) ==
  LET da == GetDA(pn, memory)
      dt == GetDT(Fn, [DT1 |-> {}, DT2 |-> 0])
  IN  [DA1 |-> da.DA1, DA2 |-> da.DA2, DT1 |-> dt.DT1, DT2 |-> dt.DT2]

(* AFN0C::Create, AFN04::CreatePointBaseSetting and CreatePointStatus in a *)
(* REQUEST_DATA.  AFN04 fills in the function code of AFN0C.               *)
Request(kind, pn, Fn, fun, data, a1, a2, n) ==
  \E memory \in Memory :
    pkg' = [kind |-> kind, pn |-> pn, Fn |-> Fn,
            c |-> Control(1, fun), a1 |-> a1, a2 |-> a2, a3 |-> A3,
            afn |-> 12, seq |-> SeqByte(1, n), tag |-> Tag(pn, Fn, memory),
            data |-> data, aux |-> Zeros(16)]

(* CreateAck: the answer to a link frame (F3 with the identifier of what   *)
(* it confirms) or to any other request (F1, no data).                     *)
Ack(Fn, data, a1, a2, n) ==
  pkg' = [kind |-> "ack", pn |-> 0, Fn |-> Fn,
          c |-> Control(0, 11), a1 |-> a1, a2 |-> a2, a3 |-> A3,
          afn |-> 0, seq |-> SeqByte(0, n),
          tag |-> Tag(0, Fn, [DA1 |-> {}, DA2 |-> 0]), data |-> data, aux |-> <<>>]

LinkAck(Fn) == <<2>> \o TagBytes(Tag(0, Fn, [DA1 |-> {}, DA2 |-> 0])) \o <<0>>

Build ==
  /\ pkg = None
  /\ \E a1 \in Address, a2 \in Address, n \in Seq16 :
       \/ \E pn \in Points, Fn \in Types : Request("AFN0C", pn, Fn, 10, <<>>, a1, a2, n)
       \/ \E pn \in Points : Request("AFN04", pn, 25, 11, <<>>, a1, a2, n)
       \/ Request("AFN04", 0, 150, 10, Zeros(StatusLen), a1, a2, n)
       \/ \E Fn \in 1 .. 3 : Ack(3, LinkAck(Fn), a1, a2, n)
       \/ Ack(1, <<>>, a1, a2, n)
  /\ UNCHANGED <<wire, damaged, got>>

(* A length field holds the length in its upper 14 bits and TAG = 1.       *)
LengthField(n) == (4 * n + 1) % Word

(* pkgHeader, then user header, AFN header and identifier, byte by byte.   *)
HeadBytes(L) == <<104, Lo(L), Hi(L), Lo(L), Hi(L), 104>>
UserBytes(p) ==
  <<p.c, Lo(p.a1), Hi(p.a1), Lo(p.a2), Hi(p.a2), p.a3, p.afn, p.seq,
    Value(p.tag.DA1), p.tag.DA2, Value(p.tag.DT1), p.tag.DT2>>

Serialize(p) ==
  HeadBytes(LengthField(SetL(p))) \o (UserBytes(p) \o (p.data \o p.aux))
    \o <<CreateCS(p), 22>>

SendPkg ==
  /\ pkg # None /\ wire = <<>>
  /\ Len(Serialize(pkg)) \in 1 .. BufSize - 1
  /\ wire' = Serialize(pkg)
  /\ UNCHANGED <<pkg, damaged, got>>

(* A byte other than a length byte changes.                                *)
Damage ==
  /\ wire # <<>> /\ ~damaged /\ got = Unread
  /\ \E i \in DOMAIN wire \ (2 .. 5), b \in Damages :
       b # wire[i] /\ wire' = [wire EXCEPT ![i] = b]
  /\ damaged' = TRUE
  /\ UNCHANGED <<pkg, got>>

(***************************************************************************)
(* ParseProto on dataLen = Len(data) bytes.  User data without a whole     *)
(* identifier ends the program (pAfnData is NULL; below UserHead the length*)
(* wraps), which no package built here has.                                *)
(***************************************************************************)
LengthOf(data) == (data[2] + 256 * data[3]) \div 4

(* Faulty variant: the tail is not looked at.                              *)
validHead(data) == data[1] = 104 /\ data[6] = 104

GetCS(user) == Total(user) % 256
valid(data) ==
  data[1] = 104 /\ data[6] = 104 /\ data[UserHead + LengthOf(data) + TailLen] = 22

Unpacked(data, user) ==
  LET tag == [DA1 |-> Bits(user[9]), DA2 |-> user[10],
              DT1 |-> Bits(user[11]), DT2 |-> user[12]]
  IN  [res |-> "ok", eat |-> UserHead + LengthOf(data) + TailLen,
       c |-> user[1], a1 |-> user[2] + 256 * user[3], a2 |-> user[4] + 256 * user[5],
       a3 |-> user[6], afn |-> user[7], seq |-> user[8],
       pn |-> Getpn(tag), Fn |-> GetFn(tag),
       data |-> SubSeq(user, 13, Len(user))]

ParseProto(data) ==
  LET L == LengthOf(data)
      user == SubSeq(data, UserHead + 1, UserHead + L)
  IN  CASE Len(data) < 2 * UserHead + TailLen \/ Len(data) < UserHead + L + TailLen
             -> [res |-> "half"]
        [] ~valid(data) -> [res |-> "tag"]
        [] GetCS(user) # data[UserHead + L + 1] -> [res |-> "sum"]
        [] L < UserHead + AfnHead + TagLen -> [res |-> "crash"]
        [] OTHER -> Unpacked(data, user)

Receive ==
  /\ wire # <<>> /\ got = Unread
  /\ got' = ParseProto(wire)
  /\ UNCHANGED <<pkg, wire, damaged>>

-----------------------------------------------------------------------------
Init == pkg = None /\ wire = <<>> /\ damaged = FALSE /\ got = Unread

(* The sender has deleted the package, the receiver is done with it.       *)
Forget ==
  /\ got # Unread
  /\ pkg' = None /\ wire' = <<>> /\ damaged' = FALSE /\ got' = Unread

Next == Build \/ SendPkg \/ Damage \/ Receive \/ Forget

Spec == Init /\ [][Next]_vars

-----------------------------------------------------------------------------
(* What okPkg and Serialize build are bytes that fit the buffer, and       *)
(* ParseProto takes them apart again: length, sum and layout agree on      *)
(* every field and on the identifier, for every kind of package.           *)
PackagesParse ==
  got # Unread /\ ~damaged =>
    /\ wire \in Seq(Byte) /\ Len(wire) < BufSize
    /\ got.res = "ok" /\ got.eat = Len(wire)
    /\ \A f \in {"c", "a1", "a2", "a3", "afn", "seq"} : got[f] = pkg[f]
    /\ got.pn = Getpn(pkg.tag) /\ got.Fn = GetFn(pkg.tag)
    /\ got.data = pkg.data \o pkg.aux

(* A package with a damaged byte is never taken for a good one: start,     *)
(* end and sum together cover every byte (valid, GetCS).                   *)
DamageDetected == damaged => got.res # "ok"

(* The call that waits is the one asked for, and the one an answer with    *)
(* the same identifier names: every point and type has an identifier of    *)
(* its own (GetDA, GetDT, Getpn, GetFn).                                   *)
TagNamesPoint ==
  pkg # None /\ pkg.pn \in Point => Getpn(pkg.tag) = pkg.pn /\ GetFn(pkg.tag) = pkg.Fn
=============================================================================
