--------------------------- MODULE ReadingsProofs ---------------------------
(***************************************************************************)
(* Proofs about Readings, for every content an answer can have and every   *)
(* place it can be cut off at.  The buffer an answer shares with its       *)
(* package is freed exactly once.  A field is read as it was written, the  *)
(* fields lie where the sums of their widths say, so HandleData takes a    *)
(* whole answer for what it says and no other answer for a reading, and    *)
(* the columns of a row are the fields of the answer.  The invariant       *)
(* AnswerInv says whose answer the thread has in each of its steps; what   *)
(* is on the wire is PackageInv of PackageProofs.                          *)
(***************************************************************************)
EXTENDS Readings, PackageProofs

(***************************************************************************)
(* The buffer (m_DataUsed).                                                *)
(***************************************************************************)

Uses(o, c) == [origin |-> o, copy |-> c]

(* The counts each step of the thread leaves, with the buffer's state.     *)
Owned ==
  \/ used = Uses(1, Gone) /\ buffer = "live"
  \/ used = Uses(2, 1) /\ buffer = "live"
Shared ==
  \/ Owned
  \/ used = Uses(Gone, 1) /\ buffer = "live"
  \/ used = Uses(2, Gone) /\ buffer = "freed"
  \/ used = Uses(Gone, Gone) /\ buffer = "freed"

BufferInv ==
  /\ step \in {"idle", "parsed", "handled", "saved", "crashed"}
  /\ got = Unread => step = "idle"
  /\ step = "idle" => used = Uses(Gone, Gone) /\ buffer = "none"
  /\ step = "parsed" => used = Uses(1, Gone) /\ buffer = "live"
  /\ step = "handled" => Owned
  /\ step \in {"saved", "crashed"} => Shared

(* The invariant says what BufferFreedOnce asks for (~Pkg_Afn_Data).       *)
LEMMA BufferInvImplies == BufferInv => BufferFreedOnce
  BY DEF BufferInv, BufferFreedOnce, Owned, Shared, Uses, Gone

(* Nothing has been parsed and nothing is shared.                          *)
LEMMA InitBuffer == RInit => BufferInv
  BY DEF RInit, Init, BufferInv, Owned, Shared, Uses, Gone, Unread

(* Every step of the sender, the thread and the caller keeps the counts.   *)
LEMMA NextBuffer == BufferInv /\ [RNext]_rvars => BufferInv'
<1> SUFFICES ASSUME BufferInv, [RNext]_rvars PROVE BufferInv'
  OBVIOUS
<1> USE DEF BufferInv, Owned, Shared, Uses, Gone
<1>1. CASE BuildAnswer
  BY <1>1 DEF BuildAnswer, unit
<1>2. CASE (Build \/ SendPkg \/ Damage) /\ UNCHANGED unit
  BY <1>2 DEF Build, SendPkg, Damage, unit
<1>3. CASE RReceive
  <2>1. step = "idle"
    BY <1>3 DEF RReceive, Receive
  <2>2. CASE pkg.kind = "answer" /\ got'.res = "ok"
    <3>1. got' # Unread
      BY <2>2 DEF Unread
    <3> QED BY <1>3, <2>2, <3>1 DEF RReceive
  <2>3. CASE ~(pkg.kind = "answer" /\ got'.res = "ok")
    BY <1>3, <2>1, <2>3 DEF RReceive, unit
  <2> QED BY <2>2, <2>3
<1>4. CASE DoHandleAck
  BY <1>4 DEF DoHandleAck, Copy
<1>5. CASE Save
  BY <1>5 DEF Save
<1>6. CASE DeletePackage
  BY <1>6 DEF DeletePackage, Release
<1>7. CASE DeleteReading
  BY <1>7 DEF DeleteReading, Release
<1>8. CASE RForget
  BY <1>8 DEF RForget, Forget
<1>9. CASE UNCHANGED rvars
  BY <1>9 DEF rvars
<1> QED BY <1>1, <1>2, <1>3, <1>4, <1>5, <1>6, <1>7, <1>8, <1>9 DEF RNext

(* The data an answer shares with its package is live until both are       *)
(* deleted and then freed once, in either order (m_DataUsed).              *)
THEOREM FreedOnce == RSpec => []BufferFreedOnce
  BY InitBuffer, NextBuffer, BufferInvImplies, PTL DEF RSpec

-----------------------------------------------------------------------------
(***************************************************************************)
(* Fields: what the concentrator writes, the parse functions read.         *)
(***************************************************************************)

Kinds == {"byte", "word", "date5", "date6", "kwh", "kvar"}

(* Two digits in a byte.                                                   *)
LEMMA PairBack ==
  ASSUME NEW n \in 0 .. 99
  PROVE  Pair(n) \in 0 .. 153 /\ Bcd(Pair(n)) = n
<1> DEFINE q == n \div 10
<1> DEFINE r == n % 10
<1> DEFINE b == 16 * q + r
<1>1. q \in 0 .. 9 /\ r \in 0 .. 9 /\ n = 10 * q + r
  OBVIOUS
<1> HIDE DEF q, r
<1>2. b \in 0 .. 153 /\ b \div 16 = q /\ (b % 16) = r
  BY <1>1
<1>3. Pair(n) = b
  BY DEF Pair, q, r
<1> HIDE DEF b
<1>4. Bcd(b) = 10 * q + r
  BY <1>2 DEF Bcd
<1> QED
  BY <1>1, <1>2, <1>3, <1>4

Digits == 0 .. 99
Packed(b, n) == b \in Byte /\ b # 238 /\ Bcd(b) = n

(* Such a byte is never 0xEE.                                              *)
LEMMA PairByte == \A n \in Digits : Packed(Pair(n), n)
<1>1. \A b \in 0 .. 153 : b \in Byte /\ b # 238
  BY DEF Byte
<1>2. \A n \in Digits : Pair(n) \in 0 .. 153 /\ Bcd(Pair(n)) = n
  BY PairBack DEF Digits
<1> QED
  BY <1>1, <1>2 DEF Packed

(* The month keeps its digits under the day of the week.                   *)
LEMMA MonthBack ==
  ASSUME NEW n \in 1 .. 12, NEW day \in {0, 5}
  PROVE  /\ Pair(n) + 32 * day \in Byte /\ Bcd((Pair(n) + 32 * day) % 32) = n
         /\ day = 0 => Bcd(Pair(n) + 32 * day) = n
<1>1. Pair(n) \in 0 .. 31 /\ Bcd(Pair(n)) = n
  <2>1. Pair(n) \in 0 .. 18
    BY DEF Pair
  <2> QED
    BY <2>1, PairBack
<1> DEFINE b == Pair(n)
<1> HIDE DEF b
<1>2. b \in 0 .. 31
  BY <1>1 DEF b
<1>3. ((b + 32 * day) % 32) = b /\ b + 32 * day \in 0 .. 255 /\ (day = 0 => b + 32 * day = b)
  BY <1>2
<1> QED
  BY <1>1, <1>3 DEF b, Byte

(* The five and six bytes of a moment.                                     *)
LEMMA ClockBack ==
  ASSUME NEW v, Moment(v), NEW day \in {0, 5}
  PROVE  LET c == Clock(v, day)
         IN  /\ c \in Seq(Byte) /\ Len(c) = 5 /\ c[1] # 238
             /\ Bcd(c[1]) = v[5] /\ Bcd(c[2]) = v[4] /\ Bcd(c[3]) = v[3]
             /\ Bcd(c[4] % 32) = v[2] /\ (day = 0 => Bcd(c[4]) = v[2])
             /\ 2000 + Bcd(c[5]) = v[1]
<1> DEFINE c == Clock(v, day)
<1>1. /\ c[1] = Pair(v[5]) /\ c[2] = Pair(v[4]) /\ c[3] = Pair(v[3])
      /\ c[4] = Pair(v[2]) + 32 * day /\ c[5] = Pair(v[1] - 2000) /\ Len(c) = 5
  BY DEF Clock
<1>2. v[5] \in Digits /\ v[4] \in Digits /\ v[3] \in Digits /\ v[2] \in 1 .. 12
  BY DEF Moment, Digits
<1> DEFINE y == v[1] - 2000
<1>0. y \in Digits /\ c[5] = Pair(y)
  BY <1>1 DEF Moment, Digits
<1> HIDE DEF y, c
<1>8. /\ Packed(c[1], v[5]) /\ Packed(c[2], v[4]) /\ Packed(c[3], v[3])
      /\ Packed(c[5], y)
  <2>1. /\ Packed(Pair(v[5]), v[5]) /\ Packed(Pair(v[4]), v[4])
        /\ Packed(Pair(v[3]), v[3]) /\ Packed(Pair(y), y)
    BY <1>0, <1>2, PairByte
  <2> QED
    BY <1>0, <1>1, <2>1
<1>3. /\ c[1] \in Byte /\ c[2] \in Byte /\ c[3] \in Byte /\ c[4] \in Byte /\ c[5] \in Byte
      /\ c[1] # 238
  <2>1. c[1] \in Byte /\ c[2] \in Byte /\ c[3] \in Byte /\ c[5] \in Byte /\ c[1] # 238
    BY <1>8 DEF Packed
  <2>2. c[4] \in Byte
    BY <1>1, <1>2, MonthBack
  <2> QED
    BY <2>1, <2>2
<1>4. c \in Seq(Byte)
  <2>1. c = <<c[1], c[2], c[3], c[4], c[5]>>
    BY <1>1 DEF c, Clock
  <2>2. <<c[1], c[2], c[3], c[4], c[5]>> \in Seq(Byte)
    BY <1>3
  <2> QED
    BY <2>1, <2>2, Zenon
<1>5. Bcd(c[1]) = v[5] /\ Bcd(c[2]) = v[4] /\ Bcd(c[3]) = v[3] /\ Bcd(c[5]) = y
  BY <1>8 DEF Packed
<1>6. Bcd(c[4] % 32) = v[2] /\ (day = 0 => Bcd(c[4]) = v[2])
  BY <1>1, <1>2, MonthBack
<1>7. 2000 + y = v[1]
  BY DEF Moment, y
<1> QED
  BY <1>1, <1>3, <1>4, <1>5, <1>6, <1>7 DEF c

(* A value of n bytes 0xEE.                                                *)
NoneAt(n) == Times(238, n)
Unfilled(e, n) == e \in Seq(Byte) /\ Len(e) = n /\ e[1] = 238

(* No value, in a field of any width, begins with 0xEE (AFNData).          *)
LEMMA NoValue == \A n \in 1 .. 6 : Unfilled(NoneAt(n), n)
<1>1. 238 \in Byte
  BY DEF Byte
<1> SUFFICES ASSUME NEW n \in 1 .. 6 PROVE Unfilled(NoneAt(n), n)
  OBVIOUS
<1> QED
  BY <1>1 DEF Times, Unfilled, NoneAt

(* v needs no more than w pairs of digits, and they are read as v.         *)
Fits(v, w) == v \div Place[w] < 100
Registered(v, w) ==
  /\ Register(v, w) \in Seq(Byte) /\ Len(Register(v, w)) = w
  /\ Register(v, w)[1] # 238
  /\ parseTable(Register(v, w)) = v

(* Four or five pairs of digits.                                           *)
LEMMA FivePairs ==
  ASSUME NEW v \in Nat, NEW w \in {4, 5}, Fits(v, w)
  PROVE  Registered(v, w)
<1> USE DEF Fits
<1> DEFINE p(i) == (v \div Place[i]) % 100
<1> DEFINE r == Register(v, w)
<1>1. /\ Place[1] = 1 /\ Place[2] = 100 /\ Place[3] = 10000 /\ Place[4] = 1000000
      /\ Place[5] = 100000000
  BY DEF Place
<1>2. \A i \in 1 .. w : p(i) \in Digits
  <2>1. /\ p(1) \in 0 .. 99 /\ p(2) \in 0 .. 99 /\ p(3) \in 0 .. 99 /\ p(4) \in 0 .. 99
        /\ p(5) \in 0 .. 99
    BY <1>1, SMT
  <2> HIDE DEF p
  <2>2. \A i \in 1 .. w : i = 1 \/ i = 2 \/ i = 3 \/ i = 4 \/ i = 5
    OBVIOUS
  <2> QED
    BY <2>1, <2>2 DEF Digits
<1>3. r = [i \in 1 .. w |-> Pair(p(i))]
  BY DEF Register
<1> DEFINE t == [i \in 1 .. w |-> Bcd(r[i]) * Place[i]]
<1> HIDE DEF p, r
<1>4. \A i \in 1 .. w : Packed(r[i], p(i))
  <2>1. \A i \in 1 .. w : r[i] = Pair(p(i))
    BY <1>3
  <2> QED
    BY <1>2, <2>1, PairByte, Zenon
<1>5. r \in Seq(Byte) /\ Len(r) = w /\ r[1] # 238
  <2>1. \A i \in 1 .. w : Pair(p(i)) \in Byte /\ Pair(p(i)) # 238
    BY <1>2, PairByte DEF Packed
  <2>2. r \in Seq(Byte) /\ Len(r) = w
    BY <1>3, <2>1
  <2> QED
    BY <1>3, <2>1, <2>2
<1>6. \A i \in 1 .. w : t[i] = p(i) * Place[i]
  BY <1>4 DEF Packed
<1>7. parseTable(r) = Total(t)
  BY <1>5 DEF parseTable
<1>8. /\ p(1) \in 0 .. 99 /\ p(2) \in 0 .. 99 /\ p(3) \in 0 .. 99 /\ p(4) \in 0 .. 99
      /\ (w = 5 => p(5) \in 0 .. 99)
  BY <1>2 DEF Digits
<1>9. Total(t) = v
  <2>1. t \in Seq(Nat) /\ Len(t) = w
    <3>1. \A i \in 1 .. w : p(i) * Place[i] \in Nat
      <4>1. /\ p(1) * Place[1] \in Nat /\ p(2) * Place[2] \in Nat /\ p(3) * Place[3] \in Nat
            /\ p(4) * Place[4] \in Nat /\ (w = 5 => p(5) * Place[5] \in Nat)
        BY <1>1, <1>8, SMT
      <4>2. \A i \in 1 .. w : i = 1 \/ i = 2 \/ i = 3 \/ i = 4 \/ (w = 5 /\ i = 5)
        OBVIOUS
      <4> QED
        BY <4>1, <4>2
    <3>2. \A i \in 1 .. w : t[i] \in Nat
      <4> HIDE DEF t
      <4> QED
        BY <1>6, <3>1, Zenon
    <3>3. t = [i \in 1 .. w |-> t[i]] /\ w \in Nat
      OBVIOUS
    <3> HIDE DEF t
    <3>4. t \in [1 .. w -> Nat]
      BY <3>2, <3>3, Zenon
    <3> QED
      BY <3>3, <3>4, SMT
  <2> HIDE DEF t
  <2>2. PICK f \in [0 .. w -> Nat] : Sums(f, t, w) /\ Total(t) = f[w]
    BY <2>1, TotalIs
  <2>3. /\ f[0] = 0 /\ f[1] = f[0] + t[1] /\ f[2] = f[1] + t[2] /\ f[3] = f[2] + t[3]
        /\ f[4] = f[3] + t[4] /\ (w = 5 => f[5] = f[4] + t[5])
    BY <2>2 DEF Sums
  <2> DEFINE p1 == p(1)
  <2> DEFINE p2 == p(2)
  <2> DEFINE p3 == p(3)
  <2> DEFINE p4 == p(4)
  <2> DEFINE p5 == p(5)
  <2>4. /\ t[1] = p1 * 1 /\ t[2] = p2 * 100 /\ t[3] = p3 * 10000 /\ t[4] = p4 * 1000000
        /\ (w = 5 => t[5] = p5 * 100000000)
    <3>1. /\ t[1] = p1 * Place[1] /\ t[2] = p2 * Place[2] /\ t[3] = p3 * Place[3]
          /\ t[4] = p4 * Place[4] /\ (w = 5 => t[5] = p5 * Place[5])
      BY <1>6
    <3> HIDE DEF p1, p2, p3, p4, p5
    <3> QED
      BY <1>1, <3>1, SMT
  <2>10. p1 \in Nat /\ p2 \in Nat /\ p3 \in Nat /\ p4 \in Nat /\ (w = 5 => p5 \in Nat)
    <3>1. \A n \in 0 .. 99 : n \in Nat
      OBVIOUS
    <3> QED
      BY <1>8, <3>1, Zenon
  <2>6. /\ p1 = v % 100 /\ p2 = (v \div 100) % 100 /\ p3 = (v \div 10000) % 100
        /\ p4 = (v \div 1000000) % 100 /\ (w = 5 => p5 = (v \div 100000000) % 100)
    BY <1>1, SMT DEF p
  <2> HIDE DEF p1, p2, p3, p4, p5
  <2>5. f[4] = p1 + 100 * p2 + 10000 * p3 + 1000000 * p4
    BY <2>3, <2>4, <2>10, SMT
  <2>7. v = (v % 100) + 100 * ((v \div 100) % 100) + 10000 * ((v \div 10000) % 100)
              + 1000000 * (v \div 1000000)
    BY SMT
  <2>8. CASE w = 4
    <3>1. v \div 1000000 < 100 /\ ((v \div 1000000) % 100) = v \div 1000000
      BY <1>1, <2>8, SMT
    <3> QED
      BY <2>2, <2>5, <2>6, <2>7, <2>8, <3>1, SMT
  <2>9. CASE w = 5
    <3>1. v \div 100000000 < 100 /\ ((v \div 100000000) % 100) = v \div 100000000
      BY <1>1, <2>9, SMT
    <3>2. v \div 1000000 = ((v \div 1000000) % 100) + 100 * (v \div 100000000)
      BY SMT
    <3>3. f[5] = f[4] + 100000000 * p5
      BY <2>3, <2>4, <2>9, <2>10, SMT
    <3> QED
      BY <2>2, <2>5, <2>6, <2>7, <2>9, <3>1, <3>2, <3>3, SMT
  <2> QED
    BY <2>8, <2>9
<1> QED
  BY <1>5, <1>7, <1>9 DEF r, Registered

(* A field as the bytes of its width, read back as what it says.           *)
Written(f, v) ==
  /\ Encode(f, v) \in Seq(Byte) /\ Len(Encode(f, v)) = Width(f)
  /\ Parse(f, Encode(f, v)) = v

(* A byte stands for itself.                                               *)
LEMMA ByteRead == ASSUME NEW v, Sayable("byte", v) PROVE Written("byte", v)
<1>1. v \in Byte
  BY DEF Sayable
<1>2. Encode("byte", v) = <<v>> /\ Width("byte") = 1
  BY DEF Encode, Width
<1>3. Parse("byte", <<v>>) = v
  BY DEF Parse
<1> QED
  <2>1. <<v>> \in Seq(Byte) /\ Len(<<v>>) = 1
    BY <1>1
  <2> HIDE DEF Byte
  <2> QED
    BY <1>2, <1>3, <2>1, Zenon DEF Written

(* A word without a sign bit (short).                                      *)
LEMMA WordRead == ASSUME NEW v, Sayable("word", v) PROVE Written("word", v)
<1>1. v \in Nat /\ v < 32768
  <2>1. v \in 0 .. 32767
    BY DEF Sayable
  <2> QED
    BY <2>1, SMT
<1>2. Encode("word", v) = <<Lo(v), Hi(v)>> /\ Width("word") = 2
  BY DEF Encode, Width, Two
<1>3. Lo(v) \in Byte /\ Hi(v) \in Byte /\ Lo(v) + 256 * Hi(v) = v
  <2>1. v < Word
    BY <1>1, SMT DEF Word
  <2> QED
    BY <1>1, <2>1, WordBytes
<1>4. Parse("word", <<Lo(v), Hi(v)>>) = Short(Lo(v) + 256 * Hi(v))
  BY DEF Parse
<1>5. Short(v) = v
  BY <1>1, SMT DEF Short
<1> QED
  <2> DEFINE e == <<Lo(v), Hi(v)>>
  <2>1. e \in Seq(Byte) /\ Len(e) = 2
    BY <1>3
  <2>2. Parse("word", e) = v
    BY <1>3, <1>4, <1>5
  <2> HIDE DEF e
  <2>3. Encode("word", v) = e
    BY <1>2 DEF e
  <2> QED
    BY <1>2, <2>1, <2>2, <2>3 DEF Written

(* 0xEE instead of a date or a time (parseDateTime5, parseDateTime6).      *)
LEMMA NoDateRead ==
  ASSUME NEW f \in {"date5", "date6"}
  PROVE  Written(f, NoDate)
<1> DEFINE n == Width(f)
<1> DEFINE e == NoneAt(n)
<1>0. n \in {5, 6} /\ n \in 1 .. 6
  BY DEF Width
<1>1. Encode(f, NoDate) = e
  <2>1. Encode("date5", NoDate) = NoneAt(5) /\ Encode("date6", NoDate) = NoneAt(6)
    BY DEF Encode, NoneAt
  <2>2. Width("date5") = 5 /\ Width("date6") = 6
    BY DEF Width
  <2> QED
    BY <2>1, <2>2
<1> HIDE DEF n
<1>2. e \in Seq(Byte) /\ Len(e) = n /\ e[1] = 238
  <2>1. Unfilled(NoneAt(n), n)
    BY <1>0, NoValue, Zenon
  <2> QED
    BY <2>1 DEF Unfilled
<1> HIDE DEF e
<1>3. Parse(f, e) = NoDate
  BY <1>2 DEF Parse, parseDateTime5, parseDateTime6
<1> QED
  BY <1>1, <1>2, <1>3 DEF Written, n

(* The five bytes of a moment have no seconds.                             *)
LEMMA FiveRead ==
  ASSUME NEW v, Moment(v), v[6] = 0
  PROVE  Written("date5", v)
<1> DEFINE c == Clock(v, 0)
<1>1. v # NoDate
  <2>1. NoDate[1] = 0
    BY DEF NoDate
  <2>2. v[1] # 0
    BY DEF Moment
  <2> QED
    BY <2>1, <2>2
<1>2. Encode("date5", v) = c /\ Width("date5") = 5
  BY <1>1 DEF Encode, Width
<1>3. /\ c \in Seq(Byte) /\ Len(c) = 5 /\ c[1] # 238
      /\ Bcd(c[1]) = v[5] /\ Bcd(c[2]) = v[4] /\ Bcd(c[3]) = v[3]
      /\ Bcd(c[4]) = v[2] /\ 2000 + Bcd(c[5]) = v[1]
  BY ClockBack
<1> HIDE DEF c
<1>4. Parse("date5", c) = <<v[1], v[2], v[3], v[4], v[5], v[6]>>
  BY <1>3 DEF Parse, parseDateTime5
<1>5. Parse("date5", c) = v
  BY <1>4 DEF Moment
<1> QED
  <2>1. Encode("date5", v) \in Seq(Byte) /\ Len(Encode("date5", v)) = Width("date5")
    <3>1. c \in Seq(Byte) /\ Len(c) = 5
      BY <1>3
    <3> QED
      BY <1>2, <3>1, Zenon
  <2>2. Parse("date5", Encode("date5", v)) = v
    BY <1>2, <1>5, Zenon
  <2> QED
    BY <2>1, <2>2, Zenon DEF Written

(* The six bytes begin with the seconds.                                   *)
LEMMA SixRead ==
  ASSUME NEW v, Moment(v)
  PROVE  Written("date6", v)
<1> DEFINE c == Clock(v, 5)
<1> DEFINE s == Pair(v[6])
<1> DEFINE e == <<s>> \o c
<1>1. v # NoDate
  <2>1. NoDate[1] = 0
    BY DEF NoDate
  <2>2. v[1] # 0
    BY DEF Moment
  <2> QED
    BY <2>1, <2>2
<1>2. Encode("date6", v) = e /\ Width("date6") = 6
  BY <1>1 DEF Encode, Width
<1>3. /\ c \in Seq(Byte) /\ Len(c) = 5
      /\ Bcd(c[1]) = v[5] /\ Bcd(c[2]) = v[4] /\ Bcd(c[3]) = v[3]
      /\ Bcd(c[4] % 32) = v[2] /\ 2000 + Bcd(c[5]) = v[1]
  BY ClockBack
<1>4. s \in Byte /\ s # 238 /\ Bcd(s) = v[6]
  <2>1. v[6] \in Digits
    BY DEF Moment, Digits
  <2> QED
    BY <2>1, PairByte DEF Packed
<1> HIDE DEF c, s
<1>5. /\ e \in Seq(Byte) /\ Len(e) = 6
      /\ e[1] = s /\ e[2] = c[1] /\ e[3] = c[2] /\ e[4] = c[3] /\ e[5] = c[4] /\ e[6] = c[5]
  <2>1. <<s>> \in Seq(Byte) /\ Len(<<s>>) = 1
    BY <1>4
  <2>2. /\ e \in Seq(Byte) /\ Len(e) = 6
        /\ \A i \in 1 .. 6 : e[i] = IF i <= 1 THEN <<s>>[i] ELSE c[i - 1]
    <3> DEFINE a == <<s>>
    <3>1. a \in Seq(Byte) /\ c \in Seq(Byte) /\ Len(a) = 1 /\ e = a \o c
      BY <1>3, <2>1
    <3> HIDE DEF a, e
    <3>2. /\ e \in Seq(Byte) /\ Len(e) = Len(a) + Len(c)
          /\ \A i \in 1 .. Len(a) + Len(c) : e[i] = IF i <= Len(a) THEN a[i] ELSE c[i - Len(a)]
      BY <3>1, ConcatProperties
    <3> QED
      BY <1>3, <3>1, <3>2 DEF a
  <2> HIDE DEF e
  <2> QED
    BY <2>2
<1> HIDE DEF e
<1>6. Parse("date6", e) = <<v[1], v[2], v[3], v[4], v[5], v[6]>>
  <2>1. Parse("date6", e) = parseDateTime6(e)
    BY DEF Parse
  <2>2. parseDateTime6(e)
          = <<2000 + Bcd(e[6]), Bcd(e[5] % 32), Bcd(e[4]), Bcd(e[3]), Bcd(e[2]), Bcd(e[1])>>
    BY <1>4, <1>5 DEF parseDateTime6
  <2> QED
    BY <1>3, <1>4, <1>5, <2>1, <2>2
<1>7. Parse("date6", e) = v
  BY <1>6 DEF Moment
<1> QED
  BY <1>2, <1>5, <1>7 DEF Written

(* A register or no value (parseTable14, parseTable11).                    *)
LEMMA RegisterRead ==
  ASSUME NEW f \in {"kwh", "kvar"}, NEW v, Sayable(f, v)
  PROVE  Written(f, v)
<1> DEFINE w == Width(f)
<1>1. w \in {4, 5} /\ w \in 1 .. 6
  BY DEF Width
<1>2. \A d : Parse(f, d) = parseTable(d)
  BY DEF Parse
<1>3. v = Missing \/ (v \in Nat /\ Fits(v, w))
  BY DEF Sayable, Fits
<1>4. Encode(f, v) = IF v = Missing THEN Times(238, w) ELSE Register(v, w)
  BY DEF Encode
<1> HIDE DEF w
<1>5. CASE v = Missing
  <2> DEFINE e == NoneAt(w)
  <2>1. e \in Seq(Byte) /\ Len(e) = w /\ e[1] = 238
    <3>1. Unfilled(NoneAt(w), w)
      BY <1>1, NoValue, Zenon
    <3> QED
      BY <3>1 DEF Unfilled
  <2>3. Encode(f, v) = e
    BY <1>4, <1>5, Zenon DEF NoneAt
  <2> HIDE DEF e
  <2>2. parseTable(e) = Missing
    BY <2>1 DEF parseTable
  <2> QED
    <3>1. Width(f) = w
      BY DEF w
    <3> HIDE DEF e
    <3>2. Parse(f, e) = v
      BY <1>2, <1>5, <2>2, Zenon
    <3> QED
      BY <2>1, <2>3, <3>1, <3>2, Zenon DEF Written
<1>6. CASE v # Missing
  <2>1. v \in Nat /\ Fits(v, w)
    BY <1>3, <1>6
  <2>2. /\ Register(v, w) \in Seq(Byte) /\ Len(Register(v, w)) = w
        /\ parseTable(Register(v, w)) = v
    <3>1. w \in {4, 5}
      BY <1>1
    <3>2. Registered(v, w)
      BY <2>1, <3>1, FivePairs, Zenon
    <3> QED
      BY <3>2, Zenon DEF Registered
  <2> QED
    BY <1>2, <1>4, <1>6, <2>2 DEF Written, w
<1> QED
  BY <1>5, <1>6

(* Whatever a field can say is read as it was written (HandleData and the  *)
(* parse functions of AFNData).                                            *)
LEMMA FieldRead ==
  ASSUME NEW f \in Kinds, NEW v, Sayable(f, v)
  PROVE  Written(f, v)
<1>1. CASE f = "byte"
  BY <1>1, ByteRead
<1>2. CASE f = "word"
  BY <1>2, WordRead
<1>3. CASE f = "date5"
  <2>1. v = NoDate \/ (Moment(v) /\ v[6] = 0)
    BY <1>3 DEF Sayable
  <2> QED
    BY <1>3, <2>1, NoDateRead, FiveRead
<1>4. CASE f = "date6"
  <2>1. v = NoDate \/ Moment(v)
    BY <1>4 DEF Sayable
  <2> QED
    BY <1>4, <2>1, NoDateRead, SixRead
<1>5. CASE f \in {"kwh", "kvar"}
  BY <1>5, RegisterRead
<1> QED
  BY <1>1, <1>2, <1>3, <1>4, <1>5 DEF Kinds

-----------------------------------------------------------------------------
(***************************************************************************)
(* One sequence after the other (FlattenSeq, the data unit of an answer).  *)
(***************************************************************************)

(* f[m] is the first m members of e one after the other.                   *)
Glued(f, e, m) ==
  f[1] = e[1] /\ \A i \in 2 .. m : f[i] = f[i - 1] \o e[i]

(* Two such functions agree.                                               *)
LEMMA SameGlued ==
  ASSUME NEW e, NEW m \in Nat, m >= 1, NEW f, NEW g, Glued(f, e, m), Glued(g, e, m)
  PROVE  \A n \in 1 .. m : f[n] = g[n]
<1> DEFINE Bad == {n \in 1 .. m : f[n] # g[n]}
<1> SUFFICES ASSUME Bad # {} PROVE FALSE
  OBVIOUS
<1>1. PICK x \in Bad : \A y \in Bad : x <= y
  <2>1. Bad \subseteq Nat
    OBVIOUS
  <2> HIDE DEF Bad
  <2> QED
    BY <2>1, LeastNumber, Zenon
<1>2. x # 1
  BY <1>1 DEF Glued
<1>3. x \in 2 .. m /\ x - 1 \in 1 .. m
  BY <1>1, <1>2
<1>4. f[x - 1] = g[x - 1]
  <2>1. x - 1 \notin Bad
    BY <1>1, <1>3
  <2> QED
    BY <1>3, <2>1
<1> QED
  BY <1>1, <1>3, <1>4 DEF Glued

(* There is one for every sequence of sequences.                           *)
LEMMA GluedExists ==
  ASSUME NEW S, NEW e \in Seq(Seq(S)), NEW m \in 1 .. Len(e)
  PROVE  \E f \in [1 .. m -> Seq(S)] : Glued(f, e, m)
<1> DEFINE L == Len(e)
<1> DEFINE Bad == {n \in 1 .. L : ~ \E f \in [1 .. n -> Seq(S)] : Glued(f, e, n)}
<1>0. L \in Nat
  BY LenProperties
<1>9. \A n \in 1 .. L : e[n] \in Seq(S)
  BY ElementOfSeq
<1> SUFFICES ASSUME Bad # {} PROVE FALSE
  OBVIOUS
<1>1. PICK x \in Bad : \A y \in Bad : x <= y
  <2>1. Bad \subseteq Nat
    BY <1>0
  <2> HIDE DEF Bad
  <2> QED
    BY <2>1, LeastNumber, Zenon
<1>2. CASE x = 1
  <2> DEFINE f == [n \in 1 .. 1 |-> e[1]]
  <2>1. f \in [1 .. 1 -> Seq(S)]
    BY <1>0, <1>1, <1>2, <1>9
  <2>3. Glued(f, e, 1)
    BY DEF Glued
  <2> HIDE DEF f
  <2>2. 1 \notin Bad
    BY <2>1, <2>3, Zenon
  <2> HIDE DEF Bad
  <2> QED
    BY <1>1, <1>2, <2>2
<1>3. CASE x # 1
  <2>1. x - 1 \in Nat /\ x \in 1 .. L /\ x \in Nat /\ x - 1 \in 1 .. L
    BY <1>0, <1>1, <1>3
  <2>2. PICK f \in [1 .. x - 1 -> Seq(S)] : Glued(f, e, x - 1)
    <3>1. x - 1 \notin Bad
      <4> HIDE DEF Bad
      <4> QED
        BY <1>1, <2>1
    <3> QED
      BY <2>1, <3>1
  <2> DEFINE v == f[x - 1] \o e[x]
  <2> DEFINE g == [n \in 1 .. x |-> IF n = x THEN v ELSE f[n]]
  <2>3. v \in Seq(S)
    <3>1. e[x] \in Seq(S)
      BY <1>9, <2>1
    <3>2. f[x - 1] \in Seq(S)
      BY <2>1, <2>2
    <3> QED
      BY <3>1, <3>2, ConcatProperties
  <2> HIDE DEF v
  <2>4. \A n \in 1 .. x - 1 : g[n] = f[n]
    BY <2>1
  <2>5. g[x] = v
    BY <2>1
  <2>6. g \in [1 .. x -> Seq(S)]
    BY <2>1, <2>2, <2>3
  <2> HIDE DEF g, v
  <2>7. Glued(g, e, x)
    <3>1. g[1] = e[1]
      BY <2>1, <2>2, <2>4 DEF Glued
    <3>2. ASSUME NEW n \in 2 .. x PROVE g[n] = g[n - 1] \o e[n]
      <4>1. CASE n = x
        <5>1. g[x - 1] = f[x - 1]
          BY <2>1, <2>4
        <5>2. g[x] = g[x - 1] \o e[x]
          BY <2>5, <5>1, Zenon DEF v
        <5> QED
          BY <4>1, <5>2
      <4>2. CASE n # x
        <5>1. n \in 2 .. x - 1 /\ n \in 1 .. x - 1 /\ n - 1 \in 1 .. x - 1
          BY <2>1, <4>2
        <5> QED
          BY <2>2, <2>4, <5>1 DEF Glued
      <4> QED
        BY <4>1, <4>2
    <3> QED
      BY <3>1, <3>2 DEF Glued
  <2> QED
    BY <1>1, <2>6, <2>7
<1> QED
  BY <1>2, <1>3

(* What FlattenSeq makes of it is the last of them.                        *)
LEMMA FlattenIs ==
  ASSUME NEW S, NEW e \in Seq(Seq(S)), Len(e) # 0
  PROVE  \E f \in [1 .. Len(e) -> Seq(S)] :
           Glued(f, e, Len(e)) /\ FlattenSeq(e) = f[Len(e)]
<1> DEFINE L == Len(e)
<1> DEFINE Is(f) == f = [i \in 1 .. L |-> IF i = 1 THEN e[i] ELSE f[i - 1] \o e[i]]
<1>1. L \in Nat /\ L >= 1 /\ L \in 1 .. L
  <2>1. L \in Nat
    BY LenProperties
  <2> QED
    BY <2>1
<1>2. PICK g \in [1 .. L -> Seq(S)] : Glued(g, e, L)
  BY <1>1, GluedExists
<1>3. \E f : Is(f)
  <2>2. \A n \in 1 .. L : g[n] = IF n = 1 THEN e[n] ELSE g[n - 1] \o e[n]
    <3> TAKE n \in 1 .. L
    <3>1. CASE n = 1
      BY <1>2, <3>1 DEF Glued
    <3>2. CASE n # 1
      <4>1. n \in 2 .. L
        BY <1>1, <3>2
      <4>2. g[n] = g[n - 1] \o e[n]
        BY <1>2, <4>1, Zenon DEF Glued
      <4> QED
        BY <3>2, <4>2, Zenon
    <3> QED
      BY <3>1, <3>2
  <2>3. g = [n \in 1 .. L |-> g[n]]
    BY <1>2
  <2>4. Is(g)
    BY <2>2, <2>3
  <2> QED
    BY <2>4
<1> DEFINE f == CHOOSE f : Is(f)
<1>4. Is(f)
  BY <1>3
<1>5. FlattenSeq(e) = f[L]
  BY DEF FlattenSeq
<1> HIDE DEF f
<1>6. Glued(f, e, L)
  <2>1. f[1] = e[1]
    BY <1>1, <1>4
  <2>2. ASSUME NEW n \in 2 .. L PROVE f[n] = f[n - 1] \o e[n]
    <3>1. n \in 1 .. L /\ n # 1
      BY <1>1
    <3> QED
      BY <1>4, <3>1
  <2> QED
    BY <2>1, <2>2 DEF Glued
<1>7. f[L] = g[L]
  BY <1>1, <1>2, <1>6, SameGlued
<1> QED
  BY <1>2, <1>5, <1>7

(* T adds up the lengths: member j of e begins after T[j - 1] members.     *)
Ends(T, e) ==
  /\ T \in [0 .. Len(e) -> Nat] /\ T[0] = 0
  /\ \A j \in 1 .. Len(e) : T[j] = T[j - 1] + Len(e[j])
(* s is the first m members of e, each where T says.                       *)
Laid(s, T, e, m) ==
  /\ Len(s) = T[m]
  /\ \A j \in 1 .. m : \A i \in 1 .. Len(e[j]) :
       T[j - 1] + i \in 1 .. T[m] /\ s[T[j - 1] + i] = e[j][i]

(* One member more behind those that are in their places.                  *)
LEMMA LaidNext ==
  ASSUME NEW S, NEW e \in Seq(Seq(S)), NEW T, Ends(T, e), NEW x \in 2 .. Len(e),
         NEW s \in Seq(S), Laid(s, T, e, x - 1)
  PROVE  Laid(s \o e[x], T, e, x)
<1> DEFINE q == e[x]
<1> DEFINE t == s \o q
<1> DEFINE a == T[x - 1]
<1> DEFINE b == Len(q)
<1>1. x - 1 \in 0 .. Len(e) /\ x - 1 \in Nat /\ x \in 1 .. Len(e) /\ Len(e) \in Nat
  BY LenProperties
<1>2. q \in Seq(S)
  BY <1>1, ElementOfSeq
<1>3. a \in Nat /\ b \in Nat /\ Len(s) = a /\ T[x] = a + b
  BY <1>1, <1>2, LenProperties DEF Ends, Laid
<1>4. \A j \in 1 .. x - 1 : \A i \in 1 .. Len(e[j]) :
        T[j - 1] + i \in 1 .. a /\ s[T[j - 1] + i] = e[j][i]
  BY DEF Laid
<1> HIDE DEF q, a, b
<1>5. /\ Len(t) = a + b
      /\ \A i \in 1 .. a + b : t[i] = IF i <= a THEN s[i] ELSE q[i - a]
  BY <1>2, <1>3, ConcatProperties DEF b
<1> HIDE DEF t
<1>6. ASSUME NEW j \in 1 .. x, NEW i \in 1 .. Len(e[j])
      PROVE  T[j - 1] + i \in 1 .. T[x] /\ t[T[j - 1] + i] = e[j][i]
  <2>1. CASE j = x
    <3>1. T[j - 1] = a /\ e[j] = q /\ i \in 1 .. b
      BY <2>1 DEF a, q, b
    <3>2. a + i \in 1 .. a + b /\ ~(a + i <= a) /\ a + i - a = i
      BY <1>3, <3>1
    <3> QED
      BY <1>3, <1>5, <3>1, <3>2
  <2>2. CASE j # x
    <3>1. j \in 1 .. x - 1
      BY <1>1, <2>2
    <3> DEFINE n == T[j - 1] + i
    <3>2. n \in 1 .. a /\ s[n] = e[j][i]
      BY <1>4, <3>1
    <3> HIDE DEF n
    <3>3. n \in 1 .. a + b /\ n <= a
      BY <1>3, <3>2
    <3>4. t[n] = s[n]
      BY <1>5, <3>3
    <3> QED
      BY <1>3, <3>2, <3>3, <3>4 DEF n
  <2> QED
    BY <2>1, <2>2
<1>7. Laid(t, T, e, x)
  BY <1>3, <1>5, <1>6 DEF Laid
<1> QED
  BY <1>7 DEF t, q

(* Every member of e is in FlattenSeq(e), behind those before it.          *)
LEMMA FlattenLaid ==
  ASSUME NEW S, NEW e \in Seq(Seq(S)), Len(e) # 0, NEW T, Ends(T, e)
  PROVE  FlattenSeq(e) \in Seq(S) /\ Laid(FlattenSeq(e), T, e, Len(e))
<1> DEFINE L == Len(e)
<1>1. L \in Nat /\ L >= 1 /\ L \in 1 .. L
  <2>1. L \in Nat
    BY LenProperties
  <2> QED
    BY <2>1
<1>2. PICK f \in [1 .. L -> Seq(S)] : Glued(f, e, L) /\ FlattenSeq(e) = f[L]
  BY FlattenIs
<1> DEFINE Bad == {m \in 1 .. L : ~Laid(f[m], T, e, m)}
<1>3. Bad = {}
  <2> SUFFICES ASSUME Bad # {} PROVE FALSE
    OBVIOUS
  <2>1. PICK x \in Bad : \A y \in Bad : x <= y
    <3>1. Bad \subseteq Nat
      BY <1>1
    <3> HIDE DEF Bad
    <3> QED
      BY <3>1, LeastNumber, Zenon
  <2>2. CASE x = 1
    <3>1. f[1] = e[1]
      BY <1>2 DEF Glued
    <3>2. e[1] \in Seq(S) /\ Len(e[1]) \in Nat
      <4>1. 1 \in 1 .. L
        BY <1>1
      <4>2. e[1] \in Seq(S)
        BY <4>1, ElementOfSeq
      <4> QED
        BY <4>2, LenProperties
    <3>3. T[0] = 0 /\ T[1] = Len(e[1])
      <4>1. T[0] = 0 /\ T[1] = T[0] + Len(e[1])
        <5>1. 1 \in 1 .. L /\ 1 - 1 = 0
          BY <1>1
        <5> QED
          BY <5>1 DEF Ends
      <4> QED
        BY <3>2, <4>1
    <3>4. Laid(e[1], T, e, 1)
      <4> SUFFICES ASSUME NEW j \in 1 .. 1, NEW i \in 1 .. Len(e[j])
                   PROVE  T[j - 1] + i \in 1 .. T[1] /\ e[1][T[j - 1] + i] = e[j][i]
        BY <3>3 DEF Laid
      <4>1. j = 1 /\ j - 1 = 0
        OBVIOUS
      <4>2. T[j - 1] + i = i
        BY <3>3, <4>1
      <4> QED
        BY <3>3, <4>1, <4>2
    <3> QED
      BY <2>1, <2>2, <3>1, <3>4
  <2>3. CASE x # 1
    <3>1. x - 1 \in 1 .. L /\ x \in 2 .. L /\ x - 1 < x
      BY <1>1, <2>1, <2>3
    <3>2. Laid(f[x - 1], T, e, x - 1)
      <4>1. x - 1 \notin Bad
        <5> HIDE DEF Bad
        <5>1. x \in Nat
          BY <3>1
        <5>2. ~(x <= x - 1)
          BY <5>1
        <5> QED
          BY <2>1, <5>2
      <4> QED
        BY <3>1, <4>1
    <3>3. f[x - 1] \in Seq(S) /\ f[x] = f[x - 1] \o e[x]
      BY <1>2, <3>1 DEF Glued
    <3> DEFINE s == f[x - 1]
    <3> HIDE DEF s
    <3>4. Laid(s \o e[x], T, e, x)
      BY <3>1, <3>2, <3>3, LaidNext DEF s
    <3>5. Laid(f[x], T, e, x)
      BY <3>3, <3>4, Zenon DEF s
    <3> QED
      BY <2>1, <3>5
  <2> QED
    BY <2>2, <2>3
<1>4. Laid(f[L], T, e, L)
  BY <1>1, <1>3
<1>5. f[L] \in Seq(S)
  BY <1>1, <1>2
<1> QED
  BY <1>2, <1>4, <1>5

-----------------------------------------------------------------------------
(***************************************************************************)
(* Places of fields.                                                       *)
(***************************************************************************)

(* Fields of known kinds, up to N of them.                                 *)
Fields(L, N) == \A j \in 1 .. N : L[j] \in Kinds

(* No field is empty.                                                      *)
LEMMA Widths == \A f \in Kinds : Width(f) \in Nat /\ Width(f) >= 1
  BY DEF Kinds, Width

(* Where the fields begin is a sum of widths.                              *)
Begins(T, L, N) ==
  /\ T \in [0 .. N -> Nat] /\ T[0] = 0
  /\ \A j \in 1 .. N : T[j] = T[j - 1] + Width(L[j])
  /\ \A j \in 1 .. N + 1 : Start(L, j) = T[j - 1]

(* There are such sums for every list of fields.                           *)
LEMMA StartIs ==
  ASSUME NEW L, NEW N \in Nat, Fields(L, N)
  PROVE  \E T : Begins(T, L, N)
<1> DEFINE p(j) == [i \in 1 .. j |-> Width(L[i])]
<1>1. ASSUME NEW j \in 0 .. N
      PROVE  p(j) \in Seq(Nat) /\ Len(p(j)) = j /\ \A i \in 1 .. j : p(j)[i] = Width(L[i])
  <2>1. \A i \in 1 .. j : Width(L[i]) \in Nat
    <3>1. \A i \in 1 .. j : L[i] \in Kinds
      BY DEF Fields
    <3> QED
      BY <3>1, Widths
  <2> QED
    BY <2>1
<1> HIDE DEF p
<1>2. N \in 0 .. N
  OBVIOUS
<1>3. PICK T \in [0 .. N -> Nat] : Sums(T, p(N), N)
  <2>1. p(N) \in Seq(Nat) /\ Len(p(N)) = N
    BY <1>1, <1>2
  <2> QED
    BY <1>2, <2>1, SumsExist
<1>4. /\ T[0] = 0
      /\ \A j \in 1 .. N : T[j] = T[j - 1] + Width(L[j])
  BY <1>1, <1>2, <1>3 DEF Sums
<1>5. ASSUME NEW j \in 1 .. N + 1 PROVE Start(L, j) = T[j - 1]
  <2> DEFINE m == j - 1
  <2>1. m \in 0 .. N
    OBVIOUS
  <2>2. Start(L, j) = Total(p(m))
    BY DEF Start, p
  <2> HIDE DEF m
  <2>3. p(m) \in Seq(Nat) /\ Len(p(m)) = m /\ \A i \in 1 .. m : p(m)[i] = Width(L[i])
    BY <1>1, <2>1
  <2>4. Sums(T, p(m), m)
    <3>1. ASSUME NEW i \in 1 .. m PROVE T[i] = T[i - 1] + p(m)[i]
      <4>1. i \in 1 .. N
        BY <2>1
      <4> QED
        BY <1>4, <2>3, <4>1
    <3> QED
      BY <1>4, <3>1 DEF Sums
  <2>5. Total(p(m)) = T[m]
    BY <2>3, <2>4, TotalBy
  <2> QED
    BY <2>2, <2>5 DEF m
<1>6. Begins(T, L, N)
  BY <1>3, <1>4, <1>5 DEF Begins
<1> QED
  BY <1>6

(* Later fields begin later.                                               *)
LEMMA Grows ==
  ASSUME NEW L, NEW N \in Nat, Fields(L, N), NEW T, Begins(T, L, N),
         NEW a \in 0 .. N, NEW b \in a .. N
  PROVE  T[a] <= T[b]
<1> DEFINE Bad == {j \in a .. N : ~(T[a] <= T[j])}
<1>0. \A j \in 0 .. N : T[j] \in Nat
  BY DEF Begins
<1>4. Bad = {}
  <2> SUFFICES ASSUME Bad # {} PROVE FALSE
    OBVIOUS
  <2>1. PICK x \in Bad : \A y \in Bad : x <= y
    <3>1. Bad \subseteq Nat
      OBVIOUS
    <3> HIDE DEF Bad
    <3> QED
      BY <3>1, LeastNumber, Zenon
  <2>2. x # a
    BY <1>0, <2>1
  <2>3. x \in 1 .. N /\ x - 1 \in a .. N /\ ~(x <= x - 1) /\ x - 1 \in 0 .. N
    BY <2>1, <2>2
  <2>4. T[a] <= T[x - 1]
    <3>1. x - 1 \notin Bad
      <4> HIDE DEF Bad
      <4> QED
        BY <2>1, <2>3
    <3> QED
      BY <2>3, <3>1
  <2>5. T[x] = T[x - 1] + Width(L[x]) /\ Width(L[x]) \in Nat
    <3>1. L[x] \in Kinds
      BY <2>3 DEF Fields
    <3> QED
      BY <2>3, <3>1, Widths DEF Begins
  <2> DEFINE u == T[x - 1]
  <2> DEFINE w == Width(L[x])
  <2> DEFINE v == T[a]
  <2>6. u \in Nat /\ w \in Nat /\ v \in Nat /\ v <= u /\ T[x] = u + w
    BY <1>0, <2>3, <2>4, <2>5
  <2> HIDE DEF u, w, v
  <2>7. v <= T[x]
    BY <2>6
  <2> QED
    BY <2>1, <2>7 DEF v
<1> QED
  BY <1>4

(* What the concentrator sends: fields and the event counter.              *)
Data(L, vals, n) == FlattenSeq([j \in 1 .. n |-> Encode(L[j], vals[j])]) \o <<7, 1>>

(* The event counter.                                                      *)
LEMMA TwoBytes == <<7, 1>> \in Seq(Byte) /\ Len(<<7, 1>>) = 2
  BY DEF Byte

(* Without fields only the event counter is left.                          *)
LEMMA NoFields ==
  ASSUME NEW L, NEW vals, NEW n \in Int, n < 1
  PROVE  Data(L, vals, n) = <<7, 1>>
<1> DEFINE e == [j \in 1 .. n |-> Encode(L[j], vals[j])]
<1>1. e = <<>>
  <2>1. 1 .. n = 1 .. 0
    OBVIOUS
  <2>2. e = [j \in 1 .. 0 |-> Encode(L[j], vals[j])]
    BY <2>1, Zenon
  <2> HIDE DEF e
  <2>3. e \in Seq({}) /\ Len(e) = 0
    BY <2>2
  <2> QED
    BY <2>3, EmptySeq
<1> HIDE DEF e
<1>2. FlattenSeq(e) = <<>>
  BY <1>1 DEF FlattenSeq
<1>3. <<>> \o <<7, 1>> = <<7, 1>>
  BY TwoBytes, ConcatEmptySeq
<1> QED
  BY <1>2, <1>3 DEF Data, e

(* Every field that is sent is found where the fields before it end.       *)
LEMMA DataRead ==
  ASSUME NEW L, NEW N \in Nat, Fields(L, N), NEW vals, NEW n \in 1 .. N,
         \A j \in 1 .. n : Sayable(L[j], vals[j])
  PROVE  LET d == Data(L, vals, n)
         IN  /\ d \in Seq(Byte) /\ Len(d) = Start(L, n + 1) + 2
             /\ \A j \in 1 .. n :
                  /\ d[Start(L, j) + 1] = Encode(L[j], vals[j])[1]
                  /\ Parse(L[j], SubSeq(d, Start(L, j) + 1, Start(L, j) + Width(L[j])))
                       = vals[j]
<1> DEFINE e == [j \in 1 .. n |-> Encode(L[j], vals[j])]
<1> DEFINE F == FlattenSeq(e)
<1> DEFINE d == F \o <<7, 1>>
<1>1. PICK T : Begins(T, L, N)
  BY StartIs
<1>2. \A j \in 1 .. n : Written(L[j], vals[j]) /\ Width(L[j]) \in Nat /\ Width(L[j]) >= 1
  <2>1. \A j \in 1 .. n : L[j] \in Kinds
    BY DEF Fields
  <2> QED
    BY <2>1, FieldRead, Widths
<1>3. e \in Seq(Seq(Byte)) /\ Len(e) = n
  <2>1. \A j \in 1 .. n : Encode(L[j], vals[j]) \in Seq(Byte)
    BY <1>2 DEF Written
  <2> HIDE DEF Byte
  <2> QED
    BY <2>1
<1>4. \A j \in 1 .. n : e[j] = Encode(L[j], vals[j])
  OBVIOUS
<1> HIDE DEF e
<1>5. \A j \in 1 .. n : Len(e[j]) = Width(L[j])
  BY <1>2, <1>4 DEF Written
<1> DEFINE U == [j \in 0 .. n |-> T[j]]
<1>6. \A j \in 0 .. n : U[j] = T[j] /\ T[j] \in Nat
  BY <1>1 DEF Begins
<1>7. Ends(U, e)
  <2>1. U \in [0 .. n -> Nat]
    BY <1>6
  <2> HIDE DEF U
  <2>2. U[0] = 0
    BY <1>1, <1>6 DEF Begins
  <2>3. ASSUME NEW j \in 1 .. n PROVE U[j] = U[j - 1] + Len(e[j])
    <3>1. j \in 0 .. n /\ j - 1 \in 0 .. n /\ j \in 1 .. N
      OBVIOUS
    <3>2. T[j] = T[j - 1] + Width(L[j])
      BY <1>1, <3>1 DEF Begins
    <3> QED
      BY <1>5, <1>6, <3>1, <3>2
  <2> QED
    BY <1>3, <2>1, <2>2, <2>3 DEF Ends
<1>8. F \in Seq(Byte) /\ Laid(F, U, e, n)
  <2>1. Len(e) # 0
    BY <1>3
  <2> HIDE DEF U
  <2> QED
    BY <1>3, <1>7, <2>1, FlattenLaid
<1> HIDE DEF F, U
<1> DEFINE m == T[n]
<1>9. Len(F) = m /\ m \in Nat
  BY <1>6, <1>8 DEF Laid
<1>10. ASSUME NEW j \in 1 .. n, NEW i \in 1 .. Width(L[j])
       PROVE  T[j - 1] + i \in 1 .. m /\ F[T[j - 1] + i] = e[j][i]
  <2>1. i \in 1 .. Len(e[j]) /\ j - 1 \in 0 .. n
    BY <1>5
  <2>2. U[j - 1] + i \in 1 .. U[n] /\ F[U[j - 1] + i] = e[j][i]
    BY <1>8, <2>1 DEF Laid
  <2> QED
    BY <1>6, <2>1, <2>2
<1> HIDE DEF m
<1>11. /\ d \in Seq(Byte) /\ Len(d) = m + 2
       /\ \A i \in 1 .. m : d[i] = F[i]
  <2> DEFINE c == <<7, 1>>
  <2>1. c \in Seq(Byte) /\ Len(c) = 2 /\ F \in Seq(Byte)
    BY <1>8, TwoBytes
  <2> HIDE DEF c
  <2>2. /\ F \o c \in Seq(Byte) /\ Len(F \o c) = m + 2
        /\ \A i \in 1 .. m + 2 : (F \o c)[i] = IF i <= m THEN F[i] ELSE c[i - m]
    <3>1. /\ F \o c \in Seq(Byte) /\ Len(F \o c) = Len(F) + Len(c)
          /\ \A i \in 1 .. Len(F) + Len(c) :
               (F \o c)[i] = IF i <= Len(F) THEN F[i] ELSE c[i - Len(F)]
      BY <2>1, ConcatProperties
    <3> QED
      BY <1>9, <2>1, <3>1
  <2> QED
    BY <1>9, <2>2 DEF c
<1> HIDE DEF d
<1>12. \A j \in 1 .. n : Start(L, j) = T[j - 1] /\ T[j - 1] \in Nat
  <2> TAKE j \in 1 .. n
  <2>1. j \in 1 .. N + 1 /\ j - 1 \in 0 .. n
    OBVIOUS
  <2> QED
    BY <1>1, <1>6, <2>1 DEF Begins
<1>13. Start(L, n + 1) = m
  <2>1. n + 1 \in 1 .. N + 1 /\ n + 1 - 1 = n
    OBVIOUS
  <2> QED
    BY <1>1, <2>1 DEF Begins, m
<1>14. ASSUME NEW j \in 1 .. n
       PROVE  /\ d[Start(L, j) + 1] = Encode(L[j], vals[j])[1]
              /\ SubSeq(d, Start(L, j) + 1, Start(L, j) + Width(L[j]))
                   = Encode(L[j], vals[j])
  <2> DEFINE a == T[j - 1]
  <2> DEFINE w == Width(L[j])
  <2> DEFINE q == Encode(L[j], vals[j])
  <2>1. /\ a \in Nat /\ w \in Nat /\ w >= 1 /\ Start(L, j) = a
        /\ q \in Seq(Byte) /\ Len(q) = w
    BY <1>2, <1>12 DEF Written
  <2>2. \A i \in 1 .. w : a + i \in 1 .. m /\ d[a + i] = q[i]
    <3> TAKE i \in 1 .. w
    <3>1. a + i \in 1 .. m /\ F[a + i] = q[i]
      BY <1>4, <1>10
    <3> HIDE DEF a, q
    <3> QED
      BY <1>11, <3>1
  <2>3. d[Start(L, j) + 1] = q[1]
    BY <2>1, <2>2
  <2>4. SubSeq(d, a + 1, a + w) = q
    <3> HIDE DEF a, w, q
    <3>1. \A i \in a + 1 .. a + w : d[i] \in Byte
      <4> TAKE i \in a + 1 .. a + w
      <4>1. i - a \in 1 .. w /\ a + (i - a) = i
        BY <2>1
      <4>2. d[i] = q[i - a]
        BY <2>2, <4>1
      <4> QED
        BY <2>1, <4>1, <4>2, ElementOfSeq
    <3> DEFINE t == SubSeq(d, a + 1, a + w)
    <3> DEFINE lo == a + 1
    <3> DEFINE hi == a + w
    <3>5. lo \in Int /\ hi \in Int /\ \A i \in lo .. hi : d[i] \in Byte
      BY <2>1, <3>1
    <3>6. t = SubSeq(d, lo, hi)
      OBVIOUS
    <3>7. lo <= hi /\ hi - lo + 1 = w /\ \A i \in 1 .. w : lo + i - 1 = a + i
      BY <2>1
    <3> HIDE DEF t, lo, hi
    <3>2. /\ t \in Seq(Byte) /\ Len(t) = hi - lo + 1
          /\ \A i \in 1 .. hi - lo + 1 : t[i] = d[lo + i - 1]
      BY <3>5, <3>6, <3>7, SubSeqProperties
    <3>3. Len(t) = w
      BY <3>2, <3>7
    <3>4. \A i \in 1 .. w : t[i] = q[i]
      BY <2>2, <3>2, <3>7
    <3>8. t = q
      BY <2>1, <3>2, <3>3, <3>4, SeqEqual
    <3> QED
      BY <3>8 DEF t
  <2> QED
    BY <2>1, <2>3, <2>4
<1>15. \A j \in 1 .. n :
         Parse(L[j], SubSeq(d, Start(L, j) + 1, Start(L, j) + Width(L[j]))) = vals[j]
  BY <1>2, <1>14, Zenon DEF Written
<1>16. d = Data(L, vals, n)
  BY DEF d, F, e, Data
<1> QED
  BY <1>11, <1>13, <1>14, <1>15, <1>16

Answers == {2, 11, 33}
Size(Fn, k) == CASE Fn = 2 -> 1 [] Fn = 11 -> 1 + 7 * k [] Fn = 33 -> 6 + 4 * k

(* A layout with its first fields and its last one.                        *)
Shape(Fn, L, N) ==
  /\ N \in Nat /\ N >= 1 /\ Len(L) = N /\ Fields(L, N)
  /\ Fn = 2 => L[1] = "date6"
  /\ Fn = 11 => L[1] = "byte"
  /\ Fn = 33 => L[1] = "date5" /\ L[2] = "byte" /\ N >= 6

(* Blocks of F11 and tariffs of F33, any number of them.                   *)
LEMMA LayoutShape ==
  ASSUME NEW Fn \in Answers, NEW k \in Nat
  PROVE  /\ Shape(Fn, Layout(Fn, k), Size(Fn, k))
         /\ (Fn = 11 => k >= 1) =>
              Layout(Fn, k)[Size(Fn, k)] \in {"date6", "kvar"}
<1> DEFINE L == Layout(Fn, k)
<1> DEFINE N == Size(Fn, k)
<1>1. CASE Fn = 2
  <2>1. L = <<"date6">> /\ N = 1
    BY <1>1 DEF Layout, Size
  <2> HIDE DEF L, N
  <2>2. L[1] = "date6" /\ Len(L) = 1
    BY <2>1
  <2>3. Fields(L, 1)
    BY <2>2 DEF Fields, Kinds
  <2> QED
    <3>1. Shape(Fn, L, N)
      BY <1>1, <2>1, <2>2, <2>3 DEF Shape
    <3>2. L[N] = "date6"
      BY <2>1, <2>2
    <3> QED
      BY <3>1, <3>2 DEF L, N
<1>2. CASE Fn = 11
  <2> DEFINE g(j) == Block[((j - 2) % 7) + 1]
  <2>1. N = 1 + 7 * k /\ L = [j \in 1 .. N |-> IF j = 1 THEN "byte" ELSE g(j)]
    <3>1. N = 1 + 7 * k
      BY <1>2 DEF Size
    <3>2. L = [j \in 1 .. 1 + 7 * k |-> IF j = 1 THEN "byte" ELSE g(j)]
      BY <1>2 DEF Layout
    <3> QED
      BY <3>1, <3>2
  <2>2. \A i \in 1 .. 7 : Block[i] \in Kinds
    <3>1. /\ Block[1] = "byte" /\ Block[2] = "word" /\ Block[3] = "byte"
          /\ Block[4] = "word" /\ Block[5] = "byte" /\ Block[6] = "date6"
          /\ Block[7] = "date6"
      BY DEF Block
    <3>2. \A i \in 1 .. 7 :
            i = 1 \/ i = 2 \/ i = 3 \/ i = 4 \/ i = 5 \/ i = 6 \/ i = 7
      OBVIOUS
    <3> QED
      BY <3>1, <3>2 DEF Kinds
  <2>3. ASSUME NEW j \in 2 .. N PROVE g(j) \in Kinds
    <3>1. ((j - 2) % 7) + 1 \in 1 .. 7
      BY <2>1
    <3> QED
      BY <2>2, <3>1
  <2>4. k >= 1 => g(N) = "date6"
    <3> SUFFICES ASSUME k >= 1 PROVE g(N) = "date6"
      OBVIOUS
    <3>1. ((N - 2) % 7) = 6
      <4>1. N - 2 = 6 + 7 * (k - 1) /\ k - 1 \in Nat
        BY <2>1
      <4> QED
        BY <4>1
    <3>2. Block[7] = "date6"
      BY DEF Block
    <3> QED
      BY <3>1, <3>2
  <2> HIDE DEF g, L, N
  <2>5. N \in Nat /\ N >= 1 /\ 1 \in 1 .. N
    BY <2>1
  <2>6. Len(L) = N /\ L[1] = "byte" /\ \A j \in 2 .. N : L[j] = g(j)
    BY <2>1, <2>5
  <2>7. "byte" \in Kinds
    BY DEF Kinds
  <2>8. Fields(L, N)
    <3> SUFFICES ASSUME NEW j \in 1 .. N PROVE L[j] \in Kinds
      BY DEF Fields
    <3>1. CASE j = 1
      BY <2>6, <2>7, <3>1
    <3>2. CASE j # 1
      BY <2>3, <2>6, <3>2
    <3> QED
      BY <3>1, <3>2
  <2>9. k >= 1 => L[N] = "date6"
    <3> SUFFICES ASSUME k >= 1 PROVE L[N] = "date6"
      OBVIOUS
    <3>1. N \in 2 .. N
      BY <2>1
    <3> QED
      BY <2>4, <2>6, <3>1
  <2> QED
    BY <1>2, <2>5, <2>6, <2>8, <2>9 DEF Shape, L, N
<1>3. CASE Fn = 33
  <2> DEFINE g(j) == CASE j = 1 -> "date5" [] j = 2 -> "byte"
                       [] j \in 3 .. 3 + k -> "kwh" [] OTHER -> "kvar"
  <2>1. N = 6 + 4 * k /\ L = [j \in 1 .. N |-> g(j)]
    <3>1. N = 6 + 4 * k
      BY <1>3 DEF Size
    <3>2. L = [j \in 1 .. 6 + 4 * k |-> g(j)]
      BY <1>3 DEF Layout
    <3> QED
      BY <3>1, <3>2
  <2>2. g(1) = "date5" /\ g(2) = "byte" /\ \A j : g(j) \in Kinds
    BY DEF Kinds
  <2>3. g(N) = "kvar"
    BY <2>1
  <2> HIDE DEF g, L, N
  <2>4. N \in Nat /\ N >= 6 /\ Len(L) = N /\ \A j \in 1 .. N : L[j] = g(j)
    BY <2>1
  <2>5. 1 \in 1 .. N /\ 2 \in 1 .. N /\ N \in 1 .. N
    BY <2>4
  <2>6. L[1] = "date5" /\ L[2] = "byte" /\ L[N] = "kvar" /\ Fields(L, N)
    BY <2>2, <2>3, <2>4, <2>5 DEF Fields
  <2> QED
    BY <1>3, <2>4, <2>6 DEF Shape, L, N
<1> QED
  BY <1>1, <1>2, <1>3 DEF Answers

(* The first places, and how far a shorter answer is from the whole one.   *)
LEMMA Places ==
  ASSUME NEW Fn \in Answers, NEW k \in Nat
  PROVE  LET L == Layout(Fn, k)
         IN  /\ Start(L, 1) = 0 /\ (Fn = 33 => Start(L, 2) = 5)
             /\ \A n \in 0 .. Len(L) : Start(L, n + 1) \in Nat
             /\ (Fn = 11 => k >= 1) =>
                  \A n \in 0 .. Len(L) - 1 : Start(L, n + 1) + 4 <= Start(L, Len(L) + 1)
<1> DEFINE L == Layout(Fn, k)
<1> DEFINE N == Size(Fn, k)
<1>1. Shape(Fn, L, N) /\ ((Fn = 11 => k >= 1) => L[N] \in {"date6", "kvar"})
  BY LayoutShape
<1> HIDE DEF L, N
<1>2. N \in Nat /\ N >= 1 /\ Len(L) = N /\ Fields(L, N)
  BY <1>1 DEF Shape
<1>3. PICK T : Begins(T, L, N)
  BY <1>2, StartIs
<1>4. /\ \A j \in 0 .. N : T[j] \in Nat
      /\ \A j \in 0 .. N : Start(L, j + 1) = T[j]
  <2>1. ASSUME NEW j \in 0 .. N PROVE Start(L, j + 1) = T[j]
    <3>1. j + 1 \in 1 .. N + 1 /\ j + 1 - 1 = j
      BY <1>2
    <3> QED
      BY <1>3, <3>1 DEF Begins
  <2> QED
    BY <1>3, <2>1 DEF Begins
<1>5. Start(L, 1) = 0
  <2>1. 0 \in 0 .. N /\ 0 + 1 = 1
    BY <1>2
  <2>2. T[0] = 0
    BY <1>3 DEF Begins
  <2> QED
    BY <1>4, <2>1, <2>2
<1>6. Fn = 33 => Start(L, 2) = 5
  <2> SUFFICES ASSUME Fn = 33 PROVE Start(L, 2) = 5
    OBVIOUS
  <2>1. 1 \in 1 .. N /\ 1 \in 0 .. N /\ 1 + 1 = 2 /\ 1 - 1 = 0
    BY <1>2
  <2>2. T[1] = T[0] + Width(L[1]) /\ T[0] = 0
    BY <1>3, <2>1 DEF Begins
  <2>3. Width(L[1]) = 5
    BY <1>1 DEF Shape, Width
  <2> QED
    BY <1>4, <2>1, <2>2, <2>3
<1>7. ASSUME Fn = 11 => k >= 1, NEW n \in 0 .. N - 1
      PROVE  Start(L, n + 1) + 4 <= Start(L, N + 1)
  <2>1. n \in 0 .. N /\ N - 1 \in 0 .. N /\ N \in 0 .. N /\ N \in 1 .. N /\ N - 1 \in n .. N
    BY <1>2
  <2>2. T[n] <= T[N - 1]
    BY <1>2, <1>3, <2>1, Grows
  <2>3. T[N] = T[N - 1] + Width(L[N])
    BY <1>3, <2>1 DEF Begins
  <2>4. Width(L[N]) \in {4, 6}
    BY <1>1, <1>7 DEF Width
  <2> DEFINE a == T[n]
  <2> DEFINE b == T[N - 1]
  <2> DEFINE w == Width(L[N])
  <2>5. a \in Nat /\ b \in Nat /\ T[N] = b + w /\ a <= b /\ w \in {4, 6}
    BY <1>4, <2>1, <2>2, <2>3, <2>4
  <2>6. Start(L, n + 1) = a /\ Start(L, N + 1) = T[N]
    BY <1>4, <2>1
  <2> HIDE DEF a, b, w
  <2> QED
    BY <2>5, <2>6
<1>8. \A n \in 0 .. N : Start(L, n + 1) \in Nat
  BY <1>4
<1> QED
  BY <1>2, <1>5, <1>6, <1>7, <1>8 DEF L

-----------------------------------------------------------------------------
(***************************************************************************)
(* HandleData of an answer.                                                *)
(***************************************************************************)

At(Fn) == IF Fn = 33 THEN 6 ELSE 1
Counted(Fn, d) == IF Fn = 2 THEN 1 ELSE d[At(Fn)]
Enough(Fn, d, k) ==
  /\ Len(d) >= At(Fn) /\ k \in 1 .. Most(Fn)
  /\ Len(d) >= Start(Layout(Fn, k), Len(Layout(Fn, k)) + 1)
Read(L, d) ==
  [j \in 1 .. Len(L) |->
     Parse(L[j], SubSeq(d, Start(L, j) + 1, Start(L, j) + Width(L[j])))]

(* HandleData by its parts.                                                *)
LEMMA HandleParts ==
  ASSUME NEW Fn, NEW d, NEW k, k = Counted(Fn, d)
  PROVE  /\ HandleData(Fn, d).res = "ok" <=> Enough(Fn, d, k)
         /\ HandleData(Fn, d).res = "ok" => HandleData(Fn, d).vals = Read(Layout(Fn, k), d)
<1> DEFINE L == Layout(Fn, k)
<1> DEFINE h == HandleData(Fn, d)
<1>1. h = IF Enough(Fn, d, k) THEN [res |-> "ok", vals |-> Read(L, d)] ELSE [res |-> "error"]
  BY Zenon DEF HandleData, Enough, Read, At, Counted
<1> HIDE DEF h, L
<1>2. CASE Enough(Fn, d, k)
  BY <1>1, <1>2 DEF h, L
<1>3. CASE ~Enough(Fn, d, k)
  <2>1. h = [res |-> "error"]
    BY <1>1, <1>3, Zenon
  <2>2. h.res # "ok"
    BY <2>1
  <2> QED
    BY <1>3, <2>2 DEF h
<1> QED
  BY <1>2, <1>3

(* What an answer says, as its contents allow it.                          *)
LEMMA ContentsForm ==
  ASSUME NEW x \in Contents
  PROVE  LET c == Count(x.Fn, x.vals)
             L == Layout(x.Fn, c)
         IN  /\ x.Fn \in Answers /\ c \in Byte /\ c \in Nat
             /\ x.vals = [j \in 1 .. Len(x.vals) |-> x.vals[j]]
             /\ Shape(x.Fn, L, Len(L))
             /\ Len(x.vals) \in 1 .. Len(L) /\ (x.Fn = 33 => Len(x.vals) >= 2)
             /\ \A j \in 1 .. Len(x.vals) : Sayable(L[j], x.vals[j])
<1> DEFINE c == Count(x.Fn, x.vals)
<1> DEFINE L == Layout(x.Fn, c)
<1>1. /\ x.Fn \in Answers /\ c \in Byte
      /\ x.vals = [j \in 1 .. Len(x.vals) |-> x.vals[j]]
      /\ Len(x.vals) \in (IF x.Fn = 33 THEN 2 ELSE 1) .. Len(L)
      /\ \A j \in 1 .. Len(x.vals) : Sayable(L[j], x.vals[j])
  BY ContentsAssumption, Zenon DEF Answers
<1>2. c \in Nat
  <2>1. \A b \in Byte : b \in Nat
    BY DEF Byte
  <2>2. c \in Byte
    BY <1>1, Zenon
  <2> QED
    BY <2>1, <2>2, Zenon
<1>3. Shape(x.Fn, L, Size(x.Fn, c))
  BY <1>1, <1>2, LayoutShape
<1> HIDE DEF L, c
<1>4. Len(L) = Size(x.Fn, c) /\ Len(L) \in Nat
  BY <1>3 DEF Shape
<1>5. Shape(x.Fn, L, Len(L))
  BY <1>3, <1>4, Zenon
<1>6. Len(x.vals) \in 1 .. Len(L) /\ (x.Fn = 33 => Len(x.vals) >= 2)
  <2>1. CASE x.Fn = 33
    <3>1. Len(x.vals) \in 2 .. Len(L)
      BY <1>1, <2>1
    <3> QED
      BY <1>4, <3>1
  <2>2. CASE x.Fn # 33
    BY <1>1, <2>2
  <2> QED
    BY <2>1, <2>2
<1> QED
  BY <1>1, <1>2, <1>5, <1>6, Zenon DEF L, c

(* An answer that ends before its count: what follows is taken for it, and *)
(* never has enough bytes.                                                 *)
LEMMA CountMissing ==
  ASSUME NEW x \in Contents, NEW n \in Int,
         n < 1 \/ (x.Fn = 33 /\ n = 1)
  PROVE  LET d == Data(Layout(x.Fn, Count(x.Fn, x.vals)), x.vals, n)
         IN  d \in Seq(Byte) /\ HandleData(x.Fn, d).res # "ok"
<1> DEFINE L == Layout(x.Fn, Count(x.Fn, x.vals))
<1> DEFINE d == Data(L, x.vals, n)
<1> DEFINE k == Counted(x.Fn, d)
<1>1. /\ x.Fn \in Answers /\ Count(x.Fn, x.vals) \in Nat
      /\ Shape(x.Fn, L, Len(L)) /\ Len(x.vals) \in 1 .. Len(L)
      /\ \A j \in 1 .. Len(x.vals) : Sayable(L[j], x.vals[j])
  BY ContentsForm
<1>2. CASE n < 1
  <2>1. d = <<7, 1>>
    BY <1>2, NoFields
  <2> HIDE DEF d
  <2>2. d \in Seq(Byte) /\ Len(d) = 2
    BY <2>1, TwoBytes, Zenon
  <2>3. ~Enough(x.Fn, d, k)
    <3> SUFFICES ASSUME Enough(x.Fn, d, k) PROVE FALSE
      OBVIOUS
    <3> DEFINE M == Layout(x.Fn, k)
    <3>1. k \in Nat /\ k >= 1 /\ Len(d) >= Start(M, Len(M) + 1)
      <4>1. k \in 1 .. Most(x.Fn) /\ Len(d) >= Start(M, Len(M) + 1)
        BY DEF Enough
      <4> HIDE DEF k
      <4>2. Most(x.Fn) \in Nat
        BY <1>1 DEF Most, Answers
      <4> QED
        BY <4>1, <4>2
    <3> HIDE DEF k
    <3>2. /\ Start(M, 1) = 0 /\ Start(M, Len(M) + 1) \in Nat
          /\ \A i \in 0 .. Len(M) - 1 : Start(M, i + 1) + 4 <= Start(M, Len(M) + 1)
      <4>1. /\ Start(M, 1) = 0 /\ \A i \in 0 .. Len(M) : Start(M, i + 1) \in Nat
            /\ \A i \in 0 .. Len(M) - 1 : Start(M, i + 1) + 4 <= Start(M, Len(M) + 1)
        BY <1>1, <3>1, Places
      <4>2. Len(M) \in Nat
        BY <1>1, <3>1, LayoutShape DEF Shape
      <4> HIDE DEF M
      <4>3. Len(M) \in 0 .. Len(M)
        BY <4>2
      <4> QED
        BY <4>1, <4>3
    <3>3. Shape(x.Fn, M, Size(x.Fn, k))
      BY <1>1, <3>1, LayoutShape
    <3> HIDE DEF M
    <3>4. 0 \in 0 .. Len(M) - 1 /\ 0 + 1 = 1
      BY <3>3 DEF Shape
    <3>5. 0 + 4 <= Start(M, Len(M) + 1)
      BY <3>2, <3>4
    <3> QED
      BY <2>2, <3>1, <3>2, <3>5
  <2> QED
    BY <2>2, <2>3, HandleParts DEF d, L
<1>3. CASE x.Fn = 33 /\ n = 1
  <2>1. /\ d \in Seq(Byte) /\ Len(d) = Start(L, 2) + 2
    <3>1. /\ Len(L) \in Nat /\ Fields(L, Len(L)) /\ n \in 1 .. Len(L)
          /\ \A j \in 1 .. n : Sayable(L[j], x.vals[j])
      <4> HIDE DEF L
      <4> QED
        BY <1>1, <1>3 DEF Shape
    <3>2. d \in Seq(Byte) /\ Len(d) = Start(L, n + 1) + 2
      <4> DEFINE N == Len(L)
      <4> DEFINE v == x.vals
      <4>1. N \in Nat /\ Fields(L, N) /\ n \in 1 .. N /\ \A j \in 1 .. n : Sayable(L[j], v[j])
        BY <3>1, Zenon
      <4> HIDE DEF L, N, v
      <4>2. LET e == Data(L, v, n) IN e \in Seq(Byte) /\ Len(e) = Start(L, n + 1) + 2
        BY <4>1, DataRead
      <4> QED
        BY <4>2, Zenon DEF v
    <3> QED
      BY <1>3, <3>2
  <2>2. Start(L, 2) = 5
    BY <1>1, <1>3, Places
  <2> HIDE DEF d
  <2>3. k \in Nat
    <3>1. k = d[6]
      BY <1>3 DEF Counted, At
    <3>2. d[6] \in Byte
      BY <2>1, <2>2, ElementOfSeq
    <3> QED
      BY <3>1, <3>2 DEF Byte
  <2>4. ~Enough(x.Fn, d, k)
    <3> DEFINE M == Layout(x.Fn, k)
    <3> HIDE DEF k
    <3>2. /\ Start(M, 2) = 5 /\ Start(M, Len(M) + 1) \in Nat
          /\ \A i \in 0 .. Len(M) - 1 : Start(M, i + 1) + 4 <= Start(M, Len(M) + 1)
      <4>1. /\ Start(M, 2) = 5 /\ \A i \in 0 .. Len(M) : Start(M, i + 1) \in Nat
            /\ \A i \in 0 .. Len(M) - 1 : Start(M, i + 1) + 4 <= Start(M, Len(M) + 1)
        <5>1. 33 \in Answers /\ 33 # 11
          BY DEF Answers
        <5> QED
          BY <1>3, <2>3, <5>1, Places
      <4>2. Len(M) \in Nat
        BY <1>1, <2>3, LayoutShape DEF Shape
      <4> HIDE DEF M
      <4>3. Len(M) \in 0 .. Len(M)
        BY <4>2
      <4> QED
        BY <4>1, <4>3
    <3>3. Shape(x.Fn, M, Size(x.Fn, k))
      BY <1>1, <2>3, LayoutShape
    <3> HIDE DEF M
    <3>4. 1 \in 0 .. Len(M) - 1 /\ 1 + 1 = 2
      BY <1>3, <3>3 DEF Shape
    <3>5. 5 + 4 <= Start(M, Len(M) + 1)
      BY <3>2, <3>4
    <3>6. Len(d) = 7
      BY <2>1, <2>2
    <3> QED
      BY <3>2, <3>5, <3>6 DEF Enough, M
  <2> QED
    BY <2>1, <2>4, HandleParts DEF d, L
<1> QED
  BY <1>2, <1>3

(* An answer that has its count: it is whole or too short for it.          *)
LEMMA CountThere ==
  ASSUME NEW x \in Contents, NEW n \in 1 .. Len(x.vals), x.Fn = 33 => n >= 2
  PROVE  LET c == Count(x.Fn, x.vals)
             L == Layout(x.Fn, c)
             d == Data(L, x.vals, n)
             h == HandleData(x.Fn, d)
         IN  /\ d \in Seq(Byte)
             /\ h.res = "ok" <=> n = Len(L) /\ c \in 1 .. Most(x.Fn)
             /\ h.res = "ok" => h.vals = x.vals
<1> DEFINE c == Count(x.Fn, x.vals)
<1> DEFINE L == Layout(x.Fn, c)
<1> DEFINE N == Len(L)
<1> DEFINE v == x.vals
<1> DEFINE d == Data(L, v, n)
<1> DEFINE Fn == x.Fn
<1>1. /\ Fn \in Answers /\ c \in Byte /\ c \in Nat
      /\ v = [j \in 1 .. Len(v) |-> v[j]]
      /\ Shape(Fn, L, N) /\ Len(v) \in 1 .. N
      /\ \A j \in 1 .. Len(v) : Sayable(L[j], v[j])
  BY ContentsForm
<1>2. /\ Start(L, 1) = 0 /\ (Fn = 33 => Start(L, 2) = 5)
      /\ \A i \in 0 .. N : Start(L, i + 1) \in Nat
      /\ (Fn = 11 => c >= 1) =>
           \A i \in 0 .. N - 1 : Start(L, i + 1) + 4 <= Start(L, N + 1)
  <2> HIDE DEF c
  <2> QED
    BY <1>1, Places
<1>3. Most(Fn) \in Nat
  BY <1>1 DEF Most, Answers
<1>4. /\ Fn = 2 => c = 1
      /\ Fn = 11 => c = v[1]
      /\ Fn = 33 => c = v[2]
  BY <1>1 DEF Count, Answers
<1>5. HandleData(Fn, d).res = "ok" <=> Enough(Fn, d, Counted(Fn, d))
  BY HandleParts
<1>6. HandleData(Fn, d).res = "ok" =>
        HandleData(Fn, d).vals = Read(Layout(Fn, Counted(Fn, d)), d)
  BY HandleParts
<1>7. n \in 1 .. Len(v) /\ (Fn = 33 => n >= 2)
  OBVIOUS
<1>8. L = Layout(Fn, c)
  OBVIOUS
<1>9. d = Data(L, v, n)
  OBVIOUS
<1> HIDE DEF c, L, v, Fn
<1>10. /\ N \in Nat /\ Fields(L, N) /\ n \in 1 .. N
       /\ \A j \in 1 .. n : Sayable(L[j], v[j])
  BY <1>1, <1>7 DEF Shape
<1> HIDE DEF N
<1>11. /\ d \in Seq(Byte) /\ Len(d) = Start(L, n + 1) + 2
       /\ \A j \in 1 .. n :
            /\ d[Start(L, j) + 1] = Encode(L[j], v[j])[1]
            /\ Parse(L[j], SubSeq(d, Start(L, j) + 1, Start(L, j) + Width(L[j]))) = v[j]
  BY <1>10, DataRead
<1> HIDE DEF d
<1>12. Counted(Fn, d) = c
  <2>1. CASE Fn = 2
    BY <1>4, <2>1 DEF Counted
  <2>2. CASE Fn = 11
    <3>1. Counted(Fn, d) = d[1]
      BY <2>2 DEF Counted, At
    <3>2. 1 \in 1 .. n
      BY <1>10
    <3>3. d[0 + 1] = Encode(L[1], v[1])[1]
      BY <1>2, <1>11, <3>2
    <3>4. L[1] = "byte"
      BY <1>1, <2>2 DEF Shape
    <3>5. Encode("byte", v[1])[1] = v[1]
      BY DEF Encode
    <3> QED
      BY <1>4, <2>2, <3>1, <3>3, <3>4, <3>5
  <2>3. CASE Fn = 33
    <3>1. Counted(Fn, d) = d[6]
      BY <2>3 DEF Counted, At
    <3>2. 2 \in 1 .. n
      BY <1>7, <1>10, <2>3
    <3>3. d[5 + 1] = Encode(L[2], v[2])[1]
      BY <1>2, <1>11, <2>3, <3>2
    <3>4. L[2] = "byte"
      BY <1>1, <2>3 DEF Shape
    <3>5. Encode("byte", v[2])[1] = v[2]
      BY DEF Encode
    <3> QED
      BY <1>4, <2>3, <3>1, <3>3, <3>4, <3>5
  <2> QED
    BY <1>1, <2>1, <2>2, <2>3 DEF Answers
<1>13. Len(d) >= At(Fn)
  <2>1. CASE Fn = 33
    <3>1. 5 + 4 <= Start(L, N + 1) /\ Start(L, n + 1) >= 5 /\ Start(L, n + 1) \in Nat
      <4>1. n \in 0 .. N /\ 1 \in 0 .. N - 1 /\ 1 + 1 = 2
        BY <1>7, <1>10, <2>1
      <4>2. Start(L, 2) = 5
        BY <1>2, <2>1
      <4>3. \A i \in 0 .. N - 1 : Start(L, i + 1) + 4 <= Start(L, N + 1)
        BY <1>2, <2>1
      <4>4. 5 + 4 <= Start(L, N + 1)
        BY <4>1, <4>2, <4>3
      <4>5. Start(L, n + 1) >= 5
        <5>1. PICK T : Begins(T, L, N)
          BY <1>10, StartIs
        <5>2. T[1] <= T[n]
          <6>1. 1 \in 0 .. N /\ n \in 1 .. N
            BY <1>10
          <6> QED
            BY <1>10, <5>1, <6>1, Grows
        <5>3. Start(L, 2) = T[1] /\ Start(L, n + 1) = T[n]
          <6>1. 2 \in 1 .. N + 1 /\ n + 1 \in 1 .. N + 1 /\ 2 - 1 = 1 /\ n + 1 - 1 = n
            BY <1>10
          <6> QED
            BY <5>1, <6>1 DEF Begins
        <5>4. 5 <= Start(L, n + 1)
          BY <4>2, <5>2, <5>3
        <5>5. Start(L, n + 1) \in Nat
          BY <1>2, <4>1
        <5> QED
          BY <5>4, <5>5
      <4> QED
        BY <1>2, <4>1, <4>4, <4>5
    <3> QED
      BY <1>11, <2>1, <3>1 DEF At
  <2>2. CASE Fn # 33
    <3>1. n \in 0 .. N
      BY <1>10
    <3>2. Start(L, n + 1) \in Nat
      BY <1>2, <3>1
    <3> QED
      BY <1>11, <2>2, <3>2 DEF At
  <2> QED
    BY <2>1, <2>2
<1>14. c \in 1 .. Most(Fn) => (Len(d) >= Start(L, N + 1) <=> n = N)
  <2> SUFFICES ASSUME c \in 1 .. Most(Fn)
               PROVE  Len(d) >= Start(L, N + 1) <=> n = N
    OBVIOUS
  <2>1. c >= 1
    BY <1>3
  <2>2. Start(L, N + 1) \in Nat /\ Start(L, n + 1) \in Nat
    <3>1. n \in 0 .. N /\ N \in 0 .. N
      BY <1>10
    <3> QED
      BY <1>2, <3>1
  <2>3. n # N => Start(L, n + 1) + 4 <= Start(L, N + 1)
    <3> SUFFICES ASSUME n # N PROVE Start(L, n + 1) + 4 <= Start(L, N + 1)
      OBVIOUS
    <3>1. n \in 0 .. N - 1
      BY <1>10
    <3> QED
      BY <1>2, <2>1, <3>1
  <2> QED
    BY <1>11, <2>2, <2>3
<1>15. Enough(Fn, d, c) <=> n = N /\ c \in 1 .. Most(Fn)
  <2>1. N = Len(Layout(Fn, c)) /\ L = Layout(Fn, c)
    BY <1>8 DEF N
  <2> QED
    BY <1>13, <1>14, <2>1, Zenon DEF Enough
<1>16. n = N => Read(L, d) = v
  <2> SUFFICES ASSUME n = N PROVE Read(L, d) = v
    OBVIOUS
  <2>1. Len(v) = N
    BY <1>1, <1>7, <1>10
  <2>2. Read(L, d) = [j \in 1 .. N |-> v[j]]
    <3>1. Read(L, d) = [j \in 1 .. N |-> Parse(L[j],
                          SubSeq(d, Start(L, j) + 1, Start(L, j) + Width(L[j])))]
      BY Zenon DEF Read, N
    <3>2. \A j \in 1 .. N :
            Parse(L[j], SubSeq(d, Start(L, j) + 1, Start(L, j) + Width(L[j]))) = v[j]
      BY <1>11
    <3> QED
      BY <3>1, <3>2, Zenon
  <2>3. v = [j \in 1 .. N |-> v[j]]
    BY <1>1, <2>1, Zenon
  <2> QED
    BY <2>2, <2>3, Zenon
<1>17. HandleData(Fn, d).res = "ok" <=> n = N /\ c \in 1 .. Most(Fn)
  BY <1>5, <1>12, <1>15, Zenon
<1>18. HandleData(Fn, d).res = "ok" => HandleData(Fn, d).vals = v
  BY <1>6, <1>8, <1>12, <1>16, <1>17, Zenon
<1> QED
  BY <1>11, <1>17, <1>18, Zenon DEF c, L, N, v, Fn, d

(* An answer is read exactly if it is whole, and then as it was written,   *)
(* wherever it ends (HandleData).                                          *)
LEMMA AnswerRead ==
  ASSUME NEW x \in Contents, NEW n \in Int, n <= Len(x.vals)
  PROVE  LET c == Count(x.Fn, x.vals)
             L == Layout(x.Fn, c)
             d == Data(L, x.vals, n)
             h == HandleData(x.Fn, d)
         IN  /\ d \in Seq(Byte)
             /\ h.res = "ok" <=> n = Len(L) /\ c \in 1 .. Most(x.Fn)
             /\ h.res = "ok" => h.vals = x.vals
<1> DEFINE c == Count(x.Fn, x.vals)
<1> DEFINE L == Layout(x.Fn, c)
<1>1. CASE n < 1 \/ (x.Fn = 33 /\ n = 1)
  <2>1. n # Len(L)
    <3>1. Shape(x.Fn, L, Len(L))
      BY ContentsForm
    <3> HIDE DEF L
    <3> QED
      BY <1>1, <3>1 DEF Shape
  <2>2. LET d == Data(L, x.vals, n)
        IN  d \in Seq(Byte) /\ HandleData(x.Fn, d).res # "ok"
    BY <1>1, CountMissing
  <2> QED
    BY <2>1, <2>2, Zenon
<1>2. CASE ~(n < 1 \/ (x.Fn = 33 /\ n = 1))
  <2>1. n \in 1 .. Len(x.vals) /\ (x.Fn = 33 => n >= 2)
    <3>1. Len(x.vals) \in 1 .. Len(L)
      BY ContentsForm
    <3> HIDE DEF L
    <3> QED
      BY <1>2, <3>1
  <2> QED
    BY <2>1, CountThere, Zenon
<1> QED
  BY <1>1, <1>2

-----------------------------------------------------------------------------
(***************************************************************************)
(* Columns of a row.                                                       *)
(***************************************************************************)

(* A sequence by its ends and its middle.                                  *)
LEMMA Cut ==
  ASSUME NEW S, NEW v \in Seq(S), NEW m \in Nat, NEW k \in Nat, m + k + 1 <= Len(v)
  PROVE  LET s == SubSeq(v, m + 1, m + k + 1)
         IN  /\ SubSeq(v, 1, m) \o <<Head(s)>> = SubSeq(v, 1, m + 1)
             /\ SubSeq(v, 1, m + 1) \o Tail(s) = SubSeq(v, 1, m + k + 1)
             /\ Len(Tail(s)) = k
<1> DEFINE a == m + 1
<1> DEFINE b == m + k + 1
<1>0. /\ Len(v) \in Nat /\ a \in 1 .. Len(v) /\ b \in a .. Len(v) /\ b \in 1 .. Len(v)
      /\ a - 1 = m /\ b - a = k
  BY LenProperties
<1>1. Head(SubSeq(v, a, b)) = v[a] /\ Tail(SubSeq(v, a, b)) = SubSeq(v, a + 1, b)
  BY <1>0, HeadTailOfSubSeq
<1>2. SubSeq(v, 1, a) = SubSeq(v, 1, a - 1) \o <<v[a]>>
  <2>1. 1 \in 1 .. Len(v) /\ a \in 1 .. Len(v)
    BY <1>0
  <2> HIDE DEF a, b
  <2> QED
    BY <2>1, SubSeqRecursiveSecond
<1>3. SubSeq(v, 1, a) \o SubSeq(v, a + 1, b) = SubSeq(v, 1, b)
  <2>1. 1 \in 1 .. Len(v) + 1 /\ a \in 1 - 1 .. Len(v) /\ b \in a .. Len(v)
    BY <1>0
  <2> HIDE DEF a, b
  <2> QED
    BY <2>1, ConcatAdjacentSubSeq
<1>4. Len(SubSeq(v, a + 1, b)) = k
  <2>1. \A i \in a + 1 .. b : v[i] \in S
    <3> TAKE i \in a + 1 .. b
    <3>1. i \in 1 .. Len(v)
      BY <1>0
    <3> QED
      BY <3>1, ElementOfSeq
  <2> DEFINE lo == a + 1
  <2>2. lo \in Int /\ b \in Int /\ (IF lo <= b THEN b - lo + 1 ELSE 0) = k
    BY <1>0
  <2> HIDE DEF a, b, lo
  <2>3. \A i \in lo .. b : v[i] \in S
    BY <2>1 DEF lo
  <2>4. Len(SubSeq(v, lo, b)) = IF lo <= b THEN b - lo + 1 ELSE 0
    BY <2>2, <2>3, SubSeqProperties
  <2> QED
    BY <2>2, <2>4 DEF lo
<1> HIDE DEF a, b
<1>5. SubSeq(v, 1, m) \o <<Head(SubSeq(v, a, b))>> = SubSeq(v, 1, a)
  BY <1>0, <1>1, <1>2
<1>6. SubSeq(v, 1, a) \o Tail(SubSeq(v, a, b)) = SubSeq(v, 1, b)
  BY <1>1, <1>3
<1>7. Len(Tail(SubSeq(v, a, b))) = k
  BY <1>1, <1>4
<1> QED
  BY <1>5, <1>6, <1>7 DEF a, b

(* The columns of a row are the fields of the answer, none left out, none  *)
(* twice, none in another's place (toDB).                                  *)
LEMMA ColumnsKeep ==
  ASSUME NEW S, NEW v \in Seq(S), NEW k \in Nat, v[2] = k, Len(v) = 6 + 4 * k
  PROVE  InOrderOfAnswer(Columns(v)) = v
<1> DEFINE w == 1 + k
<1> DEFINE g0 == SubSeq(v, 2 + 1, 2 + k + 1)
<1> DEFINE g1 == SubSeq(v, (3 + k) + 1, (3 + k) + k + 1)
<1> DEFINE g2 == SubSeq(v, (4 + 2 * k) + 1, (4 + 2 * k) + k + 1)
<1> DEFINE g3 == SubSeq(v, (5 + 3 * k) + 1, (5 + 3 * k) + k + 1)
<1> DEFINE r == Columns(v)
<1>1. /\ g0 = SubSeq(v, 3 + 0 * (1 + k), 2 + (0 + 1) * (1 + k))
      /\ g1 = SubSeq(v, 3 + 1 * (1 + k), 2 + (1 + 1) * (1 + k))
      /\ g2 = SubSeq(v, 3 + 2 * (1 + k), 2 + (2 + 1) * (1 + k))
      /\ g3 = SubSeq(v, 3 + 3 * (1 + k), 2 + (3 + 1) * (1 + k))
  <2>1. /\ 2 + 1 = 3 + 0 * (1 + k) /\ 2 + k + 1 = 2 + (0 + 1) * (1 + k)
        /\ (3 + k) + 1 = 3 + 1 * (1 + k) /\ (3 + k) + k + 1 = 2 + (1 + 1) * (1 + k)
        /\ (4 + 2 * k) + 1 = 3 + 2 * (1 + k)
        /\ (4 + 2 * k) + k + 1 = 2 + (2 + 1) * (1 + k)
        /\ (5 + 3 * k) + 1 = 3 + 3 * (1 + k)
        /\ (5 + 3 * k) + k + 1 = 2 + (3 + 1) * (1 + k)
    OBVIOUS
  <2> QED
    BY <2>1, Zenon
<1>2. r = [RecordTime |-> v[1], USERKWH |-> Head(g0), DEVKVAR |-> Head(g1),
           FIRSTKVAR |-> Head(g2), FOURKVAR |-> Head(g3),
           M_USERKWH |-> Tail(g0), M_DEVKVAR |-> Tail(g1),
           M_FIRSTKVAR |-> Tail(g2), M_FOURKVAR |-> Tail(g3)]
  BY <1>1, Zenon DEF Columns
<1> DEFINE P(n) == SubSeq(v, 1, n)
<1>3. /\ P(2) \o <<Head(g0)>> = P(2 + 1) /\ P(2 + 1) \o Tail(g0) = P(2 + k + 1)
      /\ Len(Tail(g0)) = k
  <2>1. 2 \in Nat /\ 2 + k + 1 <= Len(v)
    OBVIOUS
  <2> QED
    BY <2>1, Cut
<1>4. /\ P(3 + k) \o <<Head(g1)>> = P((3 + k) + 1)
      /\ P((3 + k) + 1) \o Tail(g1) = P((3 + k) + k + 1)
  <2>1. 3 + k \in Nat /\ (3 + k) + k + 1 <= Len(v)
    OBVIOUS
  <2> DEFINE m == 3 + k
  <2> HIDE DEF m
  <2>2. m \in Nat /\ m + k + 1 <= Len(v)
    BY <2>1 DEF m
  <2> QED
    BY <2>2, Cut DEF m
<1>5. /\ P(4 + 2 * k) \o <<Head(g2)>> = P((4 + 2 * k) + 1)
      /\ P((4 + 2 * k) + 1) \o Tail(g2) = P((4 + 2 * k) + k + 1)
  <2>1. 4 + 2 * k \in Nat /\ (4 + 2 * k) + k + 1 <= Len(v)
    OBVIOUS
  <2> DEFINE m == 4 + 2 * k
  <2> HIDE DEF m
  <2>2. m \in Nat /\ m + k + 1 <= Len(v)
    BY <2>1 DEF m
  <2> QED
    BY <2>2, Cut DEF m
<1>6. /\ P(5 + 3 * k) \o <<Head(g3)>> = P((5 + 3 * k) + 1)
      /\ P((5 + 3 * k) + 1) \o Tail(g3) = P((5 + 3 * k) + k + 1)
  <2>1. 5 + 3 * k \in Nat /\ (5 + 3 * k) + k + 1 <= Len(v)
    OBVIOUS
  <2> DEFINE m == 5 + 3 * k
  <2> HIDE DEF m
  <2>2. m \in Nat /\ m + k + 1 <= Len(v)
    BY <2>1 DEF m
  <2> QED
    BY <2>2, Cut DEF m
<1>7. P(2) = <<v[1], k>>
  <2>1. 1 \in 1 .. Len(v) /\ 2 \in 1 .. Len(v) /\ 2 \in 1 .. Len(v)
    OBVIOUS
  <2>2. \A i \in 1 .. 2 : v[i] \in S
    BY <2>1, ElementOfSeq
  <2> DEFINE t == P(2)
  <2>3. /\ t \in Seq(S) /\ Len(t) = 2 /\ t[1] = v[1] /\ t[2] = v[2]
    <3>1. 1 \in Int /\ 2 \in Int
      OBVIOUS
    <3>2. /\ t \in Seq(S) /\ Len(t) = IF 1 <= 2 THEN 2 - 1 + 1 ELSE 0
          /\ \A i \in 1 .. 2 - 1 + 1 : t[i] = v[1 + i - 1]
      BY <2>2, <3>1, SubSeqProperties
    <3> HIDE DEF t
    <3> QED
      BY <3>2
  <2> HIDE DEF t
  <2>4. <<v[1], v[2]>> \in Seq(S) /\ Len(<<v[1], v[2]>>) = 2
    BY <2>2
  <2>5. t = <<v[1], v[2]>>
    BY <2>3, <2>4, SeqEqual
  <2> QED
    BY <2>5 DEF t
<1>8. P(6 + 4 * k) = v
  BY SubSeqFull
<1>9. /\ P(2 + k + 1) = P(3 + k) /\ P((3 + k) + k + 1) = P(4 + 2 * k)
      /\ P((4 + 2 * k) + k + 1) = P(5 + 3 * k) /\ P((5 + 3 * k) + k + 1) = P(6 + 4 * k)
  <2>1. /\ 2 + k + 1 = 3 + k /\ (3 + k) + k + 1 = 4 + 2 * k
        /\ (4 + 2 * k) + k + 1 = 5 + 3 * k /\ (5 + 3 * k) + k + 1 = 6 + 4 * k
    OBVIOUS
  <2> QED
    BY <2>1, Zenon
<1> HIDE DEF g0, g1, g2, g3, r, P
<1>10. /\ r.RecordTime = v[1] /\ r.USERKWH = Head(g0) /\ r.M_USERKWH = Tail(g0)
       /\ r.DEVKVAR = Head(g1) /\ r.M_DEVKVAR = Tail(g1)
       /\ r.FIRSTKVAR = Head(g2) /\ r.M_FIRSTKVAR = Tail(g2)
       /\ r.FOURKVAR = Head(g3) /\ r.M_FOURKVAR = Tail(g3)
  BY <1>2
<1>11. InOrderOfAnswer(r) =
         <<v[1], k>> \o <<Head(g0)>> \o Tail(g0) \o <<Head(g1)>> \o Tail(g1)
           \o <<Head(g2)>> \o Tail(g2) \o <<Head(g3)>> \o Tail(g3)
  BY <1>3, <1>10, Zenon DEF InOrderOfAnswer
<1>12. InOrderOfAnswer(r) = P(6 + 4 * k)
  BY <1>3, <1>4, <1>5, <1>6, <1>7, <1>9, <1>11, Zenon
<1> QED
  BY <1>8, <1>12 DEF r

-----------------------------------------------------------------------------
(***************************************************************************)
(* The invariant of the thread's answer.                                   *)
(***************************************************************************)

NoTag == [DA1 |-> {}, DA2 |-> 0]

(* p is answer x without the fields after the n-th.                        *)
AnswerOf(p, x, n) ==
  LET c == Count(x.Fn, x.vals)
      L == Layout(x.Fn, c)
  IN  /\ p.Fn = x.Fn /\ p.vals = x.vals /\ p.aux = <<>>
      /\ p.data = Data(L, x.vals, n)
      /\ p.whole <=> n = Len(L) /\ c \in 1 .. Most(x.Fn)
      /\ p.pn \in Point /\ p.tag = Tag(p.pn, x.Fn, NoTag)
Answer(p) ==
  \E x \in Contents : \E n \in {0} \cup {Len(x.vals) - omit : omit \in Omissions} :
    AnswerOf(p, x, n)

Inserted ==
  /\ reading # NoReading /\ got.Fn = 33 /\ GetEleID(got.pn) # -1
  /\ IF reading.res = "ok" THEN row = <<GetEleID(got.pn), Columns(reading.vals)>>
                           ELSE row = Junk

(* Whose answer the thread has, what was made of it, what was inserted.    *)
AnswerInv ==
  /\ pkg.kind = "answer" => Answer(pkg)
  /\ step # "idle" => pkg.kind = "answer" /\ got # Unread /\ got.res = "ok"
  /\ reading # NoReading =>
       step \notin {"idle", "parsed"} /\ reading = HandleData(got.Fn, got.data)
  /\ row # NoRow => step \notin {"idle", "parsed", "handled"} /\ Inserted

(* Numbers of an answer's fields, whole or not.                            *)
LEMMA AnswerCounts ==
  ASSUME NEW x \in Contents, NEW n \in {0} \cup {Len(x.vals) - omit : omit \in Omissions}
  PROVE  n \in Int /\ n <= Len(x.vals)
<1>1. Len(x.vals) \in Nat
  <2>1. /\ Len(x.vals) \in 1 .. Len(Layout(x.Fn, Count(x.Fn, x.vals)))
    BY ContentsForm
  <2> QED
    BY <2>1
<1>2. \A omit \in Omissions : omit \in Nat
  BY ReadingsAssumption
<1> QED
  BY <1>1, <1>2

(* The data of an answer are bytes, and HandleData reads them if whole.    *)
LEMMA AnswerHandled ==
  ASSUME NEW p, Answer(p)
  PROVE  LET h == HandleData(p.Fn, p.data)
         IN  /\ p.data \in Seq(Byte) /\ p.Fn \in Answers
             /\ h.res = "ok" <=> p.whole
             /\ h.res = "ok" => h.vals = p.vals
<1>1. PICK x \in Contents : \E n \in {0} \cup {Len(x.vals) - omit : omit \in Omissions} :
        AnswerOf(p, x, n)
  BY DEF Answer
<1>2. PICK n \in {0} \cup {Len(x.vals) - omit : omit \in Omissions} : AnswerOf(p, x, n)
  BY <1>1
<1>3. n \in Int /\ n <= Len(x.vals)
  BY AnswerCounts
<1> DEFINE c == Count(x.Fn, x.vals)
<1> DEFINE L == Layout(x.Fn, c)
<1> DEFINE d == Data(L, x.vals, n)
<1>4. /\ d \in Seq(Byte)
      /\ HandleData(x.Fn, d).res = "ok" <=> n = Len(L) /\ c \in 1 .. Most(x.Fn)
      /\ HandleData(x.Fn, d).res = "ok" => HandleData(x.Fn, d).vals = x.vals
  BY <1>3, AnswerRead, Zenon
<1>5. /\ p.Fn = x.Fn /\ p.vals = x.vals /\ p.data = d
      /\ p.whole <=> n = Len(L) /\ c \in 1 .. Most(x.Fn)
  BY <1>2, Zenon DEF AnswerOf
<1>6. x.Fn \in Answers
  BY ContentsForm, Zenon
<1> HIDE DEF c, L, d
<1> QED
  BY <1>4, <1>5, <1>6, Zenon

(* Its identifier names its point and its type.                            *)
LEMMA AnswerNames ==
  ASSUME NEW p, Answer(p)
  PROVE  p.pn \in Point /\ p.aux = <<>> /\ Getpn(p.tag) = p.pn /\ GetFn(p.tag) = p.Fn
<1>1. PICK x \in Contents : \E n \in {0} \cup {Len(x.vals) - omit : omit \in Omissions} :
        AnswerOf(p, x, n)
  BY DEF Answer
<1>2. /\ p.Fn = x.Fn /\ p.aux = <<>> /\ p.pn \in Point
      /\ p.tag = Tag(p.pn, x.Fn, NoTag)
  BY <1>1, Zenon DEF AnswerOf
<1>3. x.Fn \in Type
  <2>1. x.Fn \in Answers
    BY ContentsForm, Zenon
  <2> QED
    BY <2>1 DEF Answers, Type
<1>4. /\ Getpn(Tag(p.pn, x.Fn, NoTag)) = p.pn
      /\ GetFn(Tag(p.pn, x.Fn, NoTag)) = x.Fn
  BY <1>2, <1>3, TagNames
<1> QED
  BY <1>2, <1>4, Zenon

(* What is parsed of it is its own.                                        *)
LEMMA AnswerParsed ==
  ASSUME PackageInv, AnswerInv, step # "idle"
  PROVE  /\ pkg # None /\ Answer(pkg) /\ pkg.pn \in Point
         /\ got.pn = pkg.pn /\ got.Fn = pkg.Fn /\ got.data = pkg.data
<1>1. Answer(pkg) /\ got # Unread /\ got.res = "ok" /\ pkg.kind = "answer"
  BY DEF AnswerInv
<1>5. /\ pkg.pn \in Point /\ pkg.aux = <<>>
      /\ Getpn(pkg.tag) = pkg.pn /\ GetFn(pkg.tag) = pkg.Fn
  BY <1>1, AnswerNames
<1>6. ~damaged
  BY <1>1, InvDetects DEF DamageDetected
<1>7. /\ got.pn = Getpn(pkg.tag) /\ got.Fn = GetFn(pkg.tag)
      /\ got.data = pkg.data \o pkg.aux
  BY <1>1, <1>6, InvParses DEF PackagesParse
<1>8. pkg.data \o <<>> = pkg.data
  <2>1. pkg.data \in Seq(Byte)
    BY <1>1, AnswerHandled
  <2> QED
    BY <2>1, ConcatEmptySeq
<1>9. pkg # None
  BY <1>1 DEF None
<1> QED
  BY <1>1, <1>5, <1>7, <1>8, <1>9

(* The invariant says what ReadingsRight asks for.                         *)
LEMMA InvReads == PackageInv /\ AnswerInv => ReadingsRight
<1> SUFFICES ASSUME PackageInv, AnswerInv, reading.res = "ok"
             PROVE  pkg.whole /\ reading.vals = pkg.vals
  BY DEF ReadingsRight
<1>1. reading # NoReading
  BY DEF NoReading
<1>2. step # "idle" /\ reading = HandleData(got.Fn, got.data)
  BY <1>1 DEF AnswerInv
<1>3. Answer(pkg) /\ got.Fn = pkg.Fn /\ got.data = pkg.data
  BY <1>2, AnswerParsed
<1>4. reading = HandleData(pkg.Fn, pkg.data)
  BY <1>2, <1>3, Zenon
<1> QED
  BY <1>3, <1>4, AnswerHandled

(* The fields of a whole answer of F33 are as many as its columns.         *)
LEMMA ColumnsOfAnswer ==
  ASSUME NEW p, Answer(p), p.whole, p.Fn = 33
  PROVE  InOrderOfAnswer(Columns(p.vals)) = p.vals
<1>1. PICK x \in Contents : \E n \in {0} \cup {Len(x.vals) - omit : omit \in Omissions} :
        AnswerOf(p, x, n)
  BY DEF Answer
<1>2. PICK n \in {0} \cup {Len(x.vals) - omit : omit \in Omissions} : AnswerOf(p, x, n)
  BY <1>1
<1> DEFINE c == Count(x.Fn, x.vals)
<1> DEFINE L == Layout(x.Fn, c)
<1> DEFINE v == x.vals
<1>3. n \in Int /\ n <= Len(v)
  BY AnswerCounts
<1>4. /\ x.Fn \in Answers /\ c \in Nat /\ v = [j \in 1 .. Len(v) |-> v[j]]
      /\ Len(v) \in 1 .. Len(L)
  BY ContentsForm, Zenon
<1>5. x.Fn = 33 /\ p.vals = v /\ n = Len(L)
  BY <1>2, Zenon DEF AnswerOf
<1>6. c = v[2]
  BY <1>5 DEF Count
<1>7. Len(L) = 6 + 4 * c
  <2>1. Shape(x.Fn, L, Size(x.Fn, c))
    <3> HIDE DEF c
    <3> QED
      BY <1>4, LayoutShape
  <2>2. Size(33, c) = 6 + 4 * c
    BY DEF Size
  <2> HIDE DEF c, L
  <2> QED
    BY <1>5, <2>1, <2>2 DEF Shape
<1>8. Len(v) = 6 + 4 * c
  <2> HIDE DEF c, L, v
  <2> QED
    BY <1>3, <1>4, <1>5, <1>7
<1> DEFINE S == {v[j] : j \in 1 .. Len(v)}
<1>9. v \in Seq(S)
  <2>1. Len(v) \in Nat
    <3> HIDE DEF c, L, v
    <3> QED
      BY <1>4
  <2>2. v \in [1 .. Len(v) -> S]
    <3> HIDE DEF v
    <3> QED
      BY <1>4
  <2> HIDE DEF S, v
  <2> QED
    BY <2>1, <2>2, SeqDef
<1> HIDE DEF c, L, v, S
<1> QED
  BY <1>4, <1>5, <1>6, <1>8, <1>9, ColumnsKeep

(* And what RowsRight asks for.                                            *)
LEMMA InvInserts == PackageInv /\ AnswerInv => RowsRight
<1> SUFFICES ASSUME PackageInv, AnswerInv, row # NoRow, pkg.whole
             PROVE  row[1] = pkg.pn /\ pkg.pn \in Listed /\ InOrderOfAnswer(row[2]) = pkg.vals
  BY DEF RowsRight
<1>1. step # "idle" /\ Inserted
  BY DEF AnswerInv
<1>2. Answer(pkg) /\ got.pn = pkg.pn /\ got.Fn = pkg.Fn /\ got.data = pkg.data
  BY <1>1, AnswerParsed
<1>3. reading = HandleData(got.Fn, got.data)
  BY <1>1 DEF AnswerInv, Inserted
<1>4. reading = HandleData(pkg.Fn, pkg.data)
  BY <1>2, <1>3, Zenon
<1>5. reading.res = "ok" /\ reading.vals = pkg.vals
  BY <1>2, <1>4, AnswerHandled
<1>6. row = <<GetEleID(pkg.pn), Columns(pkg.vals)>> /\ GetEleID(pkg.pn) # -1 /\ pkg.Fn = 33
  BY <1>1, <1>2, <1>5 DEF Inserted
<1>7. pkg.pn \in Listed /\ GetEleID(pkg.pn) = pkg.pn
  BY <1>6 DEF GetEleID
<1>8. InOrderOfAnswer(Columns(pkg.vals)) = pkg.vals
  BY <1>2, <1>6, ColumnsOfAnswer
<1>9. row[1] = GetEleID(pkg.pn) /\ row[2] = Columns(pkg.vals)
  BY <1>6
<1> QED
  BY <1>7, <1>8, <1>9

(* What the concentrator builds is an answer and well formed.              *)
LEMMA AnswerBuilt ==
  ASSUME BuildAnswer
  PROVE  /\ WellFormed(pkg') /\ Answer(pkg') /\ pkg' # None
         /\ pkg = None /\ UNCHANGED <<wire, damaged, got>> /\ UNCHANGED unit
<1>1. PICK x \in Contents, omit \in Omissions, fun \in {8, 9}, pn \in Points \cap Point,
           a1 \in Address :
        LET L == Layout(x.Fn, Count(x.Fn, x.vals))
            n == IF fun = 8 THEN Len(x.vals) - omit ELSE 0
        IN  pkg' = [kind |-> "answer", pn |-> pn, Fn |-> x.Fn,
                    c |-> 128 + fun, a1 |-> a1, a2 |-> a1, a3 |-> A3,
                    afn |-> 12, seq |-> SeqByte(0, 0),
                    tag |-> Tag(pn, x.Fn, NoTag),
                    data |-> Data(L, x.vals, n),
                    aux |-> <<>>, vals |-> x.vals,
                    whole |-> n = Len(L) /\ Count(x.Fn, x.vals) \in 1 .. Most(x.Fn)]
  BY Zenon DEF BuildAnswer, Data, NoTag
<1> DEFINE c == Count(x.Fn, x.vals)
<1> DEFINE L == Layout(x.Fn, c)
<1> DEFINE n == IF fun = 8 THEN Len(x.vals) - omit ELSE 0
<1> DEFINE d == Data(L, x.vals, n)
<1> DEFINE t == Tag(pn, x.Fn, NoTag)
<1> DEFINE w == n = Len(L) /\ c \in 1 .. Most(x.Fn)
<1> DEFINE q == [kind |-> "answer", pn |-> pn, Fn |-> x.Fn,
                 c |-> 128 + fun, a1 |-> a1, a2 |-> a1, a3 |-> A3,
                 afn |-> 12, seq |-> SeqByte(0, 0), tag |-> t, data |-> d,
                 aux |-> <<>>, vals |-> x.vals, whole |-> w]
<1>2. pkg' = q
  BY <1>1, Zenon
<1>3. n \in {0} \cup {Len(x.vals) - o : o \in Omissions}
  BY Zenon
<1>4. d \in Seq(Byte)
  <2>1. n \in Int /\ n <= Len(x.vals)
    BY <1>3, AnswerCounts, Zenon
  <2> HIDE DEF n
  <2> QED
    BY <2>1, AnswerRead, Zenon
<1> HIDE DEF c, L, n, d, t, w
<1>5. /\ q.kind = "answer" /\ q.pn = pn /\ q.Fn = x.Fn /\ q.c = 128 + fun
      /\ q.a1 = a1 /\ q.a2 = a1 /\ q.a3 = A3 /\ q.afn = 12 /\ q.seq = SeqByte(0, 0)
      /\ q.tag = t /\ q.data = d /\ q.aux = <<>> /\ q.vals = x.vals /\ q.whole = w
  OBVIOUS
<1> HIDE DEF q
<1>6. AnswerOf(q, x, n)
  <2>1. q.whole <=> n = Len(L) /\ c \in 1 .. Most(x.Fn)
    BY <1>5, Zenon DEF w
  <2>2. q.data = Data(L, x.vals, n) /\ q.tag = Tag(q.pn, x.Fn, NoTag) /\ q.pn \in Point
    BY <1>5, Zenon DEF d, t
  <2> QED
    BY <1>5, <2>1, <2>2, Zenon DEF AnswerOf, c, L
<1>7. Answer(q)
  BY <1>3, <1>6, Zenon DEF Answer
<1>8. WellFormed(q)
  <2>1. q.c \in Byte /\ q.a3 \in Byte /\ q.afn \in Byte /\ q.seq \in Byte
    BY <1>5 DEF Byte, A3, SeqByte
  <2>2. q.a1 \in Nat /\ q.a1 < Word /\ q.a2 \in Nat /\ q.a2 < Word
    BY <1>5, Numbers, Zenon
  <2>3. TagForm(q.tag)
    <3>1. pn \in Nat
      BY Numbers
    <3>2. x.Fn \in Type
      <4>1. x.Fn \in Answers
        BY ContentsForm, Zenon
      <4> QED
        BY <4>1 DEF Answers, Type
    <3>3. NoTag.DA1 \subseteq Bit /\ NoTag.DA2 \in Byte
      BY DEF NoTag, Byte
    <3> QED
      BY <1>5, <3>1, <3>2, <3>3, TagGroups, Zenon DEF t
  <2>4. q.aux \in Seq(Byte) /\ Total(q.aux) = 0
    BY <1>5, TotalEmpty
  <2> QED
    BY <1>4, <1>5, <2>1, <2>2, <2>3, <2>4, Zenon DEF WellFormed, TagForm
<1>9. q # None
  BY <1>5 DEF None
<1> QED
  BY <1>2, <1>7, <1>8, <1>9, Zenon DEF BuildAnswer

(* Nothing is sent yet.                                                    *)
LEMMA InitAnswer == RInit => PackageInv /\ AnswerInv
<1> SUFFICES ASSUME RInit PROVE PackageInv /\ AnswerInv
  OBVIOUS
<1>1. PackageInv
  BY InitPackage DEF RInit
<1>2. AnswerInv
  BY DEF RInit, Init, AnswerInv, None
<1> QED
  BY <1>1, <1>2

(* A request or a response of the master station is no answer.             *)
LEMMA BuildKind ==
  ASSUME Build
  PROVE  pkg'.kind # "answer" /\ pkg = None /\ UNCHANGED <<wire, damaged, got>>
<1>1. PICK a1 \in Address, a2 \in Address, n \in Seq16 :
        \/ \E pn \in Points, Fn \in Types : Request("AFN0C", pn, Fn, 10, <<>>, a1, a2, n)
        \/ \E pn \in Points : Request("AFN04", pn, 25, 11, <<>>, a1, a2, n)
        \/ Request("AFN04", 0, 150, 10, Zeros(StatusLen), a1, a2, n)
        \/ \E Fn \in 1 .. 3 : Ack(3, LinkAck(Fn), a1, a2, n)
        \/ Ack(1, <<>>, a1, a2, n)
  BY DEF Build
<1>2. ASSUME NEW kind \in {"AFN0C", "AFN04"}, NEW pn, NEW Fn, NEW fun, NEW data,
             Request(kind, pn, Fn, fun, data, a1, a2, n)
      PROVE  pkg'.kind # "answer"
  BY <1>2 DEF Request
<1>3. ASSUME NEW Fn, NEW data, Ack(Fn, data, a1, a2, n)
      PROVE  pkg'.kind # "answer"
  BY <1>3 DEF Ack
<1> QED
  BY <1>1, <1>2, <1>3 DEF Build

(* Every step of the sender, the thread and the caller keeps both.         *)
LEMMA NextAnswer == PackageInv /\ AnswerInv /\ [RNext]_rvars => PackageInv' /\ AnswerInv'
<1> SUFFICES ASSUME PackageInv, AnswerInv, [RNext]_rvars PROVE PackageInv' /\ AnswerInv'
  OBVIOUS
<1>0. got = Unread => step = "idle" /\ reading = NoReading /\ row = NoRow
  BY DEF AnswerInv
<1>10. pkg = None => got = Unread
  BY DEF PackageInv, Sent
<1>1. CASE BuildAnswer
  <2>1. /\ WellFormed(pkg') /\ Answer(pkg')
        /\ pkg = None /\ UNCHANGED <<wire, damaged, got>> /\ UNCHANGED unit
    BY <1>1, AnswerBuilt
  <2>2. PackageInv'
    BY <2>1, BuiltKeeps
  <2>3. AnswerInv'
    BY <1>0, <1>10, <2>1 DEF AnswerInv, unit
  <2> QED
    BY <2>2, <2>3
<1>2. CASE Build /\ UNCHANGED unit
  <2>1. WellFormed(pkg') /\ pkg'.kind # "answer" /\ pkg = None /\ UNCHANGED <<wire, damaged, got>>
    BY <1>2, BuildForm, BuildKind
  <2>2. PackageInv'
    BY <2>1, BuiltKeeps
  <2>3. AnswerInv'
    BY <1>0, <1>2, <1>10, <2>1 DEF AnswerInv, unit
  <2> QED
    BY <2>2, <2>3
<1>3. CASE (SendPkg \/ Damage) /\ UNCHANGED unit
  <2>1. PackageInv'
    BY <1>3, SendKeeps, DamageKeeps
  <2>2. pkg' = pkg /\ got' = got /\ UNCHANGED unit
    BY <1>3 DEF SendPkg, Damage
  <2>3. AnswerInv'
    BY <2>2 DEF AnswerInv, Inserted, unit
  <2> QED
    BY <2>1, <2>3
<1>4. CASE RReceive
  <2>1. PackageInv' /\ pkg' = pkg /\ got = Unread
    BY <1>4, ReceiveKeeps DEF RReceive, Receive
  <2>2. step = "idle" /\ reading = NoReading /\ row = NoRow
    BY <1>0, <2>1
  <2>3. CASE pkg.kind = "answer" /\ got'.res = "ok"
    <3>1. got' # Unread
      BY <2>3 DEF Unread
    <3>2. step' = "parsed" /\ reading' = reading /\ row' = row
      BY <1>4, <2>3 DEF RReceive
    <3> QED
      BY <2>1, <2>2, <2>3, <3>1, <3>2 DEF AnswerInv
  <2>4. CASE ~(pkg.kind = "answer" /\ got'.res = "ok")
    <3>1. step' = step /\ reading' = reading /\ row' = row
      BY <1>4, <2>4 DEF RReceive, unit
    <3> QED
      BY <2>1, <2>2, <3>1 DEF AnswerInv
  <2> QED
    BY <2>3, <2>4
<1>5. CASE DoHandleAck
  <2>1. UNCHANGED <<pkg, wire, damaged, got>> /\ row' = row /\ step = "parsed"
    BY <1>5 DEF DoHandleAck
  <2>2. PackageInv'
    BY <2>1, StutterKeeps DEF vars
  <2>3. step' \in {"handled", "saved"}
    BY <1>5 DEF DoHandleAck
  <2>4. reading = NoReading /\ row = NoRow
    BY <2>1 DEF AnswerInv
  <2>5. reading' = NoReading \/ reading' = HandleData(got.Fn, got.data)
    BY <1>5, <2>4 DEF DoHandleAck
  <2>6. AnswerInv'
    <3> DEFINE h == HandleData(got.Fn, got.data)
    <3>1. h' = h
      BY <2>1
    <3>2. reading' # NoReading => step' \notin {"idle", "parsed"} /\ reading' = h
      BY <2>3, <2>5
    <3>3. /\ pkg'.kind = "answer" => Answer(pkg')
          /\ step' # "idle" => pkg'.kind = "answer" /\ got' # Unread /\ got'.res = "ok"
      BY <2>1 DEF AnswerInv
    <3>4. row' = NoRow
      BY <2>1, <2>4
    <3>5. reading' # NoReading =>
            step' \notin {"idle", "parsed"} /\ reading' = HandleData(got'.Fn, got'.data)
      BY <2>1, <3>2, Zenon
    <3> HIDE DEF h
    <3> QED
      BY <3>3, <3>4, <3>5 DEF AnswerInv
  <2> QED
    BY <2>2, <2>6
<1>6. CASE Save
  <2>1. UNCHANGED <<pkg, wire, damaged, got, reading>> /\ step = "handled"
    BY <1>6 DEF Save
  <2>2. PackageInv'
    BY <2>1, StutterKeeps DEF vars
  <2>3. row = NoRow
    BY <2>1 DEF AnswerInv
  <2>4. step' \in {"saved", "crashed"} /\ (row' # NoRow => Inserted')
    <3>1. CASE reading # NoReading /\ got.Fn = 33 /\ GetEleID(got.pn) # -1
      <4>1. CASE reading.res = "ok"
        <5>1. /\ step' = "saved"
              /\ row' \in {NoRow, <<GetEleID(got.pn), Columns(reading.vals)>>}
          BY <1>6, <3>1, <4>1 DEF Save
        <5>2. GetEleID(got'.pn) = GetEleID(got.pn) /\ Columns(reading'.vals) = Columns(reading.vals)
          BY <2>1
        <5> QED
          BY <2>1, <3>1, <4>1, <5>1, <5>2 DEF Inserted
      <4>2. CASE reading.res # "ok"
        <5>1. step' \in {"saved", "crashed"} /\ row' \in {NoRow, Junk}
          BY <1>6, <3>1, <4>2 DEF Save
        <5>2. GetEleID(got'.pn) = GetEleID(got.pn)
          BY <2>1
        <5> QED
          BY <2>1, <3>1, <4>2, <5>1, <5>2 DEF Inserted
      <4> QED
        BY <4>1, <4>2
    <3>2. CASE ~(reading # NoReading /\ got.Fn = 33 /\ GetEleID(got.pn) # -1)
      BY <1>6, <2>3, <3>2 DEF Save
    <3> QED
      BY <3>1, <3>2
  <2>5. /\ pkg'.kind = "answer" => Answer(pkg')
        /\ pkg'.kind = "answer" /\ got' # Unread /\ got'.res = "ok"
        /\ reading' # NoReading => reading' = HandleData(got'.Fn, got'.data)
    BY <2>1, Zenon DEF AnswerInv
  <2>6. AnswerInv'
    BY <2>4, <2>5 DEF AnswerInv
  <2> QED
    BY <2>2, <2>6
<1>7. CASE DeletePackage \/ DeleteReading
  <2>1. UNCHANGED <<pkg, wire, damaged, got, reading, step, row>>
    BY <1>7 DEF DeletePackage, DeleteReading
  <2>2. PackageInv'
    BY <2>1, StutterKeeps DEF vars
  <2>3. AnswerInv'
    BY <2>1 DEF AnswerInv, Inserted
  <2> QED
    BY <2>2, <2>3
<1>8. CASE RForget
  <2>1. PackageInv'
    BY <1>8, ForgetKeeps DEF RForget
  <2>2. pkg' = None /\ step' = "idle" /\ reading' = NoReading /\ row' = NoRow
    BY <1>8 DEF RForget, Forget
  <2>3. AnswerInv'
    BY <2>2 DEF AnswerInv, None
  <2> QED
    BY <2>1, <2>3
<1>9. CASE UNCHANGED rvars
  <2>1. PackageInv'
    BY <1>9, StutterKeeps DEF rvars, vars
  <2>2. AnswerInv'
    BY <1>9 DEF rvars, AnswerInv, Inserted
  <2> QED
    BY <2>1, <2>2
<1> QED
  BY <1>1, <1>2, <1>3, <1>4, <1>5, <1>6, <1>7, <1>8, <1>9 DEF RNext

(* Every answer the concentrator can send, of any number of blocks or      *)
(* tariffs and cut off anywhere, is read field by field as it was written  *)
(* or not taken for a reading at all (HandleData).                         *)
THEOREM AnswersRead == RSpec => []ReadingsRight
  BY InitAnswer, NextAnswer, InvReads, PTL DEF RSpec

(* Every row inserted for a whole answer is that of its listed meter and   *)
(* holds each of its registers in its own column (toDB).                   *)
THEOREM AnswersInserted == RSpec => []RowsRight
  BY InitAnswer, NextAnswer, InvInserts, PTL DEF RSpec

(* Packages of a concentrator travel like those of the master station:     *)
(* fields and identifiers survive, a damaged byte is found (Serialize and  *)
(* ParseProto serve both directions).                                      *)
THEOREM AnswersTravel == RSpec => [](PackagesParse /\ DamageDetected /\ TagNamesPoint)
<1>1. RInit => TagNamesPoint
  BY DEF RInit, Init, TagNamesPoint
<1>2. PackageInv /\ AnswerInv /\ TagNamesPoint /\ [RNext]_rvars => TagNamesPoint'
  <2> SUFFICES ASSUME TagNamesPoint, [RNext]_rvars PROVE TagNamesPoint'
    OBVIOUS
  <2>1. CASE BuildAnswer
    <3>1. Answer(pkg')
      BY <2>1, AnswerBuilt
    <3>2. Named(pkg')
      BY <3>1, AnswerNames DEF Named
    <3> QED
      BY <3>2 DEF Named, TagNamesPoint
  <2>2. CASE Build \/ SendPkg \/ Damage \/ Receive \/ Forget
    BY <2>2, NextNames DEF Next
  <2>3. CASE UNCHANGED vars
    BY <2>3, NextNames
  <2> QED
    BY <2>1, <2>2, <2>3
      DEF RNext, RReceive, DoHandleAck, Save, DeletePackage, DeleteReading, RForget,
          rvars, vars
<1>3. PackageInv /\ TagNamesPoint => PackagesParse /\ DamageDetected /\ TagNamesPoint
  BY InvParses, InvDetects
<1> QED
  BY <1>1, <1>2, <1>3, InitAnswer, NextAnswer, PTL DEF RSpec
=============================================================================
