---------------------------- MODULE PackageProofs ----------------------------
(***************************************************************************)
(* Proofs about Package, for every package and every byte: identifiers     *)
(* name their point and type, the sum that CreateCS makes of words is the  *)
(* one GetCS makes of bytes, ParseProto undoes Serialize, and one damaged  *)
(* byte is found.  The invariant PackageInv says what is on the wire.      *)
(***************************************************************************)
EXTENDS Package, SequenceTheorems, WellFoundedInduction, TLAPS

(***************************************************************************)
(* Sums of bytes (GetCS, CreateCS).                                        *)
(***************************************************************************)

(* A non-empty set of numbers has a least one.                             *)
LEMMA LeastNumber ==
  ASSUME NEW T, T \subseteq Nat, T # {}
  PROVE  \E x \in T : \A y \in T : x <= y
<1>1. PICK x \in T : \A y \in T : ~(<<y, x>> \in OpToRel(<, Nat))
  BY NatLessThanWellFounded, WFMin, Zenon
<1>2. \A y \in T : ~(y < x)
  BY <1>1 DEF OpToRel
<1> QED
  BY <1>2

(* f holds the sums of the first 0, 1, ..., m members of s.                *)
Sums(f, s, m) ==
  f[0] = 0 /\ \A n \in 1 .. m : f[n] = f[n - 1] + s[n]

(* Two such functions agree.                                               *)
LEMMA SameSums ==
  ASSUME NEW s, NEW m \in Nat, NEW f, NEW g, Sums(f, s, m), Sums(g, s, m)
  PROVE  \A n \in 0 .. m : f[n] = g[n]
<1> DEFINE Bad == {n \in 0 .. m : f[n] # g[n]}
<1> SUFFICES ASSUME Bad # {} PROVE FALSE
  OBVIOUS
<1>1. PICK x \in Bad : \A y \in Bad : x <= y
  <2>1. Bad \subseteq Nat
    OBVIOUS
  <2> HIDE DEF Bad
  <2> QED
    BY <2>1, LeastNumber, Zenon
<1>2. x # 0
  BY <1>1 DEF Sums
<1>3. x \in 1 .. m /\ x - 1 \in 0 .. m
  BY <1>1, <1>2
<1>4. f[x - 1] = g[x - 1]
  <2>1. x - 1 \notin Bad
    BY <1>1, <1>3
  <2> QED
    BY <1>3, <2>1
<1> QED
  BY <1>1, <1>3, <1>4 DEF Sums

(* There is one for every sequence of numbers, by the least length for     *)
(* which there is none.                                                    *)
LEMMA SumsExist ==
  ASSUME NEW s \in Seq(Nat), NEW m \in 0 .. Len(s)
  PROVE  \E f \in [0 .. m -> Nat] : Sums(f, s, m)
<1> DEFINE L == Len(s)
<1> DEFINE Bad == {n \in 0 .. L : ~ \E f \in [0 .. n -> Nat] : Sums(f, s, n)}
<1>0. L \in Nat
  BY LenProperties
<1> SUFFICES ASSUME Bad # {} PROVE FALSE
  OBVIOUS
<1>1. PICK x \in Bad : \A y \in Bad : x <= y
  <2>1. Bad \subseteq Nat
    BY <1>0
  <2> HIDE DEF Bad
  <2> QED
    BY <2>1, LeastNumber, Zenon
<1>2. CASE x = 0
  <2> DEFINE f == [n \in 0 .. 0 |-> 0]
  <2>1. f \in [0 .. 0 -> Nat] /\ Sums(f, s, 0)
    BY DEF Sums
  <2> HIDE DEF f
  <2>2. 0 \notin Bad
    BY <2>1, Zenon
  <2> HIDE DEF Bad
  <2> QED
    BY <1>1, <1>2, <2>2
<1>3. CASE x # 0
  <2>1. x - 1 \in Nat /\ x \in 1 .. L /\ x \in Nat /\ x - 1 \in 0 .. L
    BY <1>0, <1>1, <1>3
  <2>2. PICK f \in [0 .. x - 1 -> Nat] : Sums(f, s, x - 1)
    <3>1. x - 1 \notin Bad
      <4> HIDE DEF Bad
      <4> QED
        BY <1>1, <2>1
    <3> QED
      BY <2>1, <3>1
  <2> DEFINE v == f[x - 1] + s[x]
  <2> DEFINE g == [n \in 0 .. x |-> IF n = x THEN v ELSE f[n]]
  <2>3. v \in Nat
    <3>1. s[x] \in Nat
      BY <2>1, ElementOfSeq DEF L
    <3>2. f[x - 1] \in Nat
      BY <2>1, <2>2
    <3> QED
      BY <3>1, <3>2
  <2>4. \A n \in 0 .. x - 1 : g[n] = f[n]
    BY <2>1
  <2>5. g[x] = v
    BY <2>1
  <2>6. g \in [0 .. x -> Nat]
    BY <2>1, <2>2, <2>3
  <2> HIDE DEF g, v
  <2>7. Sums(g, s, x)
    <3>1. g[0] = 0
      BY <2>1, <2>2, <2>4 DEF Sums
    <3>2. ASSUME NEW n \in 1 .. x PROVE g[n] = g[n - 1] + s[n]
      <4>1. CASE n = x
        BY <2>1, <2>4, <2>5, <4>1 DEF v
      <4>2. CASE n # x
        <5>1. n \in 1 .. x - 1 /\ n \in 0 .. x - 1 /\ n - 1 \in 0 .. x - 1
          BY <2>1, <4>2
        <5> QED
          BY <2>2, <2>4, <5>1 DEF Sums
      <4> QED
        BY <4>1, <4>2
    <3> QED
      BY <3>1, <3>2 DEF Sums
  <2> QED
    BY <1>1, <2>6, <2>7
<1> QED
  BY <1>2, <1>3

(* Any function that adds up s gives its total.                            *)
LEMMA TotalBy ==
  ASSUME NEW s \in Seq(Nat), NEW g, Sums(g, s, Len(s))
  PROVE  Total(s) = g[Len(s)]
<1> DEFINE L == Len(s)
<1> DEFINE Is(f) == f = [n \in 0 .. L |-> IF n = 0 THEN 0 ELSE f[n - 1] + s[n]]
<1>1. L \in Nat
  BY LenProperties
<1>2. \E f : Is(f)
  <2>1. PICK f \in [0 .. L -> Nat] : Sums(f, s, L)
    BY <1>1, SumsExist
  <2>2. \A n \in 0 .. L : f[n] = IF n = 0 THEN 0 ELSE f[n - 1] + s[n]
    BY <1>1, <2>1 DEF Sums
  <2>3. f = [n \in 0 .. L |-> f[n]]
    BY <2>1
  <2>4. Is(f)
    BY <2>2, <2>3
  <2> QED
    BY <2>4
<1> DEFINE f == CHOOSE f : Is(f)
<1>3. Is(f)
  BY <1>2
<1>4. Total(s) = f[L]
  BY DEF Total
<1> HIDE DEF f
<1>5. Sums(f, s, L)
  <2>1. f[0] = 0
    BY <1>1, <1>3
  <2>2. ASSUME NEW n \in 1 .. L PROVE f[n] = f[n - 1] + s[n]
    <3>1. n \in 0 .. L /\ n # 0
      BY <1>1
    <3> QED
      BY <1>3, <3>1
  <2> QED
    BY <2>1, <2>2 DEF Sums
<1>6. f[L] = g[L]
  BY <1>1, <1>5, SameSums
<1> QED
  BY <1>4, <1>6

(* The total and the sums on the way to it.                                *)
LEMMA TotalIs ==
  ASSUME NEW s \in Seq(Nat)
  PROVE  \E f \in [0 .. Len(s) -> Nat] : Sums(f, s, Len(s)) /\ Total(s) = f[Len(s)]
<1>1. Len(s) \in 0 .. Len(s)
  BY LenProperties
<1> QED
  BY <1>1, SumsExist, TotalBy

(* A total is a number.                                                    *)
LEMMA TotalType ==
  ASSUME NEW s \in Seq(Nat)
  PROVE  Total(s) \in Nat
<1>1. Len(s) \in 0 .. Len(s)
  BY LenProperties
<1> QED
  BY <1>1, TotalIs

(* The total of two sequences after one another (CreateCS adds up what     *)
(* GetCS reads as one).                                                    *)
LEMMA TotalConcat ==
  ASSUME NEW s \in Seq(Nat), NEW t \in Seq(Nat)
  PROVE  Total(s \o t) = Total(s) + Total(t)
<1> DEFINE m == Len(s)
<1> DEFINE k == Len(t)
<1>0. m \in Nat /\ k \in Nat
  BY LenProperties
<1>1. PICK f \in [0 .. m -> Nat] : Sums(f, s, m) /\ Total(s) = f[m]
  BY TotalIs
<1>2. PICK h \in [0 .. k -> Nat] : Sums(h, t, k) /\ Total(t) = h[k]
  BY TotalIs
<1>3. /\ s \o t \in Seq(Nat) /\ Len(s \o t) = m + k
      /\ \A i \in 1 .. m : (s \o t)[i] = s[i]
      /\ \A i \in m + 1 .. m + k : (s \o t)[i] = t[i - m]
  <2>1. \A i \in 1 .. m + k : (s \o t)[i] = IF i <= m THEN s[i] ELSE t[i - m]
    BY ConcatProperties
  <2>2. ASSUME NEW i \in 1 .. m PROVE (s \o t)[i] = s[i]
    BY <1>0, <2>1
  <2>3. ASSUME NEW i \in m + 1 .. m + k PROVE (s \o t)[i] = t[i - m]
    BY <1>0, <2>1
  <2> QED
    BY <2>2, <2>3, ConcatProperties
<1> DEFINE g == [n \in 0 .. m + k |-> IF n <= m THEN f[n] ELSE f[m] + h[n - m]]
<1>4. /\ \A n \in 0 .. m : g[n] = f[n]
      /\ \A n \in m + 1 .. m + k : g[n] = f[m] + h[n - m]
  BY <1>0
<1>5. f[m] \in Nat /\ \A n \in 0 .. k : h[n] \in Nat
  BY <1>0, <1>1, <1>2
<1> DEFINE u == s \o t
<1> HIDE DEF g, u, m, k
<1>6. g[0] = 0
  BY <1>0, <1>1, <1>4 DEF Sums
<1>7. ASSUME NEW n \in 1 .. m PROVE g[n] = g[n - 1] + u[n]
  <2>1. n \in 0 .. m /\ n - 1 \in 0 .. m
    BY <1>0
  <2>2. u[n] = s[n]
    BY <1>3 DEF u
  <2> QED
    BY <1>1, <1>4, <2>1, <2>2 DEF Sums
<1>8. ASSUME NEW n \in m + 1 .. m + k PROVE g[n] = g[n - 1] + u[n]
  <2>1. n - m \in 1 .. k /\ n - m \in 0 .. k /\ n - m - 1 \in 0 .. k
    BY <1>0
  <2>2. u[n] = t[n - m]
    BY <1>3 DEF u
  <2>3. h[n - m] = h[n - m - 1] + t[n - m]
    BY <1>2, <2>1 DEF Sums
  <2>4. g[n - 1] = f[m] + h[n - m - 1]
    <3>1. CASE n = m + 1
      <4>1. g[n - 1] = f[m] /\ n - m - 1 = 0
        BY <1>0, <1>4, <3>1
      <4>2. h[0] = 0
        BY <1>2 DEF Sums
      <4> QED
        BY <1>5, <4>1, <4>2
    <3>2. CASE n # m + 1
      <4>1. n - 1 \in m + 1 .. m + k /\ (n - 1) - m = n - m - 1
        BY <1>0, <3>2
      <4> QED
        BY <1>4, <4>1
    <3> QED
      BY <3>1, <3>2
  <2>5. t[n - m] \in Nat
    BY <2>1, ElementOfSeq DEF k
  <2>6. g[n] = f[m] + h[n - m]
    BY <1>4
  <2>7. h[n - m] \in Nat /\ h[n - m - 1] \in Nat
    BY <1>5, <2>1
  <2>8. f[m] + (h[n - m - 1] + t[n - m]) = (f[m] + h[n - m - 1]) + t[n - m]
    BY <1>5, <2>5, <2>7
  <2> QED
    BY <2>2, <2>3, <2>4, <2>6, <2>8, Zenon
<1>9. Sums(g, u, m + k)
  <2>1. \A n \in 1 .. m + k : n \in 1 .. m \/ n \in m + 1 .. m + k
    BY <1>0
  <2> QED
    BY <1>6, <1>7, <1>8, <2>1 DEF Sums
<1>10. Total(u) = g[m + k]
  BY <1>3, <1>9, TotalBy DEF u
<1>11. g[m + k] = f[m] + h[k]
  <2>1. CASE k = 0
    <3>1. m + k \in 0 .. m /\ m + k = m
      BY <1>0, <2>1
    <3>2. h[k] = 0
      BY <1>2, <2>1 DEF Sums
    <3> QED
      BY <1>4, <1>5, <3>1, <3>2
  <2>2. CASE k # 0
    <3>1. m + k \in m + 1 .. m + k /\ (m + k) - m = k
      BY <1>0, <2>2
    <3> QED
      BY <1>4, <3>1
  <2> QED
    BY <2>1, <2>2
<1> QED
  BY <1>1, <1>2, <1>10, <1>11 DEF u

(* One member changed changes the total by the difference.                 *)
LEMMA TotalChanged ==
  ASSUME NEW s \in Seq(Nat), NEW j \in 1 .. Len(s), NEW b \in Nat
  PROVE  Total([s EXCEPT ![j] = b]) = Total(s) - s[j] + b
<1> DEFINE m == Len(s)
<1> DEFINE u == [s EXCEPT ![j] = b]
<1>0. m \in Nat /\ j \in 1 .. m /\ s[j] \in Nat /\ b \in Nat
  BY LenProperties, ElementOfSeq
<1>1. PICK f \in [0 .. m -> Nat] : Sums(f, s, m) /\ Total(s) = f[m]
  BY TotalIs
<1>2. u \in Seq(Nat) /\ Len(u) = m /\ u[j] = b /\ \A i \in 1 .. m : i # j => u[i] = s[i]
  BY ExceptSeq, LenProperties
<1>3. PICK g \in [0 .. m -> Nat] : Sums(g, u, m) /\ Total(u) = g[m]
  BY <1>2, TotalIs
<1> HIDE DEF u, m
<1> DEFINE Bad == {n \in 0 .. m : g[n] # IF n < j THEN f[n] ELSE f[n] - s[j] + b}
<1>4. Bad = {}
  <2> SUFFICES ASSUME Bad # {} PROVE FALSE
    OBVIOUS
  <2>1. PICK x \in Bad : \A y \in Bad : x <= y
    <3>1. Bad \subseteq Nat
      BY <1>0
    <3> HIDE DEF Bad
    <3> QED
      BY <3>1, LeastNumber, Zenon
  <2>2. x # 0
    BY <1>0, <1>1, <1>3, <2>1 DEF Sums
  <2>3. x \in 1 .. m /\ x - 1 \in 0 .. m
    BY <1>0, <2>1, <2>2
  <2>4. g[x - 1] = IF x - 1 < j THEN f[x - 1] ELSE f[x - 1] - s[j] + b
    <3>1. x - 1 \notin Bad
      <4> HIDE DEF Bad
      <4> QED
        BY <2>1, <2>3
    <3> QED
      BY <2>3, <3>1
  <2>5. f[x] = f[x - 1] + s[x] /\ g[x] = g[x - 1] + u[x]
    BY <1>1, <1>3, <2>3 DEF Sums
  <2>6. f[x - 1] \in Nat /\ g[x - 1] \in Nat /\ s[x] \in Nat /\ u[x] \in Nat
    <3>1. s[x] \in Nat /\ u[x] \in Nat
      BY <1>2, <2>3, ElementOfSeq DEF m
    <3> QED
      BY <1>1, <1>3, <2>3, <3>1
  <2>7. g[x] = IF x < j THEN f[x] ELSE f[x] - s[j] + b
    <3>1. CASE x = j
      <4>1. ~(x < j) /\ x - 1 < j
        BY <1>0, <3>1
      <4>2. g[x] = f[x - 1] + b
        BY <1>2, <2>4, <2>5, <3>1, <4>1
      <4>3. f[x] = f[x - 1] + s[j]
        BY <2>5, <3>1
      <4>4. f[x - 1] + b = (f[x - 1] + s[j]) - s[j] + b
        <5> DEFINE a == f[x - 1]
        <5> DEFINE c == s[x]
        <5> DEFINE d == s[j]
        <5>1. a \in Nat /\ c \in Nat /\ d \in Nat
          BY <1>0, <2>6
        <5> HIDE DEF a, c, d, Bad
        <5>2. a + b = (a + d) - d + b
          BY <1>0, <5>1
        <5> QED
          BY <5>2 DEF a, c, d
      <4> QED
        BY <4>1, <4>2, <4>3, <4>4
    <3>2. CASE x < j
      <4>1. u[x] = s[x] /\ x - 1 < j
        BY <1>0, <1>2, <2>3, <3>2
      <4> QED
        BY <2>4, <2>5, <3>2, <4>1
    <3>3. CASE j < x
      <4>1. u[x] = s[x] /\ ~(x < j) /\ ~(x - 1 < j)
        BY <1>0, <1>2, <2>3, <3>3
      <4>2. g[x] = (f[x - 1] - s[j] + b) + s[x] /\ f[x] = f[x - 1] + s[x]
        BY <2>4, <2>5, <4>1
      <4>3. (f[x - 1] - s[j] + b) + s[x] = (f[x - 1] + s[x]) - s[j] + b
        <5> DEFINE a == f[x - 1]
        <5> DEFINE c == s[x]
        <5> DEFINE d == s[j]
        <5>1. a \in Nat /\ c \in Nat /\ d \in Nat
          BY <1>0, <2>6
        <5> HIDE DEF a, c, d, Bad
        <5>2. (a - d + b) + c = (a + c) - d + b
          BY <1>0, <5>1
        <5> QED
          BY <5>2 DEF a, c, d
      <4> QED
        BY <4>1, <4>2, <4>3
    <3>4. x = j \/ x < j \/ j < x
      BY <1>0, <2>3
    <3> QED
      BY <3>1, <3>2, <3>3, <3>4
  <2> QED
    BY <2>1, <2>7
<1>5. g[m] = f[m] - s[j] + b
  <2>1. m \notin Bad
    BY <1>4
  <2>2. m \in 0 .. m /\ ~(m < j)
    BY <1>0
  <2> QED
    BY <2>1, <2>2
<1> QED
  BY <1>1, <1>3, <1>5 DEF u

(* The auxiliary field adds nothing.                                       *)
LEMMA TotalZeros ==
  ASSUME NEW n \in Nat
  PROVE  Zeros(n) \in Seq(Nat) /\ Len(Zeros(n)) = n /\ Total(Zeros(n)) = 0
<1> DEFINE s == Zeros(n)
<1>1. s \in Seq(Nat) /\ Len(s) = n /\ \A i \in 1 .. n : s[i] = 0
  BY DEF Zeros
<1> DEFINE g == [i \in 0 .. n |-> 0]
<1>2. Sums(g, s, n)
  BY <1>1 DEF Sums
<1>3. g[n] = 0
  OBVIOUS
<1> HIDE DEF g, s
<1> QED
  BY <1>1, <1>2, <1>3, TotalBy DEF s

(* A total of bytes and lists of bytes.                                    *)
LEMMA BytesAreNat ==
  ASSUME NEW s \in Seq(Byte)
  PROVE  s \in Seq(Nat)
<1>1. Byte \subseteq Nat
  BY DEF Byte
<1> HIDE DEF Byte
<1> QED
  BY <1>1, SeqMonotonic, Zenon

(* The parts of a concatenation.                                           *)
LEMMA Parts ==
  ASSUME NEW S, NEW a \in Seq(S), NEW m \in Seq(S), NEW b \in Seq(S)
  PROVE  LET s == (a \o m) \o b
         IN  /\ s \in Seq(S) /\ Len(s) = Len(a) + Len(m) + Len(b)
             /\ \A i \in 1 .. Len(a) : s[i] = a[i]
             /\ \A i \in 1 .. Len(m) : s[Len(a) + i] = m[i]
             /\ \A i \in 1 .. Len(b) : s[Len(a) + Len(m) + i] = b[i]
             /\ SubSeq(s, Len(a) + 1, Len(a) + Len(m)) = m
<1> DEFINE p == a \o m
<1> DEFINE s == p \o b
<1> DEFINE x == Len(a)
<1> DEFINE y == Len(m)
<1> DEFINE z == Len(b)
<1>0. x \in Nat /\ y \in Nat /\ z \in Nat
  BY LenProperties
<1>1. /\ p \in Seq(S) /\ Len(p) = x + y
      /\ \A i \in 1 .. x + y : p[i] = IF i <= x THEN a[i] ELSE m[i - x]
  BY ConcatProperties
<1> HIDE DEF p
<1>2. /\ s \in Seq(S) /\ Len(s) = (x + y) + z
      /\ \A i \in 1 .. (x + y) + z : s[i] = IF i <= x + y THEN p[i] ELSE b[i - (x + y)]
  <2>1. /\ s \in Seq(S) /\ Len(s) = Len(p) + z
        /\ \A i \in 1 .. Len(p) + z : s[i] = IF i <= Len(p) THEN p[i] ELSE b[i - Len(p)]
    <3>1. p \in Seq(S) /\ b \in Seq(S)
      BY <1>1
    <3>2. /\ p \o b \in Seq(S) /\ Len(p \o b) = Len(p) + Len(b)
          /\ \A i \in 1 .. Len(p) + Len(b) : (p \o b)[i] = IF i <= Len(p) THEN p[i] ELSE b[i - Len(p)]
      BY <3>1, ConcatProperties
    <3> QED
      BY <3>2 DEF s, z
  <2>2. Len(p) = x + y
    BY <1>1
  <2> HIDE DEF s, x, y, z
  <2> QED
    BY <2>1, <2>2, Zenon
<1> HIDE DEF s, x, y, z
<1>3. ASSUME NEW i \in 1 .. x PROVE s[i] = a[i]
  BY <1>0, <1>1, <1>2
<1>4. ASSUME NEW i \in 1 .. y PROVE s[x + i] = m[i]
  <2>1. x + i \in 1 .. x + y /\ x + i \in 1 .. (x + y) + z /\ ~(x + i <= x)
        /\ x + i <= x + y /\ (x + i) - x = i
    BY <1>0
  <2>2. s[x + i] = p[x + i]
    BY <1>2, <2>1
  <2>3. p[x + i] = m[(x + i) - x]
    BY <1>1, <2>1
  <2> QED
    BY <2>1, <2>2, <2>3
<1>5. ASSUME NEW i \in 1 .. z PROVE s[x + y + i] = b[i]
  <2>1. x + y + i \in 1 .. (x + y) + z /\ ~(x + y + i <= x + y)
        /\ (x + y + i) - (x + y) = i
    BY <1>0
  <2>2. s[x + y + i] = b[(x + y + i) - (x + y)]
    BY <1>2, <2>1
  <2> QED
    BY <2>1, <2>2
<1>6. SubSeq(s, x + 1, x + y) = m
  <2> DEFINE u == SubSeq(s, x + 1, x + y)
  <2>1. /\ u \in Seq(S) /\ Len(u) = y
        /\ \A i \in 1 .. y : u[i] = s[x + i]
    <3>1. x + 1 \in 1 .. Len(s) + 1 /\ x + y \in x .. Len(s)
      BY <1>0, <1>2
    <3>2. Len(u) = y /\ \A i \in 1 .. y : u[i] = s[x + i]
      BY <1>0, <1>2, <3>1
    <3>3. u \in Seq(S)
      BY <1>2, <3>1, SubSeqProperties
    <3> QED
      BY <3>2, <3>3
  <2>2. Len(m) = y
    BY DEF y
  <2>3. \A i \in 1 .. Len(u) : u[i] = m[i]
    BY <1>4, <2>1
  <2> HIDE DEF u
  <2> QED
    BY <2>1, <2>2, <2>3, SeqEqual DEF u
<1> QED
  BY <1>2, <1>3, <1>4, <1>5, <1>6 DEF s, p, x, y, z

(* The same with nothing behind.                                           *)
LEMMA TailOf ==
  ASSUME NEW S, NEW a \in Seq(S), NEW m \in Seq(S)
  PROVE  /\ a \o m \in Seq(S) /\ Len(a \o m) = Len(a) + Len(m)
         /\ \A i \in 1 .. Len(a) : (a \o m)[i] = a[i]
         /\ SubSeq(a \o m, Len(a) + 1, Len(a \o m)) = m
<1>1. <<>> \in Seq(S) /\ Len(<<>>) = 0
  OBVIOUS
<1>2. a \o m \in Seq(S) /\ (a \o m) \o <<>> = a \o m
  <2>1. a \o m \in Seq(S)
    BY ConcatProperties
  <2> QED
    BY <2>1, ConcatEmptySeq
<1>3. LET s == a \o m
      IN  /\ s \in Seq(S) /\ Len(s) = Len(a) + Len(m) + 0
          /\ \A i \in 1 .. Len(a) : s[i] = a[i]
          /\ SubSeq(s, Len(a) + 1, Len(a) + Len(m)) = m
  BY <1>1, <1>2, Parts
<1>4. Len(a) + Len(m) + 0 = Len(a) + Len(m)
  BY LenProperties
<1> QED
  BY <1>3, <1>4

(* A word and its two bytes.                                               *)
LEMMA WordBytes ==
  ASSUME NEW w \in Nat, w < Word
  PROVE  Lo(w) \in Byte /\ Hi(w) \in Byte /\ Lo(w) + 256 * Hi(w) = w
<1>1. Lo(w) \in Byte
  BY DEF Lo, Byte
<1>2. Hi(w) \in Int /\ 0 <= Hi(w) /\ Hi(w) <= 255
  BY DEF Hi, Word
<1>3. Lo(w) + 256 * Hi(w) = w
  BY DEF Lo, Hi
<1> QED
  BY <1>1, <1>2, <1>3 DEF Byte

(* A length that fits the buffer survives its field.                       *)
LEMMA LengthKept ==
  ASSUME NEW n \in Nat, n < BufSize
  PROVE  /\ Lo(LengthField(n)) \in Byte /\ Hi(LengthField(n)) \in Byte
         /\ (Lo(LengthField(n)) + 256 * Hi(LengthField(n))) \div 4 = n
<1> DEFINE w == 4 * n + 1
<1>1. w \in Nat /\ w < Word /\ (w % Word) = w
  BY DEF BufSize, Word
<1>2. LengthField(n) = w
  BY <1>1 DEF LengthField
<1>3. w \div 4 = n
  OBVIOUS
<1> HIDE DEF w
<1> QED
  BY <1>1, <1>2, <1>3, WordBytes

(* The total of eight and of twelve bytes.                                 *)
LEMMA TotalOfEight ==
  ASSUME NEW s \in Seq(Nat), Len(s) = 8
  PROVE  Total(s) = s[1] + s[2] + s[3] + s[4] + s[5] + s[6] + s[7] + s[8]
<1>1. PICK f \in [0 .. 8 -> Nat] : Sums(f, s, 8) /\ Total(s) = f[8]
  BY TotalIs
<1>2. /\ f[0] = 0 /\ f[1] = f[0] + s[1] /\ f[2] = f[1] + s[2] /\ f[3] = f[2] + s[3]
      /\ f[4] = f[3] + s[4] /\ f[5] = f[4] + s[5] /\ f[6] = f[5] + s[6]
      /\ f[7] = f[6] + s[7] /\ f[8] = f[7] + s[8]
  BY <1>1 DEF Sums
<1>3. s[1] \in Nat
  <2>1. 1 \in 1 .. Len(s)
    OBVIOUS
  <2> QED
    BY <2>1, ElementOfSeq
<1> QED
  BY <1>1, <1>2, <1>3

(* The same for the twelve bytes before the data.                          *)
LEMMA TotalOfTwelve ==
  ASSUME NEW s \in Seq(Nat), Len(s) = 12
  PROVE  Total(s) = s[1] + s[2] + s[3] + s[4] + s[5] + s[6] + s[7] + s[8]
                      + s[9] + s[10] + s[11] + s[12]
<1>1. PICK f \in [0 .. 12 -> Nat] : Sums(f, s, 12) /\ Total(s) = f[12]
  BY TotalIs
<1>2. /\ f[0] = 0 /\ f[1] = f[0] + s[1] /\ f[2] = f[1] + s[2] /\ f[3] = f[2] + s[3]
      /\ f[4] = f[3] + s[4] /\ f[5] = f[4] + s[5] /\ f[6] = f[5] + s[6]
      /\ f[7] = f[6] + s[7] /\ f[8] = f[7] + s[8] /\ f[9] = f[8] + s[9]
      /\ f[10] = f[9] + s[10] /\ f[11] = f[10] + s[11] /\ f[12] = f[11] + s[12]
  BY <1>1 DEF Sums
<1>3. s[1] \in Nat
  <2>1. 1 \in 1 .. Len(s)
    OBVIOUS
  <2> QED
    BY <2>1, ElementOfSeq
<1> QED
  BY <1>1, <1>2, <1>3

(* A package every field of which fits the bytes it is sent as.            *)
WellFormed(p) ==
  /\ p.c \in Byte /\ p.a3 \in Byte /\ p.afn \in Byte /\ p.seq \in Byte
  /\ p.a1 \in Nat /\ p.a1 < Word /\ p.a2 \in Nat /\ p.a2 < Word
  /\ p.tag.DA1 \subseteq Bit /\ p.tag.DA2 \in Byte
  /\ p.tag.DT1 \subseteq Bit /\ p.tag.DT2 \in Byte
  /\ p.data \in Seq(Byte)
  /\ p.aux \in Seq(Byte) /\ Total(p.aux) = 0

(* What length and sum are about.                                          *)
User(p) == UserBytes(p) \o (p.data \o p.aux)

(* s is a frame around u, with its length, sum, start and end.             *)
Framed(s, u) ==
  /\ u \in Seq(Byte) /\ s \in Seq(Byte) /\ Len(s) = Len(u) + 8 /\ Len(u) >= 12
  /\ s[1] = 104 /\ s[6] = 104 /\ s[Len(u) + 8] = 22
  /\ LengthOf(s) = Len(u) /\ s[Len(u) + 7] = GetCS(u)
  /\ SubSeq(s, 7, Len(u) + 6) = u

(* The number that stands for a set of bits is a byte.                     *)
LEMMA ValueByte ==
  ASSUME NEW bits
  PROVE  Value(bits) \in Byte
<1> DEFINE s == [i \in 1 .. 8 |-> IF i - 1 \in bits THEN Weight[i] ELSE 0]
<1>1. \A i \in 1 .. 8 : Weight[i] \in Nat
  BY DEF Weight
<1>2. s \in Seq(Nat) /\ Len(s) = 8
  BY <1>1
<1>3. /\ s[1] \in {0, 1} /\ s[2] \in {0, 2} /\ s[3] \in {0, 4} /\ s[4] \in {0, 8}
      /\ s[5] \in {0, 16} /\ s[6] \in {0, 32} /\ s[7] \in {0, 64} /\ s[8] \in {0, 128}
  BY DEF Weight
<1>4. Value(bits) = Total(s)
  BY DEF Value
<1> HIDE DEF s
<1>5. Total(s) = s[1] + s[2] + s[3] + s[4] + s[5] + s[6] + s[7] + s[8]
  BY <1>2, TotalOfEight
<1> QED
  BY <1>3, <1>4, <1>5 DEF Byte

(* Bit by bit, a byte gives back the set of bits it stands for.            *)
LEMMA EightBits ==
  ASSUME NEW a \in {0, 1}, NEW b \in {0, 1}, NEW c \in {0, 1}, NEW d \in {0, 1},
         NEW e \in {0, 1}, NEW f \in {0, 1}, NEW g \in {0, 1}, NEW h \in {0, 1}, NEW v,
         v = a + 2 * b + 4 * c + 8 * d + 16 * e + 32 * f + 64 * g + 128 * h
  PROVE  /\ ((v \div 1) % 2) = a /\ ((v \div 2) % 2) = b
         /\ ((v \div 4) % 2) = c /\ ((v \div 8) % 2) = d
         /\ ((v \div 16) % 2) = e /\ ((v \div 32) % 2) = f
         /\ ((v \div 64) % 2) = g /\ ((v \div 128) % 2) = h
  OBVIOUS

LEMMA BitsBack ==
  ASSUME NEW bits, bits \subseteq Bit
  PROVE  Bits(Value(bits)) = bits
<1> DEFINE s == [i \in 1 .. 8 |-> IF i - 1 \in bits THEN Weight[i] ELSE 0]
<1> DEFINE w(k) == IF k \in bits THEN 1 ELSE 0
<1> DEFINE v == Value(bits)
<1>1. s \in Seq(Nat) /\ Len(s) = 8
  <2>1. \A i \in 1 .. 8 : Weight[i] \in Nat
    BY DEF Weight
  <2> QED
    BY <2>1
<1>2. /\ s[1] = 1 * w(0) /\ s[2] = 2 * w(1) /\ s[3] = 4 * w(2) /\ s[4] = 8 * w(3)
      /\ s[5] = 16 * w(4) /\ s[6] = 32 * w(5) /\ s[7] = 64 * w(6) /\ s[8] = 128 * w(7)
  BY DEF Weight
<1>3. \A k \in Bit : w(k) \in {0, 1} /\ (w(k) = 1 <=> k \in bits)
  OBVIOUS
<1>4. v = Total(s)
  BY DEF Value
<1> HIDE DEF s, w, v
<1>5. v = s[1] + s[2] + s[3] + s[4] + s[5] + s[6] + s[7] + s[8]
  BY <1>1, <1>4, TotalOfEight
<1>6. /\ w(0) \in {0, 1} /\ w(1) \in {0, 1} /\ w(2) \in {0, 1} /\ w(3) \in {0, 1}
      /\ w(4) \in {0, 1} /\ w(5) \in {0, 1} /\ w(6) \in {0, 1} /\ w(7) \in {0, 1}
  BY <1>3 DEF Bit
<1>7. v = w(0) + 2 * w(1) + 4 * w(2) + 8 * w(3)
            + 16 * w(4) + 32 * w(5) + 64 * w(6) + 128 * w(7)
  BY <1>2, <1>5, <1>6
<1>8. /\ ((v \div 1) % 2) = w(0) /\ ((v \div 2) % 2) = w(1)
      /\ ((v \div 4) % 2) = w(2) /\ ((v \div 8) % 2) = w(3)
      /\ ((v \div 16) % 2) = w(4) /\ ((v \div 32) % 2) = w(5)
      /\ ((v \div 64) % 2) = w(6) /\ ((v \div 128) % 2) = w(7)
  <2> DEFINE w0 == w(0)
  <2> DEFINE w1 == w(1)
  <2> DEFINE w2 == w(2)
  <2> DEFINE w3 == w(3)
  <2> DEFINE w4 == w(4)
  <2> DEFINE w5 == w(5)
  <2> DEFINE w6 == w(6)
  <2> DEFINE w7 == w(7)
  <2>1. /\ w0 \in {0, 1} /\ w1 \in {0, 1} /\ w2 \in {0, 1} /\ w3 \in {0, 1}
        /\ w4 \in {0, 1} /\ w5 \in {0, 1} /\ w6 \in {0, 1} /\ w7 \in {0, 1}
        /\ v = w0 + 2 * w1 + 4 * w2 + 8 * w3 + 16 * w4 + 32 * w5 + 64 * w6 + 128 * w7
    BY <1>6, <1>7
  <2> HIDE DEF w0, w1, w2, w3, w4, w5, w6, w7
  <2>2. /\ ((v \div 1) % 2) = w0 /\ ((v \div 2) % 2) = w1
        /\ ((v \div 4) % 2) = w2 /\ ((v \div 8) % 2) = w3
        /\ ((v \div 16) % 2) = w4 /\ ((v \div 32) % 2) = w5
        /\ ((v \div 64) % 2) = w6 /\ ((v \div 128) % 2) = w7
    BY <2>1, EightBits
  <2> QED
    BY <2>2 DEF w0, w1, w2, w3, w4, w5, w6, w7
<1>9. ASSUME NEW k \in Bit PROVE ((v \div Weight[k + 1]) % 2) = w(k)
  <2>1. k = 0 \/ k = 1 \/ k = 2 \/ k = 3 \/ k = 4 \/ k = 5 \/ k = 6 \/ k = 7
    BY DEF Bit
  <2>2. /\ Weight[1] = 1 /\ Weight[2] = 2 /\ Weight[3] = 4 /\ Weight[4] = 8
        /\ Weight[5] = 16 /\ Weight[6] = 32 /\ Weight[7] = 64 /\ Weight[8] = 128
    BY DEF Weight
  <2>3. CASE k = 0
    BY <1>8, <2>2, <2>3
  <2>4. CASE k = 1
    BY <1>8, <2>2, <2>4
  <2>5. CASE k = 2
    BY <1>8, <2>2, <2>5
  <2>6. CASE k = 3
    BY <1>8, <2>2, <2>6
  <2>7. CASE k = 4
    BY <1>8, <2>2, <2>7
  <2>8. CASE k = 5
    BY <1>8, <2>2, <2>8
  <2>9. CASE k = 6
    BY <1>8, <2>2, <2>9
  <2>10. CASE k = 7
    BY <1>8, <2>2, <2>10
  <2> QED
    BY <2>1, <2>3, <2>4, <2>5, <2>6, <2>7, <2>8, <2>9, <2>10
<1>10. Bits(v) = {k \in Bit : w(k) = 1}
  BY <1>9 DEF Bits
<1>11. {k \in Bit : w(k) = 1} = bits
  BY <1>3
<1> QED
  BY <1>10, <1>11 DEF v

(* The fixed part of a package is twelve bytes.                            *)
LEMMA UserHeadBytes ==
  ASSUME NEW p, WellFormed(p)
  PROVE  /\ UserBytes(p) \in Seq(Byte) /\ Len(UserBytes(p)) = 12
         /\ Total(UserBytes(p))
              = p.c + Lo(p.a1) + Hi(p.a1) + Lo(p.a2) + Hi(p.a2) + p.a3 + p.afn + p.seq
                  + Value(p.tag.DA1) + p.tag.DA2 + Value(p.tag.DT1) + p.tag.DT2
<1>1. /\ Lo(p.a1) \in Byte /\ Hi(p.a1) \in Byte /\ Lo(p.a2) \in Byte /\ Hi(p.a2) \in Byte
      /\ Value(p.tag.DA1) \in Byte /\ Value(p.tag.DT1) \in Byte
  BY WordBytes, ValueByte DEF WellFormed
<1> DEFINE u == UserBytes(p)
<1>2. u \in Seq(Byte) /\ Len(u) = 12
  BY <1>1 DEF UserBytes, WellFormed
<1>3. /\ u[1] = p.c /\ u[2] = Lo(p.a1) /\ u[3] = Hi(p.a1) /\ u[4] = Lo(p.a2)
      /\ u[5] = Hi(p.a2) /\ u[6] = p.a3 /\ u[7] = p.afn /\ u[8] = p.seq
      /\ u[9] = Value(p.tag.DA1) /\ u[10] = p.tag.DA2
      /\ u[11] = Value(p.tag.DT1) /\ u[12] = p.tag.DT2
  BY DEF UserBytes
<1> HIDE DEF u
<1>4. Total(u) = u[1] + u[2] + u[3] + u[4] + u[5] + u[6] + u[7] + u[8]
                      + u[9] + u[10] + u[11] + u[12]
  BY <1>2, BytesAreNat, TotalOfTwelve
<1>5. Total(u) = p.c + Lo(p.a1) + Hi(p.a1) + Lo(p.a2) + Hi(p.a2) + p.a3 + p.afn + p.seq
                   + Value(p.tag.DA1) + p.tag.DA2 + Value(p.tag.DT1) + p.tag.DT2
  BY <1>3, <1>4, Zenon
<1> QED
  BY <1>2, <1>5 DEF u

(* Multiples of 256 do not change a sum of bytes.                          *)
LEMMA SameModulo ==
  ASSUME NEW x \in Nat, NEW y \in Nat, NEW k \in Nat, x = y + 256 * k
  PROVE  (x % 256) = (y % 256)
  OBVIOUS

(* CreateCS adds whole words and their upper bytes, and no auxiliary       *)
(* field; GetCS adds bytes: they agree.                                    *)
LEMMA SumsAgree ==
  ASSUME NEW p, WellFormed(p)
  PROVE  /\ User(p) \in Seq(Byte) /\ Len(User(p)) = SetL(p)
         /\ GetCS(User(p)) = CreateCS(p)
<1> DEFINE h == UserBytes(p)
<1> DEFINE d == p.data
<1> DEFINE x == p.aux
<1>0. \A b \in Byte : b \in Nat
  BY DEF Byte
<1>1. h \in Seq(Byte) /\ d \in Seq(Byte) /\ x \in Seq(Byte) /\ Len(h) = 12 /\ Total(x) = 0
  BY UserHeadBytes DEF WellFormed
<1>2. /\ d \o x \in Seq(Byte) /\ Len(d \o x) = Len(d) + Len(x)
      /\ Total(d \o x) = Total(d) + Total(x)
  <2>1. d \in Seq(Nat) /\ x \in Seq(Nat)
    BY <1>1, BytesAreNat
  <2> HIDE DEF d, x
  <2> QED
    BY <1>1, <2>1, ConcatProperties, TotalConcat
<1>3. /\ h \o (d \o x) \in Seq(Byte) /\ Len(h \o (d \o x)) = 12 + (Len(d) + Len(x))
      /\ Total(h \o (d \o x)) = Total(h) + Total(d \o x)
  <2> DEFINE e == d \o x
  <2>1. h \in Seq(Nat) /\ e \in Seq(Nat)
    BY <1>1, <1>2, BytesAreNat
  <2>2. e \in Seq(Byte) /\ Len(e) = Len(d) + Len(x)
    BY <1>2
  <2> HIDE DEF e, h
  <2>3. h \o e \in Seq(Byte) /\ Len(h \o e) = Len(h) + Len(e) /\ Total(h \o e) = Total(h) + Total(e)
    BY <1>1, <2>1, <2>2, ConcatProperties, TotalConcat
  <2> QED
    BY <1>1, <2>2, <2>3 DEF e
<1>4. Len(User(p)) = SetL(p)
  <2>1. Len(d) \in Nat /\ Len(x) \in Nat
    BY <1>1, LenProperties
  <2>2. Len(User(p)) = 12 + (Len(d) + Len(x))
    BY <1>3 DEF User
  <2>3. SetL(p) = 6 + 2 + 4 + Len(d) + Len(x)
    BY DEF SetL, UserHead, AfnHead, TagLen
  <2> HIDE DEF d, x
  <2> QED
    BY <2>1, <2>2, <2>3
<1> DEFINE t == Total(d)
<1>5. t \in Nat /\ t + 0 = t /\ Total(d \o x) = t
  <2>1. t \in Nat
    BY <1>1, BytesAreNat, TotalType
  <2> QED
    BY <1>1, <1>2, <2>1
<1> DEFINE va == Value(p.tag.DA1)
<1> DEFINE vt == Value(p.tag.DT1)
<1>6. va \in Nat /\ vt \in Nat
  BY ValueByte DEF Byte
<1> DEFINE w1 == p.a1
<1> DEFINE w2 == p.a2
<1>7. /\ Lo(w1) \in Nat /\ Hi(w1) \in Nat /\ Lo(w2) \in Nat /\ Hi(w2) \in Nat
      /\ w1 \in Nat /\ w2 \in Nat
      /\ w1 = Lo(w1) + 256 * Hi(w1) /\ w2 = Lo(w2) + 256 * Hi(w2)
  <2>1. w1 \in Nat /\ w1 < Word /\ w2 \in Nat /\ w2 < Word
    BY DEF WellFormed
  <2> HIDE DEF w1, w2
  <2>2. Lo(w1) \in Byte /\ Hi(w1) \in Byte /\ Lo(w1) + 256 * Hi(w1) = w1
    BY <2>1, WordBytes
  <2>3. Lo(w2) \in Byte /\ Hi(w2) \in Byte /\ Lo(w2) + 256 * Hi(w2) = w2
    BY <2>1, WordBytes
  <2> QED
    BY <1>0, <2>1, <2>2, <2>3
<1> DEFINE c == p.c
<1> DEFINE a3 == p.a3
<1> DEFINE fn == p.afn
<1> DEFINE n == p.seq
<1> DEFINE da == p.tag.DA2
<1> DEFINE dt == p.tag.DT2
<1>8. c \in Nat /\ a3 \in Nat /\ fn \in Nat /\ n \in Nat /\ da \in Nat /\ dt \in Nat
  BY <1>0 DEF WellFormed
<1>9. Total(User(p)) = c + Lo(w1) + Hi(w1) + Lo(w2) + Hi(w2) + a3 + fn + n
                         + va + da + vt + dt + t
  BY <1>3, <1>5, UserHeadBytes DEF User
<1>10. CreateCS(p) = (c + w1 + Hi(w1) + w2 + Hi(w2) + a3 + fn + n
                         + va + da + vt + dt + t) % 256
  BY DEF CreateCS
<1> HIDE DEF c, a3, fn, n, da, dt, w1, w2, va, vt, t, h, d, x
<1> DEFINE sum == c + Lo(w1) + Hi(w1) + Lo(w2) + Hi(w2) + a3 + fn + n
                    + va + da + vt + dt + t
<1> DEFINE all == c + w1 + Hi(w1) + w2 + Hi(w2) + a3 + fn + n + va + da + vt + dt + t
<1>11. sum \in Nat /\ all \in Nat /\ all = sum + 256 * (Hi(w1) + Hi(w2))
  <2> DEFINE l1 == Lo(w1)
  <2> DEFINE h1 == Hi(w1)
  <2> DEFINE l2 == Lo(w2)
  <2> DEFINE h2 == Hi(w2)
  <2>1. /\ l1 \in Nat /\ h1 \in Nat /\ l2 \in Nat /\ h2 \in Nat
        /\ w1 = l1 + 256 * h1 /\ w2 = l2 + 256 * h2
    BY <1>7
  <2> HIDE DEF l1, h1, l2, h2
  <2>2. sum \in Nat
    BY <1>5, <1>6, <1>8, <2>1 DEF l1, h1, l2, h2
  <2>3. w1 = l1 + 256 * h1 /\ w2 = l2 + 256 * h2 /\ 256 * (h1 + h2) = 256 * h1 + 256 * h2
    BY <2>1
  <2> DEFINE r == a3 + fn + n + va + da + vt + dt + t
  <2>4. r \in Nat
    BY <1>5, <1>6, <1>8
  <2>5. all = c + w1 + h1 + w2 + h2 + r /\ sum = c + l1 + h1 + l2 + h2 + r
    BY <1>5, <1>6, <1>7, <1>8, <2>1 DEF l1, h1, l2, h2
  <2> HIDE DEF r, all, sum
  <2>6. all \in Nat /\ all = sum + 256 * (h1 + h2)
    BY <1>7, <1>8, <2>1, <2>3, <2>4, <2>5
  <2> QED
    BY <2>2, <2>6 DEF h1, h2
<1>12. Hi(w1) + Hi(w2) \in Nat
  BY <1>7
<1>13. Total(User(p)) = sum /\ CreateCS(p) = (all % 256)
  BY <1>9, <1>10
<1> HIDE DEF sum, all
<1>14. (sum % 256) = (all % 256)
  BY <1>11, <1>12, SameModulo
<1>15. GetCS(User(p)) = CreateCS(p)
  BY <1>13, <1>14 DEF GetCS
<1>16. User(p) \in Seq(Byte)
  BY <1>3 DEF User, h, d, x
<1> QED
  BY <1>4, <1>15, <1>16

(* What Serialize writes is framed, if it fits the buffer (okPkg).         *)
LEMMA SerializeFrames ==
  ASSUME NEW p, WellFormed(p), Len(Serialize(p)) < BufSize
  PROVE  Framed(Serialize(p), User(p))
<1> DEFINE L == SetL(p)
<1> DEFINE f == LengthField(L)
<1> DEFINE h == HeadBytes(f)
<1> DEFINE u == User(p)
<1> DEFINE e == <<CreateCS(p), 22>>
<1> DEFINE s == (h \o u) \o e
<1>1. u \in Seq(Byte) /\ Len(u) = L /\ GetCS(u) = CreateCS(p) /\ L \in Nat /\ L >= 12
  <2>1. u \in Seq(Byte) /\ Len(u) = L /\ GetCS(u) = CreateCS(p)
    BY SumsAgree
  <2>2. p.data \in Seq(Byte) /\ p.aux \in Seq(Byte)
    BY DEF WellFormed
  <2>3. Len(p.data) \in Nat /\ Len(p.aux) \in Nat
    BY <2>2, LenProperties
  <2>4. L = 6 + 2 + 4 + Len(p.data) + Len(p.aux)
    BY DEF SetL, UserHead, AfnHead, TagLen
  <2>5. L \in Nat /\ L >= 12
    <3> DEFINE x == Len(p.data)
    <3> DEFINE y == Len(p.aux)
    <3>1. x \in Nat /\ y \in Nat /\ L = 6 + 2 + 4 + x + y
      BY <2>3, <2>4
    <3> HIDE DEF L, x, y
    <3> QED
      BY <3>1
  <2> HIDE DEF L, u
  <2> QED
    BY <2>1, <2>5
<1>2. f \in Nat /\ f < Word
  BY <1>1 DEF LengthField, Word
<1>3. Lo(f) \in Byte /\ Hi(f) \in Byte
  BY <1>2, WordBytes
<1>4. /\ h \in Seq(Byte) /\ Len(h) = 6 /\ h[1] = 104 /\ h[6] = 104
      /\ h[2] = Lo(f) /\ h[3] = Hi(f)
  <2>1. 104 \in Byte
    BY DEF Byte
  <2> HIDE DEF f
  <2> QED
    BY <1>3, <2>1 DEF HeadBytes
<1>5. e \in Seq(Byte) /\ Len(e) = 2 /\ e[1] = GetCS(u) /\ e[2] = 22
  <2>1. CreateCS(p) \in Byte /\ 22 \in Byte
    <3>1. GetCS(u) \in Byte
      <4> DEFINE t == Total(u)
      <4>1. t \in Nat
        BY <1>1, BytesAreNat, TotalType
      <4>2. GetCS(u) = (t % 256)
        BY DEF GetCS
      <4> HIDE DEF t
      <4> QED
        BY <4>1, <4>2 DEF Byte
    <3> QED
      BY <1>1, <3>1 DEF Byte
  <2> QED
    BY <1>1, <2>1
<1>6. Serialize(p) = s
  BY DEF Serialize, User
<1> HIDE DEF h, u, e, f, L
<1>7. /\ s \in Seq(Byte) /\ Len(s) = Len(h) + Len(u) + Len(e)
      /\ \A i \in 1 .. Len(h) : s[i] = h[i]
      /\ \A i \in 1 .. Len(e) : s[Len(h) + Len(u) + i] = e[i]
      /\ SubSeq(s, Len(h) + 1, Len(h) + Len(u)) = u
  <2>1. h \in Seq(Byte) /\ u \in Seq(Byte) /\ e \in Seq(Byte)
    BY <1>1, <1>4, <1>5
  <2> QED
    BY <2>1, Parts
<1> HIDE DEF s
<1>8. Len(s) = L + 8 /\ L < BufSize
  <2>1. Len(s) = L + 8
    BY <1>1, <1>4, <1>5, <1>7
  <2> QED
    BY <1>1, <1>6, <2>1 DEF BufSize
<1>9. s[1] = 104 /\ s[6] = 104 /\ s[2] = Lo(f) /\ s[3] = Hi(f)
  BY <1>4, <1>7
<1>10. s[L + 7] = GetCS(u) /\ s[L + 8] = 22
  <2>1. /\ 1 \in 1 .. Len(e) /\ 2 \in 1 .. Len(e)
        /\ Len(h) + Len(u) + 1 = L + 7 /\ Len(h) + Len(u) + 2 = L + 8
    BY <1>1, <1>4, <1>5
  <2>2. s[Len(h) + Len(u) + 1] = e[1] /\ s[Len(h) + Len(u) + 2] = e[2]
    BY <1>7, <2>1
  <2> QED
    BY <1>5, <2>1, <2>2
<1>11. (Lo(f) + 256 * Hi(f)) \div 4 = L
  BY <1>1, <1>8, LengthKept DEF f
<1>12. LengthOf(s) = L
  BY <1>9, <1>11 DEF LengthOf
<1>13. SubSeq(s, 7, L + 6) = u
  <2>1. Len(h) + 1 = 7 /\ Len(h) + Len(u) = L + 6
    BY <1>1, <1>4
  <2> QED
    BY <1>7, <2>1
<1>14. Framed(s, u)
  BY <1>1, <1>7, <1>8, <1>9, <1>10, <1>12, <1>13 DEF Framed
<1> QED
  BY <1>6, <1>14 DEF u

(* ParseProto takes a frame apart.                                         *)
LEMMA FramesParse ==
  ASSUME NEW s, NEW u, Framed(s, u)
  PROVE  ParseProto(s) = Unpacked(s, u)
<1>1. Len(u) \in Nat /\ Len(u) >= 12 /\ Len(s) = Len(u) + 8 /\ LengthOf(s) = Len(u)
  BY LenProperties DEF Framed
<1>2. /\ ~(Len(s) < 2 * UserHead + TailLen \/ Len(s) < UserHead + Len(u) + TailLen)
      /\ UserHead + Len(u) = Len(u) + 6 /\ UserHead + 1 = 7
      /\ UserHead + Len(u) + 1 = Len(u) + 7 /\ UserHead + Len(u) + TailLen = Len(u) + 8
  BY <1>1 DEF UserHead, TailLen
<1>3. valid(s)
  BY <1>1, <1>2 DEF valid, Framed
<1>4. SubSeq(s, UserHead + 1, UserHead + LengthOf(s)) = u
  BY <1>1, <1>2 DEF Framed
<1>5. GetCS(u) = s[UserHead + LengthOf(s) + 1]
  BY <1>1, <1>2 DEF Framed
<1>6. ~(LengthOf(s) < UserHead + AfnHead + TagLen)
  BY <1>1 DEF UserHead, AfnHead, TagLen
<1> QED
  BY <1>1, <1>2, <1>3, <1>4, <1>5, <1>6 DEF ParseProto

(* Every field comes back out of the bytes it was written to.              *)
LEMMA FieldsBack ==
  ASSUME NEW p, WellFormed(p), NEW s
  PROVE  LET g == Unpacked(s, User(p))
         IN  /\ g.c = p.c /\ g.a1 = p.a1 /\ g.a2 = p.a2 /\ g.a3 = p.a3
             /\ g.afn = p.afn /\ g.seq = p.seq /\ g.data = p.data \o p.aux
             /\ g.pn = Getpn(p.tag) /\ g.Fn = GetFn(p.tag)
             /\ g.res = "ok" /\ g.eat = UserHead + LengthOf(s) + TailLen
<1> DEFINE h == UserBytes(p)
<1> DEFINE d == p.data \o p.aux
<1> DEFINE u == h \o d
<1>1. h \in Seq(Byte) /\ Len(h) = 12
  BY UserHeadBytes
<1>2. d \in Seq(Byte)
  BY ConcatProperties DEF WellFormed
<1>3. /\ h[1] = p.c /\ h[2] = Lo(p.a1) /\ h[3] = Hi(p.a1) /\ h[4] = Lo(p.a2)
      /\ h[5] = Hi(p.a2) /\ h[6] = p.a3 /\ h[7] = p.afn /\ h[8] = p.seq
      /\ h[9] = Value(p.tag.DA1) /\ h[10] = p.tag.DA2
      /\ h[11] = Value(p.tag.DT1) /\ h[12] = p.tag.DT2
  BY DEF UserBytes
<1>4. Lo(p.a1) + 256 * Hi(p.a1) = p.a1 /\ Lo(p.a2) + 256 * Hi(p.a2) = p.a2
  BY WordBytes DEF WellFormed
<1>5. User(p) = u
  BY DEF User
<1> HIDE DEF h, d
<1>6. (\A i \in 1 .. 12 : u[i] = h[i]) /\ SubSeq(u, 13, Len(u)) = d
  <2>1. (\A i \in 1 .. Len(h) : u[i] = h[i]) /\ SubSeq(u, Len(h) + 1, Len(u)) = d
    BY <1>1, <1>2, TailOf
  <2>2. Len(h) + 1 = 13
    BY <1>1
  <2> QED
    BY <1>1, <2>1, <2>2
<1> HIDE DEF u
<1>7. /\ u[1] = p.c /\ u[2] = Lo(p.a1) /\ u[3] = Hi(p.a1) /\ u[4] = Lo(p.a2)
      /\ u[5] = Hi(p.a2) /\ u[6] = p.a3 /\ u[7] = p.afn /\ u[8] = p.seq
      /\ u[9] = Value(p.tag.DA1) /\ u[10] = p.tag.DA2
      /\ u[11] = Value(p.tag.DT1) /\ u[12] = p.tag.DT2
  BY <1>3, <1>6
<1> DEFINE tag == [DA1 |-> Bits(u[9]), DA2 |-> u[10], DT1 |-> Bits(u[11]), DT2 |-> u[12]]
<1>8. Getpn(tag) = Getpn(p.tag) /\ GetFn(tag) = GetFn(p.tag)
  <2>1. Bits(u[9]) = p.tag.DA1 /\ Bits(u[11]) = p.tag.DT1
    BY <1>7, BitsBack DEF WellFormed
  <2>2. /\ tag.DA1 = p.tag.DA1 /\ tag.DA2 = p.tag.DA2
        /\ tag.DT1 = p.tag.DT1 /\ tag.DT2 = p.tag.DT2
    BY <1>7, <2>1
  <2> HIDE DEF tag
  <2> QED
    BY <2>2 DEF Getpn, GetFn
<1> QED
  BY <1>4, <1>5, <1>6, <1>7, <1>8 DEF Unpacked, d

(* Two totals that differ in one byte differ in their sum.                 *)
LEMMA OtherModulo ==
  ASSUME NEW x \in Nat, NEW y \in Nat, NEW a \in Byte, NEW b \in Byte,
         a # b, y = x - a + b
  PROVE  (x % 256) # (y % 256)
  BY DEF Byte

(* One byte of a frame changed, other than a length byte, is found: by the *)
(* start, the end or the sum.                                              *)
LEMMA DamageFound ==
  ASSUME NEW s, NEW u, Framed(s, u),
         NEW i \in (1 .. Len(s)) \ (2 .. 5), NEW b \in Byte, b # s[i]
  PROVE  ParseProto([s EXCEPT ![i] = b]).res # "ok"
<1> DEFINE L == Len(u)
<1> DEFINE t == [s EXCEPT ![i] = b]
<1>1. /\ L \in Nat /\ L >= 12 /\ s \in Seq(Byte) /\ u \in Seq(Byte) /\ Len(s) = L + 8
      /\ LengthOf(s) = L /\ i \in 1 .. L + 8 /\ i \notin 2 .. 5
  BY LenProperties DEF Framed
<1>2. t \in Seq(Byte) /\ Len(t) = L + 8 /\ \A j \in 1 .. L + 8 : t[j] = IF j = i THEN b ELSE s[j]
  BY <1>1, ExceptSeq
<1> HIDE DEF t, L
<1>3. LengthOf(t) = L
  <2>1. t[2] = s[2] /\ t[3] = s[3]
    BY <1>1, <1>2
  <2> QED
    BY <1>1, <2>1 DEF LengthOf
<1> DEFINE v == SubSeq(t, 7, L + 6)
<1>4. \/ ParseProto(t).res \in {"half", "tag", "sum", "crash"}
      \/ valid(t) /\ GetCS(v) = t[L + 7]
  <2>1. UserHead + 1 = 7 /\ UserHead + L = L + 6 /\ UserHead + L + 1 = L + 7
    BY <1>1 DEF UserHead
  <2> HIDE DEF v
  <2> QED
    BY <1>3, <2>1 DEF ParseProto, v
<1>5. CASE i = 1 \/ i = 6 \/ i = L + 8
  <2>1. UserHead + LengthOf(t) + TailLen = L + 8
    BY <1>1, <1>3 DEF UserHead, TailLen
  <2>2. s[1] = 104 /\ s[6] = 104 /\ s[L + 8] = 22
    BY DEF Framed, L
  <2>3. ~valid(t)
    BY <1>1, <1>2, <1>5, <2>1, <2>2 DEF valid
  <2> QED
    BY <1>4, <2>3 DEF t
<1>6. CASE i = L + 7
  <2>1. s[L + 7] = GetCS(u) /\ SubSeq(s, 7, L + 6) = u
    BY DEF Framed, L
  <2>2. v = u
    <3>1. \A j \in 7 .. L + 6 : t[j] = s[j]
      BY <1>1, <1>2, <1>6
    <3> QED
      BY <1>1, <1>2, <2>1, <3>1
  <2>3. t[L + 7] = b /\ b # GetCS(u)
    BY <1>1, <1>2, <1>6, <2>1
  <2> QED
    BY <1>4, <2>2, <2>3 DEF t
<1>7. CASE i \in 7 .. L + 6
  <2> DEFINE k == i - 6
  <2>1. k \in 1 .. L /\ k + 6 = i
    BY <1>1, <1>7
  <2>2. s[L + 7] = GetCS(u) /\ SubSeq(s, 7, L + 6) = u
    BY DEF Framed, L
  <2> DEFINE x == [u EXCEPT ![k] = b]
  <2>3. x \in Seq(Byte) /\ Len(x) = L /\ \A j \in 1 .. L : x[j] = IF j = k THEN b ELSE u[j]
    BY <1>1, <2>1, ExceptSeq DEF L
  <2>4. \A j \in 1 .. L : u[j] = s[j + 6]
    BY <1>1, <2>2
  <2>5. v = x
    <3>1. v \in Seq(Byte) /\ Len(v) = L /\ \A j \in 1 .. L : v[j] = t[j + 6]
      <4>1. \A j \in 7 .. L + 6 : t[j] \in Byte
        BY <1>1, <1>2, ElementOfSeq
      <4>2. v \in Seq(Byte)
        BY <1>1, <4>1, SubSeqProperties
      <4>3. Len(v) = L /\ \A j \in 1 .. L : v[j] = t[j + 6]
        BY <1>1, <1>2
      <4> QED
        BY <4>2, <4>3
    <3>2. ASSUME NEW j \in 1 .. L PROVE v[j] = x[j]
      <4>1. j + 6 \in 1 .. L + 8 /\ (j = k <=> j + 6 = i)
        BY <1>1, <2>1
      <4>2. v[j] = t[j + 6] /\ x[j] = (IF j = k THEN b ELSE u[j]) /\ u[j] = s[j + 6]
        BY <2>3, <2>4, <3>1
      <4>3. t[j + 6] = IF j + 6 = i THEN b ELSE s[j + 6]
        BY <1>2, <4>1
      <4> QED
        BY <4>1, <4>2, <4>3
    <3> HIDE DEF v, x
    <3> QED
      BY <2>3, <3>1, <3>2, SeqEqual
  <2>6. u[k] = s[i] /\ u[k] \in Byte /\ u[k] # b
    <3>1. u[k] = s[i]
      BY <2>1, <2>4
    <3>2. u[k] \in Byte
      BY <1>1, <2>1, ElementOfSeq DEF L
    <3> QED
      BY <3>1, <3>2
  <2>7. Total(x) = Total(u) - u[k] + b /\ Total(x) \in Nat /\ Total(u) \in Nat
    <3>1. u \in Seq(Nat) /\ x \in Seq(Nat) /\ b \in Nat
      BY <1>1, <2>3, BytesAreNat DEF Byte
    <3>2. k \in 1 .. Len(u)
      BY <2>1 DEF L
    <3> HIDE DEF k
    <3>3. Total(x) = Total(u) - u[k] + b
      BY <3>1, <3>2, TotalChanged
    <3>4. Total(x) \in Nat /\ Total(u) \in Nat
      BY <3>1, TotalType
    <3> QED
      BY <3>3, <3>4
  <2> HIDE DEF x, k
  <2>8. GetCS(x) # GetCS(u)
    <3>1. (Total(u) % 256) # (Total(x) % 256)
      BY <2>6, <2>7, OtherModulo
    <3> QED
      BY <3>1 DEF GetCS
  <2>9. t[L + 7] = GetCS(u)
    BY <1>1, <1>2, <1>7, <2>2
  <2> QED
    BY <1>4, <2>5, <2>8, <2>9 DEF t
<1>8. i = 1 \/ i = 6 \/ i = L + 8 \/ i = L + 7 \/ i \in 7 .. L + 6
  BY <1>1
<1> QED
  BY <1>5, <1>6, <1>7, <1>8

(* Nothing adds up to nothing.                                             *)
LEMMA TotalEmpty == <<>> \in Seq(Byte) /\ Total(<<>>) = 0
<1>1. <<>> \in Seq(Nat) /\ <<>> \in Seq(Byte) /\ Len(<<>>) = 0
  OBVIOUS
<1>2. PICK f \in [0 .. 0 -> Nat] : Sums(f, <<>>, 0) /\ Total(<<>>) = f[0]
  BY <1>1, TotalIs
<1> QED
  BY <1>1, <1>2 DEF Sums

(* An identifier is two sets of bits and two bytes, also where no point    *)
(* matches and the memory of the new m_Tag stays (GetDA, GetDT).           *)
TagForm(tag) ==
  /\ tag.DA1 \subseteq Bit /\ tag.DA2 \in Byte
  /\ tag.DT1 \subseteq Bit /\ tag.DT2 \in Byte

LEMMA TagGroups ==
  ASSUME NEW pn \in Nat, NEW Fn \in Type, NEW memory,
         memory.DA1 \subseteq Bit, memory.DA2 \in Byte
  PROVE  TagForm(Tag(pn, Fn, memory))
<1> DEFINE da == GetDA(pn, memory)
<1> DEFINE dt == GetDT(Fn, [DT1 |-> {}, DT2 |-> 0])
<1>1. da.DA1 \subseteq Bit /\ da.DA2 \in Byte
  <2>1. CASE pn \in Measuring
    <3>1. da = [DA1 |-> {(pn - 1) % 8}, DA2 |-> ((pn - 1) \div 8) + 1]
      BY <2>1 DEF GetDA, Measuring
    <3>2. ((pn - 1) \div 8) + 1 \in 0 .. 255 /\ (pn - 1) % 8 \in 0 .. 7
      BY <2>1 DEF Measuring
    <3> QED
      BY <3>1, <3>2 DEF Byte, Bit
  <2>2. CASE pn \notin Measuring
    BY <2>2 DEF GetDA, Byte, Bit
  <2> QED
    BY <2>1, <2>2
<1>2. dt.DT1 \subseteq Bit /\ dt.DT2 \in Byte
  <2>1. dt.DT2 = (Fn - 1) \div 8 /\ dt.DT1 = {(Fn - 1) % 8}
    BY DEF GetDT
  <2>2. (Fn - 1) \div 8 \in 0 .. 255 /\ (Fn - 1) % 8 \in 0 .. 7
    BY DEF Type
  <2> QED
    BY <2>1, <2>2 DEF Byte, Bit
<1> DEFINE tag == Tag(pn, Fn, memory)
<1>3. tag.DA1 = da.DA1 /\ tag.DA2 = da.DA2 /\ tag.DT1 = dt.DT1 /\ tag.DT2 = dt.DT2
  BY DEF Tag
<1> HIDE DEF tag, da, dt
<1>4. TagForm(tag)
  BY <1>1, <1>2, <1>3 DEF TagForm
<1> QED
  BY <1>4 DEF tag

(* The address and sequence values of a package.                           *)
LEMMA Numbers ==
  /\ \A a \in Address : a \in Nat /\ a < Word
  /\ \A n \in Seq16 : SeqByte(1, n) \in Byte /\ SeqByte(0, n) \in Byte
  /\ \A pn \in Points : pn \in Nat
  /\ \A m \in Memory : m.DA1 \subseteq Bit /\ m.DA2 \in Byte
<1>1. Word \in Nat
  BY DEF Word
<1>2. /\ \A a \in Address : a \in 0 .. Word - 1
      /\ \A n \in Seq16 : n \in 0 .. 15
      /\ \A pn \in Points : pn \in 0 .. Word - 1
      /\ \A m \in Memory : m \in [DA1 : SUBSET Bit, DA2 : Byte]
  BY ValueAssumption
<1>3. ASSUME NEW n \in Seq16 PROVE SeqByte(1, n) \in Byte /\ SeqByte(0, n) \in Byte
  <2>1. n \in 0 .. 15
    BY <1>2
  <2> QED
    BY <2>1 DEF SeqByte, Byte
<1> QED
  BY <1>1, <1>2, <1>3

(* A request is well formed (AFN0C::Create, REQUEST_DATA).                 *)
LEMMA RequestForm ==
  ASSUME NEW kind, NEW pn \in Nat, NEW Fn \in Type, NEW fun \in {10, 11},
         NEW data \in Seq(Byte), NEW a1 \in Address, NEW a2 \in Address,
         NEW n \in Seq16, Request(kind, pn, Fn, fun, data, a1, a2, n)
  PROVE  WellFormed(pkg')
<1>1. PICK memory \in Memory :
        pkg' = [kind |-> kind, pn |-> pn, Fn |-> Fn,
                c |-> Control(1, fun), a1 |-> a1, a2 |-> a2, a3 |-> A3,
                afn |-> 12, seq |-> SeqByte(1, n), tag |-> Tag(pn, Fn, memory),
                data |-> data, aux |-> Zeros(16)]
  BY DEF Request
<1>2. Control(1, fun) \in Byte /\ A3 \in Byte /\ 12 \in Byte
  BY DEF Control, A3, Byte
<1>3. Zeros(16) \in Seq(Byte) /\ Total(Zeros(16)) = 0
  <2>1. Zeros(16) \in Seq(Byte)
    BY DEF Zeros, Byte
  <2> QED
    BY <2>1, TotalZeros
<1>4. TagForm(Tag(pn, Fn, memory))
  BY Numbers, TagGroups
<1> QED
  BY <1>1, <1>2, <1>3, <1>4, Numbers DEF WellFormed, TagForm

(* So is a response (CreateAck).                                           *)
LEMMA AckForm ==
  ASSUME NEW Fn \in Type, NEW data \in Seq(Byte), NEW a1 \in Address,
         NEW a2 \in Address, NEW n \in Seq16, Ack(Fn, data, a1, a2, n)
  PROVE  WellFormed(pkg')
<1> DEFINE memory == [DA1 |-> {}, DA2 |-> 0]
<1>1. pkg' = [kind |-> "ack", pn |-> 0, Fn |-> Fn,
              c |-> Control(0, 11), a1 |-> a1, a2 |-> a2, a3 |-> A3,
              afn |-> 0, seq |-> SeqByte(0, n),
              tag |-> Tag(0, Fn, memory), data |-> data, aux |-> <<>>]
  BY DEF Ack
<1>2. Control(0, 11) \in Byte /\ A3 \in Byte /\ 0 \in Byte
  BY DEF Control, A3, Byte
<1>3. memory.DA1 \subseteq Bit /\ memory.DA2 \in Byte
  BY DEF Byte
<1> HIDE DEF memory
<1>4. TagForm(Tag(0, Fn, memory))
  BY <1>3, TagGroups
<1> QED
  BY <1>1, <1>2, <1>4, Numbers, TotalEmpty DEF WellFormed, TagForm

(* The data of an answer to a link frame are bytes.                        *)
LEMMA LinkAckBytes ==
  ASSUME NEW Fn \in Type
  PROVE  LinkAck(Fn) \in Seq(Byte)
<1> DEFINE memory == [DA1 |-> {}, DA2 |-> 0]
<1> DEFINE tag == Tag(0, Fn, memory)
<1>1. memory.DA1 \subseteq Bit /\ memory.DA2 \in Byte /\ 0 \in Byte /\ 2 \in Byte
  BY DEF Byte
<1>2. LinkAck(Fn) = (<<2>> \o TagBytes(tag)) \o <<0>>
  BY DEF LinkAck
<1> HIDE DEF memory
<1>3. tag.DA2 \in Byte /\ tag.DT2 \in Byte
  BY <1>1, TagGroups DEF TagForm
<1> HIDE DEF tag
<1>4. Value(tag.DA1) \in Byte /\ Value(tag.DT1) \in Byte
  BY ValueByte
<1> DEFINE t == TagBytes(tag)
<1>5. t \in Seq(Byte) /\ <<2>> \in Seq(Byte) /\ <<0>> \in Seq(Byte)
  BY <1>1, <1>3, <1>4 DEF TagBytes
<1> HIDE DEF t
<1>6. <<2>> \o t \in Seq(Byte)
  BY <1>5, ConcatProperties
<1>7. (<<2>> \o t) \o <<0>> \in Seq(Byte)
  BY <1>5, <1>6, ConcatProperties
<1> QED
  BY <1>2, <1>7 DEF t

(* Every package the program builds is well formed.                        *)
LEMMA BuildForm == Build => WellFormed(pkg')
<1> SUFFICES ASSUME Build PROVE WellFormed(pkg')
  OBVIOUS
<1>1. PICK a1 \in Address, a2 \in Address, n \in Seq16 :
        \/ \E pn \in Points, Fn \in Types : Request("AFN0C", pn, Fn, 10, <<>>, a1, a2, n)
        \/ \E pn \in Points : Request("AFN04", pn, 25, 11, <<>>, a1, a2, n)
        \/ Request("AFN04", 0, 150, 10, Zeros(StatusLen), a1, a2, n)
        \/ \E Fn \in 1 .. 3 : Ack(3, LinkAck(Fn), a1, a2, n)
        \/ Ack(1, <<>>, a1, a2, n)
  BY DEF Build
<1>2. 25 \in Type /\ 150 \in Type /\ 3 \in Type /\ 1 \in Type /\ 1 .. 3 \subseteq Type
  BY DEF Type
<1>3. \A Fn \in Types : Fn \in Type
  BY ValueAssumption
<1>4. <<>> \in Seq(Byte) /\ Zeros(StatusLen) \in Seq(Byte)
  <2>1. StatusLen \in Nat
    BY ValueAssumption
  <2>2. 0 \in Byte
    BY DEF Byte
  <2> QED
    BY <2>1, <2>2 DEF Zeros
<1>5. ASSUME NEW pn \in Points, NEW Fn \in Types, Request("AFN0C", pn, Fn, 10, <<>>, a1, a2, n)
      PROVE  WellFormed(pkg')
  <2>1. pn \in Nat /\ Fn \in Type /\ 10 \in {10, 11}
    BY <1>3, Numbers
  <2> QED
    BY <1>4, <1>5, <2>1, RequestForm
<1>6. ASSUME NEW pn \in Points, Request("AFN04", pn, 25, 11, <<>>, a1, a2, n)
      PROVE  WellFormed(pkg')
  <2>1. pn \in Nat /\ 11 \in {10, 11}
    BY Numbers
  <2> QED
    BY <1>2, <1>4, <1>6, <2>1, RequestForm
<1>7. CASE Request("AFN04", 0, 150, 10, Zeros(StatusLen), a1, a2, n)
  <2>1. 0 \in Nat /\ 10 \in {10, 11}
    OBVIOUS
  <2> QED
    BY <1>2, <1>4, <1>7, <2>1, RequestForm
<1>8. ASSUME NEW Fn \in 1 .. 3, Ack(3, LinkAck(Fn), a1, a2, n)
      PROVE  WellFormed(pkg')
  <2>1. LinkAck(Fn) \in Seq(Byte)
    BY <1>2, LinkAckBytes
  <2> QED
    BY <1>2, <1>8, <2>1, AckForm
<1>9. CASE Ack(1, <<>>, a1, a2, n)
  BY <1>2, <1>4, <1>9, AckForm
<1> QED
  BY <1>1, <1>5, <1>6, <1>7, <1>8, <1>9

-----------------------------------------------------------------------------
(* What is on the wire is what was sent, but for one byte.                 *)
Sent == pkg # None /\ WellFormed(pkg) /\ Len(Serialize(pkg)) < BufSize
DamagedAt(i, b) ==
  LET s == Serialize(pkg) IN b # s[i] /\ wire = [s EXCEPT ![i] = b]

PackageInv ==
  /\ pkg # None => WellFormed(pkg)
  /\ wire # <<>> => Sent
  /\ wire # <<>> /\ ~damaged => wire = Serialize(pkg)
  /\ damaged =>
       \E i \in (1 .. Len(Serialize(pkg))) \ (2 .. 5), b \in Byte : DamagedAt(i, b)
  /\ damaged \/ got # Unread => wire # <<>>
  /\ got # Unread => got = ParseProto(wire)

(* The invariant says what both properties ask for.                        *)
LEMMA InvParses == PackageInv => PackagesParse
<1> SUFFICES ASSUME PackageInv, got # Unread, ~damaged
             PROVE  /\ wire \in Seq(Byte) /\ Len(wire) < BufSize
                    /\ got.res = "ok" /\ got.eat = Len(wire)
                    /\ \A f \in {"c", "a1", "a2", "a3", "afn", "seq"} : got[f] = pkg[f]
                    /\ got.pn = Getpn(pkg.tag) /\ got.Fn = GetFn(pkg.tag)
                    /\ got.data = pkg.data \o pkg.aux
  BY DEF PackagesParse
<1> DEFINE u == User(pkg)
<1>1. Sent /\ wire = Serialize(pkg) /\ got = ParseProto(wire)
  BY DEF PackageInv
<1>2. Framed(wire, u)
  BY <1>1, SerializeFrames DEF Sent
<1>3. got = Unpacked(wire, u)
  BY <1>1, <1>2, FramesParse
<1>4. wire \in Seq(Byte) /\ Len(wire) < BufSize
  BY <1>1, <1>2 DEF Framed, Sent
<1>5. got.eat = Len(wire)
  <2>1. got.eat = 6 + Len(u) + 2
    BY <1>2, <1>3 DEF Framed, Unpacked, UserHead, TailLen
  <2>2. Len(u) \in Nat /\ Len(wire) = Len(u) + 8
    BY <1>2, LenProperties DEF Framed
  <2> QED
    BY <2>1, <2>2
<1>6. got.res = "ok"
  BY <1>3 DEF Unpacked
<1>7. /\ got.c = pkg.c /\ got.a1 = pkg.a1 /\ got.a2 = pkg.a2 /\ got.a3 = pkg.a3
      /\ got.afn = pkg.afn /\ got.seq = pkg.seq /\ got.data = pkg.data \o pkg.aux
      /\ got.pn = Getpn(pkg.tag) /\ got.Fn = GetFn(pkg.tag)
  <2>1. WellFormed(pkg)
    BY <1>1 DEF Sent
  <2> QED
    BY <1>3, <2>1, FieldsBack
<1> QED
  BY <1>4, <1>5, <1>6, <1>7

(* A damaged package has a damaged frame.                                  *)
LEMMA InvDetects == PackageInv => DamageDetected
<1> SUFFICES ASSUME PackageInv, damaged PROVE got.res # "ok"
  BY DEF DamageDetected
<1>1. CASE got = Unread
  BY <1>1 DEF Unread
<1>2. CASE got # Unread
  <2>1. Sent /\ got = ParseProto(wire)
    BY <1>2 DEF PackageInv
  <2> DEFINE s == Serialize(pkg)
  <2> DEFINE u == User(pkg)
  <2>2. Framed(s, u)
    BY <2>1, SerializeFrames DEF Sent
  <2>3. PICK i \in (1 .. Len(s)) \ (2 .. 5), b \in Byte : b # s[i] /\ wire = [s EXCEPT ![i] = b]
    BY DEF PackageInv, DamagedAt
  <2> HIDE DEF s, u
  <2>4. ParseProto([s EXCEPT ![i] = b]).res # "ok"
    BY <2>2, <2>3, DamageFound
  <2> QED
    BY <2>1, <2>3, <2>4
<1> QED
  BY <1>1, <1>2

(* No package, nothing on the wire.                                        *)
LEMMA InitPackage == Init => PackageInv
  BY DEF Init, PackageInv

(* A new package, before anything is sent.                                 *)
LEMMA BuiltKeeps ==
  ASSUME PackageInv, pkg = None, WellFormed(pkg'), UNCHANGED <<wire, damaged, got>>
  PROVE  PackageInv'
<1>1. wire = <<>> /\ ~damaged /\ got = Unread
  BY DEF PackageInv, Sent
<1> QED
  BY <1>1 DEF PackageInv

(* Serialize writes what the length of the buffer allows.                  *)
LEMMA SendKeeps == ASSUME PackageInv, SendPkg PROVE PackageInv'
<1>1. /\ pkg # None /\ wire = <<>> /\ pkg' = pkg /\ damaged' = damaged /\ got' = got
      /\ Len(Serialize(pkg)) < BufSize /\ wire' = Serialize(pkg)
  <2>1. Len(Serialize(pkg)) \in 1 .. BufSize - 1
    BY DEF SendPkg
  <2>2. Len(Serialize(pkg)) < BufSize
    <3> DEFINE n == Len(Serialize(pkg))
    <3>1. n \in 1 .. BufSize - 1
      BY <2>1
    <3>2. BufSize \in Nat
      BY DEF BufSize
    <3> HIDE DEF n
    <3>3. n < BufSize
      BY <3>1, <3>2
    <3> QED
      BY <3>3 DEF n
  <2> QED
    BY <2>2 DEF SendPkg
<1>2. WellFormed(pkg) /\ ~damaged /\ got = Unread
  BY <1>1 DEF PackageInv
<1>3. Sent'
  BY <1>1, <1>2 DEF Sent
<1> QED
  BY <1>1, <1>2, <1>3 DEF PackageInv

(* One byte changes, in a place the length does not depend on.             *)
LEMMA DamageKeeps == ASSUME PackageInv, Damage PROVE PackageInv'
<1> DEFINE s == Serialize(pkg)
<1>1. /\ wire # <<>> /\ ~damaged /\ got = Unread /\ damaged' = TRUE
      /\ pkg' = pkg /\ got' = got
  BY DEF Damage
<1>2. Sent /\ wire = s
  BY <1>1 DEF PackageInv
<1>3. PICK i \in DOMAIN wire \ (2 .. 5), b \in Damages :
        b # wire[i] /\ wire' = [wire EXCEPT ![i] = b]
  BY DEF Damage
<1>4. s \in Seq(Byte)
  BY <1>2, SerializeFrames DEF Sent, Framed
<1> HIDE DEF s
<1>5. b \in Byte /\ i \in (1 .. Len(s)) \ (2 .. 5)
  <2>1. DOMAIN s = 1 .. Len(s)
    BY <1>4, LenProperties
  <2> QED
    BY <1>2, <1>3, <2>1, ValueAssumption
<1>6. wire' # <<>>
  <2>1. wire' \in Seq(Byte) /\ Len(wire') = Len(s)
    BY <1>2, <1>3, <1>4, <1>5, ExceptSeq
  <2>2. Len(s) # 0
    BY <1>5
  <2> QED
    BY <2>1, <2>2
<1>7. s' = s
  BY <1>1 DEF s
<1>8. Sent'
  BY <1>1, <1>2 DEF Sent
<1>9. DamagedAt(i, b)'
  <2>1. b # s[i] /\ wire' = [s EXCEPT ![i] = b]
    BY <1>2, <1>3
  <2> QED
    BY <1>1, <2>1 DEF DamagedAt, s
<1>10. \E j \in (1 .. Len(Serialize(pkg))) \ (2 .. 5), a \in Byte : DamagedAt(j, a)'
  BY <1>5, <1>9 DEF s
<1>11. pkg' # None => WellFormed(pkg')
  BY <1>1 DEF PackageInv
<1> QED
  BY <1>1, <1>6, <1>8, <1>10, <1>11 DEF PackageInv

(* ParseProto reads the wire, damaged or not.                              *)
LEMMA ReceiveKeeps == ASSUME PackageInv, Receive PROVE PackageInv'
<1>1. wire # <<>> /\ got' = ParseProto(wire) /\ UNCHANGED <<pkg, wire, damaged>>
  BY DEF Receive
<1> QED
  BY <1>1 DEF PackageInv, Sent, DamagedAt

(* Sender and receiver are done.                                           *)
LEMMA ForgetKeeps == ASSUME Forget PROVE PackageInv'
  BY DEF Forget, PackageInv

(* Nothing happens.                                                        *)
LEMMA StutterKeeps == ASSUME PackageInv, UNCHANGED vars PROVE PackageInv'
  BY DEF vars, PackageInv, Sent, DamagedAt

(* Every step keeps the invariant.                                         *)
LEMMA NextPackage == PackageInv /\ [Next]_vars => PackageInv'
<1> SUFFICES ASSUME PackageInv, [Next]_vars PROVE PackageInv'
  OBVIOUS
<1>1. CASE Build
  BY <1>1, BuildForm, BuiltKeeps DEF Build
<1> QED
  BY <1>1, SendKeeps, DamageKeeps, ReceiveKeeps, ForgetKeeps, StutterKeeps DEF Next

(* What Serialize writes, ParseProto takes apart into the same fields, the *)
(* same identifier and the same data, for every package the program can    *)
(* build: every address, type, point, sequence number and content.         *)
THEOREM FieldsSurvive == Spec => []PackagesParse
  BY InitPackage, NextPackage, InvParses, PTL DEF Spec

(* One byte changed, wherever it is outside the two length fields and      *)
(* whatever it becomes, is never accepted: the sum of bytes is taken       *)
(* modulo 256, and one byte cannot change it by a multiple of 256 (GetCS). *)
THEOREM DamageShows == Spec => []DamageDetected
  BY InitPackage, NextPackage, InvDetects, PTL DEF Spec

-----------------------------------------------------------------------------
(* The only bit of a byte is its lowest.                                   *)
LEMMA OnlyBit == ASSUME NEW k \in Int PROVE Lowest({k}) = k
<1>1. \A n \in {k} : \A j \in {k} : n <= j
  OBVIOUS
<1> QED
  BY <1>1 DEF Lowest

(* A point as its group of eight and its place in it (GetDA).               *)
Group(n) == (n - 1) \div 8
Rest(n) == (n - 1) % 8

(* Group and bit of a number give the number back.                         *)
LEMMA Grouped ==
  ASSUME NEW n \in Measuring
  PROVE  /\ Group(n) \in 0 .. 254 /\ (n <= 248 => Group(n) <= 30)
         /\ Member(Group(n), {Rest(n)}) = n
<1>1. /\ n \in Int /\ Group(n) \in Int /\ Rest(n) \in 0 .. 7
      /\ n - 1 = 8 * Group(n) + Rest(n)
  BY DEF Group, Rest, Measuring
<1>2. Group(n) \in 0 .. 254 /\ (n <= 248 => Group(n) <= 30)
  BY DEF Group, Measuring
<1>3. Member(Group(n), {Rest(n)}) = (8 * Group(n) + (Rest(n) + 1)) % Word
  BY <1>1, OnlyBit DEF Member
<1>4. 8 * Group(n) + (Rest(n) + 1) = n
  BY <1>1
<1>5. n % Word = n
  BY DEF Word, Measuring
<1> QED
  BY <1>2, <1>3, <1>4, <1>5

(* Every point has an identifier that names it (GetDA, Getpn).             *)
THEOREM PointRoundTrip ==
  ASSUME NEW pn \in Point, NEW da
  PROVE  Getpn(GetDA(pn, da)) = pn
<1> Bit # {}
  BY DEF Bit
<1>1. CASE pn = 0
  <2>1. GetDA(pn, da) = [DA1 |-> {}, DA2 |-> 0]
    BY <1>1 DEF GetDA, Measuring
  <2> QED
    BY <1>1, <2>1 DEF Getpn
<1>2. CASE pn = 2041
  <2>1. GetDA(pn, da) = [DA1 |-> Bit, DA2 |-> 0]
    BY <1>2 DEF GetDA, Measuring
  <2> QED
    BY <1>2, <2>1 DEF Getpn
<1>3. CASE pn \in Measuring
  <2>1. Group(pn) \in 0 .. 254 /\ Member(Group(pn), {Rest(pn)}) = pn
    BY <1>3, Grouped
  <2>2. GetDA(pn, da) = [DA1 |-> {Rest(pn)}, DA2 |-> Group(pn) + 1]
    BY <1>3 DEF GetDA, Group, Rest, Measuring
  <2>3. Group(pn) + 1 # 0 /\ (Group(pn) + 1) - 1 = Group(pn)
    BY <2>1
  <2> QED
    BY <2>1, <2>2, <2>3 DEF Getpn
<1> QED
  BY <1>1, <1>2, <1>3 DEF Point

(* Every type has an identifier that names it (GetDT, GetFn).              *)
THEOREM TypeRoundTrip ==
  ASSUME NEW Fn \in Type, NEW dt
  PROVE  GetFn(GetDT(Fn, dt)) = Fn
<1>1. Fn \in Measuring /\ Fn <= 248
  BY DEF Type, Measuring
<1>2. Group(Fn) <= 30 /\ Member(Group(Fn), {Rest(Fn)}) = Fn
  BY <1>1, Grouped
<1>3. GetDT(Fn, dt) = [DT1 |-> {Rest(Fn)}, DT2 |-> Group(Fn)]
  BY DEF GetDT, Group, Rest
<1> QED
  BY <1>2, <1>3 DEF GetFn

(* The identifier of a package names its point and its type.               *)
LEMMA TagNames ==
  ASSUME NEW pn, NEW Fn \in Type, NEW memory
  PROVE  /\ pn \in Point => Getpn(Tag(pn, Fn, memory)) = pn
         /\ GetFn(Tag(pn, Fn, memory)) = Fn
<1> DEFINE da == GetDA(pn, memory)
<1> DEFINE dt == GetDT(Fn, [DT1 |-> {}, DT2 |-> 0])
<1> DEFINE tag == Tag(pn, Fn, memory)
<1>1. tag.DA1 = da.DA1 /\ tag.DA2 = da.DA2 /\ tag.DT1 = dt.DT1 /\ tag.DT2 = dt.DT2
  BY DEF Tag
<1>2. pn \in Point => Getpn(da) = pn
  BY PointRoundTrip
<1>3. GetFn(dt) = Fn
  BY TypeRoundTrip
<1> HIDE DEF da, dt, tag
<1>4. Getpn(tag) = Getpn(da)
  BY <1>1 DEF Getpn
<1>5. GetFn(tag) = GetFn(dt)
  BY <1>1 DEF GetFn
<1> QED
  BY <1>2, <1>3, <1>4, <1>5 DEF tag

(* The identifier of p names the point and type p was built for.           *)
Named(p) == p.pn \in Point => Getpn(p.tag) = p.pn /\ GetFn(p.tag) = p.Fn

(* A request names the point and type it was built for.                    *)
LEMMA RequestNames ==
  ASSUME NEW kind, NEW pn, NEW Fn \in Type, NEW fun, NEW data,
         NEW a1, NEW a2, NEW n, Request(kind, pn, Fn, fun, data, a1, a2, n)
  PROVE  Named(pkg')
<1>1. PICK memory \in Memory :
        /\ pkg'.pn = pn /\ pkg'.Fn = Fn /\ pkg'.tag = Tag(pn, Fn, memory)
  BY DEF Request
<1> QED
  BY <1>1, TagNames DEF Named

(* So does a response.                                                     *)
LEMMA AckNames ==
  ASSUME NEW Fn \in Type, NEW data, NEW a1, NEW a2, NEW n, Ack(Fn, data, a1, a2, n)
  PROVE  Named(pkg')
<1>1. /\ pkg'.pn = 0 /\ pkg'.Fn = Fn
      /\ pkg'.tag = Tag(0, Fn, [DA1 |-> {}, DA2 |-> 0])
  BY DEF Ack
<1> QED
  BY <1>1, TagNames DEF Named

(* Every step keeps the package named.                                     *)
LEMMA NextNames == TagNamesPoint /\ [Next]_vars => TagNamesPoint'
<1> SUFFICES ASSUME TagNamesPoint, [Next]_vars
             PROVE  TagNamesPoint'
  OBVIOUS
<1>1. CASE Build
  <2>1. 25 \in Type /\ 150 \in Type /\ 3 \in Type /\ 1 \in Type /\ Types \subseteq Type
    BY ValueAssumption DEF Type
  <2>2. Named(pkg')
    BY <1>1, <2>1, RequestNames, AckNames DEF Build
  <2> QED
    BY <2>2 DEF Named, TagNamesPoint
<1>2. CASE SendPkg \/ Damage \/ Receive \/ UNCHANGED vars
  BY <1>2 DEF SendPkg, Damage, Receive, vars, TagNamesPoint
<1>3. CASE Forget
  BY <1>3 DEF Forget, TagNamesPoint
<1> QED
  BY <1>1, <1>2, <1>3 DEF Next

(* Whatever the memory of a new identifier holds, a package for a point    *)
(* that has an identifier names that point and its type, so that its       *)
(* answer finds the call (AFN0C::Create, REQUEST_DATA, CreateAck).         *)
THEOREM TagsNamePoints == Spec => []TagNamesPoint
<1>1. Init => TagNamesPoint
  BY DEF Init, TagNamesPoint
<1> QED
  BY <1>1, NextNames, PTL DEF Spec
=============================================================================
