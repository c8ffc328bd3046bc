--------------------------- MODULE JzqListProofs ---------------------------
(***************************************************************************)
(* Theorems about JzqList, and about the frame numbers of JzqTraffic, for  *)
(* every value of the constants.                                           *)
(***************************************************************************)
EXTENDS JzqTraffic, TLAPS, SequenceTheorems, WellFoundedInduction

(* A non-empty set of positions has a least element, so a look-up that     *)
(* stops at the first match finds one (JzqList::getJzq).                   *)
LEMMA LeastPosition ==
  ASSUME NEW T, T \subseteq Nat, T # {}
  PROVE  \E x \in T : \A y \in T : x <= y
<1>1. PICK x \in T : \A y \in T : ~(<<y, x>> \in OpToRel(<, Nat))
  BY NatLessThanWellFounded, WFMin, Zenon
<1>2. \A y \in T : ~(y < x)
  BY <1>1 DEF OpToRel
<1>3. QED  BY <1>2

(* A function on 1 .. n is a sequence of length n.                         *)
LEMMA FunctionIsSeq ==
  ASSUME NEW S, NEW n \in Nat, NEW f \in [1 .. n -> S]
  PROVE  f \in Seq(S) /\ Len(f) = n /\ DOMAIN f = 1 .. n
<1>1. f \in Seq(S)  BY SeqDef
<1>2. QED  BY <1>1, LenProperties

(* A sequence is a function on 1 .. Len.                                   *)
LEMMA SeqIsFunction ==
  ASSUME NEW S, NEW s \in Seq(S)
  PROVE  Len(s) \in Nat /\ DOMAIN s = 1 .. Len(s) /\ s \in [1 .. Len(s) -> S]
BY LenProperties

(* getJzq returns the first entry of the address.                          *)
LEMMA GetJzqFirst ==
  ASSUME NEW js \in Seq(Jzq), NEW a, Known(js, a)
  PROVE  /\ getJzq(js, a) \in Entries(js, a)
         /\ getJzq(js, a) \in 1 .. Len(js)
         /\ js[getJzq(js, a)].a = a
         /\ \A j \in Entries(js, a) : getJzq(js, a) <= j
<1>1. Entries(js, a) \subseteq Nat
  BY SeqIsFunction DEF Entries
<1>2. \E x \in Entries(js, a) : \A y \in Entries(js, a) : x <= y
  BY <1>1, LeastPosition DEF Known
<1>3. /\ getJzq(js, a) \in Entries(js, a)
      /\ \A j \in Entries(js, a) : getJzq(js, a) <= j
  BY <1>2, Zenon DEF getJzq
<1>4. QED  BY <1>3, SeqIsFunction DEF Entries

(* Look-ups find the same entry in a list that keeps the addresses of the  *)
(* old entries and only appends (push_back).                               *)
LEMMA GetJzqStable ==
  ASSUME NEW js \in Seq(Jzq), NEW ks \in Seq(Jzq), Len(js) <= Len(ks),
         \A i \in 1 .. Len(js) : ks[i].a = js[i].a,
         NEW a, Known(js, a)
  PROVE  Known(ks, a) /\ getJzq(ks, a) = getJzq(js, a)
<1> DEFINE g == getJzq(js, a)
           h == getJzq(ks, a)
<1>1. Len(js) \in Nat /\ Len(ks) \in Nat
      /\ DOMAIN js = 1 .. Len(js) /\ DOMAIN ks = 1 .. Len(ks)
  BY SeqIsFunction
<1>2. g \in 1 .. Len(js) /\ js[g].a = a /\ \A j \in Entries(js, a) : g <= j
  BY GetJzqFirst
<1>3. g \in Entries(ks, a)
  BY <1>1, <1>2 DEF Entries
<1>4. Known(ks, a)
  BY <1>3 DEF Known
<1>5. h \in 1 .. Len(ks) /\ ks[h].a = a /\ h <= g
  BY <1>3, <1>4, GetJzqFirst
<1>6. h \in 1 .. Len(js) /\ js[h].a = a
  BY <1>1, <1>2, <1>5
<1>7. h \in Entries(js, a)
  BY <1>1, <1>6 DEF Entries
<1>8. g <= h
  BY <1>2, <1>7
<1>9. QED  BY <1>1, <1>2, <1>4, <1>5, <1>6, <1>8

(***************************************************************************)
(* Only the first entry of an address carries state.                       *)
(***************************************************************************)
Inert(js) ==
  \A i \in 1 .. Len(js) :
    i # getJzq(js, js[i].a) =>
      ~js[i].online /\ js[i].rseq = 0 /\ js[i].pfc = 0

First(js, a) == js[getJzq(js, a)]

(* ks is js with the first entry of address a replaced by, or created as, e.*)
Changed(js, ks, a, e) ==
  /\ ks \in Seq(Jzq)
  /\ Len(js) <= Len(ks)
  /\ \A x : Known(ks, x) <=> Known(js, x) \/ x = a
  /\ \A x : x # a /\ Known(js, x) => First(ks, x) = First(js, x)
  /\ First(ks, a) = e
  /\ Inert(js) => Inert(ks)

(* Assigning to the entry a look-up found.                                 *)
LEMMA ReplaceFirst ==
  ASSUME NEW js \in Seq(Jzq), NEW a, Known(js, a), NEW e \in Jzq, e.a = a
  PROVE  Changed(js, [js EXCEPT ![getJzq(js, a)] = e], a, e)
<1> DEFINE g == getJzq(js, a)
           ks == [js EXCEPT ![g] = e]
<1>1. g \in 1 .. Len(js) /\ js[g].a = a
  BY GetJzqFirst
<1>2. /\ ks \in Seq(Jzq) /\ Len(ks) = Len(js)
      /\ \A j \in 1 .. Len(js) : ks[j] = IF j = g THEN e ELSE js[j]
  BY <1>1, ExceptSeq
<1>3. Len(js) \in Nat /\ DOMAIN js = 1 .. Len(js) /\ DOMAIN ks = 1 .. Len(js)
  BY <1>2, SeqIsFunction
<1> HIDE DEF ks, g
<1>4. \A j \in 1 .. Len(js) : ks[j].a = js[j].a
  BY <1>1, <1>2
<1>5. \A x : Entries(ks, x) = Entries(js, x)
  BY <1>3, <1>4 DEF Entries
<1>6. \A x : Known(ks, x) <=> Known(js, x)
  BY <1>5 DEF Known
<1>7. \A x : getJzq(ks, x) = getJzq(js, x)
  BY <1>5 DEF getJzq
<1>8. \A x : Known(js, x) => getJzq(js, x) \in 1 .. Len(js) /\ First(js, x).a = x
  BY GetJzqFirst DEF First
<1>9. \A x : x # a /\ Known(js, x) => First(ks, x) = First(js, x)
  BY <1>1, <1>2, <1>7, <1>8 DEF First
<1>10. First(ks, a) = e
  BY <1>1, <1>2, <1>7 DEF First, g
<1>11. ASSUME Inert(js) PROVE Inert(ks)
  <2> SUFFICES ASSUME NEW i \in 1 .. Len(js), i # getJzq(ks, ks[i].a)
               PROVE  ~ks[i].online /\ ks[i].rseq = 0 /\ ks[i].pfc = 0
    BY <1>2 DEF Inert
  <2>1. i # getJzq(js, js[i].a)
    BY <1>4, <1>7
  <2>2. i # g
    BY <1>1, <2>1 DEF g
  <2>3. QED  BY <1>2, <1>11, <2>1, <2>2 DEF Inert
<1>12. Len(js) <= Len(ks)
  BY <1>2, <1>3
<1>13. Known(js, a)
  OBVIOUS
<1>14. QED
  BY <1>2, <1>6, <1>9, <1>10, <1>11, <1>12, <1>13 DEF Changed, ks, g

(* Appending an entry of an address not listed yet.                        *)
LEMMA AppendFirst ==
  ASSUME NEW js \in Seq(Jzq), NEW a \in Addr, ~Known(js, a)
  PROVE  Changed(js, Append(js, NewJzq(a, FALSE)), a, NewJzq(a, FALSE))
<1> DEFINE n == NewJzq(a, FALSE)
           ks == Append(js, n)
<1>1. n \in Jzq /\ n.a = a
  BY LimitAssumption, SeqAssumption DEF NewJzq, Jzq
<1>2. ks \in Seq(Jzq) /\ Len(ks) = Len(js) + 1
      /\ (\A j \in 1 .. Len(js) : ks[j] = js[j]) /\ ks[Len(js) + 1] = n
  BY <1>1, AppendProperties
<1>3. /\ Len(js) \in Nat
      /\ DOMAIN js = 1 .. Len(js)
      /\ DOMAIN ks = 1 .. Len(js) + 1
  BY <1>2, SeqIsFunction
<1> HIDE DEF ks, n
<1>4. Entries(ks, a) = {Len(js) + 1}
  <2>1. \A j \in 1 .. Len(js) : js[j].a # a
    BY <1>3 DEF Known, Entries
  <2>2. QED  BY <1>1, <1>2, <1>3, <2>1 DEF Entries
<1>5. Known(ks, a) /\ getJzq(ks, a) = Len(js) + 1
  <2>1. Known(ks, a)  BY <1>4 DEF Known
  <2>2. QED  BY <1>2, <1>4, <2>1, GetJzqFirst
<1>6. \A x : x # a => Entries(ks, x) = Entries(js, x)
  BY <1>1, <1>2, <1>3 DEF Entries
<1>7. \A x : x # a => (Known(ks, x) <=> Known(js, x))
  BY <1>6 DEF Known
<1>8. \A x : x # a => getJzq(ks, x) = getJzq(js, x)
  BY <1>6 DEF getJzq
<1>9. \A x : Known(js, x) => getJzq(js, x) \in 1 .. Len(js)
  BY GetJzqFirst
<1>10. \A x : x # a /\ Known(js, x) => First(ks, x) = First(js, x)
  BY <1>2, <1>8, <1>9 DEF First
<1>11. First(ks, a) = n
  BY <1>2, <1>5 DEF First
<1>12. ASSUME Inert(js) PROVE Inert(ks)
  <2> SUFFICES ASSUME NEW i \in 1 .. Len(ks), i # getJzq(ks, ks[i].a)
               PROVE  ~ks[i].online /\ ks[i].rseq = 0 /\ ks[i].pfc = 0
    BY DEF Inert
  <2>1. i \in 1 .. Len(js)
    BY <1>1, <1>2, <1>3, <1>5
  <2>2. ks[i].a # a
    BY <1>2, <1>3, <2>1 DEF Known, Entries
  <2>3. i # getJzq(js, js[i].a)
    BY <1>2, <1>8, <2>1, <2>2
  <2>4. QED  BY <1>2, <1>12, <2>1, <2>3 DEF Inert
<1>13. \A x : Known(ks, x) <=> Known(js, x) \/ x = a
  BY <1>5, <1>7
<1>14. Len(js) <= Len(ks)
  BY <1>2, <1>3
<1>15. Changed(js, ks, a, n)
  BY <1>2, <1>10, <1>11, <1>12, <1>13, <1>14 DEF Changed
<1>16. QED  BY <1>15 DEF ks, n

(* The second of two assignments to one entry is what remains.             *)
LEMMA ChangedTwice ==
  ASSUME NEW js \in Seq(Jzq), NEW ks, NEW ls, NEW a, NEW e, NEW f,
         Changed(js, ks, a, e), Changed(ks, ls, a, f)
  PROVE  Changed(js, ls, a, f)
<1>1. Len(js) \in Nat /\ Len(ks) \in Nat /\ Len(ls) \in Nat
  BY SeqIsFunction DEF Changed
<1>2. QED  BY <1>1 DEF Changed

(* Membership of the entry a look-up finds.                                *)
LEMMA FirstType ==
  ASSUME NEW js \in Seq(Jzq), NEW a, Known(js, a)
  PROVE  First(js, a) \in Jzq /\ First(js, a).a = a
BY GetJzqFirst, ElementOfSeq DEF First

(* LoginState yields an entry of the same address.                         *)
LEMMA LoginStateType ==
  ASSUME NEW e \in Jzq, NEW Fn \in 1 .. 3, NEW s \in 0 .. SeqMod - 1
  PROVE  LoginState(e, Fn, s) \in Jzq /\ LoginState(e, Fn, s).a = e.a
<1>1. CASE Fn = 1
  <2>1. LoginState(e, Fn, s) = [e EXCEPT !.online = TRUE, !.rseq = s]
    BY <1>1 DEF LoginState
  <2>2. QED  BY <2>1 DEF Jzq
<1>2. CASE Fn = 2
  <2>1. LoginState(e, Fn, s) = [e EXCEPT !.online = FALSE]
    BY <1>2 DEF LoginState
  <2>2. QED  BY <2>1 DEF Jzq
<1>3. CASE Fn = 3
  <2>1. LoginState(e, Fn, s) = [e EXCEPT !.online = TRUE, !.heart = 0]
    BY <1>3 DEF LoginState
  <2>2. 0 \in 0 .. HeartLimit + 1
    BY LimitAssumption
  <2>3. QED  BY <2>1, <2>2 DEF Jzq
<1>4. QED  BY <1>1, <1>2, <1>3

(* The entry ReportLoginState works on, and what it makes of the list.     *)
Listed(js, a) == IF Known(js, a) THEN First(js, a) ELSE NewJzq(a, FALSE)

(* ReportLoginState adds the entry if need be and assigns its login state; *)
(* no other address changes.                                               *)
LEMMA ReportEffect ==
  ASSUME NEW js \in Seq(Jzq), NEW a \in Addr, NEW Fn \in 1 .. 3,
         NEW s \in 0 .. SeqMod - 1
  PROVE  Changed(js, ReportLoginState(js, a, Fn, s), a,
                 LoginState(Listed(js, a), Fn, s))
<1> DEFINE all == IF Known(js, a) THEN js ELSE Append(js, NewJzq(a, FALSE))
<1>1. all \in Seq(Jzq) /\ Known(all, a) /\ First(all, a) = Listed(js, a)
      /\ (Changed(js, all, a, Listed(js, a)) \/ js = all)
  <2>1. CASE Known(js, a)  BY <2>1 DEF Listed
  <2>2. CASE ~Known(js, a)  BY <2>2, AppendFirst DEF Changed, Listed
  <2>3. QED  BY <2>1, <2>2
<1> DEFINE e == LoginState(First(all, a), Fn, s)
<1> HIDE DEF all
<1>2. e \in Jzq /\ e.a = a
  BY <1>1, FirstType, LoginStateType
<1>3. Changed(all, [all EXCEPT ![getJzq(all, a)] = e], a, e)
  BY <1>1, <1>2, ReplaceFirst
<1>4. ReportLoginState(js, a, Fn, s) = [all EXCEPT ![getJzq(all, a)] = e]
  BY DEF ReportLoginState, First, all
<1>5. QED  BY <1>1, <1>3, <1>4, ChangedTwice

(* ++m_RSEQ with its wrap is an increment modulo SeqMod.                   *)
LEMMA WrapIsMod ==
  ASSUME NEW n \in Nat \ {0}, NEW x \in 0 .. n - 1
  PROVE  (IF x + 1 > n - 1 THEN 0 ELSE x + 1) = (x + 1) % n
<1>1. CASE x + 1 = n
  <2>1. n % n = 0  BY Z3
  <2>2. QED  BY <1>1, <2>1
<1>2. CASE x + 1 # n
  <2>1. x + 1 \in 0 .. n - 1  BY <1>2
  <2>2. (x + 1) % n = x + 1  BY <2>1
  <2>3. QED  BY <2>1, <2>2
<1>3. QED  BY <1>1, <1>2

(* A counter incremented modulo n stays in its range.                      *)
LEMMA ModRange ==
  ASSUME NEW n \in Nat \ {0}, NEW x \in Nat
  PROVE  (x + 1) % n \in 0 .. n - 1
OBVIOUS

(* Assigning the entry e, which need not be a look-up of its own.          *)
LEMMA AssignFirst ==
  ASSUME NEW js \in Seq(Jzq), NEW a, Known(js, a), NEW e, e \in Jzq, e.a = a,
         NEW ks, ks = [js EXCEPT ![getJzq(js, a)] = e]
  PROVE  Changed(js, ks, a, e)
BY ReplaceFirst

(* GetRSEQ changes one counter of the first entry.                         *)
LEMMA IncRSEQEffect ==
  ASSUME NEW js \in Seq(Jzq), NEW a, Known(js, a)
  PROVE  Changed(js, IncRSEQ(js, a), a,
           [First(js, a) EXCEPT !.rseq = (@ + 1) % SeqMod])
<1> DEFINE e == [First(js, a) EXCEPT !.rseq = (@ + 1) % SeqMod]
<1>1. First(js, a) \in Jzq /\ First(js, a).a = a
  BY FirstType
<1>2. SeqMod \in Nat \ {0} /\ First(js, a).rseq \in 0 .. SeqMod - 1
  BY <1>1, SeqAssumption DEF Jzq
<1>3. (First(js, a).rseq + 1) % SeqMod \in 0 .. SeqMod - 1
  BY <1>2, ModRange
<1>4. (IF First(js, a).rseq + 1 > SeqMod - 1 THEN 0 ELSE First(js, a).rseq + 1)
        = (First(js, a).rseq + 1) % SeqMod
  BY <1>2, WrapIsMod
<1>5. e \in Jzq /\ e.a = a
  BY <1>1, <1>3 DEF Jzq
<1>6. IncRSEQ(js, a) =
        [js EXCEPT ![getJzq(js, a)] = [First(js, a) EXCEPT !.rseq =
           IF First(js, a).rseq + 1 > SeqMod - 1 THEN 0 ELSE First(js, a).rseq + 1]]
  BY DEF IncRSEQ, First
<1>7. IncRSEQ(js, a) = [js EXCEPT ![getJzq(js, a)] = e]
  BY <1>4, <1>6
<1> HIDE DEF e
<1>8. Changed(js, IncRSEQ(js, a), a, e)
  BY <1>5, <1>7, AssignFirst
<1>9. QED  BY <1>8 DEF e

(* GetPSEQ changes one counter of the first entry.                         *)
LEMMA IncPFCEffect ==
  ASSUME NEW js \in Seq(Jzq), NEW a, Known(js, a)
  PROVE  Changed(js, IncPFC(js, a), a,
           [First(js, a) EXCEPT !.pfc = (@ + 1) % PfcMod])
<1> DEFINE e == [First(js, a) EXCEPT !.pfc = (@ + 1) % PfcMod]
<1>1. First(js, a) \in Jzq /\ First(js, a).a = a
  BY FirstType
<1>2. PfcMod \in Nat \ {0} /\ First(js, a).pfc \in 0 .. PfcMod - 1
  BY <1>1, SeqAssumption DEF Jzq
<1>3. (First(js, a).pfc + 1) % PfcMod \in 0 .. PfcMod - 1
  BY <1>2, ModRange
<1>4. e \in Jzq /\ e.a = a
  BY <1>1, <1>3 DEF Jzq
<1>5. IncPFC(js, a) = [js EXCEPT ![getJzq(js, a)] = e]
  BY DEF IncPFC, First
<1> HIDE DEF e
<1>6. Changed(js, IncPFC(js, a), a, e)
  BY <1>4, <1>5, AssignFirst
<1>7. QED  BY <1>6 DEF e

(* The destructor of a connection logs the first entry out.                *)
LEMMA LoggedOutEffect ==
  ASSUME NEW js \in Seq(Jzq), NEW a, Known(js, a)
  PROVE  Changed(js, LoggedOut(js, a), a, [First(js, a) EXCEPT !.online = FALSE])
<1> DEFINE e == [First(js, a) EXCEPT !.online = FALSE]
<1>1. First(js, a) \in Jzq /\ First(js, a).a = a
  BY FirstType
<1>2. e \in Jzq /\ e.a = a
  BY <1>1 DEF Jzq
<1>3. LoggedOut(js, a) = [js EXCEPT ![getJzq(js, a)] = e]
  BY DEF LoggedOut, LoginState, First
<1> HIDE DEF e
<1>4. Changed(js, LoggedOut(js, a), a, e)
  BY <1>2, <1>3, AssignFirst
<1>5. QED  BY <1>4 DEF e

(***************************************************************************)
(* Steps that leave addresses and counters of the entries alone, bring     *)
(* nobody online, and append only idle entries: ticks, the heartbeat       *)
(* check, the poll timers and LoadJzq.                                     *)
(***************************************************************************)
Quiet(e) == ~e.online /\ e.rseq = 0 /\ e.pfc = 0

Kept(js, ks) ==
  /\ ks \in Seq(Jzq)
  /\ Len(js) <= Len(ks)
  /\ \A i \in 1 .. Len(js) :
       /\ ks[i].a = js[i].a /\ ks[i].rseq = js[i].rseq /\ ks[i].pfc = js[i].pfc
       /\ ks[i].online => js[i].online
  /\ \A i \in 1 .. Len(ks) : i > Len(js) => Quiet(ks[i])

(* What Kept says of all entries, for the first of an address.             *)
LEMMA KeptFirst ==
  ASSUME NEW js \in Seq(Jzq), NEW ks, Kept(js, ks), NEW x
  PROVE  /\ Known(js, x) => /\ Known(ks, x)
                            /\ First(ks, x).rseq = First(js, x).rseq
                            /\ First(ks, x).pfc = First(js, x).pfc
                            /\ First(ks, x).online => First(js, x).online
         /\ ~Known(js, x) /\ Known(ks, x) => Quiet(First(ks, x))
<1>1. /\ Len(js) \in Nat /\ Len(ks) \in Nat /\ Len(js) <= Len(ks)
      /\ DOMAIN js = 1 .. Len(js) /\ ks \in Seq(Jzq)
      /\ \A i \in 1 .. Len(js) : ks[i].a = js[i].a
  BY SeqIsFunction DEF Kept
<1>2. ASSUME Known(js, x)
      PROVE  /\ Known(ks, x)
             /\ First(ks, x).rseq = First(js, x).rseq
             /\ First(ks, x).pfc = First(js, x).pfc
             /\ First(ks, x).online => First(js, x).online
  <2>1. Known(ks, x) /\ getJzq(ks, x) = getJzq(js, x)
    BY <1>1, <1>2, GetJzqStable
  <2>2. getJzq(js, x) \in 1 .. Len(js)
    BY <1>2, GetJzqFirst
  <2>3. QED  BY <2>1, <2>2 DEF First, Kept
<1>3. ASSUME ~Known(js, x), Known(ks, x)
      PROVE  Quiet(First(ks, x))
  <2>1. getJzq(ks, x) \in 1 .. Len(ks) /\ ks[getJzq(ks, x)].a = x
    BY <1>1, <1>3, GetJzqFirst
  <2>2. \A i \in 1 .. Len(js) : js[i].a # x
    BY <1>1, <1>3 DEF Known, Entries
  <2>3. getJzq(ks, x) > Len(js)
    BY <1>1, <2>1, <2>2
  <2>4. QED  BY <2>1, <2>3 DEF First, Kept
<1>4. QED  BY <1>2, <1>3

(* Entries behind the first of their address stay inert.                   *)
LEMMA KeptInert ==
  ASSUME NEW js \in Seq(Jzq), NEW ks, Kept(js, ks), Inert(js)
  PROVE  Inert(ks)
<1> SUFFICES ASSUME NEW i \in 1 .. Len(ks), i # getJzq(ks, ks[i].a)
             PROVE  ~ks[i].online /\ ks[i].rseq = 0 /\ ks[i].pfc = 0
  BY DEF Inert
<1>1. /\ Len(js) \in Nat /\ Len(ks) \in Nat /\ Len(js) <= Len(ks)
      /\ DOMAIN js = 1 .. Len(js) /\ ks \in Seq(Jzq)
      /\ \A j \in 1 .. Len(js) : ks[j].a = js[j].a
  BY SeqIsFunction DEF Kept
<1>2. CASE i \in 1 .. Len(js)
  <2>1. Known(js, js[i].a)
    BY <1>1, <1>2 DEF Known, Entries
  <2>2. getJzq(ks, js[i].a) = getJzq(js, js[i].a)
    BY <1>1, <2>1, GetJzqStable
  <2>3. i # getJzq(js, js[i].a)
    BY <1>1, <1>2, <2>2
  <2>4. ~js[i].online /\ js[i].rseq = 0 /\ js[i].pfc = 0
    BY <1>2, <2>3 DEF Inert
  <2>5. QED  BY <1>2, <2>4 DEF Kept
<1>3. CASE i > Len(js)
  BY <1>3 DEF Kept, Quiet
<1>4. QED  BY <1>1, <1>2, <1>3

(* A list made entry by entry from another one.                            *)
LEMMA KeptPointwise ==
  ASSUME NEW js \in Seq(Jzq), NEW ks, ks \in [1 .. Len(js) -> Jzq],
         \A i \in 1 .. Len(js) :
           /\ ks[i].a = js[i].a /\ ks[i].rseq = js[i].rseq /\ ks[i].pfc = js[i].pfc
           /\ ks[i].online => js[i].online
  PROVE  Kept(js, ks) /\ Len(ks) = Len(js)
<1>1. Len(js) \in Nat
  BY SeqIsFunction
<1>2. ks \in Seq(Jzq) /\ Len(ks) = Len(js)
  BY <1>1, FunctionIsSeq
<1>3. QED  BY <1>1, <1>2 DEF Kept

(* Ages stay within one past the limit.                                    *)
LEMMA OlderRange ==
  ASSUME NEW limit \in Nat, NEW n \in 0 .. limit + 1
  PROVE  Older(n, limit) \in 0 .. limit + 1
BY DEF Older

(* Time changes ages only.                                                 *)
LEMMA TickKeeps ==
  ASSUME jzqs \in Seq(Jzq), Tick
  PROVE  Kept(jzqs, jzqs') /\ Len(jzqs') = Len(jzqs)
<1>1. DOMAIN jzqs = 1 .. Len(jzqs)
  BY SeqIsFunction
<1>2. ASSUME NEW i \in 1 .. Len(jzqs)
      PROVE  LET e == jzqs[i]
                 d == [e EXCEPT !.heart = Older(@, HeartLimit),
                                !.get = Older(@, GetLimit)]
             IN  d \in Jzq /\ d.a = e.a /\ d.rseq = e.rseq /\ d.pfc = e.pfc
                 /\ d.online = e.online
  <2>1. jzqs[i] \in Jzq
    BY <1>2, ElementOfSeq
  <2>2. /\ Older(jzqs[i].heart, HeartLimit) \in 0 .. HeartLimit + 1
        /\ Older(jzqs[i].get, GetLimit) \in 0 .. GetLimit + 1
    BY <2>1, LimitAssumption, OlderRange DEF Jzq
  <2>3. QED  BY <2>1, <2>2 DEF Jzq
<1>3. jzqs' = [i \in 1 .. Len(jzqs) |->
                [jzqs[i] EXCEPT !.heart = Older(@, HeartLimit),
                                !.get = Older(@, GetLimit)]]
  BY <1>1 DEF Tick
<1>4. QED  BY <1>2, <1>3, KeptPointwise

(* CheckConnection only takes entries offline.                             *)
LEMMA CheckKeeps ==
  ASSUME jzqs \in Seq(Jzq), CheckConnection
  PROVE  Kept(jzqs, jzqs') /\ Len(jzqs') = Len(jzqs)
<1>1. DOMAIN jzqs = 1 .. Len(jzqs)
  BY SeqIsFunction
<1>2. ASSUME NEW i \in 1 .. Len(jzqs)
      PROVE  LET e == jzqs[i]
                 d == CheckTimeout(e)
             IN  d \in Jzq /\ d.a = e.a /\ d.rseq = e.rseq /\ d.pfc = e.pfc
                 /\ (d.online => e.online)
  <2>1. jzqs[i] \in Jzq
    BY <1>2, ElementOfSeq
  <2>2. 0 \in 0 .. HeartLimit + 1
    BY LimitAssumption
  <2>3. CASE jzqs[i].heart > HeartLimit
    <3>1. CheckTimeout(jzqs[i]) = [jzqs[i] EXCEPT !.heart = 0, !.online = FALSE]
      BY <2>1, <2>3 DEF CheckTimeout, LoginState, Jzq
    <3>2. QED  BY <2>1, <2>2, <3>1 DEF Jzq
  <2>4. CASE ~(jzqs[i].heart > HeartLimit)
    BY <2>1, <2>4 DEF CheckTimeout
  <2>5. QED  BY <2>3, <2>4
<1>3. jzqs' = [i \in 1 .. Len(jzqs) |-> CheckTimeout(jzqs[i])]
  BY <1>1 DEF CheckConnection
<1>4. QED  BY <1>2, <1>3, KeptPointwise

(* Restarting the poll timer of one entry.                                 *)
LEMMA RestartKeeps ==
  ASSUME NEW js \in Seq(Jzq), NEW i \in 1 .. Len(js)
  PROVE  Kept(js, [js EXCEPT ![i].get = 0]) /\ Len([js EXCEPT ![i].get = 0]) = Len(js)
<1>1. DOMAIN js = 1 .. Len(js) /\ js \in [1 .. Len(js) -> Jzq] /\ js[i] \in Jzq
  BY SeqIsFunction
<1>2. [js[i] EXCEPT !.get = 0] \in Jzq
  <2>1. 0 \in 0 .. GetLimit + 1  BY LimitAssumption
  <2>2. QED  BY <1>1, <2>1 DEF Jzq
<1> DEFINE ks == [js EXCEPT ![i].get = 0]
<1>3. ks = [j \in 1 .. Len(js) |-> IF j = i THEN [js[i] EXCEPT !.get = 0] ELSE js[j]]
  BY <1>1
<1>4. ks \in [1 .. Len(js) -> Jzq]
  BY <1>1, <1>2, <1>3
<1>5. \A j \in 1 .. Len(js) :
        /\ ks[j].a = js[j].a /\ ks[j].rseq = js[j].rseq /\ ks[j].pfc = js[j].pfc
        /\ ks[j].online => js[j].online
  BY <1>1, <1>3 DEF Jzq
<1> HIDE DEF ks
<1>6. Kept(js, ks) /\ Len(ks) = Len(js)
  BY <1>4, <1>5, KeptPointwise
<1>7. QED  BY <1>6 DEF ks

(* LoadJzq appends idle entries, then touches eleLst only.                 *)
LEMMA LoadKeeps ==
  ASSUME NEW js \in Seq(Jzq)
  PROVE  /\ Kept(js, LoadJzq(js))
         /\ \A i \in 1 .. Len(js) : LoadJzq(js)[i].online = js[i].online
<1> DEFINE new == [r \in DOMAIN DB |-> NewJzq(DB[r], TRUE)]
           all == js \o new
           ks == [i \in DOMAIN all |-> [all[i] EXCEPT !.eles = @ + EleCount[all[i].a]]]
<1>1. \A a \in Addr : NewJzq(a, TRUE) \in Jzq /\ Quiet(NewJzq(a, TRUE))
  BY LimitAssumption, SeqAssumption DEF NewJzq, Jzq, Quiet
<1>2. DOMAIN DB = 1 .. Len(DB) /\ Len(DB) \in Nat /\ \A r \in 1 .. Len(DB) : DB[r] \in Addr
  BY DBAssumption, SeqIsFunction
<1>3. new \in [1 .. Len(DB) -> Jzq] /\ \A r \in 1 .. Len(DB) : Quiet(new[r])
  BY <1>1, <1>2
<1> HIDE DEF new
<1>4. new \in Seq(Jzq) /\ Len(new) = Len(DB)
  BY <1>2, <1>3, FunctionIsSeq
<1>5. /\ Len(js) \in Nat /\ Len(all) = Len(js) + Len(DB)
      /\ all \in Seq(Jzq)
      /\ \A i \in 1 .. Len(js) : all[i] = js[i]
      /\ \A i \in 1 .. Len(all) : i > Len(js) => all[i] = new[i - Len(js)]
  <2>1. Len(js) \in Nat
    BY SeqIsFunction
  <2>2. /\ all \in Seq(Jzq) /\ Len(all) = Len(js) + Len(new)
        /\ \A i \in 1 .. Len(js) + Len(new) :
             all[i] = IF i <= Len(js) THEN js[i] ELSE new[i - Len(js)]
    BY <1>4, ConcatProperties
  <2> HIDE DEF all
  <2>3. QED  BY <1>2, <1>4, <2>1, <2>2
<1>6. \A i \in 1 .. Len(all) : i > Len(js) => Quiet(all[i])
  BY <1>2, <1>3, <1>5
<1> HIDE DEF all
<1>7. DOMAIN all = 1 .. Len(all) /\ \A i \in 1 .. Len(all) : all[i] \in Jzq
  BY <1>5, SeqIsFunction
<1>8. ASSUME NEW i \in 1 .. Len(all)
      PROVE  LET d == [all[i] EXCEPT !.eles = @ + EleCount[all[i].a]]
             IN  d \in Jzq /\ d.a = all[i].a /\ d.rseq = all[i].rseq
                 /\ d.pfc = all[i].pfc /\ d.online = all[i].online
  <2>1. all[i] \in Jzq
    BY <1>7
  <2>2. all[i].eles + EleCount[all[i].a] \in Nat
    <3>1. all[i].eles \in Nat /\ all[i].a \in Addr  BY <2>1 DEF Jzq
    <3>2. EleCount[all[i].a] \in Nat  BY <3>1, DBAssumption
    <3>3. QED  BY <3>1, <3>2
  <2>3. QED  BY <2>1, <2>2 DEF Jzq
<1>9. ks \in [1 .. Len(all) -> Jzq]
      /\ \A i \in 1 .. Len(all) :
           ks[i].a = all[i].a /\ ks[i].rseq = all[i].rseq
           /\ ks[i].pfc = all[i].pfc /\ ks[i].online = all[i].online
  BY <1>7, <1>8
<1> HIDE DEF ks
<1>10. ks \in Seq(Jzq) /\ Len(ks) = Len(all)
  BY <1>2, <1>5, <1>9, FunctionIsSeq
<1>11. Kept(js, ks) /\ \A i \in 1 .. Len(js) : ks[i].online = js[i].online
  <2>1. Len(js) <= Len(ks)
    BY <1>2, <1>5, <1>10
  <2>2. \A i \in 1 .. Len(js) : i \in 1 .. Len(all)
    BY <1>2, <1>5
  <2>3. \A i \in 1 .. Len(js) :
          /\ ks[i].a = js[i].a /\ ks[i].rseq = js[i].rseq /\ ks[i].pfc = js[i].pfc
          /\ ks[i].online = js[i].online
    BY <1>5, <1>9, <2>2
  <2>4. \A i \in 1 .. Len(ks) : i > Len(js) => Quiet(ks[i])
    BY <1>6, <1>9, <1>10 DEF Quiet
  <2>5. QED  BY <1>10, <2>1, <2>3, <2>4 DEF Kept
<1>12. QED  BY <1>11 DEF LoadJzq, ks, all, new

(***************************************************************************)
(* The invariant: types, and no state in duplicate entries.                *)
(***************************************************************************)
Grown(js, ks) ==
  ks \in Seq(Jzq) /\ Len(js) <= Len(ks) /\ (Inert(js) => Inert(ks))

(* The three ways in which the actions change the list let it grow.        *)
LEMMA GrownCases ==
  ASSUME NEW js \in Seq(Jzq), NEW ks
  PROVE  /\ ks = js => Grown(js, ks)
         /\ Kept(js, ks) => Grown(js, ks)
         /\ \A a, e : Changed(js, ks, a, e) => Grown(js, ks)
<1>1. Len(js) \in Nat
  BY SeqIsFunction
<1>2. ks = js => Grown(js, ks)
  BY <1>1 DEF Grown
<1>3. Kept(js, ks) => Grown(js, ks)
  BY KeptInert DEF Grown, Kept
<1>4. \A a, e : Changed(js, ks, a, e) => Grown(js, ks)
  BY DEF Grown, Changed
<1>5. QED  BY <1>2, <1>3, <1>4

(* The entry of p.a after RecvPackage, when it is not left alone.          *)
Answered(p) == [First(jzqs, p.a) EXCEPT !.rseq = (@ + 1) % SeqMod]
LinkState(p) == LoginState(Listed(jzqs, p.a), p.Fn, p.pseq)
LinkAnswered(p) == [LinkState(p) EXCEPT !.rseq = (@ + 1) % SeqMod]

(* The effect of a package on the list: login state and answer for link    *)
(* messages, an answer at most for the others.                             *)
LEMMA RecvEffect ==
  ASSUME jzqs \in Seq(Jzq), NEW b \in ConnId, NEW p \in Package, RecvPackage(b, p)
  PROVE  /\ IsLink(p) /\ p.con => Changed(jzqs, jzqs', p.a, LinkAnswered(p))
         /\ IsLink(p) /\ ~p.con => Changed(jzqs, jzqs', p.a, LinkState(p))
         /\ ~IsLink(p) => \/ jzqs' = jzqs
                          \/ /\ Known(jzqs, p.a)
                             /\ Changed(jzqs, jzqs', p.a, Answered(p))
<1>1. p.a \in Addr
  BY DEF Package
<1>2. jzqs' = IF Acked(p) THEN IncRSEQ(Reported(p), p.a) ELSE Reported(p)
  BY DEF RecvPackage
<1>3. ASSUME IsLink(p)
      PROVE  /\ p.con => Changed(jzqs, jzqs', p.a, LinkAnswered(p))
             /\ ~p.con => Changed(jzqs, jzqs', p.a, LinkState(p))
  <2>1. p.Fn \in 1 .. 3 /\ p.pseq \in 0 .. SeqMod - 1 /\ (Acked(p) <=> p.con)
    BY <1>3 DEF Package, IsLink, Acked
  <2>2. Changed(jzqs, Reported(p), p.a, LinkState(p))
    BY <1>1, <1>3, <2>1, ReportEffect DEF Reported, LinkState
  <2>3. /\ Reported(p) \in Seq(Jzq) /\ Known(Reported(p), p.a)
        /\ First(Reported(p), p.a) = LinkState(p)
    BY <2>2 DEF Changed
  <2>4. Changed(Reported(p), IncRSEQ(Reported(p), p.a), p.a, LinkAnswered(p))
    BY <2>3, IncRSEQEffect DEF LinkAnswered
  <2>5. Changed(jzqs, IncRSEQ(Reported(p), p.a), p.a, LinkAnswered(p))
    BY <2>2, <2>4, ChangedTwice
  <2>6. QED  BY <1>2, <2>1, <2>2, <2>5
<1>4. ASSUME ~IsLink(p)
      PROVE  \/ jzqs' = jzqs
             \/ Known(jzqs, p.a) /\ Changed(jzqs, jzqs', p.a, Answered(p))
  <2>1. Reported(p) = jzqs
    BY <1>4 DEF Reported
  <2>2. CASE Acked(p) /\ Known(jzqs, p.a)
    BY <1>2, <2>1, <2>2, IncRSEQEffect DEF Answered
  <2>3. CASE ~(Acked(p) /\ Known(jzqs, p.a))
    BY <1>2, <2>1, <2>3 DEF IncRSEQ
  <2>4. QED  BY <2>2, <2>3
<1>5. QED  BY <1>3, <1>4

(* A request advances the counter of the concentrator it is addressed to.  *)
LEMMA RequestEffect ==
  ASSUME jzqs \in Seq(Jzq), NEW n, RequestData(n)
  PROVE  \/ jzqs' = jzqs
         \/ /\ Known(jzqs, conns[n].a)
            /\ Changed(jzqs, jzqs', conns[n].a,
                 [First(jzqs, conns[n].a) EXCEPT !.pfc = (@ + 1) % PfcMod])
<1>1. CASE Known(jzqs, conns[n].a)
  BY <1>1, IncPFCEffect DEF RequestData
<1>2. CASE ~Known(jzqs, conns[n].a)
  BY <1>2 DEF RequestData, IncPFC
<1>3. QED  BY <1>1, <1>2

(* Closing a connection logs out at most one known address.                *)
LEMMA CloseEffect ==
  ASSUME jzqs \in Seq(Jzq), NEW b, CloseConnection(b)
  PROVE  \/ jzqs' = jzqs
         \/ \E a : /\ Known(jzqs, a)
                  /\ Changed(jzqs, jzqs', a, [First(jzqs, a) EXCEPT !.online = FALSE])
<1> DEFINE a == conns[getConnection(b)].a
<1>1. jzqs' = LoggedOut(jzqs, a)
  BY DEF CloseConnection
<1> HIDE DEF a
<1>2. CASE Known(jzqs, a)
  BY <1>1, <1>2, LoggedOutEffect
<1>3. CASE ~Known(jzqs, a)
  BY <1>1, <1>3 DEF LoggedOut
<1>4. QED  BY <1>2, <1>3

(* The list of connections stays a list of connections.                    *)
LEMMA ConnsType ==
  ASSUME conns \in Seq(Conn), Next
  PROVE  conns' \in Seq(Conn)
<1>1. DOMAIN conns = 1 .. Len(conns) /\ conns \in [1 .. Len(conns) -> Conn] /\ Len(conns) \in Nat
  BY SeqIsFunction
<1>2. ASSUME NEW b \in Open
      PROVE  getConnection(b) \in 1 .. Len(conns)
  BY <1>1 DEF Open, getConnection
<1>3. ASSUME NEW b \in ConnId, NewConnection(b)
      PROVE  conns' \in Seq(Conn)
  <2>1. PICK g \in Addr \cup {NoAddr} :
          conns' = Append(conns, [bev |-> b, a |-> g, set |-> FALSE])
    BY <1>3 DEF NewConnection
  <2>2. [bev |-> b, a |-> g, set |-> FALSE] \in Conn
    BY DEF Conn
  <2>3. QED  BY <2>1, <2>2, AppendProperties
<1>4. ASSUME NEW b \in ConnId, NEW p \in Package, RecvPackage(b, p)
      PROVE  conns' \in Seq(Conn)
  <2> DEFINE n == getConnection(b)
             c == [conns[n] EXCEPT !.a = p.a, !.set = TRUE]
  <2>1. n \in 1 .. Len(conns) /\ conns[n] \in Conn /\ p.a \in Addr
    BY <1>1, <1>2, <1>4 DEF RecvPackage, Package
  <2>2. c \in Conn
    BY <2>1 DEF Conn
  <2>3. CASE p.single
    <3>1. conns' = [conns EXCEPT ![n].a = p.a, ![n].set = TRUE]
      BY <1>4, <2>3 DEF RecvPackage
    <3>2. conns' = [conns EXCEPT ![n] = c]
      BY <1>1, <2>1, <3>1
    <3> HIDE DEF c, n
    <3>3. QED  BY <2>1, <2>2, <3>2, ExceptSeq
  <2>4. CASE ~p.single
    BY <1>4, <2>4 DEF RecvPackage
  <2>5. QED  BY <2>3, <2>4
<1>5. ASSUME NEW b \in ConnId, CloseConnection(b)
      PROVE  conns' \in Seq(Conn)
  <2> DEFINE n == getConnection(b)
  <2>1. conns' = [i \in 1 .. Len(conns) - 1 |->
                    IF i < n THEN conns[i] ELSE conns[i + 1]]
    BY <1>5 DEF CloseConnection, Without
  <2>2. n \in 1 .. Len(conns)
    BY <1>2, <1>5 DEF CloseConnection
  <2> HIDE DEF n
  <2>3. conns' \in [1 .. Len(conns) - 1 -> Conn] /\ Len(conns) - 1 \in Nat
    BY <1>1, <2>1, <2>2
  <2>4. QED  BY <2>3, FunctionIsSeq
<1>6. QED
  BY <1>3, <1>4, <1>5 DEF Next, CheckConnection, FreshJzq, SyncRequest,
     KwhTimer, SweepEntry, SweepElement, Tick

(* getJzqConnection finds an element of the list.                          *)
LEMMA LinkFound ==
  ASSUME conns \in Seq(Conn), NEW a, Links(a) # {}
  PROVE  getJzqConnection(a) \in DOMAIN conns
<1>1. Links(a) \subseteq Nat
  BY SeqIsFunction DEF Links
<1>2. \E x \in Links(a) : \A y \in Links(a) : x <= y
  BY <1>1, LeastPosition
<1>3. getJzqConnection(a) \in Links(a)
  BY <1>2, Zenon DEF getJzqConnection
<1>4. QED  BY <1>3 DEF Links

(* No action makes the list shorter or an inert entry count.               *)
LEMMA JzqsGrown ==
  ASSUME TypeOK, Next
  PROVE  Grown(jzqs, jzqs')
<1> USE DEF TypeOK
<1>0. Grown(jzqs, jzqs)
  BY GrownCases
<1>1. ASSUME NEW b \in ConnId, NEW p \in Package, RecvPackage(b, p)
      PROVE  Grown(jzqs, jzqs')
  BY <1>1, RecvEffect, GrownCases
<1>2. ASSUME NEW n, RequestData(n)
      PROVE  Grown(jzqs, jzqs')
  BY <1>2, RequestEffect, GrownCases
<1>3. ASSUME NEW b \in ConnId, CloseConnection(b)
      PROVE  Grown(jzqs, jzqs')
  BY <1>3, CloseEffect, GrownCases
<1>4. ASSUME CheckConnection PROVE Grown(jzqs, jzqs')
  BY <1>4, CheckKeeps, GrownCases
<1>5. ASSUME Tick PROVE Grown(jzqs, jzqs')
  BY <1>5, TickKeeps, GrownCases
<1>6. ASSUME FreshJzq PROVE Grown(jzqs, jzqs')
  BY <1>6, LoadKeeps, GrownCases DEF FreshJzq
<1>7. ASSUME SweepEntry
      PROVE  Grown(jzqs, jzqs')
  <2>1. sweep.i \in 1 .. Len(jzqs)
    BY <1>7, SeqIsFunction DEF SweepEntry, Sweep
  <2>2. Kept(jzqs, [jzqs EXCEPT ![sweep.i].get = 0])
    BY <2>1, RestartKeeps
  <2>3. QED  BY <1>0, <1>7, <2>2, GrownCases DEF SweepEntry
<1>8. ASSUME SweepElement PROVE Grown(jzqs, jzqs')
  BY <1>2, <1>8 DEF SweepElement
<1>9. ASSUME NEW a \in Addr, SyncRequest(a) PROVE Grown(jzqs, jzqs')
  BY <1>2, <1>9 DEF SyncRequest
<1>10. ASSUME NEW b \in ConnId, NewConnection(b) PROVE Grown(jzqs, jzqs')
  BY <1>0, <1>10 DEF NewConnection
<1>11. ASSUME KwhTimer PROVE Grown(jzqs, jzqs')
  BY <1>0, <1>11 DEF KwhTimer
<1>12. QED
  BY <1>1, <1>3, <1>4, <1>5, <1>6, <1>7, <1>8, <1>9, <1>10, <1>11 DEF Next

(* The sweep stays within the list.                                        *)
LEMMA SweepType ==
  ASSUME TypeOK, Next
  PROVE  sweep' \in Sweep /\ sweep'.i <= Len(jzqs')
<1> USE DEF TypeOK
<1>1. /\ jzqs' \in Seq(Jzq) /\ Len(jzqs) <= Len(jzqs')
      /\ Len(jzqs) \in Nat /\ Len(jzqs') \in Nat
  BY JzqsGrown, SeqIsFunction DEF Grown
<1>2. NextEntry \in Sweep /\ NextEntry.i <= Len(jzqs')
  BY <1>1 DEF NextEntry, Idle, Sweep
<1>3. CASE sweep' = sweep
  BY <1>1, <1>3 DEF Sweep
<1>4. CASE KwhTimer
  <2>1. Len(jzqs) # 0
    BY <1>4, EmptySeq DEF KwhTimer
  <2>2. QED  BY <1>1, <1>4, <2>1 DEF KwhTimer, Idle, Sweep
<1>5. CASE SweepEntry
  <2> DEFINE e == jzqs[sweep.i]
             b == conns[getJzqConnection(e.a)].bev
  <2>1. CASE sweep' = NextEntry
    BY <1>2, <2>1
  <2>2. CASE /\ Links(e.a) # {}
             /\ sweep' = [sweep EXCEPT !.bev = b, !.k = e.eles]
    <3>1. e \in Jzq
      <4>1. sweep.i \in 1 .. Len(jzqs)
        BY <1>1, <1>5 DEF SweepEntry, Sweep
      <4>2. QED  BY <4>1, ElementOfSeq
    <3>2. getJzqConnection(e.a) \in DOMAIN conns
      BY <2>2, LinkFound
    <3>3. b \in ConnId
      <4>1. conns[getJzqConnection(e.a)] \in Conn
        BY <3>2, SeqIsFunction
      <4>2. QED  BY <4>1 DEF Conn
    <3>4. e.eles \in Nat
      BY <3>1 DEF Jzq
    <3>5. sweep' = [sweep EXCEPT !.bev = b, !.k = e.eles]
      BY <2>2
    <3> DEFINE m == e.eles
    <3> HIDE DEF e, b, m
    <3>6. b \in ConnId /\ m \in Nat /\ sweep' = [sweep EXCEPT !.bev = b, !.k = m]
      BY <3>3, <3>4, <3>5 DEF m
    <3>7. sweep' \in Sweep /\ sweep'.i = sweep.i
      BY <3>6 DEF Sweep
    <3>8. QED  BY <1>1, <3>7 DEF Sweep
  <2>3. QED  BY <1>5, <2>1, <2>2 DEF SweepEntry
<1>6. CASE SweepElement
  <2>1. CASE sweep' = NextEntry
    BY <1>2, <2>1
  <2>2. CASE sweep.k > 1 /\ sweep' = [sweep EXCEPT !.k = @ - 1]
    BY <1>1, <2>2 DEF Sweep
  <2>3. QED  BY <1>6, <2>1, <2>2 DEF SweepElement
<1>7. QED
  BY <1>3, <1>4, <1>5, <1>6 DEF Next, NewConnection, RecvPackage,
     CloseConnection, CheckConnection, FreshJzq, SyncRequest, Tick

(* The lists and the sweep stay well formed: list positions kept by the    *)
(* sweep, the numbers of LoginState and the wraps of GetRSEQ and GetPSEQ.  *)
THEOREM TypeCorrect == Spec => []TypeOK
<1>1. Init => TypeOK
  <2> SUFFICES ASSUME Init PROVE TypeOK
    OBVIOUS
  <2>1. <<>> \in Seq(Jzq) /\ <<>> \in Seq(Conn)
    BY EmptySeq
  <2>2. jzqs \in Seq(Jzq)
    BY <2>1, LoadKeeps DEF Init, Kept
  <2>3. conns \in Seq(Conn)
    BY <2>1 DEF Init
  <2>4. sweep \in Sweep /\ sweep.i <= Len(jzqs)
    BY <2>2, SeqIsFunction DEF Init, Idle, Sweep
  <2>5. QED  BY <2>2, <2>3, <2>4 DEF TypeOK
<1>2. TypeOK /\ [Next]_vars => TypeOK'
  <2> SUFFICES ASSUME TypeOK, [Next]_vars PROVE TypeOK'
    OBVIOUS
  <2>1. CASE Next
    <3>1. jzqs' \in Seq(Jzq)
      BY <2>1, JzqsGrown DEF Grown
    <3>2. conns' \in Seq(Conn)
      BY <2>1, ConnsType DEF TypeOK
    <3>3. QED  BY <2>1, <3>1, <3>2, SweepType DEF TypeOK
  <2>2. CASE UNCHANGED vars
    BY <2>2 DEF vars, TypeOK
  <2>3. QED  BY <2>1, <2>2
<1>3. QED  BY <1>1, <1>2, PTL DEF Spec

(* Reloading a list that is in use (freshjzq) creates duplicates, but they *)
(* never come online and never count.                                      *)
THEOREM DuplicatesStayInert == Spec => []DuplicatesInert
<1>1. ASSUME TypeOK
      PROVE  DuplicatesInert <=> Inert(jzqs)
  BY <1>1, SeqIsFunction DEF DuplicatesInert, Inert, TypeOK
<1>2. Init => Inert(jzqs)
  <2>1. <<>> \in Seq(Jzq) /\ Inert(<<>>)
    BY EmptySeq DEF Inert
  <2>2. QED  BY <2>1, LoadKeeps, KeptInert DEF Init
<1>3. TypeOK /\ Inert(jzqs) /\ [Next]_vars => Inert(jzqs)'
  <2> SUFFICES ASSUME TypeOK, Inert(jzqs), [Next]_vars PROVE Inert(jzqs)'
    OBVIOUS
  <2>1. CASE Next
    BY <2>1, JzqsGrown DEF Grown
  <2>2. CASE UNCHANGED vars
    BY <2>2 DEF vars
  <2>3. QED  BY <2>1, <2>2
<1>4. QED  BY <1>1, <1>2, <1>3, TypeCorrect, PTL DEF Spec

(* While getallkwh_async holds the mutex, delConnection does not run, and  *)
(* no other handler removes a connection.                                  *)
THEOREM SweepKeepsLink == Spec => []SweepLinkOpen
<1>1. Init => SweepLinkOpen
  BY DEF Init, SweepLinkOpen, Locked, Idle
<1>2. TypeOK /\ SweepLinkOpen /\ [Next]_vars => SweepLinkOpen'
  <2> SUFFICES ASSUME TypeOK, SweepLinkOpen, [Next]_vars PROVE SweepLinkOpen'
    OBVIOUS
  <2>1. DOMAIN conns = 1 .. Len(conns) /\ Len(conns) \in Nat
    BY SeqIsFunction DEF TypeOK
  <2>2. CASE \E b \in ConnId : NewConnection(b)
    <3>1. PICK b \in ConnId, g \in Addr \cup {NoAddr} :
            conns' = Append(conns, [bev |-> b, a |-> g, set |-> FALSE])
      BY <2>2 DEF NewConnection
    <3>2. [bev |-> b, a |-> g, set |-> FALSE] \in Conn
      BY DEF Conn
    <3>3. /\ Len(conns') = Len(conns) + 1 /\ conns' \in Seq(Conn)
          /\ \A i \in 1 .. Len(conns) : conns'[i] = conns[i]
      BY <3>1, <3>2, AppendProperties DEF TypeOK
    <3>4. DOMAIN conns' = 1 .. Len(conns) + 1
      BY <3>3, SeqIsFunction
    <3>5. Open \subseteq Open'
      BY <2>1, <3>3, <3>4 DEF Open
    <3>6. sweep' = sweep
      BY <2>2 DEF NewConnection
    <3>7. QED  BY <3>5, <3>6 DEF SweepLinkOpen, Locked
  <2>3. CASE \E b \in ConnId, p \in Package : RecvPackage(b, p)
    <3>1. PICK b \in ConnId, p \in Package : RecvPackage(b, p)
      BY <2>3
    <3>2. /\ DOMAIN conns' = DOMAIN conns
          /\ \A i \in DOMAIN conns : conns'[i].bev = conns[i].bev
      <4>1. \A i \in DOMAIN conns : conns[i] \in Conn
        BY SeqIsFunction DEF TypeOK
      <4>2. QED  BY <3>1, <4>1 DEF RecvPackage, Conn
    <3>3. Open' = Open
      BY <3>2 DEF Open
    <3>4. QED  BY <3>1, <3>3 DEF RecvPackage, SweepLinkOpen, Locked
  <2>4. CASE \E b \in ConnId : CloseConnection(b)
    BY <2>4 DEF CloseConnection, SweepLinkOpen, Locked
  <2>5. CASE SweepEntry
    <3>1. Open' = Open
      BY <2>5 DEF SweepEntry, Open
    <3>2. CASE sweep' = NextEntry
      BY <3>2 DEF SweepLinkOpen, Locked, NextEntry, Idle
    <3>3. CASE /\ Links(jzqs[sweep.i].a) # {}
               /\ sweep' = [sweep EXCEPT
                              !.bev = conns[getJzqConnection(jzqs[sweep.i].a)].bev,
                              !.k = jzqs[sweep.i].eles]
      <4>1. sweep'.bev = conns[getJzqConnection(jzqs[sweep.i].a)].bev
        BY <3>3 DEF TypeOK, Sweep
      <4>2. getJzqConnection(jzqs[sweep.i].a) \in DOMAIN conns
        BY <3>3, LinkFound DEF TypeOK
      <4>3. sweep'.bev \in Open
        BY <4>1, <4>2 DEF Open
      <4>4. QED  BY <3>1, <4>3 DEF SweepLinkOpen
    <3>4. QED  BY <2>5, <3>2, <3>3 DEF SweepEntry
  <2>6. CASE SweepElement
    <3>1. Open' = Open
      BY <2>6 DEF SweepElement, Open
    <3>2. CASE sweep' = NextEntry
      BY <3>2 DEF SweepLinkOpen, Locked, NextEntry, Idle
    <3>3. CASE sweep' = [sweep EXCEPT !.k = @ - 1]
      BY <2>6, <3>1, <3>3 DEF SweepElement, SweepLinkOpen, TypeOK, Sweep
    <3>4. QED  BY <2>6, <3>2, <3>3 DEF SweepElement
  <2>7. CASE KwhTimer
    BY <2>7 DEF KwhTimer, Idle, SweepLinkOpen, Locked
  <2>8. CASE UNCHANGED <<conns, sweep>>
    BY <2>8 DEF SweepLinkOpen, Locked, Open
  <2>9. QED
    BY <2>2, <2>3, <2>4, <2>5, <2>6, <2>7, <2>8 DEF Next, vars,
       CheckConnection, FreshJzq, SyncRequest, Tick
<1>3. QED  BY <1>1, <1>2, TypeCorrect, PTL DEF Spec

(***************************************************************************)
(* The list implements one login state and two counters per address.       *)
(***************************************************************************)
Rseq(js, a) == IF Known(js, a) THEN First(js, a).rseq ELSE 0
Pfc(js, a) == IF Known(js, a) THEN First(js, a).pfc ELSE 0
On(js, a) == Known(js, a) /\ First(js, a).online

KnownNow == {a \in Addr : Known(jzqs, a)}
OnlineNow == [a \in Addr |-> On(jzqs, a)]
RseqNow == [a \in Addr |-> Rseq(jzqs, a)]
PfcNow == [a \in Addr |-> Pfc(jzqs, a)]

(* What a changed first entry is to the abstract state.                    *)
LEMMA ChangedMap ==
  ASSUME jzqs \in Seq(Jzq), NEW a \in Addr, NEW e,
         e.online \in BOOLEAN, Changed(jzqs, jzqs', a, e)
  PROVE  /\ KnownNow' = KnownNow \cup {a}
         /\ OnlineNow' = [OnlineNow EXCEPT ![a] = e.online]
         /\ RseqNow' = [RseqNow EXCEPT ![a] = e.rseq]
         /\ PfcNow' = [PfcNow EXCEPT ![a] = e.pfc]
<1>1. /\ \A x : Known(jzqs', x) <=> Known(jzqs, x) \/ x = a
      /\ \A x : x # a /\ Known(jzqs, x) => First(jzqs', x) = First(jzqs, x)
      /\ First(jzqs', a) = e
  BY DEF Changed
<1>2. KnownNow' = KnownNow \cup {a}
  BY <1>1 DEF KnownNow
<1>3. \A x \in Addr : Rseq(jzqs', x) = IF x = a THEN e.rseq ELSE Rseq(jzqs, x)
  BY <1>1 DEF Rseq
<1>4. \A x \in Addr : Pfc(jzqs', x) = IF x = a THEN e.pfc ELSE Pfc(jzqs, x)
  BY <1>1 DEF Pfc
<1>5. \A x \in Addr : On(jzqs', x) = IF x = a THEN e.online ELSE On(jzqs, x)
  <2>1. ASSUME NEW x \in Addr, x = a PROVE On(jzqs', x) = e.online
    BY <1>1, <2>1 DEF On
  <2>2. ASSUME NEW x \in Addr, x # a PROVE On(jzqs', x) = On(jzqs, x)
    BY <1>1, <2>2 DEF On
  <2>3. QED  BY <2>1, <2>2
<1>6. RseqNow' = [RseqNow EXCEPT ![a] = e.rseq]
  BY <1>3 DEF RseqNow
<1>7. PfcNow' = [PfcNow EXCEPT ![a] = e.pfc]
  BY <1>4 DEF PfcNow
<1>8. OnlineNow' = [OnlineNow EXCEPT ![a] = e.online]
  BY <1>5, Zenon DEF OnlineNow
<1>9. QED  BY <1>2, <1>6, <1>7, <1>8

(* What a step that keeps the entries is to the abstract state.            *)
LEMMA KeptMap ==
  ASSUME jzqs \in Seq(Jzq), Kept(jzqs, jzqs')
  PROVE  /\ KnownNow \subseteq KnownNow'
         /\ \A a \in Addr : OnlineNow'[a] => OnlineNow[a]
         /\ OnlineNow' \in [Addr -> BOOLEAN]
         /\ UNCHANGED <<RseqNow, PfcNow>>
<1>1. \A a : /\ Known(jzqs, a) => /\ Known(jzqs', a)
                                  /\ First(jzqs', a).rseq = First(jzqs, a).rseq
                                  /\ First(jzqs', a).pfc = First(jzqs, a).pfc
                                  /\ First(jzqs', a).online => First(jzqs, a).online
             /\ ~Known(jzqs, a) /\ Known(jzqs', a) => Quiet(First(jzqs', a))
  BY KeptFirst
<1>2. KnownNow \subseteq KnownNow'
  BY <1>1 DEF KnownNow
<1>3. \A a : /\ Rseq(jzqs', a) = Rseq(jzqs, a) /\ Pfc(jzqs', a) = Pfc(jzqs, a)
             /\ On(jzqs', a) => On(jzqs, a)
  BY <1>1 DEF Rseq, Pfc, On, Quiet
<1>4. UNCHANGED <<RseqNow, PfcNow>>
  BY <1>3 DEF RseqNow, PfcNow
<1>5. \A a \in Addr : OnlineNow'[a] => OnlineNow[a]
  BY <1>3 DEF OnlineNow
<1>6. OnlineNow' \in [Addr -> BOOLEAN]
  <2>1. \A a : On(jzqs', a) \in BOOLEAN  BY DEF On
  <2>2. QED  BY <2>1 DEF OnlineNow
<1>7. QED  BY <1>2, <1>4, <1>5, <1>6

(* Entries replaced in place: the same addresses are known.                *)
LEMMA SameKnown ==
  ASSUME jzqs \in Seq(Jzq), Kept(jzqs, jzqs'), Len(jzqs') = Len(jzqs)
  PROVE  KnownNow' = KnownNow
<1>1. /\ jzqs' \in Seq(Jzq) /\ DOMAIN jzqs = 1 .. Len(jzqs)
      /\ DOMAIN jzqs' = 1 .. Len(jzqs)
      /\ \A i \in 1 .. Len(jzqs) : jzqs'[i].a = jzqs[i].a
  BY SeqIsFunction DEF Kept
<1>2. \A a : Entries(jzqs', a) = Entries(jzqs, a)
  BY <1>1 DEF Entries
<1>3. \A a : Known(jzqs', a) <=> Known(jzqs, a)
  BY <1>2 DEF Known
<1>4. QED  BY <1>3 DEF KnownNow

(* Reloading logs nobody out.                                              *)
LEMMA LoadMap ==
  ASSUME jzqs \in Seq(Jzq), FreshJzq
  PROVE  OnlineNow' = OnlineNow
<1>1. jzqs' = LoadJzq(jzqs)
  BY DEF FreshJzq
<1>2. /\ Kept(jzqs, jzqs')
      /\ \A i \in 1 .. Len(jzqs) : jzqs'[i].online = jzqs[i].online
  BY <1>1, LoadKeeps
<1>3. ASSUME NEW a PROVE On(jzqs', a) = On(jzqs, a)
  <2>1. CASE Known(jzqs, a)
    <3>1. Known(jzqs', a) /\ getJzq(jzqs', a) = getJzq(jzqs, a)
      BY <1>2, <2>1, GetJzqStable DEF Kept
    <3>2. getJzq(jzqs, a) \in 1 .. Len(jzqs)
      BY <2>1, GetJzqFirst
    <3>3. First(jzqs', a).online = First(jzqs, a).online
      BY <1>2, <3>1, <3>2 DEF First
    <3>4. QED  BY <2>1, <3>1, <3>3 DEF On
  <2>2. CASE ~Known(jzqs, a)
    <3>1. Known(jzqs', a) => Quiet(First(jzqs', a))
      BY <1>2, <2>2, KeptFirst
    <3>2. QED  BY <2>2, <3>1 DEF On, Quiet
  <2>3. QED  BY <2>1, <2>2
<1>4. QED  BY <1>3, Zenon DEF OnlineNow

(* The mapped variables of a known address are the fields of its first     *)
(* entry.                                                                  *)
LEMMA OnlineType ==
  ASSUME jzqs \in Seq(Jzq), NEW a, Known(jzqs, a)
  PROVE  /\ First(jzqs, a) \in Jzq
         /\ First(jzqs, a).online \in BOOLEAN
         /\ (a \in Addr => OnlineNow[a] = First(jzqs, a).online)
         /\ (a \in Addr => RseqNow[a] = First(jzqs, a).rseq)
         /\ (a \in Addr => PfcNow[a] = First(jzqs, a).pfc)
<1>1. First(jzqs, a) \in Jzq
  BY FirstType
<1>2. First(jzqs, a).online \in BOOLEAN
  BY <1>1 DEF Jzq
<1>3. a \in Addr => RseqNow[a] = First(jzqs, a).rseq /\ PfcNow[a] = First(jzqs, a).pfc
  BY DEF RseqNow, PfcNow, Rseq, Pfc
<1>4. a \in Addr => OnlineNow[a] = First(jzqs, a).online
  BY <1>2 DEF OnlineNow, On
<1>5. QED  BY <1>1, <1>2, <1>3, <1>4

(* The actions of ConcentratorLink in terms of the abstract state above.   *)
LEMMA LoadAction ==
  Link!Load <=> /\ KnownNow' \in SUBSET Addr /\ KnownNow \subseteq KnownNow'
                /\ UNCHANGED <<OnlineNow, RseqNow, PfcNow>>
BY DEF Link!Load, KnownNow, OnlineNow, RseqNow, PfcNow, Rseq, Pfc, On,
   First, Online, State

(* GoOffline of the abstract module, in the mapped variables.              *)
LEMMA OfflineAction ==
  Link!GoOffline <=> /\ OnlineNow' \in [Addr -> BOOLEAN]
                     /\ \A a \in Addr : OnlineNow'[a] => OnlineNow[a]
                     /\ UNCHANGED <<KnownNow, RseqNow, PfcNow>>
BY DEF Link!GoOffline, KnownNow, OnlineNow, RseqNow, PfcNow, Rseq, Pfc, On,
   First, Online, State

(* Login of the abstract module, in the mapped variables.                  *)
LEMMA LoginAction ==
  ASSUME NEW a, NEW s, NEW ack
  PROVE  Link!Login(a, s, ack) <=>
            /\ KnownNow' = KnownNow \cup {a}
            /\ OnlineNow' = [OnlineNow EXCEPT ![a] = TRUE]
            /\ RseqNow' = [RseqNow EXCEPT ![a] = IF ack THEN (s + 1) % SeqMod ELSE s]
            /\ UNCHANGED PfcNow
BY DEF Link!Login, Link!Next1, KnownNow, OnlineNow, RseqNow, PfcNow, Rseq, Pfc, On,
   First, Online, State

(* Report of the abstract module, in the mapped variables.                 *)
LEMMA ReportAction ==
  ASSUME NEW a, NEW on, NEW ack
  PROVE  Link!Report(a, on, ack) <=>
            /\ KnownNow' = KnownNow \cup {a}
            /\ OnlineNow' = [OnlineNow EXCEPT ![a] = on]
            /\ RseqNow' = [RseqNow EXCEPT ![a] = IF ack THEN (@ + 1) % SeqMod ELSE @]
            /\ UNCHANGED PfcNow
BY DEF Link!Report, Link!Next1, KnownNow, OnlineNow, RseqNow, PfcNow, Rseq, Pfc, On,
   First, Online, State

(* Answer of the abstract module, in the mapped variables.                 *)
LEMMA AnswerAction ==
  ASSUME NEW a
  PROVE  Link!Answer(a) <=>
            /\ a \in KnownNow
            /\ RseqNow' = [RseqNow EXCEPT ![a] = (@ + 1) % SeqMod]
            /\ UNCHANGED <<KnownNow, OnlineNow, PfcNow>>
BY DEF Link!Answer, Link!Next1, KnownNow, OnlineNow, RseqNow, PfcNow, Rseq, Pfc, On,
   First, Online, State

(* Request of the abstract module, in the mapped variables.                *)
LEMMA RequestAction ==
  ASSUME NEW a
  PROVE  Link!Request(a) <=>
            /\ a \in KnownNow
            /\ PfcNow' = [PfcNow EXCEPT ![a] = (@ + 1) % PfcMod]
            /\ UNCHANGED <<KnownNow, OnlineNow, RseqNow>>
BY DEF Link!Request, KnownNow, OnlineNow, RseqNow, PfcNow, Rseq, Pfc, On,
   First, Online, State

(* Every handler is one step of ConcentratorLink, or none.                 *)
LEMMA ReplacedInPlace ==
  ASSUME TypeOK, Kept(jzqs, jzqs'), Len(jzqs') = Len(jzqs)
  PROVE  Link!Next
<1>1. Link!GoOffline
  BY KeptMap, SameKnown, OfflineAction DEF TypeOK
<1>2. QED  BY <1>1 DEF Link!Next

(* A step that leaves the list alone is a stuttering step of the abstract  *)
(* module.                                                                 *)
LEMMA Untouched ==
  ASSUME jzqs' = jzqs
  PROVE  UNCHANGED Link!link
BY DEF Link!link, Known, Entries, getJzq, Online, State

(* Sending a request is a Request of the abstract module.                  *)
LEMMA RequestStep ==
  ASSUME TypeOK, NEW n, RequestData(n)
  PROVE  Link!Next \/ UNCHANGED Link!link
<1> DEFINE a == conns[n].a
           e == [First(jzqs, a) EXCEPT !.pfc = (@ + 1) % PfcMod]
<1>1. CASE jzqs' = jzqs
  BY <1>1, Untouched
<1>2. CASE Known(jzqs, a) /\ Changed(jzqs, jzqs', a, e)
  <2>1. First(jzqs, a) \in Jzq /\ a \in Addr
    BY <1>2, FirstType DEF TypeOK, Jzq
  <2>2. /\ e.online = OnlineNow[a] /\ e.online \in BOOLEAN
        /\ e.rseq = RseqNow[a]
        /\ e.pfc = (PfcNow[a] + 1) % PfcMod
    BY <1>2, <2>1, OnlineType DEF TypeOK, Jzq
  <2>3. a \in KnownNow
    BY <1>2, <2>1 DEF KnownNow
  <2> HIDE DEF a, e
  <2>4. /\ KnownNow' = KnownNow \cup {a}
        /\ OnlineNow' = [OnlineNow EXCEPT ![a] = e.online]
        /\ RseqNow' = [RseqNow EXCEPT ![a] = e.rseq]
        /\ PfcNow' = [PfcNow EXCEPT ![a] = e.pfc]
    BY <1>2, <2>1, <2>2, ChangedMap DEF TypeOK
  <2>5. UNCHANGED <<KnownNow, OnlineNow, RseqNow>>
    BY <2>2, <2>3, <2>4 DEF OnlineNow, RseqNow
  <2>6. Link!Request(a)
    BY <2>2, <2>3, <2>4, <2>5, RequestAction
  <2>7. QED  BY <2>1, <2>6 DEF Link!Next
<1>3. QED  BY <1>1, <1>2, RequestEffect DEF TypeOK

(* Closing a connection is a GoOffline of the abstract module.             *)
LEMMA CloseStep ==
  ASSUME TypeOK, NEW b, CloseConnection(b)
  PROVE  Link!Next \/ UNCHANGED Link!link
<1>1. CASE jzqs' = jzqs
  BY <1>1, Untouched
<1>2. CASE \E a : /\ Known(jzqs, a)
                 /\ Changed(jzqs, jzqs', a, [First(jzqs, a) EXCEPT !.online = FALSE])
  <2>1. PICK a : /\ Known(jzqs, a)
                 /\ Changed(jzqs, jzqs', a, [First(jzqs, a) EXCEPT !.online = FALSE])
    BY <1>2
  <2> DEFINE e == [First(jzqs, a) EXCEPT !.online = FALSE]
  <2>2. First(jzqs, a) \in Jzq /\ a \in Addr
    <3>1. First(jzqs, a) \in Jzq /\ First(jzqs, a).a = a
      BY <2>1, FirstType DEF TypeOK
    <3>2. QED  BY <3>1 DEF Jzq
  <2>3. e.online = FALSE /\ e.rseq = RseqNow[a] /\ e.pfc = PfcNow[a]
    BY <2>1, <2>2, OnlineType DEF TypeOK, Jzq
  <2>4. a \in KnownNow
    BY <2>1, <2>2 DEF KnownNow
  <2>10. Changed(jzqs, jzqs', a, e)
    BY <2>1
  <2> HIDE DEF e
  <2>5. /\ KnownNow' = KnownNow \cup {a}
        /\ OnlineNow' = [OnlineNow EXCEPT ![a] = e.online]
        /\ RseqNow' = [RseqNow EXCEPT ![a] = e.rseq]
        /\ PfcNow' = [PfcNow EXCEPT ![a] = e.pfc]
    <3>1. e.online \in BOOLEAN
      BY <2>3
    <3>2. QED  BY <2>2, <2>10, <3>1, ChangedMap DEF TypeOK
  <2>6. UNCHANGED <<KnownNow, RseqNow, PfcNow>>
    BY <2>3, <2>4, <2>5 DEF RseqNow, PfcNow
  <2>7. \A x : On(jzqs, x) \in BOOLEAN
    BY DEF On
  <2>8. OnlineNow \in [Addr -> BOOLEAN]
    BY <2>7 DEF OnlineNow
  <2>9. Link!GoOffline
    <3>1. OnlineNow' \in [Addr -> BOOLEAN]
      BY <2>3, <2>5, <2>8
    <3>2. \A x \in Addr : OnlineNow'[x] => OnlineNow[x]
      BY <2>3, <2>5, <2>8
    <3>3. QED  BY <2>6, <3>1, <3>2, OfflineAction
  <2>11. QED  BY <2>9 DEF Link!Next
<1>3. QED  BY <1>1, <1>2, CloseEffect DEF TypeOK

(* Reloading the list is a Load of the abstract module.                    *)
LEMMA FreshStep ==
  ASSUME TypeOK, FreshJzq
  PROVE  Link!Next
<1>1. Kept(jzqs, jzqs')
  BY LoadKeeps DEF FreshJzq, TypeOK
<1>2. KnownNow' \in SUBSET Addr
  BY DEF KnownNow
<1>3. Link!Load
  BY <1>1, <1>2, KeptMap, LoadMap, LoadAction DEF TypeOK
<1>4. QED  BY <1>3 DEF Link!Next

(* What LoginState makes of the entry a link frame works on.               *)
LEMMA LinkStateFields ==
  ASSUME TypeOK, NEW p \in Package, IsLink(p)
  PROVE  /\ LinkState(p) \in Jzq
         /\ LinkState(p).pfc = PfcNow[p.a]
         /\ p.Fn = 1 => LinkState(p).online = TRUE /\ LinkState(p).rseq = p.pseq
         /\ p.Fn = 2 => LinkState(p).online = FALSE /\ LinkState(p).rseq = RseqNow[p.a]
         /\ p.Fn = 3 => LinkState(p).online = TRUE /\ LinkState(p).rseq = RseqNow[p.a]
<1> DEFINE f == Listed(jzqs, p.a)
<1>1. p.a \in Addr /\ p.Fn \in 1 .. 3 /\ p.pseq \in 0 .. SeqMod - 1
  BY DEF Package, IsLink
<1>2. f \in Jzq /\ f.rseq = RseqNow[p.a] /\ f.pfc = PfcNow[p.a]
  <2>1. CASE Known(jzqs, p.a)
    BY <1>1, <2>1, OnlineType DEF TypeOK, Listed
  <2>2. CASE ~Known(jzqs, p.a)
    <3>1. NewJzq(p.a, FALSE) \in Jzq
      BY <1>1, LimitAssumption, SeqAssumption DEF NewJzq, Jzq
    <3>2. NewJzq(p.a, FALSE).rseq = 0 /\ NewJzq(p.a, FALSE).pfc = 0
      BY DEF NewJzq
    <3>3. QED  BY <1>1, <2>2, <3>1, <3>2 DEF Listed, RseqNow, PfcNow, Rseq, Pfc
  <2>3. QED  BY <2>1, <2>2
<1> HIDE DEF f
<1>3. LinkState(p) = LoginState(f, p.Fn, p.pseq)
  BY DEF LinkState, f
<1>4. LinkState(p) \in Jzq
  BY <1>1, <1>2, <1>3, LoginStateType
<1>5. CASE p.Fn = 1
  <2>1. LinkState(p) = [f EXCEPT !.online = TRUE, !.rseq = p.pseq]
    BY <1>3, <1>5 DEF LoginState
  <2>2. QED  BY <1>2, <1>4, <1>5, <2>1 DEF Jzq
<1>6. CASE p.Fn = 2
  <2>1. LinkState(p) = [f EXCEPT !.online = FALSE]
    BY <1>3, <1>6 DEF LoginState
  <2>2. QED  BY <1>2, <1>4, <1>6, <2>1 DEF Jzq
<1>7. CASE p.Fn = 3
  <2>1. LinkState(p) = [f EXCEPT !.online = TRUE, !.heart = 0]
    BY <1>3, <1>7 DEF LoginState
  <2>2. QED  BY <1>2, <1>4, <1>7, <2>1 DEF Jzq
<1>8. p.Fn = 1 \/ p.Fn = 2 \/ p.Fn = 3
  BY <1>1
<1>9. QED  BY <1>5, <1>6, <1>7, <1>8

(* Receiving a package is a Login, Report or Answer of the abstract        *)
(* module.                                                                 *)
LEMMA RecvStep ==
  ASSUME TypeOK, NEW b \in ConnId, NEW p \in Package, RecvPackage(b, p)
  PROVE  Link!Next \/ UNCHANGED Link!link
<1> DEFINE a == p.a
<1>1. a \in Addr
  BY DEF Package
<1>2. CASE IsLink(p)
  <2> DEFINE e == IF p.con THEN LinkAnswered(p) ELSE LinkState(p)
  <2>1. p.Fn \in {1, 2, 3} /\ p.pseq \in 0 .. SeqMod - 1 /\ p.con \in BOOLEAN
    <3>1. p.Fn \in 1 .. 3 /\ p.pseq \in 0 .. SeqMod - 1 /\ p.con \in BOOLEAN
      BY <1>2 DEF Package, IsLink
    <3>2. p.Fn = 1 \/ p.Fn = 2 \/ p.Fn = 3
      BY <3>1
    <3>3. QED  BY <3>1, <3>2
  <2>2. LinkState(p) \in Jzq /\ LinkState(p).pfc = PfcNow[a]
    BY <1>2, LinkStateFields
  <2>3. /\ e.online = LinkState(p).online /\ e.online \in BOOLEAN
        /\ e.pfc = PfcNow[a]
        /\ e.rseq = IF p.con THEN (LinkState(p).rseq + 1) % SeqMod
                             ELSE LinkState(p).rseq
    BY <2>2 DEF LinkAnswered, Jzq
  <2>4. Changed(jzqs, jzqs', a, e)
    BY <1>2, RecvEffect DEF TypeOK
  <2> HIDE DEF e, a
  <2>5. /\ KnownNow' = KnownNow \cup {a}
        /\ OnlineNow' = [OnlineNow EXCEPT ![a] = e.online]
        /\ RseqNow' = [RseqNow EXCEPT ![a] = e.rseq]
        /\ PfcNow' = [PfcNow EXCEPT ![a] = e.pfc]
    BY <1>1, <2>3, <2>4, ChangedMap DEF TypeOK
  <2>6. UNCHANGED PfcNow
    BY <2>3, <2>5 DEF PfcNow
  <2>7. CASE p.Fn = 1
    <3>1. LinkState(p).online = TRUE /\ LinkState(p).rseq = p.pseq
      BY <1>2, <2>7, LinkStateFields
    <3>2. Link!Login(a, p.pseq, p.con)
      BY <2>3, <2>5, <2>6, <3>1, LoginAction
    <3>3. QED  BY <1>1, <2>1, <3>2 DEF Link!Next
  <2>8. CASE p.Fn # 1
    <3>1. LinkState(p).rseq = RseqNow[a]
      BY <1>2, <2>1, <2>8, LinkStateFields DEF a
    <3>2. Link!Report(a, e.online, p.con)
      BY <2>3, <2>5, <2>6, <3>1, ReportAction
    <3>3. QED  BY <1>1, <2>1, <2>3, <3>2 DEF Link!Next
  <2>9. QED  BY <2>7, <2>8
<1>3. CASE ~IsLink(p) /\ jzqs' = jzqs
  BY <1>3, Untouched
<1>4. CASE Known(jzqs, a) /\ Changed(jzqs, jzqs', a, Answered(p))
  <2> DEFINE e == Answered(p)
  <2>1. First(jzqs, a) \in Jzq
    BY <1>4, FirstType DEF TypeOK
  <2>2. /\ e.online = OnlineNow[a] /\ e.online \in BOOLEAN
        /\ e.rseq = (RseqNow[a] + 1) % SeqMod
        /\ e.pfc = PfcNow[a]
    BY <1>1, <1>4, <2>1, OnlineType DEF TypeOK, Jzq, Answered
  <2>3. a \in KnownNow
    BY <1>1, <1>4 DEF KnownNow
  <2> HIDE DEF a, e
  <2>4. /\ KnownNow' = KnownNow \cup {a}
        /\ OnlineNow' = [OnlineNow EXCEPT ![a] = e.online]
        /\ RseqNow' = [RseqNow EXCEPT ![a] = e.rseq]
        /\ PfcNow' = [PfcNow EXCEPT ![a] = e.pfc]
    BY <1>1, <1>4, <2>2, ChangedMap DEF TypeOK, e
  <2>5. UNCHANGED <<KnownNow, OnlineNow, PfcNow>>
    BY <2>2, <2>3, <2>4 DEF OnlineNow, PfcNow
  <2>6. Link!Answer(a)
    BY <2>2, <2>3, <2>4, <2>5, AnswerAction
  <2>7. QED  BY <1>1, <2>6 DEF Link!Next
<1>5. QED  BY <1>2, <1>3, <1>4, RecvEffect DEF TypeOK

(* The list of concentrators, whatever reloads append to it, behaves as    *)
(* one login state and two counters per address.                           *)
THEOREM ListImplementsLink == Spec => ImplementsLink
<1>1. Init => Link!Init
  <2> SUFFICES ASSUME Init PROVE Link!Init
    OBVIOUS
  <2>1. <<>> \in Seq(Jzq) /\ \A a : ~Known(<<>>, a)
    BY EmptySeq DEF Known, Entries
  <2>2. \A a : Known(jzqs, a) => Quiet(First(jzqs, a))
    BY <2>1, LoadKeeps, KeptFirst DEF Init
  <2>3. \A a \in Addr : ~Online(a)
    BY <2>2 DEF Online, Quiet, First
  <2>4. \A a \in Addr : Known(jzqs, a) => State(a).rseq = 0 /\ State(a).pfc = 0
    BY <2>2 DEF Quiet, First, State
  <2>5. [a \in Addr |-> Online(a)] = [a \in Addr |-> FALSE]
    <3>1. \A a \in Addr : Online(a) = FALSE
      BY <2>3 DEF Online
    <3>2. QED  BY <3>1, Zenon
  <2>6. [a \in Addr |-> IF Known(jzqs, a) THEN State(a).rseq ELSE 0]
          = [a \in Addr |-> 0]
    BY <2>4
  <2>7. [a \in Addr |-> IF Known(jzqs, a) THEN State(a).pfc ELSE 0]
          = [a \in Addr |-> 0]
    BY <2>4
  <2>8. QED  BY <2>5, <2>6, <2>7 DEF Link!Init
<1>2. TypeOK /\ [Next]_vars => [Link!Next]_Link!link
  <2> SUFFICES ASSUME TypeOK, [Next]_vars PROVE Link!Next \/ UNCHANGED Link!link
    OBVIOUS
  <2>1. ASSUME NEW b \in ConnId, NEW p \in Package, RecvPackage(b, p)
        PROVE  Link!Next \/ UNCHANGED Link!link
    BY <2>1, RecvStep
  <2>2. ASSUME NEW b \in ConnId, CloseConnection(b)
        PROVE  Link!Next \/ UNCHANGED Link!link
    BY <2>2, CloseStep
  <2>3. CASE CheckConnection
    BY <2>3, CheckKeeps, ReplacedInPlace DEF TypeOK
  <2>4. CASE Tick
    BY <2>4, TickKeeps, ReplacedInPlace DEF TypeOK
  <2>5. CASE FreshJzq
    BY <2>5, FreshStep
  <2>6. ASSUME NEW a \in Addr, SyncRequest(a)
        PROVE  Link!Next \/ UNCHANGED Link!link
    BY <2>6, RequestStep DEF SyncRequest
  <2>7. CASE SweepElement
    BY <2>7, RequestStep DEF SweepElement
  <2>8. CASE SweepEntry
    <3>1. sweep.i \in 1 .. Len(jzqs) /\ jzqs \in Seq(Jzq)
      BY <2>8, SeqIsFunction DEF SweepEntry, Sweep, TypeOK
    <3>2. CASE jzqs' = [jzqs EXCEPT ![sweep.i].get = 0]
      BY <3>1, <3>2, RestartKeeps, ReplacedInPlace
    <3>3. CASE jzqs' = jzqs
      BY <3>3, Untouched
    <3>4. QED  BY <2>8, <3>2, <3>3 DEF SweepEntry
  <2>9. CASE jzqs' = jzqs
    BY <2>9, Untouched
  <2>10. QED
    BY <2>1, <2>2, <2>3, <2>4, <2>5, <2>6, <2>7, <2>8, <2>9
       DEF Next, vars, NewConnection, KwhTimer
<1>3. QED  BY <1>1, <1>2, TypeCorrect, PTL DEF Spec, ImplementsLink, Link!Spec

(***************************************************************************)
(* Who is online is on a connection.                                       *)
(***************************************************************************)
Carries(cs, a) == \E i \in 1 .. Len(cs) : cs[i].a = a /\ cs[i].set
Linked == \A a \in Addr : On(jzqs, a) => Carries(conns, a)

(* What holds of every address carried by a connection.                    *)
LEMMA LinkedMeans ==
  ASSUME TypeOK
  PROVE  Linked <=> \A a \in Addr : Online(a) => \E i \in Links(a) : conns[i].set
BY SeqIsFunction DEF TypeOK, Linked, Carries, On, Online, First, Links

(* Entries kept bring nobody online.                                       *)
LEMMA KeptOffline ==
  ASSUME jzqs \in Seq(Jzq), Kept(jzqs, jzqs')
  PROVE  \A a \in Addr : On(jzqs', a) => On(jzqs, a)
BY KeptFirst DEF On, Quiet

(* Neither does an entry changed but for its login state.                  *)
LEMMA ChangedOffline ==
  ASSUME NEW js, NEW ks, NEW a, NEW e, Changed(js, ks, a, e)
  PROVE  \A x \in Addr : On(ks, x) => \/ x # a /\ On(js, x)
                                      \/ x = a /\ e.online
BY DEF Changed, On

(* A request brings nobody online.                                         *)
LEMMA RequestOffline ==
  ASSUME TypeOK, NEW n, RequestData(n)
  PROVE  \A a \in Addr : On(jzqs', a) => On(jzqs, a)
<1> DEFINE a == conns[n].a
           e == [First(jzqs, a) EXCEPT !.pfc = (@ + 1) % PfcMod]
<1>1. CASE jzqs' = jzqs
  BY <1>1
<1>2. CASE Known(jzqs, a) /\ Changed(jzqs, jzqs', a, e)
  <2>1. First(jzqs, a) \in Jzq
    BY <1>2, FirstType DEF TypeOK
  <2>2. e.online = First(jzqs, a).online
    BY <2>1 DEF Jzq
  <2>3. e.online => On(jzqs, a)
    BY <1>2, <2>2 DEF On
  <2> HIDE DEF a, e
  <2>4. QED  BY <1>2, <2>3, ChangedOffline
<1>3. QED  BY <1>1, <1>2, RequestEffect DEF TypeOK

(* Only a package brings its sender online.                                *)
LEMMA RecvOnline ==
  ASSUME TypeOK, NEW b \in ConnId, NEW p \in Package, RecvPackage(b, p)
  PROVE  \A a \in Addr : On(jzqs', a) => a = p.a \/ On(jzqs, a)
<1>1. CASE jzqs' = jzqs
  BY <1>1
<1>2. CASE \E e : Changed(jzqs, jzqs', p.a, e)
  BY <1>2, ChangedOffline
<1>3. QED  BY <1>1, <1>2, RecvEffect DEF TypeOK

(* A connection closed leaves nobody online whom it alone carried.         *)
LEMMA CloseOffline ==
  ASSUME TypeOK, NEW b \in ConnId, CloseConnection(b)
  PROVE  \A x \in Addr :
           On(jzqs', x) => On(jzqs, x) /\ x # conns[getConnection(b)].a
<1> DEFINE a == conns[getConnection(b)].a
<1>1. jzqs' = LoggedOut(jzqs, a)
  BY DEF CloseConnection
<1> HIDE DEF a
<1>2. CASE Known(jzqs, a)
  <2>1. First(jzqs, a) \in Jzq
    BY <1>2, FirstType DEF TypeOK
  <2> DEFINE e == [First(jzqs, a) EXCEPT !.online = FALSE]
  <2>2. ~e.online
    BY <2>1 DEF Jzq
  <2>3. Changed(jzqs, jzqs', a, e)
    BY <1>1, <1>2, LoggedOutEffect DEF TypeOK
  <2> HIDE DEF e
  <2>4. \A x \in Addr : On(jzqs', x) => On(jzqs, x) /\ x # a
    BY <2>2, <2>3, ChangedOffline
  <2>5. QED  BY <2>4 DEF a
<1>3. CASE ~Known(jzqs, a)
  <2>1. jzqs' = jzqs
    BY <1>1, <1>3 DEF LoggedOut
  <2>2. \A x \in Addr : On(jzqs', x) => On(jzqs, x) /\ x # a
    BY <1>3, <2>1 DEF On
  <2>3. QED  BY <2>2 DEF a
<1>4. QED  BY <1>2, <1>3

(* getConnection finds an element of the list.                             *)
LEMMA ConnFound ==
  ASSUME conns \in Seq(Conn), NEW b \in Open
  PROVE  getConnection(b) \in 1 .. Len(conns) /\ conns[getConnection(b)] \in Conn
<1>1. getConnection(b) \in DOMAIN conns
  BY DEF Open, getConnection
<1>2. QED  BY <1>1, SeqIsFunction

(* The package names whom the connection carries from now on, and without  *)
(* relays that is whom it carried before.                                  *)
LEMMA RecvLinked ==
  ASSUME TypeOK, Linked, ~Relays,
         NEW b \in ConnId, NEW p \in Package, RecvPackage(b, p)
  PROVE  Linked'
<1> DEFINE n == getConnection(b)
<1>1. n \in 1 .. Len(conns) /\ conns[n] \in Conn /\ conns \in Seq(Conn)
  BY ConnFound DEF RecvPackage, TypeOK
<1>2. /\ conns[n].set => conns[n].a = p.a
      /\ conns' = [conns EXCEPT ![n].a = p.a, ![n].set = TRUE]
  BY DEF RecvPackage
<1> DEFINE c == [conns[n] EXCEPT !.a = p.a, !.set = TRUE]
<1>3. c.a = p.a /\ c.set /\ c \in Conn
  BY <1>1 DEF Conn, Package
<1>4. conns' = [conns EXCEPT ![n] = c]
  BY <1>1, <1>2, SeqIsFunction
<1> HIDE DEF n, c
<1>5. /\ Len(conns') = Len(conns)
      /\ \A i \in 1 .. Len(conns) : conns'[i] = IF i = n THEN c ELSE conns[i]
  BY <1>1, <1>3, <1>4, ExceptSeq
<1>6. Carries(conns', p.a)
  BY <1>1, <1>3, <1>5 DEF Carries
<1>7. \A x : Carries(conns, x) => Carries(conns', x)
  BY <1>2, <1>3, <1>5 DEF Carries
<1>8. QED  BY <1>6, <1>7, RecvOnline DEF Linked

(* Closing takes one connection from the list, and its concentrator        *)
(* offline.                                                                *)
LEMMA CloseLinked ==
  ASSUME TypeOK, Linked, NEW b \in ConnId, CloseConnection(b)
  PROVE  Linked'
<1> DEFINE n == getConnection(b)
<1>1. n \in 1 .. Len(conns) /\ conns \in Seq(Conn) /\ Len(conns) \in Nat
  BY ConnFound, SeqIsFunction DEF CloseConnection, TypeOK
<1>2. conns' = [i \in 1 .. Len(conns) - 1 |-> IF i < n THEN conns[i] ELSE conns[i + 1]]
  BY DEF CloseConnection, Without
<1>3. conns' \in Seq(Conn)
  BY ConnsType DEF Next, TypeOK
<1> HIDE DEF n
<1>4. Len(conns') = Len(conns) - 1
  <2>1. DOMAIN conns' = 1 .. Len(conns) - 1
    BY <1>2
  <2>2. DOMAIN conns' = 1 .. Len(conns') /\ Len(conns') \in Nat
    BY <1>3, SeqIsFunction
  <2>3. QED  BY <1>1, <2>1, <2>2
<1>5. ASSUME NEW x, x # conns[n].a, Carries(conns, x)
      PROVE  Carries(conns', x)
  <2>1. PICK i \in 1 .. Len(conns) : conns[i].a = x /\ conns[i].set
    BY <1>5 DEF Carries
  <2>2. i # n
    BY <1>5, <2>1
  <2>3. CASE i < n
    <3>1. i \in 1 .. Len(conns') /\ conns'[i] = conns[i]
      BY <1>1, <1>2, <1>4, <2>3
    <3>2. QED  BY <2>1, <3>1 DEF Carries
  <2>4. CASE i > n
    <3>1. i - 1 \in 1 .. Len(conns') /\ conns'[i - 1] = conns[i]
      BY <1>1, <1>2, <1>4, <2>4
    <3>2. QED  BY <2>1, <3>1 DEF Carries
  <2>5. QED  BY <1>1, <2>2, <2>3, <2>4
<1>6. QED  BY <1>5, CloseOffline DEF Linked, n

(* A concentrator on a connection of its own is not online without one:    *)
(* the connection is set by the package that logs it in, and its           *)
(* destructor logs out whom it carried (~ConnectionPower).                 *)
THEOREM OnlineIsLinked == Spec => []OnlineHasLink
<1>1. Init => Linked
  <2> SUFFICES ASSUME Init PROVE Linked
    OBVIOUS
  <2>1. <<>> \in Seq(Jzq) /\ \A a : ~Known(<<>>, a)
    BY EmptySeq DEF Known, Entries
  <2>2. \A a : Known(jzqs, a) => Quiet(First(jzqs, a))
    BY <2>1, LoadKeeps, KeptFirst DEF Init
  <2>3. QED  BY <2>2 DEF Linked, On, Quiet
<1>2. TypeOK /\ ~Relays /\ Linked /\ [Next]_vars => Linked'
  <2> SUFFICES ASSUME TypeOK, ~Relays, Linked, [Next]_vars PROVE Linked'
    OBVIOUS
  <2>1. ASSUME conns' = conns, \A a \in Addr : On(jzqs', a) => On(jzqs, a)
        PROVE  Linked'
    BY <2>1 DEF Linked
  <2>2. ASSUME NEW b \in ConnId, NewConnection(b) PROVE Linked'
    <3>1. PICK g \in Addr \cup {NoAddr} :
            conns' = Append(conns, [bev |-> b, a |-> g, set |-> FALSE])
      BY <2>2 DEF NewConnection
    <3>2. [bev |-> b, a |-> g, set |-> FALSE] \in Conn
      BY DEF Conn
    <3>3. /\ Len(conns') = Len(conns) + 1
          /\ \A i \in 1 .. Len(conns) : conns'[i] = conns[i]
      BY <3>1, <3>2, AppendProperties DEF TypeOK
    <3>4. \A x : Carries(conns, x) => Carries(conns', x)
      <4>1. Len(conns) \in Nat
        BY SeqIsFunction DEF TypeOK
      <4>2. QED  BY <3>3, <4>1 DEF Carries
    <3>5. jzqs' = jzqs
      BY <2>2 DEF NewConnection
    <3>6. QED  BY <3>4, <3>5 DEF Linked
  <2>3. ASSUME NEW b \in ConnId, NEW p \in Package, RecvPackage(b, p) PROVE Linked'
    BY <2>3, RecvLinked
  <2>4. ASSUME NEW b \in ConnId, CloseConnection(b) PROVE Linked'
    BY <2>4, CloseLinked
  <2>5. CASE CheckConnection
    BY <2>1, <2>5, CheckKeeps, KeptOffline DEF TypeOK, CheckConnection
  <2>6. CASE Tick
    BY <2>1, <2>6, TickKeeps, KeptOffline DEF TypeOK, Tick
  <2>7. CASE FreshJzq
    BY <2>1, <2>7, LoadKeeps, KeptOffline DEF TypeOK, FreshJzq
  <2>8. ASSUME NEW a \in Addr, SyncRequest(a) PROVE Linked'
    BY <2>1, <2>8, RequestOffline DEF SyncRequest
  <2>9. CASE SweepElement
    BY <2>1, <2>9, RequestOffline DEF SweepElement
  <2>10. CASE SweepEntry
    <3>1. sweep.i \in 1 .. Len(jzqs) /\ jzqs \in Seq(Jzq)
      BY <2>10, SeqIsFunction DEF SweepEntry, Sweep, TypeOK
    <3>2. CASE jzqs' = [jzqs EXCEPT ![sweep.i].get = 0]
      BY <2>1, <2>10, <3>1, <3>2, RestartKeeps, KeptOffline DEF SweepEntry
    <3>3. CASE jzqs' = jzqs
      BY <2>1, <2>10, <3>3 DEF SweepEntry
    <3>4. QED  BY <2>10, <3>2, <3>3 DEF SweepEntry
  <2>11. CASE jzqs' = jzqs /\ conns' = conns
    BY <2>1, <2>11
  <2>12. QED
    BY <2>2, <2>3, <2>4, <2>5, <2>6, <2>7, <2>8, <2>9, <2>10, <2>11
       DEF Next, vars, KwhTimer
<1>3. TypeOK /\ Linked => OnlineHasLink
  BY LinkedMeans DEF OnlineHasLink
<1>4. CASE Relays
  <2>1. OnlineHasLink
    BY <1>4 DEF OnlineHasLink
  <2>2. QED  BY <2>1, PTL
<1>5. CASE ~Relays
  <2>1. TypeOK /\ Linked /\ [Next]_vars => Linked'
    BY <1>2, <1>5
  <2>2. QED  BY <1>1, <1>3, <2>1, TypeCorrect, PTL DEF Spec
<1>6. QED  BY <1>4, <1>5

(***************************************************************************)
(* The numbers of the frames (JzqTraffic): while a concentrator is listed, *)
(* its two counters are one ahead of the last request and of the last      *)
(* response sent to it.                                                    *)
(***************************************************************************)

(* The remainder of a number between two multiples.                        *)
LEMMA RemainderIs ==
  ASSUME NEW S \in Nat \ {0}, NEW q \in Int, NEW r \in 0 .. S - 1
  PROVE  (q * S + r) % S = r
<1> DEFINE x == q * S + r
           d == q - (x \div S)
<1>1. x \in Int
  BY SMT
<1>2. x = (x \div S) * S + (x % S) /\ x % S \in 0 .. S - 1
  BY <1>1, Z3
<1>3. d * S = (x % S) - r
  BY <1>1, <1>2, Z3
<1>4. d \in Int /\ d * S > -S /\ d * S < S
  BY <1>1, <1>2, <1>3
<1> HIDE DEF d
<1>5. d > -1 /\ d < 1
  BY <1>4, Z3
<1>6. q = x \div S
  BY <1>1, <1>4, <1>5 DEF d
<1>7. QED  BY <1>1, <1>2, <1>6, Z3

(* The low bits of a wrapped multiple of SeqMod.                           *)
LEMMA LowBits ==
  ASSUME NEW S \in Nat \ {0}, NEW k \in Nat \ {0}, NEW x \in 0 .. k * S - 1
  PROVE  ((x + 1) % (k * S)) % S = ((x % S) + 1) % S
<1> DEFINE q == x \div S
           r == x % S
<1>1. k * S \in Nat \ {0} /\ x \in Nat
  BY Z3
<1>2. q \in Int /\ r \in 0 .. S - 1 /\ x = q * S + r
  BY <1>1, Z3
<1> HIDE DEF q, r
<1>3. CASE r + 1 < S
  <2>1. q < k
    BY <1>1, <1>2, Z3
  <2>2. q + 1 <= k /\ (q + 1) * S <= k * S
    BY <1>2, <2>1, Z3
  <2>3. x + 1 < k * S
    BY <1>1, <1>2, <1>3, <2>2, Z3
  <2>4. (x + 1) % (k * S) = x + 1
    BY <1>1, <2>3
  <2>5. x + 1 = q * S + (r + 1) /\ r + 1 \in 0 .. S - 1
    BY <1>2, <1>3, Z3
  <2>6. (x + 1) % S = r + 1
    BY <1>2, <2>5, RemainderIs
  <2>7. (r + 1) % S = r + 1
    BY <2>5
  <2>8. QED  BY <2>4, <2>6, <2>7 DEF r
<1>4. CASE r + 1 = S
  <2>1. x + 1 = (q + 1) * S + 0 /\ q + 1 \in Int
    BY <1>2, <1>4, Z3
  <2>2. (x + 1) % S = 0
    BY <2>1, RemainderIs
  <2>3. (r + 1) % S = 0
    BY <1>4, Z3
  <2>4. CASE x + 1 = k * S
    <3>1. (x + 1) % (k * S) = 0
      BY <1>1, <2>4, Z3
    <3>2. 0 % S = 0
      BY Z3
    <3>3. QED  BY <2>3, <3>1, <3>2 DEF r
  <2>5. CASE x + 1 # k * S
    <3>1. (x + 1) % (k * S) = x + 1
      BY <1>1, <2>5
    <3>2. QED  BY <2>2, <2>3, <3>1 DEF r
  <2>6. QED  BY <2>4, <2>5
<1>5. QED  BY <1>2, <1>3, <1>4

(* The number of the next request, from the byte counter and its wrap.     *)
LEMMA NextRequest ==
  ASSUME NEW x \in 0 .. PfcMod - 1
  PROVE  ((x + 1) % PfcMod) % SeqMod = ((x % SeqMod) + 1) % SeqMod
<1>1. PICK k \in 1 .. PfcMod : PfcMod = k * SeqMod
  BY PfcAssumption
<1>2. k \in Nat \ {0} /\ SeqMod \in Nat \ {0}
  BY SeqAssumption
<1>3. QED  BY <1>1, <1>2, LowBits

(* The number CreateAck finds: that of a login, or what the counter says.  *)
LEMMA AckNumber ==
  ASSUME TypeOK, NEW p \in Package, Known(Reported(p), p.a)
  PROVE  /\ CreateAck(p) \in Numbers
         /\ CreateAck(p) = IF IsLink(p) /\ p.Fn = 1 THEN p.pseq ELSE RseqNow[p.a]
<1>1. p.a \in Addr
  BY DEF Package
<1>2. CASE IsLink(p)
  <2>1. p.Fn \in 1 .. 3 /\ p.pseq \in 0 .. SeqMod - 1
    BY <1>2 DEF Package, IsLink
  <2>2. Changed(jzqs, Reported(p), p.a, LinkState(p))
    BY <1>1, <1>2, <2>1, ReportEffect DEF Reported, LinkState, TypeOK
  <2>3. CreateAck(p) = LinkState(p).rseq
    BY <2>2 DEF CreateAck, GetRSEQ, Changed, First
  <2>4. LinkState(p).rseq \in Numbers
    BY <1>2, LinkStateFields DEF Jzq, Numbers
  <2>5. LinkState(p).rseq = IF p.Fn = 1 THEN p.pseq ELSE RseqNow[p.a]
    <3>1. p.Fn = 1 \/ p.Fn = 2 \/ p.Fn = 3
      BY <2>1
    <3>2. QED  BY <1>2, <3>1, LinkStateFields
  <2>6. QED  BY <1>2, <2>3, <2>4, <2>5
<1>3. CASE ~IsLink(p)
  <2>1. Reported(p) = jzqs /\ Known(jzqs, p.a)
    BY <1>3 DEF Reported
  <2>2. CreateAck(p) = First(jzqs, p.a).rseq
    BY <2>1 DEF CreateAck, GetRSEQ, First
  <2>3. First(jzqs, p.a) \in Jzq /\ RseqNow[p.a] = First(jzqs, p.a).rseq
    BY <1>1, <2>1, OnlineType DEF TypeOK
  <2>4. QED  BY <1>3, <2>2, <2>3 DEF Jzq, Numbers
<1>4. QED  BY <1>2, <1>3

(* What a package does to the counters: at most the response counter of    *)
(* its own concentrator moves, to one past the number of the response.     *)
LEMMA RecvCounters ==
  ASSUME TypeOK, NEW b \in ConnId, NEW p \in Package, RecvPackage(b, p)
  PROVE  /\ KnownNow \subseteq KnownNow' /\ PfcNow' = PfcNow
         /\ \A x \in Addr : x # p.a => RseqNow'[x] = RseqNow[x]
         /\ Known(Reported(p), p.a) =>
              /\ p.a \in KnownNow'
              /\ Acked(p) => RseqNow'[p.a] = (CreateAck(p) + 1) % SeqMod
         /\ ~(Known(Reported(p), p.a) /\ Acked(p)) /\ ~(IsLink(p) /\ p.Fn = 1) =>
              RseqNow'[p.a] = RseqNow[p.a]
<1> DEFINE a == p.a
<1>1. a \in Addr /\ jzqs \in Seq(Jzq)
  BY DEF Package, TypeOK
<1>2. CASE IsLink(p)
  <2> DEFINE e == IF p.con THEN LinkAnswered(p) ELSE LinkState(p)
  <2>1. LinkState(p) \in Jzq /\ LinkState(p).pfc = PfcNow[a]
    BY <1>2, LinkStateFields
  <2>2. /\ e.online \in BOOLEAN /\ e.pfc = PfcNow[a]
        /\ e.rseq = IF p.con THEN (LinkState(p).rseq + 1) % SeqMod
                             ELSE LinkState(p).rseq
    BY <2>1 DEF LinkAnswered, Jzq
  <2>3. Changed(jzqs, jzqs', a, e)
    BY <1>1, <1>2, RecvEffect
  <2>4. p.Fn \in 1 .. 3 /\ p.pseq \in 0 .. SeqMod - 1 /\ (Acked(p) <=> p.con)
    BY <1>2 DEF Package, IsLink, Acked
  <2>5. Changed(jzqs, Reported(p), a, LinkState(p))
    BY <1>1, <1>2, <2>4, ReportEffect DEF Reported, LinkState
  <2>6. CreateAck(p) = LinkState(p).rseq /\ Known(Reported(p), a)
    BY <2>5 DEF CreateAck, GetRSEQ, Changed, First
  <2>7. p.Fn # 1 => LinkState(p).rseq = RseqNow[a]
    <3>1. p.Fn = 1 \/ p.Fn = 2 \/ p.Fn = 3
      BY <2>4
    <3>2. QED  BY <1>2, <3>1, LinkStateFields
  <2> HIDE DEF e
  <2>8. /\ KnownNow' = KnownNow \cup {a}
        /\ RseqNow' = [RseqNow EXCEPT ![a] = e.rseq]
        /\ PfcNow' = [PfcNow EXCEPT ![a] = e.pfc]
    BY <1>1, <2>2, <2>3, ChangedMap
  <2> HIDE DEF a
  <2>9. PfcNow' = PfcNow
    BY <2>2, <2>8 DEF PfcNow
  <2>10. RseqNow'[a] = e.rseq /\ \A x \in Addr : x # a => RseqNow'[x] = RseqNow[x]
    BY <1>1, <2>8 DEF RseqNow
  <2>11. QED
    BY <1>2, <2>2, <2>4, <2>6, <2>7, <2>8, <2>9, <2>10 DEF a
<1>3. CASE ~IsLink(p)
  <2>1. Reported(p) = jzqs
    BY <1>3 DEF Reported
  <2>2. CASE Acked(p) /\ Known(jzqs, a)
    <3> DEFINE e == Answered(p)
    <3>1. /\ First(jzqs, a) \in Jzq
          /\ RseqNow[a] = First(jzqs, a).rseq /\ PfcNow[a] = First(jzqs, a).pfc
      BY <1>1, <2>2, OnlineType
    <3>2. /\ e.online \in BOOLEAN /\ e.pfc = PfcNow[a]
          /\ e.rseq = (RseqNow[a] + 1) % SeqMod
      BY <3>1 DEF Answered, Jzq
    <3>3. jzqs' = IncRSEQ(jzqs, a)
      BY <2>1, <2>2 DEF RecvPackage
    <3>4. Changed(jzqs, jzqs', a, e)
      BY <1>1, <2>2, <3>3, IncRSEQEffect DEF Answered
    <3>5. CreateAck(p) = RseqNow[a]
      BY <1>3, <2>1, <2>2, AckNumber
    <3> HIDE DEF e
    <3>6. /\ KnownNow' = KnownNow \cup {a}
          /\ RseqNow' = [RseqNow EXCEPT ![a] = e.rseq]
          /\ PfcNow' = [PfcNow EXCEPT ![a] = e.pfc]
      BY <1>1, <3>2, <3>4, ChangedMap
    <3> HIDE DEF a
    <3>7. PfcNow' = PfcNow
      BY <3>2, <3>6 DEF PfcNow
    <3>8. RseqNow'[a] = e.rseq /\ \A x \in Addr : x # a => RseqNow'[x] = RseqNow[x]
      BY <1>1, <3>6 DEF RseqNow
    <3>9. QED  BY <2>1, <2>2, <3>2, <3>5, <3>6, <3>7, <3>8 DEF a
  <2>3. CASE ~(Acked(p) /\ Known(jzqs, a))
    <3>1. jzqs' = jzqs
      BY <2>1, <2>3 DEF RecvPackage, IncRSEQ
    <3>2. KnownNow' = KnownNow /\ PfcNow' = PfcNow /\ RseqNow' = RseqNow
      BY <3>1 DEF KnownNow, PfcNow, RseqNow, Pfc, Rseq, First, Known, Entries, getJzq
    <3>3. Known(jzqs, a) => a \in KnownNow
      BY <1>1 DEF KnownNow
    <3>4. QED  BY <2>1, <2>3, <3>2, <3>3
  <2>4. QED  BY <2>2, <2>3
<1>4. QED  BY <1>2, <1>3

(* A request takes the number of its address and moves that counter on.    *)
LEMMA RequestCounters ==
  ASSUME TypeOK, NEW n, RequestData(n)
  PROVE  LET a == conns[n].a
         IN  /\ KnownNow' = KnownNow /\ RseqNow' = RseqNow
             /\ \A x \in Addr : x # a => PfcNow'[x] = PfcNow[x]
             /\ Known(jzqs, a) =>
                  /\ a \in Addr
                  /\ GetPSEQ(jzqs, a) = PfcNow[a] % SeqMod /\ GetPSEQ(jzqs, a) \in Numbers
                  /\ PfcNow'[a] % SeqMod = (GetPSEQ(jzqs, a) + 1) % SeqMod
<1> DEFINE a == conns[n].a
           e == [First(jzqs, a) EXCEPT !.pfc = (@ + 1) % PfcMod]
<1>1. jzqs \in Seq(Jzq)
  BY DEF TypeOK
<1>2. CASE ~Known(jzqs, a)
  <2>1. jzqs' = jzqs
    BY <1>2 DEF RequestData, IncPFC
  <2>2. KnownNow' = KnownNow /\ PfcNow' = PfcNow /\ RseqNow' = RseqNow
    BY <2>1 DEF KnownNow, PfcNow, RseqNow, Pfc, Rseq, First, Known, Entries, getJzq
  <2>3. QED  BY <1>2, <2>2
<1>3. CASE Known(jzqs, a)
  <2>1. First(jzqs, a) \in Jzq /\ a \in Addr
    BY <1>1, <1>3, FirstType DEF Jzq
  <2>2. RseqNow[a] = First(jzqs, a).rseq /\ PfcNow[a] = First(jzqs, a).pfc
    BY <1>1, <1>3, <2>1, OnlineType
  <2>3. PfcNow[a] \in 0 .. PfcMod - 1
    BY <2>1, <2>2 DEF Jzq
  <2>4. e.online \in BOOLEAN /\ e.rseq = RseqNow[a] /\ e.pfc = (PfcNow[a] + 1) % PfcMod
    BY <2>1, <2>2 DEF Jzq
  <2>5. GetPSEQ(jzqs, a) = PfcNow[a] % SeqMod
    BY <1>3, <2>2 DEF GetPSEQ, First
  <2>6. PfcNow[a] % SeqMod \in Numbers
    BY <2>3, SeqAssumption DEF Numbers
  <2>7. Changed(jzqs, jzqs', a, e)
    BY <1>1, <1>3, IncPFCEffect DEF RequestData
  <2>8. a \in KnownNow
    BY <1>3, <2>1 DEF KnownNow
  <2> HIDE DEF e, a
  <2>9. /\ KnownNow' = KnownNow \cup {a}
        /\ RseqNow' = [RseqNow EXCEPT ![a] = e.rseq]
        /\ PfcNow' = [PfcNow EXCEPT ![a] = e.pfc]
    BY <1>1, <2>1, <2>4, <2>7, ChangedMap
  <2>10. RseqNow' = RseqNow /\ KnownNow' = KnownNow
    BY <2>4, <2>8, <2>9 DEF RseqNow
  <2>11. PfcNow'[a] = e.pfc /\ \A x \in Addr : x # a => PfcNow'[x] = PfcNow[x]
    BY <2>1, <2>9 DEF PfcNow
  <2>12. PfcNow'[a] % SeqMod = ((PfcNow[a] % SeqMod) + 1) % SeqMod
    BY <2>3, <2>4, <2>11, NextRequest
  <2>13. QED  BY <2>1, <2>5, <2>6, <2>10, <2>11, <2>12 DEF a
<1>4. QED  BY <1>2, <1>3

(* No other step moves a counter or drops an entry.                        *)
LEMMA OtherCounters ==
  ASSUME TypeOK,
         \/ \E b \in ConnId : NewConnection(b) \/ CloseConnection(b)
         \/ CheckConnection \/ FreshJzq \/ KwhTimer \/ SweepEntry \/ Tick
  PROVE  KnownNow \subseteq KnownNow' /\ RseqNow' = RseqNow /\ PfcNow' = PfcNow
<1>1. jzqs \in Seq(Jzq)
  BY DEF TypeOK
<1>2. ASSUME jzqs' = jzqs
      PROVE  KnownNow \subseteq KnownNow' /\ RseqNow' = RseqNow /\ PfcNow' = PfcNow
  BY <1>2 DEF KnownNow, PfcNow, RseqNow, Pfc, Rseq, First, Known, Entries, getJzq
<1>3. ASSUME Kept(jzqs, jzqs')
      PROVE  KnownNow \subseteq KnownNow' /\ RseqNow' = RseqNow /\ PfcNow' = PfcNow
  BY <1>1, <1>3, KeptMap
<1>4. CASE (\E b \in ConnId : NewConnection(b)) \/ KwhTimer
  BY <1>2, <1>4 DEF NewConnection, KwhTimer
<1>5. ASSUME NEW b \in ConnId, CloseConnection(b)
      PROVE  KnownNow \subseteq KnownNow' /\ RseqNow' = RseqNow /\ PfcNow' = PfcNow
  <2>1. CASE jzqs' = jzqs
    BY <1>2, <2>1
  <2>2. ASSUME NEW a, Known(jzqs, a),
               Changed(jzqs, jzqs', a, [First(jzqs, a) EXCEPT !.online = FALSE])
        PROVE  KnownNow \subseteq KnownNow' /\ RseqNow' = RseqNow /\ PfcNow' = PfcNow
    <3> DEFINE e == [First(jzqs, a) EXCEPT !.online = FALSE]
    <3>1. First(jzqs, a) \in Jzq /\ First(jzqs, a).a = a
      BY <1>1, <2>2, FirstType
    <3>2. a \in Addr
      BY <3>1 DEF Jzq
    <3>3. RseqNow[a] = First(jzqs, a).rseq /\ PfcNow[a] = First(jzqs, a).pfc
      BY <1>1, <2>2, <3>2, OnlineType
    <3>4. e.online \in BOOLEAN /\ e.rseq = RseqNow[a] /\ e.pfc = PfcNow[a]
      BY <3>1, <3>3 DEF Jzq
    <3>5. Changed(jzqs, jzqs', a, e)
      BY <2>2
    <3> HIDE DEF e
    <3>6. /\ KnownNow' = KnownNow \cup {a}
          /\ RseqNow' = [RseqNow EXCEPT ![a] = e.rseq]
          /\ PfcNow' = [PfcNow EXCEPT ![a] = e.pfc]
      BY <1>1, <3>2, <3>4, <3>5, ChangedMap
    <3>7. QED  BY <3>4, <3>6 DEF RseqNow, PfcNow
  <2>3. QED  BY <1>1, <1>5, <2>1, <2>2, CloseEffect
<1>6. CASE CheckConnection
  BY <1>1, <1>3, <1>6, CheckKeeps
<1>7. CASE Tick
  BY <1>1, <1>3, <1>7, TickKeeps
<1>8. CASE FreshJzq
  BY <1>1, <1>3, <1>8, LoadKeeps DEF FreshJzq
<1>9. CASE SweepEntry
  <2>1. sweep.i \in 1 .. Len(jzqs)
    BY <1>1, <1>9, SeqIsFunction DEF SweepEntry, Sweep, TypeOK
  <2>2. CASE jzqs' = [jzqs EXCEPT ![sweep.i].get = 0]
    BY <1>1, <1>3, <2>1, <2>2, RestartKeeps
  <2>3. QED  BY <1>2, <1>9, <2>2 DEF SweepEntry
<1>10. QED  BY <1>4, <1>5, <1>6, <1>7, <1>8, <1>9

(* The counters of a listed concentrator are one ahead of the frames.      *)
RequestsAhead ==
  /\ reqSeq \in [Addr -> Numbers \cup {NoSeq}]
  /\ \A a \in Addr : reqSeq[a] # NoSeq =>
       a \in KnownNow /\ PfcNow[a] % SeqMod = (reqSeq[a] + 1) % SeqMod
ResponsesAhead ==
  /\ ackSeq \in [Addr -> Numbers \cup {NoSeq}]
  /\ \A a \in Addr : ackSeq[a] # NoSeq =>
       a \in KnownNow /\ RseqNow[a] = (ackSeq[a] + 1) % SeqMod
Ahead == TypeOK /\ RequestsAhead /\ ResponsesAhead

(* A frame with a request: how it moves the counter, and its number.       *)
LEMMA RequestAhead ==
  ASSUME Ahead, NEW n, RequestData(n), SendRequest(n)
  PROVE  /\ RequestsAhead' /\ ResponsesAhead'
         /\ wire'.a = conns[n].a
         /\ conns[n].a \in KnownNow /\ reqSeq[conns[n].a] # NoSeq =>
              reqSeq'[conns[n].a] = (reqSeq[conns[n].a] + 1) % SeqMod
<1> DEFINE a == conns[n].a
<1>1. /\ KnownNow' = KnownNow /\ RseqNow' = RseqNow
      /\ \A x \in Addr : x # a => PfcNow'[x] = PfcNow[x]
      /\ Known(jzqs, a) =>
           /\ a \in Addr
           /\ GetPSEQ(jzqs, a) = PfcNow[a] % SeqMod /\ GetPSEQ(jzqs, a) \in Numbers
           /\ PfcNow'[a] % SeqMod = (GetPSEQ(jzqs, a) + 1) % SeqMod
  BY RequestCounters DEF Ahead
<1>2. /\ wire' = [bev |-> conns[n].bev, a |-> a]
      /\ reqSeq' = IF Known(jzqs, a)
                   THEN [reqSeq EXCEPT ![a] = GetPSEQ(jzqs, a)] ELSE reqSeq
      /\ ackSeq' = ackSeq
  BY DEF SendRequest
<1>3. a \in KnownNow => Known(jzqs, a)
  BY DEF KnownNow
<1>4. Known(jzqs, a) /\ a \in Addr => a \in KnownNow
  BY DEF KnownNow
<1> HIDE DEF a
<1>5. ResponsesAhead'
  BY <1>1, <1>2 DEF ResponsesAhead, Ahead
<1>6. RequestsAhead'
  <2>1. CASE Known(jzqs, a)
    <3>1. /\ reqSeq' \in [Addr -> Numbers \cup {NoSeq}]
          /\ reqSeq'[a] = GetPSEQ(jzqs, a)
          /\ \A x \in Addr : x # a => reqSeq'[x] = reqSeq[x]
      BY <1>1, <1>2, <2>1 DEF RequestsAhead, Ahead
    <3>2. QED  BY <1>1, <1>4, <2>1, <3>1 DEF RequestsAhead, Ahead
  <2>2. CASE ~Known(jzqs, a)
    <3>1. reqSeq' = reqSeq
      BY <1>2, <2>2
    <3>2. \A x \in Addr : x \in KnownNow => PfcNow'[x] = PfcNow[x]
      BY <1>1, <1>3, <2>2
    <3>3. QED  BY <1>1, <3>1, <3>2 DEF RequestsAhead, Ahead
  <2>3. QED  BY <2>1, <2>2
<1>7. a \in KnownNow /\ reqSeq[a] # NoSeq => reqSeq'[a] = (reqSeq[a] + 1) % SeqMod
  BY <1>1, <1>2, <1>3 DEF RequestsAhead, Ahead
<1>8. wire'.a = a
  BY <1>2
<1>9. QED  BY <1>5, <1>6, <1>7, <1>8 DEF a

(* A package with the response it gets, if any.                            *)
LEMMA ResponseAhead ==
  ASSUME Ahead, NEW b \in ConnId, NEW p \in Package, TRecvPackage(b, p)
  PROVE  /\ RequestsAhead' /\ ResponsesAhead'
         /\ Acked(p) /\ Known(jzqs, p.a) =>
              IF IsLink(p) /\ p.Fn = 1
              THEN ackSeq'[p.a] = p.pseq
              ELSE ackSeq[p.a] # NoSeq =>
                     ackSeq'[p.a] = (ackSeq[p.a] + 1) % SeqMod
<1> DEFINE a == p.a
<1>1. a \in Addr
  BY DEF Package
<1>2. /\ KnownNow \subseteq KnownNow' /\ PfcNow' = PfcNow
      /\ \A x \in Addr : x # a => RseqNow'[x] = RseqNow[x]
      /\ Known(Reported(p), a) =>
           /\ a \in KnownNow'
           /\ Acked(p) => RseqNow'[a] = (CreateAck(p) + 1) % SeqMod
      /\ ~(Known(Reported(p), a) /\ Acked(p)) /\ ~(IsLink(p) /\ p.Fn = 1) =>
           RseqNow'[a] = RseqNow[a]
  BY RecvCounters DEF Ahead, TRecvPackage
<1>3. Known(Reported(p), a) =>
        /\ CreateAck(p) \in Numbers
        /\ CreateAck(p) = IF IsLink(p) /\ p.Fn = 1 THEN p.pseq ELSE RseqNow[a]
  BY AckNumber DEF Ahead
<1>4. reqSeq' = reqSeq
  BY DEF TRecvPackage
<1>5. ackSeq' = [ackSeq EXCEPT ![a] =
                  CASE Acked(p) /\ Known(Reported(p), a) -> CreateAck(p)
                    [] IsLink(p) /\ p.Fn = 1 /\ ~p.con -> NoSeq
                    [] OTHER -> @]
  BY DEF TRecvPackage
<1>6. /\ Acked(p) /\ Known(Reported(p), a) => ackSeq' = [ackSeq EXCEPT ![a] = CreateAck(p)]
      /\ ~(Acked(p) /\ Known(Reported(p), a)) /\ IsLink(p) /\ p.Fn = 1 /\ ~p.con =>
           ackSeq' = [ackSeq EXCEPT ![a] = NoSeq]
      /\ ~(Acked(p) /\ Known(Reported(p), a)) /\ ~(IsLink(p) /\ p.Fn = 1 /\ ~p.con) =>
           ackSeq' = ackSeq
  <2>1. ASSUME Acked(p), Known(Reported(p), a)
        PROVE  ackSeq' = [ackSeq EXCEPT ![a] = CreateAck(p)]
    <3>1. ~(IsLink(p) /\ p.Fn = 1 /\ ~p.con)
      BY <2>1 DEF Acked, IsLink
    <3>2. QED  BY <1>5, <2>1, <3>1
  <2>2. ASSUME ~(Acked(p) /\ Known(Reported(p), a)), IsLink(p) /\ p.Fn = 1 /\ ~p.con
        PROVE  ackSeq' = [ackSeq EXCEPT ![a] = NoSeq]
    BY <1>5, <2>2
  <2>3. ASSUME ~(Acked(p) /\ Known(Reported(p), a)), ~(IsLink(p) /\ p.Fn = 1 /\ ~p.con)
        PROVE  ackSeq' = ackSeq
    <3>1. ackSeq' = [ackSeq EXCEPT ![a] = ackSeq[a]]
      BY <1>5, <2>3
    <3>2. QED  BY <1>1, <3>1 DEF Ahead, ResponsesAhead
  <2>4. QED  BY <2>1, <2>2, <2>3
<1>7. Known(jzqs, a) => Known(Reported(p), a)
  <2>1. CASE IsLink(p)
    <3>1. p.Fn \in 1 .. 3 /\ p.pseq \in 0 .. SeqMod - 1
      BY <2>1 DEF Package, IsLink
    <3>2. Changed(jzqs, Reported(p), a, LinkState(p))
      BY <1>1, <2>1, <3>1, ReportEffect DEF Reported, LinkState, TypeOK, Ahead
    <3>3. QED  BY <3>2 DEF Changed
  <2>2. CASE ~IsLink(p)
    BY <2>2 DEF Reported
  <2>3. QED  BY <2>1, <2>2
<1>8. IsLink(p) /\ p.Fn = 1 /\ ~(Known(Reported(p), a) /\ Acked(p)) => ~p.con
  <2>1. ASSUME IsLink(p) PROVE Known(Reported(p), a)
    <3>1. p.Fn \in 1 .. 3 /\ p.pseq \in 0 .. SeqMod - 1
      BY <2>1 DEF Package, IsLink
    <3>2. Changed(jzqs, Reported(p), a, LinkState(p))
      BY <1>1, <2>1, <3>1, ReportEffect DEF Reported, LinkState, TypeOK, Ahead
    <3>3. QED  BY <3>2 DEF Changed
  <2>2. QED  BY <2>1 DEF Acked, IsLink
<1> HIDE DEF a
<1>9. RequestsAhead'
  BY <1>2, <1>4 DEF RequestsAhead, Ahead
<1>10. ResponsesAhead'
  <2>1. ackSeq \in [Addr -> Numbers \cup {NoSeq}]
    BY DEF Ahead, ResponsesAhead
  <2>2. CASE Acked(p) /\ Known(Reported(p), a)
    <3>1. /\ ackSeq' \in [Addr -> Numbers \cup {NoSeq}]
          /\ ackSeq'[a] = CreateAck(p)
          /\ \A x \in Addr : x # a => ackSeq'[x] = ackSeq[x]
      BY <1>1, <1>3, <1>6, <2>1, <2>2
    <3>2. QED  BY <1>2, <2>2, <3>1 DEF ResponsesAhead, Ahead
  <2>3. CASE ~(Acked(p) /\ Known(Reported(p), a)) /\ IsLink(p) /\ p.Fn = 1 /\ ~p.con
    <3>1. /\ ackSeq' \in [Addr -> Numbers \cup {NoSeq}]
          /\ ackSeq'[a] = NoSeq
          /\ \A x \in Addr : x # a => ackSeq'[x] = ackSeq[x]
      BY <1>1, <1>6, <2>1, <2>3
    <3>2. QED  BY <1>2, <3>1 DEF ResponsesAhead, Ahead
  <2>4. CASE ~(Acked(p) /\ Known(Reported(p), a)) /\ ~(IsLink(p) /\ p.Fn = 1)
    <3>1. ackSeq' = ackSeq /\ \A x \in Addr : RseqNow'[x] = RseqNow[x]
      BY <1>2, <1>6, <2>4
    <3>2. QED  BY <1>2, <3>1 DEF ResponsesAhead, Ahead
  <2>5. QED  BY <1>8, <2>2, <2>3, <2>4
<1>11. Acked(p) /\ Known(jzqs, a) =>
         IF IsLink(p) /\ p.Fn = 1
         THEN ackSeq'[a] = p.pseq
         ELSE ackSeq[a] # NoSeq => ackSeq'[a] = (ackSeq[a] + 1) % SeqMod
  <2>1. ackSeq \in [Addr -> Numbers \cup {NoSeq}]
    BY DEF Ahead, ResponsesAhead
  <2>2. ASSUME Acked(p), Known(jzqs, a)
        PROVE  ackSeq'[a] = CreateAck(p)
    BY <1>1, <1>6, <1>7, <2>1, <2>2
  <2>3. ackSeq[a] # NoSeq => RseqNow[a] = (ackSeq[a] + 1) % SeqMod
    BY <1>1 DEF Ahead, ResponsesAhead
  <2>4. QED  BY <1>3, <1>7, <2>2, <2>3
<1>12. QED  BY <1>9, <1>10, <1>11 DEF a

(* A step of the traffic is a step of the registry.                        *)
LEMMA TrafficIsRegistry == TSpec => Spec
<1>1. TInit => Init
  BY DEF TInit
<1>2. [TNext]_tvars => [Next]_vars
  <2>1. TNext => Next
    BY DEF TNext, TRecvPackage, TSyncRequest, TSweepElement, TTick, Silent, Next
  <2>2. UNCHANGED tvars => UNCHANGED vars
    BY DEF tvars, vars
  <2>3. QED  BY <2>1, <2>2
<1>3. QED  BY <1>1, <1>2, PTL DEF TSpec, Spec

(* What every step of the traffic is to the counters and the frames.       *)
LEMMA TrafficAhead ==
  ASSUME Ahead, [TNext]_tvars
  PROVE  RequestsAhead' /\ ResponsesAhead' /\ RequestFollows /\ ResponseFollows
<1>1. ASSUME NEW n, RequestData(n), SendRequest(n), NEW a \in Addr,
             Known(jzqs, a), reqSeq[a] # NoSeq, wire'.a = a
      PROVE  reqSeq'[a] = (reqSeq[a] + 1) % SeqMod
  <2>1. a \in KnownNow
    BY <1>1 DEF KnownNow
  <2>2. QED  BY <1>1, <2>1, RequestAhead
<1>2. RequestFollows
  <2> SUFFICES ASSUME NEW a \in Addr, Known(jzqs, a), reqSeq[a] # NoSeq, Asks(a)
               PROVE  reqSeq'[a] = (reqSeq[a] + 1) % SeqMod
    BY DEF RequestFollows
  <2>1. CASE TSweepElement
    BY <1>1, <2>1 DEF Asks, TSweepElement, SweepElement
  <2>2. ASSUME NEW named \in Addr, TSyncRequest(named)
        PROVE  reqSeq'[a] = (reqSeq[a] + 1) % SeqMod
    BY <1>1, <2>2 DEF Asks, TSyncRequest, SyncRequest
  <2>3. QED  BY <2>1, <2>2 DEF Asks
<1>3. ResponseFollows
  BY ResponseAhead, Zenon DEF ResponseFollows
<1>4. ASSUME KnownNow \subseteq KnownNow', RseqNow' = RseqNow, PfcNow' = PfcNow,
             ackSeq' = ackSeq, reqSeq' = reqSeq
      PROVE  RequestsAhead' /\ ResponsesAhead'
  BY <1>4 DEF RequestsAhead, ResponsesAhead, Ahead
<1>5. ASSUME NEW b \in ConnId, NEW p \in Package, TRecvPackage(b, p)
      PROVE  RequestsAhead' /\ ResponsesAhead'
  BY <1>5, ResponseAhead
<1>6. ASSUME NEW a \in Addr, TSyncRequest(a)
      PROVE  RequestsAhead' /\ ResponsesAhead'
  BY <1>6, RequestAhead DEF TSyncRequest, SyncRequest
<1>7. ASSUME TSweepElement PROVE RequestsAhead' /\ ResponsesAhead'
  BY <1>7, RequestAhead DEF TSweepElement, SweepElement
<1>8. ASSUME TTick PROVE RequestsAhead' /\ ResponsesAhead'
  BY <1>4, <1>8, OtherCounters DEF TTick, frames, Ahead
<1>9. ASSUME Silent PROVE RequestsAhead' /\ ResponsesAhead'
  BY <1>4, <1>9, OtherCounters DEF Silent, Ahead
<1>10. ASSUME UNCHANGED tvars PROVE RequestsAhead' /\ ResponsesAhead'
  <2>1. KnownNow' = KnownNow /\ RseqNow' = RseqNow /\ PfcNow' = PfcNow
    BY <1>10 DEF tvars, KnownNow, PfcNow, RseqNow, Pfc, Rseq, First, Known, Entries, getJzq
  <2>2. QED  BY <1>4, <1>10, <2>1 DEF tvars
<1>11. QED  BY <1>2, <1>3, <1>5, <1>6, <1>7, <1>8, <1>9, <1>10 DEF TNext

(* The numbers of the frames to a concentrator follow one another, the     *)
(* response to a repeated PSEQ aside, in any order of packages, requests,  *)
(* sweeps, reloads, timeouts and closes, and at every wrap of the two      *)
(* counters (GetPSEQ, GetRSEQ).                                            *)
THEOREM NumbersFollow == TSpec => FramesNumbered
<1>1. TInit => RequestsAhead /\ ResponsesAhead
  BY DEF TInit, RequestsAhead, ResponsesAhead
<1>2. TypeOK /\ RequestsAhead /\ ResponsesAhead /\ [TNext]_tvars =>
        RequestsAhead' /\ ResponsesAhead' /\ RequestFollows /\ ResponseFollows
  BY TrafficAhead DEF Ahead
<1>3. TSpec => []TypeOK
  BY TrafficIsRegistry, TypeCorrect, PTL
<1>4. QED  BY <1>1, <1>2, <1>3, PTL DEF TSpec, FramesNumbered
=============================================================================
