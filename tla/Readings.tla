------------------------------ MODULE Readings ------------------------------
(***************************************************************************)
(* Answers of a concentrator to AFN0C requests, from the registers of a    *)
(* meter to the database and back to the heap: the packages of Package,    *)
(* DoHandleAck with HandleAck and the three HandleData, saveResultToDB,    *)
(* and the data buffer shared by the package and the answer made of it.    *)
(* A register is a number in units of its last digit; that float and       *)
(* ostringstream keep six or seven digits is left out.                     *)
(***************************************************************************)
EXTENDS Package, SequencesExt

CONSTANTS
  Contents,  \* answers: Fn and what each field of it says
  Omissions, \* how many fields at its end an answer may lack
  Listed,    \* points GetEleID knows
  Dispatch   \* may HandlePkg reach the override of DoHandleAck?

ASSUME ReadingsAssumption ==
  /\ Omissions \subseteq Nat /\ Listed \subseteq Point /\ Dispatch \subseteq BOOLEAN

VARIABLES
  step,     \* the TcpServer thread with the answer
  reading,  \* the object HandleAck has made of it
  used,     \* m_DataUsed of the package's data unit and of that object
  buffer,   \* m_pData, which both point to
  row       \* what toDB has inserted

rvars == <<pkg, wire, damaged, got, step, reading, used, buffer, row>>
unit == <<step, reading, used, buffer, row>>

NoReading == [res |-> "none"]
Gone == -1
NoRow == <<>>
Junk == <<"junk">>
Missing == -1
NoDate == <<0, 0, 0, 0, 0, 0>>

(***************************************************************************)
(* Fields.                                                                 *)
(***************************************************************************)

Times(f, n) == [i \in 1 .. n |-> f]
Block == <<"byte", "word", "byte", "word", "byte", "date6", "date6">>

(* k blocks of F11, k tariffs of F33.                                      *)
Layout(Fn, k) ==
  CASE Fn = 2 -> <<"date6">>
    [] Fn = 11 ->
         [j \in 1 .. 1 + 7 * k |-> IF j = 1 THEN "byte" ELSE Block[((j - 2) % 7) + 1]]
    [] Fn = 33 ->
         [j \in 1 .. 6 + 4 * k |-> CASE j = 1 -> "date5" [] j = 2 -> "byte"
                                      [] j \in 3 .. 3 + k -> "kwh" [] OTHER -> "kvar"]

Width(f) ==
  CASE f = "byte" -> 1 [] f = "word" -> 2 [] f = "kvar" -> 4
    [] f \in {"kwh", "date5"} -> 5 [] f = "date6" -> 6

(* Bytes before field j.                                                   *)
Start(L, j) == Total([i \in 1 .. j - 1 |-> Width(L[i])])

Bcd(b) == 10 * (b \div 16) + (b % 16)

parseDateTime5(d) ==
  IF d[1] = 238 THEN NoDate
  ELSE <<2000 + Bcd(d[5]), Bcd(d[4]), Bcd(d[3]), Bcd(d[2]), Bcd(d[1]), 0>>

(* Faulty variant: the weekday is taken for a part of the month.           *)
parseDateTime6Week(d) ==
  IF d[1] = 238 THEN NoDate
  ELSE <<2000 + Bcd(d[6]), Bcd(d[5]), Bcd(d[4]), Bcd(d[3]), Bcd(d[2]), Bcd(d[1])>>

(* The upper three bits of the month are the day of the week.              *)
parseDateTime6(d) ==
  IF d[1] = 238 THEN NoDate
  ELSE <<2000 + Bcd(d[6]), Bcd(d[5] % 32), Bcd(d[4]), Bcd(d[3]), Bcd(d[2]), Bcd(d[1])>>

(* parseTable14 and parseTable11: the lowest digits come first.            *)
Place == <<1, 100, 10000, 1000000, 100000000>>
parseTable(d) ==
  IF d[1] = 238 THEN Missing
  ELSE Total([i \in 1 .. Len(d) |-> Bcd(d[i]) * Place[i]])

(* num and success are short.                                              *)
Short(w) == IF w < 32768 THEN w ELSE w - Word

Parse(f, d) ==
  CASE f = "byte" -> d[1] [] f = "word" -> Short(d[1] + 256 * d[2])
    [] f = "date5" -> parseDateTime5(d) [] f = "date6" -> parseDateTime6(d)
    [] f \in {"kwh", "kvar"} -> parseTable(d)

(***************************************************************************)
(* The concentrator.                                                       *)
(***************************************************************************)

Pair(n) == 16 * (n \div 10) + (n % 10)
Register(v, w) == [i \in 1 .. w |-> Pair((v \div Place[i]) % 100)]

(* Only date6 has a day of the week; 0xEE stands for no value.             *)
Clock(v, day) == <<Pair(v[5]), Pair(v[4]), Pair(v[3]), Pair(v[2]) + 32 * day, Pair(v[1] - 2000)>>

Encode(f, v) ==
  CASE f = "byte" -> <<v>>
    [] f = "word" -> Two(v)
    [] f = "date5" -> IF v = NoDate THEN Times(238, 5) ELSE Clock(v, 0)
    [] f = "date6" -> IF v = NoDate THEN Times(238, 6) ELSE <<Pair(v[6])>> \o Clock(v, 5)
    [] OTHER -> IF v = Missing THEN Times(238, Width(f)) ELSE Register(v, Width(f))

Count(Fn, vals) == CASE Fn = 2 -> 1 [] Fn = 11 -> vals[1] [] Fn = 33 -> vals[2]
Most(Fn) == CASE Fn = 2 -> 1 [] Fn = 11 -> 31 [] Fn = 33 -> 12

(* The day and the time, the seconds only in six bytes.                    *)
Moment(v) ==
  /\ v = <<v[1], v[2], v[3], v[4], v[5], v[6]>>
  /\ v[1] \in 2000 .. 2099 /\ v[2] \in 1 .. 12 /\ v[3] \in 1 .. 31
  /\ v[4] \in 0 .. 23 /\ v[5] \in 0 .. 59 /\ v[6] \in 0 .. 59

(* What a field can say; no count of meters needs more than 15 bits.       *)
Sayable(f, v) ==
  CASE f = "byte" -> v \in Byte
    [] f = "word" -> v \in 0 .. 32767
    [] f = "date6" -> v = NoDate \/ Moment(v)
    [] f = "date5" -> v = NoDate \/ (Moment(v) /\ v[6] = 0)
    [] OTHER -> v = Missing \/ (v \in Nat /\ v \div Place[Width(f)] < 100)

(* A list of fields as it is laid out, with its count and maybe no more.   *)
ASSUME ContentsAssumption ==
  \A x \in Contents :
    /\ x.Fn \in {2, 11, 33}
    /\ x.vals = [j \in 1 .. Len(x.vals) |-> x.vals[j]]
    /\ Count(x.Fn, x.vals) \in Byte
    /\ LET L == Layout(x.Fn, Count(x.Fn, x.vals))
       IN  /\ Len(x.vals) \in (IF x.Fn = 33 THEN 2 ELSE 1) .. Len(L)
           /\ \A j \in 1 .. Len(x.vals) : Sayable(L[j], x.vals[j])

(* Answer or denial (FUN 8, FUN 9), with the two bytes of the event        *)
(* counter that ends every package of a concentrator.                      *)
BuildAnswer ==
  /\ pkg = None
  /\ \E x \in Contents, omit \in Omissions, fun \in {8, 9}, pn \in Points \cap Point,
        a1 \in Address :
       LET L == Layout(x.Fn, Count(x.Fn, x.vals))
           n == IF fun = 8 THEN Len(x.vals) - omit ELSE 0
       IN  pkg' = [kind |-> "answer", pn |-> pn, Fn |-> x.Fn,
                   c |-> 128 + fun, a1 |-> a1, a2 |-> a1, a3 |-> A3,
                   afn |-> 12, seq |-> SeqByte(0, 0),
                   tag |-> Tag(pn, x.Fn, [DA1 |-> {}, DA2 |-> 0]),
                   data |-> FlattenSeq([j \in 1 .. n |-> Encode(L[j], x.vals[j])]) \o <<7, 1>>,
                   aux |-> <<>>, vals |-> x.vals,
                   whole |-> n = Len(L) /\ Count(x.Fn, x.vals) \in 1 .. Most(x.Fn)]
  /\ UNCHANGED <<wire, damaged, got, unit>>

(***************************************************************************)
(* The TcpServer thread.                                                   *)
(***************************************************************************)

(* The unit's data is copied to a buffer of its own.                       *)
RReceive ==
  /\ Receive
  /\ IF pkg.kind = "answer" /\ got'.res = "ok"
     THEN /\ step' = "parsed" /\ buffer' = "live" /\ used' = [origin |-> 1, copy |-> Gone]
          /\ UNCHANGED <<reading, row>>
     ELSE UNCHANGED unit

(* One field after the other as long as there are bytes left.  The total   *)
(* of F33's first kvar group is not checked, but the field after it is.    *)
HandleData(Fn, d) ==
  LET at == IF Fn = 33 THEN 6 ELSE 1
      k == IF Fn = 2 THEN 1 ELSE d[at]
      L == Layout(Fn, k)
      v(j) == Parse(L[j], SubSeq(d, Start(L, j) + 1, Start(L, j) + Width(L[j])))
  IN  IF Len(d) >= at /\ k \in 1 .. Most(Fn) /\ Len(d) >= Start(L, Len(L) + 1)
      THEN [res |-> "ok", vals |-> [j \in 1 .. Len(L) |-> v(j)]]
      ELSE [res |-> "error"]

(* Faulty variant: the copy is not counted.                                *)
CopyUncounted(u) == [u EXCEPT !.copy = 1]

(* Pkg_Afn_Data(Pkg_Afn_Data&).                                            *)
Copy(u) == [origin |-> u.origin + 1, copy |-> 1]

(* HandleAck copies the unit for the types it knows; without one, or after *)
(* a denial, there is nothing to hand over.  PackageBuilder::DoHandleAck   *)
(* is not virtual: where HandlePkg does not reach the override, the answer *)
(* ends there (see Calls).                                                 *)
DoHandleAck ==
  /\ step = "parsed"
  /\ step' \in {s \in {"handled", "saved"} : (s = "handled") \in Dispatch}
  /\ IF step' = "handled" /\ got.c % 16 = 8 /\ got.afn = 12 /\ got.Fn \in {2, 11, 33}
     THEN reading' = HandleData(got.Fn, got.data) /\ used' = Copy(used)
     ELSE UNCHANGED <<reading, used>>
  /\ UNCHANGED <<pkg, wire, damaged, got, buffer, row>>

(* Faulty variant: the tariffs of two groups change places.                *)
ColumnsSwapped(vals) ==
  LET k == vals[2]
      group(g) == SubSeq(vals, 3 + g * (1 + k), 2 + (g + 1) * (1 + k))
  IN  [RecordTime |-> vals[1], USERKWH |-> Head(group(0)), DEVKVAR |-> Head(group(1)),
       FIRSTKVAR |-> Head(group(2)), FOURKVAR |-> Head(group(3)),
       M_USERKWH |-> Tail(group(0)), M_DEVKVAR |-> Tail(group(1)),
       M_FIRSTKVAR |-> Tail(group(3)), M_FOURKVAR |-> Tail(group(2))]

(* Columns of gc_nhfxelect.                                                *)
Columns(vals) ==
  LET k == vals[2]
      group(g) == SubSeq(vals, 3 + g * (1 + k), 2 + (g + 1) * (1 + k))
  IN  [RecordTime |-> vals[1], USERKWH |-> Head(group(0)), DEVKVAR |-> Head(group(1)),
       FIRSTKVAR |-> Head(group(2)), FOURKVAR |-> Head(group(3)),
       M_USERKWH |-> Tail(group(0)), M_DEVKVAR |-> Tail(group(1)),
       M_FIRSTKVAR |-> Tail(group(2)), M_FOURKVAR |-> Tail(group(3))]

(* The elements of a concentrator, named by their points.                  *)
GetEleID(pn) == IF pn \in Listed THEN pn ELSE -1

(* notify: only F33 has a toDB.  HandleData's result has been ignored: of  *)
(* an answer that is not whole it writes what the object holds, or ends    *)
(* the program.  The database may refuse a row, which nobody notices.      *)
Save ==
  /\ step = "handled"
  /\ IF reading # NoReading /\ got.Fn = 33 /\ GetEleID(got.pn) # -1
     THEN IF reading.res = "ok"
          THEN step' = "saved" /\ row' \in {NoRow, <<GetEleID(got.pn), Columns(reading.vals)>>}
          ELSE step' \in {"saved", "crashed"} /\ row' \in {NoRow, Junk}
     ELSE step' = "saved" /\ UNCHANGED row
  /\ UNCHANGED <<pkg, wire, damaged, got, reading, used, buffer>>

(* ~Pkg_Afn_Data.                                                          *)
Release(n) == IF n - 1 > 0 THEN buffer ELSE IF buffer = "live" THEN "freed" ELSE "twice"

DeletePackage ==
  /\ step = "saved" /\ used.origin # Gone
  /\ buffer' = Release(used.origin)
  /\ used' = [used EXCEPT !.origin = Gone]
  /\ UNCHANGED <<pkg, wire, damaged, got, step, reading, row>>

(* notify itself, or the thread that waited, before or after.              *)
DeleteReading ==
  /\ step = "saved" /\ used.copy # Gone
  /\ buffer' = Release(used.copy)
  /\ used' = [used EXCEPT !.copy = Gone]
  /\ UNCHANGED <<pkg, wire, damaged, got, step, reading, row>>

RForget ==
  /\ Forget
  /\ step = "saved" => used = [origin |-> Gone, copy |-> Gone]
  /\ step \in {"idle", "saved", "crashed"}
  /\ step' = "idle" /\ reading' = NoReading /\ used' = [origin |-> Gone, copy |-> Gone]
  /\ buffer' = "none" /\ row' = NoRow

-----------------------------------------------------------------------------
RInit ==
  /\ Init
  /\ step = "idle" /\ reading = NoReading /\ used = [origin |-> Gone, copy |-> Gone]
  /\ buffer = "none" /\ row = NoRow

RNext ==
  \/ BuildAnswer
  \/ (Build \/ SendPkg \/ Damage) /\ UNCHANGED unit
  \/ RReceive \/ DoHandleAck \/ Save \/ DeletePackage \/ DeleteReading \/ RForget

RSpec == RInit /\ [][RNext]_rvars

-----------------------------------------------------------------------------
(* Every field of an answer is read from the place the concentrator has    *)
(* put it in, whatever is missing and however many blocks or tariffs there *)
(* are, through framing, checksum and identifiers (HandleData).            *)
ReadingsRight == reading.res = "ok" => pkg.whole /\ reading.vals = pkg.vals

(* A row is that of a listed meter's whole answer, with every register in  *)
(* its column; only an answer that is not whole makes another row (toDB).  *)
InOrderOfAnswer(r) ==
  <<r.RecordTime, Len(r.M_USERKWH)>> \o <<r.USERKWH>> \o r.M_USERKWH
    \o <<r.DEVKVAR>> \o r.M_DEVKVAR \o <<r.FIRSTKVAR>> \o r.M_FIRSTKVAR
    \o <<r.FOURKVAR>> \o r.M_FOURKVAR

RowsRight ==
  row # NoRow /\ pkg.whole =>
    row[1] = pkg.pn /\ pkg.pn \in Listed /\ InOrderOfAnswer(row[2]) = pkg.vals

(* The buffer that package and answer share is freed once, whichever of    *)
(* the two threads deletes its object first (m_DataUsed).                  *)
BufferFreedOnce ==
  /\ buffer # "twice"
  /\ step = "saved" /\ used.origin = Gone /\ used.copy = Gone => buffer = "freed"
  /\ step \in {"parsed", "handled"} => buffer = "live"
=============================================================================
