---------------------------- MODULE QueryProofs ----------------------------
(***************************************************************************)
(* Proofs about the query the threads share, for a table of any size, and  *)
(* about the console whose commands use it.  However toDB cuts into a      *)
(* load, its rows come from its own statement; whatever the threads do to  *)
(* each other, the last to close frees the result; while they keep apart,  *)
(* a load is right.                                                        *)
(***************************************************************************)
EXTENDS Console, TLAPS, SequenceTheorems, WellFoundedInduction

Entries == [jzq : Row, eles : Seq(Nat)]
Inside == {"first", "test", "row", "next"}
LoaderType == [pc : LoaderPc, at : Nat, list : Seq(Entries), ok : BOOLEAN]

(* The types, in the form the steps keep.                                  *)
QueryTyped ==
  /\ sql \in Select \cup {Insert, NoSql}
  /\ res \in [of : Select \cup {NoSql}, row : Nat]
  /\ res = NoRes \/ res.of \in Select
  /\ eof \in BOOLEAN /\ count \in Nat /\ stored \in Nat
Typed ==
  /\ QueryTyped
  /\ loader \in [Thread -> LoaderType]
  /\ \A t \in Thread : (clash /\ Loading(t)) \/ loader[t].at <= Len(loader[t].list)
  /\ writer \in {"idle", "added", "sent", "failed", "closed"}
  /\ overlap \in BOOLEAN /\ clash \in BOOLEAN

(* Who is at work is remembered, and the TcpServer thread does one thing   *)
(* at a time.                                                              *)
Recorded ==
  /\ Loading("telnet") /\ TcpUses => overlap
  /\ (\A t \in Thread : Loading(t)) => clash
  /\ clash => overlap
  /\ Saving => ~Loading("tcp")

(* m_FSQL is there when it is sent.                                        *)
Asked ==
  (\E t \in Thread : loader[t].pc = "open") \/ writer = "added" =>
    sql \in Select \cup {Insert}

(* From AddSQL to the last row m_FSQL holds the load's statement, unless   *)
(* the other thread has put its insert there.                              *)
OwnStatement(t) ==
  loader[t].pc \in Inside \cup {"open", "close"} => sql \in {Stmt(t), Insert}

(* Between Open and qclose there is the answer to the load's statement or  *)
(* none.                                                                   *)
OwnResult(t) == loader[t].pc \in Inside => res = NoRes \/ res.of = Stmt(t)

(* So it is while no second load runs.                                     *)
Owns(t) == OwnStatement(t) /\ OwnResult(t)
OwnsAll == ~clash => \A t \in Thread : Owns(t)

(* A result set is there only while somebody will still close it.          *)
WillBeFreed ==
  \/ res = NoRes /\ eof
  \/ \E t \in Thread : loader[t].pc \in Inside \cup {"close", "crashed"}
  \/ writer \in {"sent", "failed"}

IInv == Typed /\ Recorded /\ Asked /\ OwnsAll /\ WillBeFreed

(* The statements are records of their own, and tables have rows.          *)
LEMMA Statements ==
  /\ Jzqs \in Select /\ Jzqs # Insert /\ Insert \notin Select
  /\ \A r \in Row : Elements(r) \in Select /\ Elements(r) # Insert
  /\ \A s \in Select : RowsOf(s) \in Nat
  /\ RowsOf(Jzqs) = Len(Ele)
  /\ \A r \in Row : RowsOf(Elements(r)) = Ele[r]
<1>1. \A s \in Select : s.table \in {"jzq", "elect"} /\ (s.table = "elect" => s.of \in Row)
  BY DEF Select
<1>2. Insert.table = "nhfx" /\ Jzqs.table = "jzq" /\ Jzqs \in Select
  BY DEF Insert, Jzqs, Select
<1>3. \A r \in Row : Elements(r) \in Select /\ Elements(r).table = "elect" /\ Elements(r).of = r
  BY DEF Elements, Select
<1>4. Len(Ele) \in Nat /\ \A r \in Row : Ele[r] \in Nat
  BY EleAssumption DEF Row
<1> QED
  BY <1>1, <1>2, <1>3, <1>4 DEF RowsOf

(* The statement of a load is one for the table or an entry's meters.      *)
LEMMA StmtSelects ==
  ASSUME Typed, NEW t \in Thread, loader[t].at <= Len(loader[t].list)
  PROVE  Stmt(t) \in Select /\ Stmt(t) # Insert
<1> SUFFICES ASSUME loader[t].at # 0
             PROVE  Stmt(t) \in Select /\ Stmt(t) # Insert
  BY Statements DEF Stmt
<1>1. loader[t].at \in 1 .. Len(loader[t].list) /\ loader[t].list \in Seq(Entries)
  BY DEF Typed, LoaderType
<1>2. loader[t].list[loader[t].at] \in Entries
  BY <1>1
<1> QED
  BY <1>2, Statements DEF Stmt, Entries

(* Idle loads, and what a load starts from.                                *)
LEMMA IdleTyped == Idle \in LoaderType /\ Idle.at = 0 /\ Idle.list = <<>> /\ Len(Idle.list) = 0
<1>1. Idle \in LoaderType
  BY DEF Idle, LoaderType, LoaderPc
<1>2. Idle.at = 0 /\ Idle.list = <<>> /\ Len(<<>>) = 0
  BY DEF Idle
<1> QED
  BY <1>1, <1>2

LEMMA NoResTyped == NoRes \in [of : Select \cup {NoSql}, row : Nat]
  BY DEF NoRes

LEMMA InitIInv == Init => IInv
<1> SUFFICES ASSUME Init PROVE IInv
  OBVIOUS
<1>1. \A t \in Thread : loader[t] = Idle /\ loader[t].pc = "idle"
  BY DEF Init, Idle
<1>2. loader \in [Thread -> LoaderType]
  BY IdleTyped DEF Init
<1>3. eof \in BOOLEAN /\ overlap \in BOOLEAN /\ clash \in BOOLEAN /\ ~clash /\ eof
  BY Zenon DEF Init
<1>4. QueryTyped
  BY <1>3, NoResTyped DEF Init, QueryTyped
<1>5. Typed
  BY <1>1, <1>2, <1>3, <1>4, IdleTyped DEF Init, Typed
<1>6. Recorded /\ Asked
  BY <1>1, <1>3 DEF Recorded, Asked, Loading, Saving, TcpUses, Init, Thread
<1> QED
  BY <1>1, <1>3, <1>5, <1>6 DEF Init, IInv, OwnsAll, Owns, OwnStatement, OwnResult,
    WillBeFreed, Inside

(* The end mark is a truth value.                                          *)
LEMMA EndMark ==
  ASSUME NEW r, RowsOf(r.of) \in Nat, r.row \in Nat PROVE AtEnd(r) \in BOOLEAN
  BY DEF AtEnd

(* What a call of TQuery leaves when there is a statement.                 *)
LEMMA OpenLeaves ==
  ASSUME QueryTyped, sql \in Select \cup {Insert}, NEW ok \in BOOLEAN, Open(ok)
  PROVE  /\ sql' = sql /\ QueryTyped'
         /\ \/ res' = NoRes /\ eof' = TRUE /\ count' = 0
            \/ ok /\ sql # Insert /\ res' = First(Result(sql)) /\ eof' = AtEnd(res')
         /\ res' # NoRes => count' = RowsOf(res'.of)
<1>1. stored' \in Nat
  BY DEF QueryTyped, Open, Sends
<1>2. sql' = sql /\ count' = IF res' = NoRes THEN 0 ELSE RowsOf(res'.of)
  BY DEF Open
<1>3. CASE ok /\ sql # Insert
  <2>1. res' = First(Result(sql)) /\ eof' = AtEnd(res') /\ sql \in Select
    BY <1>3 DEF Open
  <2>2. res'.of = sql /\ res'.row = 1 /\ res' \in [of : Select \cup {NoSql}, row : Nat]
    BY <2>1 DEF First, Result
  <2>3. RowsOf(res'.of) \in Nat
    BY <2>1, <2>2, Statements
  <2>4. eof' \in BOOLEAN
    BY <2>1, <2>2, <2>3, EndMark, Zenon
  <2> QED
    BY <1>1, <1>2, <1>3, <2>1, <2>2, <2>3, <2>4 DEF QueryTyped
<1>4. CASE ~(ok /\ sql # Insert)
  <2>1. res' = NoRes /\ eof' = TRUE
    BY <1>4 DEF Open
  <2>2. eof' \in BOOLEAN
    BY <2>1, Zenon
  <2> QED
    BY <1>1, <1>2, <2>1, <2>2, NoResTyped DEF QueryTyped
<1> QED
  BY <1>3, <1>4

LEMMA ExecLeaves ==
  ASSUME QueryTyped, sql \in Select \cup {Insert}, NEW ok \in BOOLEAN, ExecSQL(ok)
  PROVE  /\ sql' = sql /\ QueryTyped'
         /\ res' = NoRes \/ (ok /\ sql # Insert /\ res' = Result(sql))
<1>1. stored' \in Nat /\ count' = count /\ sql' = sql /\ eof' = TRUE
  BY DEF QueryTyped, ExecSQL, Sends
<1>2. eof' \in BOOLEAN
  BY <1>1, Zenon
<1>3. res' = NoRes \/ (ok /\ sql # Insert /\ res' = Result(sql))
  BY DEF ExecSQL
<1>4. res' \in [of : Select \cup {NoSql}, row : Nat] /\ (res' = NoRes \/ res'.of \in Select)
  BY <1>3, NoResTyped DEF Result
<1> QED
  BY <1>1, <1>2, <1>3, <1>4 DEF QueryTyped

LEMMA CloseLeaves ==
  ASSUME QueryTyped, Close, UNCHANGED <<sql, stored>>
  PROVE  QueryTyped' /\ res' = NoRes /\ eof'
<1>1. res' = NoRes /\ eof' = TRUE /\ UNCHANGED <<sql, stored, count>>
  BY DEF Close
<1>2. eof' \in BOOLEAN /\ eof'
  BY <1>1, Zenon
<1> QED
  BY <1>1, <1>2, NoResTyped DEF QueryTyped

(* A step of the load that leaves list and at alone leaves its statement.  *)
LEMMA SameStmt ==
  ASSUME NEW t \in Thread, loader'[t].at = loader[t].at, loader'[t].list = loader[t].list
  PROVE  Stmt(t)' = Stmt(t)
  BY DEF Stmt, Jzqs, Elements

(* A step of one load.                                                     *)
Others(t) == \A u \in Thread \ {t} : loader'[u] = loader[u]

(* A step of the load that only moves on keeps the types.                  *)
LEMMA MovesOn ==
  ASSUME Typed, NEW t \in Thread, NEW p \in LoaderPc, At(t, p)
  PROVE  /\ loader' \in [Thread -> LoaderType] /\ Others(t)
         /\ loader'[t].pc = p /\ loader'[t].at = loader[t].at
         /\ loader'[t].list = loader[t].list /\ loader'[t].ok = loader[t].ok
         /\ Stmt(t)' = Stmt(t)
<1>0. loader \in [Thread -> LoaderType]
  BY DEF Typed
<1>1. loader' = [loader EXCEPT ![t] = [loader[t] EXCEPT !.pc = p]]
  BY <1>0 DEF At
<1>2. [loader[t] EXCEPT !.pc = p] \in LoaderType
  BY <1>0 DEF LoaderType
<1>3. /\ loader' \in [Thread -> LoaderType] /\ Others(t)
      /\ loader'[t] = [loader[t] EXCEPT !.pc = p]
  BY <1>0, <1>1, <1>2 DEF Others
<1>4. /\ loader'[t].pc = p /\ loader'[t].at = loader[t].at
      /\ loader'[t].list = loader[t].list /\ loader'[t].ok = loader[t].ok
  BY <1>0, <1>3 DEF LoaderType
<1> QED
  BY <1>3, <1>4, SameStmt

(* What happened while both were at work stays recorded.                   *)
LEMMA RecordKept ==
  ASSUME Typed, Recorded, Overlap, Saving' => ~Loading("tcp")'
  PROVE  Recorded' /\ overlap' \in BOOLEAN /\ clash' \in BOOLEAN
<1>1. overlap' \in BOOLEAN /\ clash' \in BOOLEAN
  BY Zenon DEF Typed, Overlap, Loading, TcpUses, Saving
<1>2. (\A t \in Thread : Loading(t)') <=> Loading("telnet")' /\ Loading("tcp")'
  BY Zenon DEF Thread
<1>3. (\E t \in Thread : Loading(t)') <=> Loading("telnet")' \/ Loading("tcp")'
  BY Zenon DEF Thread
<1>4. TcpUses' <=> Loading("tcp")' \/ Saving'
  BY Zenon DEF TcpUses
<1>5. /\ overlap' = IF overlap THEN Loading("telnet")' \/ TcpUses'
                    ELSE Loading("telnet")' /\ TcpUses'
      /\ clash' = IF clash THEN \E t \in Thread : Loading(t)'
                  ELSE \A t \in Thread : Loading(t)'
  BY Zenon DEF Overlap
<1>6. clash => overlap
  BY Zenon DEF Recorded
<1>7. Recorded' <=> /\ Loading("telnet")' /\ TcpUses' => overlap'
                    /\ (\A t \in Thread : Loading(t)') => clash'
                    /\ clash' => overlap'
                    /\ Saving' => ~Loading("tcp")'
  BY Zenon DEF Recorded
<1>8. Loading("telnet")' /\ TcpUses' => overlap'
  BY <1>5, Zenon
<1>9. (\A t \in Thread : Loading(t)') => clash'
  BY <1>5, <1>3, <1>2, Zenon
<1>10. clash' => overlap'
  BY <1>5, <1>6, <1>4, <1>3, <1>2, Zenon
<1> QED
  BY <1>1, <1>7, <1>8, <1>9, <1>10, Zenon

(* A load at work that no second one has run into is the only one.         *)
LEMMA OnlyOne ==
  ASSUME IInv, NEW t \in Thread, Loading(t), Overlap, Others(t), ~clash'
  PROVE  /\ \A u \in Thread \ {t} : ~Loading(u)'
         /\ Loading(t)' => ~clash
<1>1. \A u \in Thread \ {t} : Loading(u)' <=> Loading(u)
  BY DEF Others, Loading
<1>2. CASE clash
  <2>1. ~ \E u \in Thread : Loading(u)'
    BY <1>2, Zenon DEF Overlap
  <2> QED
    BY <2>1, Zenon
<1>3. CASE ~clash
  <2>1. ~ \A u \in Thread : Loading(u)
    BY <1>3, Zenon DEF IInv, Recorded
  <2>2. \A u, v \in Thread \ {t} : u = v
    BY DEF Thread
  <2>3. PICK v \in Thread \ {t} : ~Loading(v)
    BY <2>1, Zenon
  <2> QED
    BY <1>1, <1>3, <2>2, <2>3, Zenon
<1> QED
  BY <1>2, <1>3

(* What a step of one load has to keep.                                    *)
LEMMA StepKeeps ==
  ASSUME IInv, NEW t \in Thread, UNCHANGED writer, Overlap, QueryTyped',
         loader' \in [Thread -> LoaderType], Others(t),
         Loading(t), loader'[t].pc # "idle",
         ~clash => loader'[t].at <= Len(loader'[t].list) /\ Owns(t)',
         loader'[t].pc = "open" => sql' \in Select \cup {Insert},
         sql' = sql \/ sql' \in Select,
         \/ res' = res /\ eof' = eof
               /\ (loader[t].pc \in Inside \cup {"close", "crashed"}
                     => loader'[t].pc \in Inside \cup {"close", "crashed"})
         \/ loader'[t].pc \in Inside \cup {"close", "crashed"}
         \/ res' = NoRes /\ eof'
  PROVE  IInv'
<1>0. /\ Loading(t)' /\ Saving' = Saving
      /\ \A u \in Thread \ {t} : Loading(u)' <=> Loading(u)
  BY DEF Loading, Saving, Others
<1>1. Recorded' /\ overlap' \in BOOLEAN /\ clash' \in BOOLEAN
  <2>1. Saving' => ~Loading("tcp")'
    <3>1. CASE t = "tcp"
      BY <3>1, <1>0 DEF IInv, Recorded
    <3>2. CASE t # "tcp"
      BY <3>2, <1>0 DEF IInv, Recorded, Thread
    <3> QED
      BY <3>1, <3>2
  <2> QED
    BY <2>1, RecordKept DEF IInv
<1>2. Typed'
  <2>1. ASSUME NEW u \in Thread
        PROVE  (clash' /\ Loading(u)') \/ loader'[u].at <= Len(loader'[u].list)
    <3>1. CASE u = t
      <4>1. CASE clash'
        BY <3>1, <4>1, <1>0
      <4>2. CASE ~clash'
        BY <3>1, <4>2, <1>0, OnlyOne
      <4> QED
        BY <4>1, <4>2
    <3>2. CASE u # t
      <4>1. loader'[u] = loader[u]
        BY <3>2 DEF Others
      <4>2. CASE Loading(u)
        <5>1. Loading(u)'
          BY <1>0, <3>2, <4>2
        <5>2. clash'
          BY <3>2, <5>1, OnlyOne
        <5> QED
          BY <5>1, <5>2
      <4>3. CASE ~Loading(u)
        BY <4>1, <4>3 DEF IInv, Typed
      <4> QED
        BY <4>2, <4>3
    <3> QED
      BY <3>1, <3>2
  <2> QED
    BY <1>1, <2>1 DEF IInv, Typed
<1>3. Asked'
  <2>1. ASSUME NEW u \in Thread, u # t, loader'[u].pc = "open"
        PROVE  sql' \in Select \cup {Insert}
    BY <2>1 DEF IInv, Asked, Others
  <2>2. ASSUME writer' = "added" PROVE sql' \in Select \cup {Insert}
    BY <2>2 DEF IInv, Asked
  <2> QED
    BY <2>1, <2>2 DEF Asked
<1>4. OwnsAll'
  <2> SUFFICES ASSUME ~clash', NEW u \in Thread PROVE Owns(u)'
    BY DEF OwnsAll
  <2>1. CASE u = t
    BY <1>0, <2>1, OnlyOne
  <2>2. CASE u # t
    <3>1. loader'[u].pc = "idle"
      BY <2>2, OnlyOne DEF Loading
    <3> QED
      BY <3>1 DEF Owns, OwnStatement, OwnResult, Inside
  <2> QED
    BY <2>1, <2>2
<1>5. WillBeFreed'
  <2>1. CASE res' = res /\ eof' = eof
               /\ (loader[t].pc \in Inside \cup {"close", "crashed"}
                     => loader'[t].pc \in Inside \cup {"close", "crashed"})
    BY <2>1 DEF IInv, WillBeFreed, Others
  <2>2. CASE loader'[t].pc \in Inside \cup {"close", "crashed"}
    BY <2>2 DEF WillBeFreed
  <2>3. CASE res' = NoRes /\ eof'
    BY <2>3 DEF WillBeFreed
  <2> QED
    BY <2>1, <2>2, <2>3
<1> QED
  BY <1>1, <1>2, <1>3, <1>4, <1>5 DEF IInv

(* The steps of a load before its first row.                               *)
LEMMA OpeningKeeps ==
  ASSUME IInv, NEW t \in Thread, UNCHANGED writer, Overlap,
         AddStatement(t) \/ \E ok \in BOOLEAN : OpenStatement(t, ok)
  PROVE  IInv'
<1>0. Typed /\ QueryTyped /\ (~clash => loader[t].at <= Len(loader[t].list) /\ Owns(t))
  BY DEF IInv, Typed, OwnsAll
<1>1. CASE AddStatement(t)
  <2>1. /\ loader' \in [Thread -> LoaderType] /\ Others(t) /\ loader'[t].pc = "open"
        /\ loader'[t].at = loader[t].at /\ loader'[t].list = loader[t].list
        /\ Stmt(t)' = Stmt(t) /\ loader[t].pc = "add"
    BY <1>0, <1>1, MovesOn DEF AddStatement, In, LoaderPc
  <2>2. UNCHANGED <<res, eof, count, stored>>
    BY <1>1 DEF AddStatement
  <2>3. sql' \in Select /\ (~clash => sql' = Stmt(t))
    <3>1. CASE clash /\ loader[t].at > 0
      BY <1>1, <3>1, Statements DEF AddStatement
    <3>2. CASE ~(clash /\ loader[t].at > 0)
      <4>1. sql' = Stmt(t)
        BY <1>1, <3>2 DEF AddStatement
      <4>2. CASE loader[t].at = 0
        BY <4>1, <4>2, Statements DEF Stmt
      <4>3. CASE loader[t].at # 0
        <5>1. loader[t].at \in Nat
          BY <1>0 DEF Typed, LoaderType
        <5>2. ~clash
          BY <3>2, <4>3, <5>1
        <5> QED
          BY <1>0, <4>1, <5>2, StmtSelects
      <4> QED
        BY <4>2, <4>3
    <3> QED
      BY <3>1, <3>2
  <2>4. QueryTyped'
    BY <1>0, <2>2, <2>3 DEF QueryTyped
  <2>5. ~clash => loader'[t].at <= Len(loader'[t].list) /\ Owns(t)'
    BY <1>0, <2>1, <2>3 DEF Owns, OwnStatement, OwnResult, Inside
  <2>6. Loading(t)
    BY <2>1 DEF Loading
  <2> QED
    BY <2>1, <2>2, <2>3, <2>4, <2>5, <2>6, StepKeeps DEF Inside
<1>2. ASSUME NEW ok \in BOOLEAN, OpenStatement(t, ok) PROVE IInv'
  <2>0. Open(ok) /\ loader[t].pc = "open" /\ sql \in Select \cup {Insert}
    BY <1>2, Zenon DEF OpenStatement, In, IInv, Asked
  <2>1. /\ sql' = sql /\ QueryTyped'
        /\ res' = NoRes \/ (sql # Insert /\ res' = First(Result(sql)))
    BY <1>0, <2>0, OpenLeaves, Zenon
  <2>2. /\ loader' \in [Thread -> LoaderType] /\ Others(t) /\ loader'[t].pc = "first"
        /\ loader'[t].at = loader[t].at /\ loader'[t].list = loader[t].list
    <3>0. loader \in [Thread -> LoaderType]
      BY <1>0 DEF Typed
    <3>1. (loader[t].ok /\ ok) \in BOOLEAN
      BY Zenon
    <3>2. loader' = [loader EXCEPT ![t] = [@ EXCEPT !.pc = "first", !.ok = loader[t].ok /\ ok]]
      BY <1>2, <3>0, Zenon DEF OpenStatement
    <3> DEFINE both == loader[t].ok /\ ok
    <3>3. both \in BOOLEAN /\ loader' = [loader EXCEPT ![t] = [@ EXCEPT !.pc = "first", !.ok = both]]
      BY <3>1, <3>2
    <3> HIDE DEF both
    <3> QED
      BY <3>0, <3>3 DEF LoaderType, LoaderPc, Others
  <2>3. Stmt(t)' = Stmt(t)
    BY <2>2, SameStmt
  <2>4. ~clash => Owns(t)'
    <3> SUFFICES ASSUME ~clash PROVE Owns(t)'
      OBVIOUS
    <3>1. sql \in {Stmt(t), Insert}
      BY <1>0, <2>0 DEF Owns, OwnStatement
    <3>2. res' = NoRes \/ res'.of = Stmt(t)
      BY <2>1, <3>1 DEF First, Result
    <3> QED
      BY <2>1, <2>3, <3>1, <3>2 DEF Owns, OwnStatement, OwnResult
  <2>5. Loading(t)
    BY <2>0 DEF Loading
  <2> QED
    BY <1>0, <2>0, <2>1, <2>2, <2>4, <2>5, StepKeeps DEF Inside
<1> QED
  BY <1>1, <1>2

(* The loop over the rows.                                                 *)
LEMMA LoopKeeps ==
  ASSUME IInv, NEW t \in Thread, UNCHANGED writer, Overlap,
         FirstRow(t) \/ TestEof(t) \/ NextRow(t)
  PROVE  IInv'
<1>0. Typed /\ QueryTyped /\ (~clash => loader[t].at <= Len(loader[t].list) /\ Owns(t))
  BY DEF IInv, Typed, OwnsAll
<1>1. ASSUME NEW p \in {"test", "row", "next", "close"}, At(t, p),
             UNCHANGED <<sql, count, stored>>, loader[t].pc \in Inside,
             res' \in [of : Select \cup {NoSql}, row : Nat], eof' \in BOOLEAN,
             res' = res \/ (res # NoRes /\ res'.of = res.of)
      PROVE  IInv'
  <2>1. /\ loader' \in [Thread -> LoaderType] /\ Others(t) /\ loader'[t].pc = p
        /\ loader'[t].at = loader[t].at /\ loader'[t].list = loader[t].list
        /\ Stmt(t)' = Stmt(t)
    BY <1>0, <1>1, MovesOn DEF LoaderPc
  <2>2. QueryTyped'
    BY <1>0, <1>1 DEF QueryTyped
  <2>3. ~clash => Owns(t)'
    BY <1>0, <1>1, <2>1 DEF Owns, OwnStatement, OwnResult, Inside
  <2>4. Loading(t)
    BY <1>1 DEF Loading, Inside
  <2> QED
    BY <1>0, <1>1, <2>1, <2>2, <2>3, <2>4, StepKeeps DEF Inside
<1>2. CASE FirstRow(t)
  <2>1. loader[t].pc \in Inside /\ At(t, "test") /\ UNCHANGED <<sql, count, stored>>
    BY <1>2 DEF FirstRow, In, Inside
  <2>2. CASE res = NoRes
    BY <1>0, <1>1, <1>2, <2>1, <2>2 DEF FirstRow, QueryTyped
  <2>3. CASE res # NoRes
    <3>1. res' = First(res) /\ eof' = AtEnd(res')
      BY <1>2, <2>3 DEF FirstRow
    <3>2. RowsOf(res'.of) \in Nat /\ res'.row \in Nat /\ res'.of = res.of
      BY <1>0, <2>3, <3>1, Statements DEF QueryTyped, First
    <3>3. eof' \in BOOLEAN
      BY <3>1, <3>2, EndMark, Zenon
    <3>4. res' \in [of : Select \cup {NoSql}, row : Nat]
      BY <1>0, <3>1 DEF QueryTyped, First
    <3> QED
      BY <1>1, <2>1, <2>3, <3>2, <3>3, <3>4
  <2> QED
    BY <2>2, <2>3
<1>3. CASE TestEof(t)
  BY <1>0, <1>1, <1>3 DEF TestEof, In, Inside, query, QueryTyped
<1>4. CASE NextRow(t)
  <2>1. loader[t].pc \in Inside /\ At(t, "test") /\ UNCHANGED <<sql, count, stored>>
    BY <1>4 DEF NextRow, In, Inside
  <2>2. CASE UNCHANGED <<res, eof>>
    BY <1>0, <1>1, <2>1, <2>2 DEF QueryTyped
  <2>3. CASE res # NoRes /\ res' = [res EXCEPT !.row = @ + 1] /\ eof' = AtEnd(res')
    <3>1. /\ RowsOf(res'.of) \in Nat /\ res'.row \in Nat /\ res'.of = res.of
          /\ res' \in [of : Select \cup {NoSql}, row : Nat]
      BY <1>0, <2>3, Statements DEF QueryTyped
    <3>2. eof' \in BOOLEAN
      BY <2>3, <3>1, EndMark, Zenon
    <3> QED
      BY <1>1, <2>1, <2>3, <3>1, <3>2
  <2> QED
    BY <1>4, <2>2, <2>3 DEF NextRow
<1> QED
  BY <1>2, <1>3, <1>4

(* What a row read adds to the list of entries.                            *)
LEMMA LongerList ==
  ASSUME NEW list \in Seq(Entries), NEW r \in Row
  PROVE  /\ Append(list, Entry(r)) \in Seq(Entries)
         /\ Len(Append(list, Entry(r))) = Len(list) + 1
<1>1. Entry(r) \in Entries
  BY DEF Entry, Entries
<1> QED
  BY <1>1

LEMMA LongerEntry ==
  ASSUME NEW list \in Seq(Entries), NEW i \in 1 .. Len(list), NEW k \in Nat
  PROVE  LET longer == [list EXCEPT ![i].eles = Append(@, k)]
         IN  /\ longer \in Seq(Entries) /\ Len(longer) = Len(list)
             /\ longer[i].jzq = list[i].jzq
<1>1. list[i] \in Entries
  OBVIOUS
<1>2. list[i].eles \in Seq(Nat)
  BY <1>1 DEF Entries
<1>3. Append(list[i].eles, k) \in Seq(Nat)
  BY <1>2
<1>4. [list[i] EXCEPT !.eles = Append(@, k)] \in Entries
  BY <1>1, <1>3 DEF Entries
<1>5. [list EXCEPT ![i].eles = Append(@, k)] \in Seq(Entries)
  BY <1>4
<1>6. [list[i] EXCEPT !.eles = Append(@, k)].jzq = list[i].jzq
  BY <1>1 DEF Entries
<1> QED
  BY <1>5, <1>6

(* A load that goes on with another list.                                  *)
LEMMA ListsOn ==
  ASSUME Typed, NEW t \in Thread, NEW list \in Seq(Entries),
         loader' = [loader EXCEPT ![t].pc = "next", ![t].list = list]
  PROVE  /\ loader' \in [Thread -> LoaderType] /\ Others(t)
         /\ loader'[t].pc = "next" /\ loader'[t].at = loader[t].at
         /\ loader'[t].list = list /\ loader'[t].ok = loader[t].ok
<1>0. loader \in [Thread -> LoaderType]
  BY DEF Typed
<1>1. loader' = [loader EXCEPT ![t] = [loader[t] EXCEPT !.pc = "next", !.list = list]]
  BY <1>0
<1>2. [loader[t] EXCEPT !.pc = "next", !.list = list] \in LoaderType
  BY <1>0 DEF LoaderType, LoaderPc
<1>3. /\ loader' \in [Thread -> LoaderType] /\ Others(t)
      /\ loader'[t] = [loader[t] EXCEPT !.pc = "next", !.list = list]
  BY <1>0, <1>1, <1>2 DEF Others
<1> QED
  BY <1>0, <1>3 DEF LoaderType

(* The list after a row has been read, before anything clashed.            *)
LEMMA ReadAdds ==
  ASSUME Typed, NEW t \in Thread, ReadRow(t), OnRow, ~clash, res.of = Stmt(t)
  PROVE  \E list \in Seq(Entries) :
           /\ list = IF loader[t].at = 0 THEN Append(loader[t].list, Entry(res.row))
                     ELSE [loader[t].list EXCEPT ![loader[t].at].eles = Append(@, res.row)]
           /\ loader' = [loader EXCEPT ![t].pc = "next", ![t].list = list]
           /\ Stmt(t)' = Stmt(t) /\ loader[t].at <= Len(list)
<1>0. /\ loader \in [Thread -> LoaderType] /\ loader[t].at \in Nat
      /\ loader[t].list \in Seq(Entries) /\ loader[t].at <= Len(loader[t].list)
      /\ Len(loader[t].list) \in Nat
  BY DEF Typed, LoaderType
<1>1. res.row \in 1 .. RowsOf(Stmt(t)) /\ RowsOf(Stmt(t)) \in Nat
  BY <1>0, StmtSelects, Statements DEF OnRow, AtEnd, Typed, QueryTyped
<1>2. CASE loader[t].at = 0
  <2> DEFINE list == Append(loader[t].list, Entry(res.row))
  <2>1. res.row \in Row /\ Stmt(t) = Jzqs
    BY <1>1, <1>2, Statements, EleAssumption DEF Stmt, Row
  <2>2. list \in Seq(Entries) /\ loader[t].at <= Len(list)
    BY <1>0, <1>2, <2>1, LongerList
  <2>3. loader' = [loader EXCEPT ![t].pc = "next", ![t].list = Append(@, Entry(res.row))]
    BY <1>2 DEF ReadRow
  <2>4. loader' = [loader EXCEPT ![t].pc = "next", ![t].list = list]
    BY <1>0, <2>3
  <2> HIDE DEF list
  <2>5. Stmt(t)' = Stmt(t)
    BY <1>2, <2>1, <2>2, <2>4, ListsOn DEF Stmt, Jzqs
  <2> QED
    BY <1>2, <2>2, <2>4, <2>5 DEF list
<1>3. CASE loader[t].at # 0
  <2> DEFINE list == [loader[t].list EXCEPT ![loader[t].at].eles = Append(@, res.row)]
  <2>1. loader[t].at \in 1 .. Len(loader[t].list) /\ res.row \in Nat /\ loader[t].at > 0
    BY <1>0, <1>1, <1>3
  <2>2. /\ list \in Seq(Entries) /\ Len(list) = Len(loader[t].list)
        /\ list[loader[t].at].jzq = loader[t].list[loader[t].at].jzq
    BY <1>0, <2>1, LongerEntry
  <2>3. loader' = [loader EXCEPT ![t].pc = "next",
                                 ![t].list[loader[t].at].eles = Append(@, res.row)]
    BY <1>3, <2>1, Zenon DEF ReadRow
  <2>4. loader' = [loader EXCEPT ![t].pc = "next", ![t].list = list]
    BY <1>0, <2>3
  <2> HIDE DEF list
  <2>5. Stmt(t)' = Stmt(t)
    <3>1. loader'[t].at = loader[t].at /\ loader'[t].list = list
      BY <2>2, <2>4, ListsOn
    <3> QED
      BY <1>3, <2>2, <3>1 DEF Stmt, Elements
  <2> QED
    BY <1>0, <1>3, <2>2, <2>4, <2>5 DEF list
<1> QED
  BY <1>2, <1>3

(* A row is read where the result stands.                                  *)
LEMMA ReadKeeps ==
  ASSUME IInv, NEW t \in Thread, UNCHANGED writer, Overlap, ReadRow(t) \/ Torn(t)
  PROVE  IInv'
<1>0. /\ Typed /\ QueryTyped /\ (~clash => loader[t].at <= Len(loader[t].list) /\ Owns(t))
      /\ UNCHANGED <<sql, res, eof, count, stored>> /\ Loading(t)
  BY DEF IInv, Typed, OwnsAll, ReadRow, Torn, query, Loading, In
<1>1. QueryTyped'
  BY <1>0 DEF QueryTyped
<1>2. CASE ReadRow(t) /\ OnRow /\ ~clash
  <2>1. res.of = Stmt(t) /\ loader[t].pc = "row"
    BY <1>0, <1>2 DEF ReadRow, In, OnRow, Owns, OwnResult, Inside
  <2>2. PICK list \in Seq(Entries) :
           /\ loader' = [loader EXCEPT ![t].pc = "next", ![t].list = list]
           /\ Stmt(t)' = Stmt(t) /\ loader[t].at <= Len(list)
    BY <1>0, <1>2, <2>1, ReadAdds
  <2>3. /\ loader' \in [Thread -> LoaderType] /\ Others(t) /\ loader'[t].pc = "next"
        /\ loader'[t].at = loader[t].at /\ loader'[t].list = list
    BY <1>0, <2>2, ListsOn
  <2>4. Owns(t)'
    BY <1>0, <1>2, <2>1, <2>2, <2>3 DEF Owns, OwnStatement, OwnResult, Inside
  <2> QED
    BY <1>0, <1>1, <2>2, <2>3, <2>4, StepKeeps DEF Inside
<1>3. ASSUME NEW p \in {"next", "crashed"}, At(t, p), clash \/ p = "crashed" PROVE IInv'
  <2>1. /\ loader' \in [Thread -> LoaderType] /\ Others(t) /\ loader'[t].pc = p
        /\ loader'[t].at = loader[t].at /\ loader'[t].list = loader[t].list
        /\ Stmt(t)' = Stmt(t)
    BY <1>0, <1>3, MovesOn DEF LoaderPc
  <2>2. ~clash => Owns(t)'
    BY <1>3, <2>1 DEF Owns, OwnStatement, OwnResult, Inside
  <2> QED
    BY <1>0, <1>1, <1>3, <2>1, <2>2, StepKeeps DEF Inside
<1>4. CASE ReadRow(t) /\ ~(OnRow /\ ~clash)
  BY <1>3, <1>4 DEF ReadRow
<1>5. CASE Torn(t)
  BY <1>3, <1>5 DEF Torn
<1> QED
  BY <1>2, <1>4, <1>5

(* qclose forgets the result.                                              *)
LEMMA ClosingKeeps ==
  ASSUME IInv, NEW t \in Thread, UNCHANGED writer, Overlap, CloseRows(t)
  PROVE  IInv'
<1>0. /\ Typed /\ QueryTyped /\ loader \in [Thread -> LoaderType]
      /\ ~clash => loader[t].at <= Len(loader[t].list)
      /\ loader[t].at \in Nat /\ Len(loader[t].list) \in Nat
      /\ loader[t].pc = "close" /\ Loading(t)
      /\ Close /\ UNCHANGED <<sql, stored>>
  BY DEF IInv, Typed, LoaderType, CloseRows, In, Loading
<1>1. QueryTyped' /\ res' = NoRes /\ eof'
  BY <1>0, CloseLeaves
<1>2. ASSUME NEW n \in Nat, loader' = [loader EXCEPT ![t].pc = "add", ![t].at = n],
             ~clash => n <= Len(loader[t].list)
      PROVE  IInv'
  <2>1. loader' = [loader EXCEPT ![t] = [loader[t] EXCEPT !.pc = "add", !.at = n]]
    BY <1>0, <1>2
  <2>2. [loader[t] EXCEPT !.pc = "add", !.at = n] \in LoaderType
    BY <1>0, <1>2 DEF LoaderType, LoaderPc
  <2>3. /\ loader' \in [Thread -> LoaderType] /\ Others(t)
        /\ loader'[t] = [loader[t] EXCEPT !.pc = "add", !.at = n]
    BY <1>0, <2>1, <2>2 DEF Others
  <2>4. loader'[t].pc = "add" /\ loader'[t].at = n /\ loader'[t].list = loader[t].list
    BY <1>0, <2>3 DEF LoaderType
  <2>5. Owns(t)'
    BY <2>4 DEF Owns, OwnStatement, OwnResult, Inside
  <2> QED
    BY <1>0, <1>1, <1>2, <2>3, <2>4, <2>5, StepKeeps
<1>3. CASE ~clash /\ loader[t].at < Len(loader[t].list)
           /\ loader' = [loader EXCEPT ![t].pc = "add", ![t].at = @ + 1]
  <2>1. loader[t].at + 1 \in Nat /\ loader[t].at + 1 <= Len(loader[t].list)
    BY <1>0, <1>3
  <2>2. loader' = [loader EXCEPT ![t].pc = "add", ![t].at = loader[t].at + 1]
    BY <1>0, <1>3
  <2> QED
    BY <1>2, <2>1, <2>2
<1>4. CASE clash /\ loader' = [loader EXCEPT ![t].pc = "add", ![t].at = 1]
  BY <1>2, <1>4
<1>5. CASE At(t, "end")
  <2>1. /\ loader' \in [Thread -> LoaderType] /\ Others(t) /\ loader'[t].pc = "end"
        /\ loader'[t].at = loader[t].at /\ loader'[t].list = loader[t].list
    BY <1>0, <1>5, MovesOn DEF LoaderPc
  <2>2. Owns(t)'
    BY <2>1 DEF Owns, OwnStatement, OwnResult, Inside
  <2> QED
    BY <1>0, <1>1, <2>1, <2>2, StepKeeps
<1> QED
  BY <1>3, <1>4, <1>5 DEF CloseRows

(* Who forgets the statement is the last to have one.                      *)
LEMMA Forgets ==
  ASSUME QueryTyped, NEW used, Forget(used), UNCHANGED <<res, eof>>, stored' \in Nat
  PROVE  QueryTyped' /\ (used => sql' = sql)
  BY DEF QueryTyped, Forget

(* The end of a load forgets its statement.                                *)
LEMMA EndingKeeps ==
  ASSUME IInv, NEW t \in Thread, UNCHANGED writer, Overlap, EndLoad(t)
  PROVE  IInv'
<1>0. /\ Typed /\ QueryTyped /\ Loading(t) /\ loader[t].pc = "end"
      /\ loader \in [Thread -> LoaderType]
      /\ loader' = [loader EXCEPT ![t] = Idle]
      /\ UNCHANGED <<res, eof, stored>>
      /\ Forget(Saving \/ \E u \in Thread \ {t} : Loading(u))
  BY DEF IInv, Typed, EndLoad, In, Loading
<1>1. /\ loader' \in [Thread -> LoaderType] /\ Others(t) /\ loader'[t] = Idle
      /\ loader'[t].pc = "idle" /\ loader'[t].at <= Len(loader'[t].list)
  <2>1. loader' \in [Thread -> LoaderType] /\ Others(t) /\ loader'[t] = Idle
    BY <1>0, IdleTyped DEF Others
  <2>2. loader'[t].pc = "idle" /\ loader'[t].at = 0 /\ Len(loader'[t].list) = 0
    BY <2>1, IdleTyped DEF Idle
  <2> QED
    BY <2>1, <2>2
<1>2. /\ ~Loading(t)' /\ Saving' = Saving
      /\ \A u \in Thread \ {t} : Loading(u)' <=> Loading(u)
  BY <1>1 DEF Loading, Saving, Others
<1>3. Recorded' /\ overlap' \in BOOLEAN /\ clash' \in BOOLEAN
  <2>1. Saving' => ~Loading("tcp")'
    BY <1>2 DEF IInv, Recorded, Thread
  <2> QED
    BY <2>1, RecordKept DEF IInv
<1>4. stored' \in Nat
  BY <1>0 DEF QueryTyped
<1>5. QueryTyped' /\ ((Saving \/ \E u \in Thread \ {t} : Loading(u)) => sql' = sql)
  BY <1>0, <1>4, Forgets
<1>6. \A u \in Thread \ {t} : ~clash' => ~Loading(u)'
  BY <1>0, <1>1, OnlyOne
<1>7. Typed'
  <2>1. ASSUME NEW u \in Thread
        PROVE  (clash' /\ Loading(u)') \/ loader'[u].at <= Len(loader'[u].list)
    <3>1. CASE u = t
      BY <3>1, <1>1
    <3>2. CASE u # t /\ Loading(u)
      BY <3>2, <1>2, <1>6
    <3>3. CASE u # t /\ ~Loading(u)
      BY <3>3, <1>1 DEF Others, IInv, Typed
    <3> QED
      BY <3>1, <3>2, <3>3
  <2> QED
    BY <1>1, <1>3, <1>5, <2>1 DEF IInv, Typed
<1>8. Asked'
  <2>1. ASSUME NEW u \in Thread, loader'[u].pc = "open" PROVE sql' \in Select \cup {Insert}
    <3>1. u # t /\ loader[u].pc = "open"
      BY <1>1, <2>1 DEF Others
    <3>2. Loading(u)
      BY <3>1 DEF Loading
    <3> QED
      BY <1>5, <3>1, <3>2 DEF IInv, Asked
  <2>2. ASSUME writer' = "added" PROVE sql' \in Select \cup {Insert}
    BY <1>5, <2>2 DEF IInv, Asked, Saving
  <2> QED
    BY <2>1, <2>2 DEF Asked
<1>9. OwnsAll'
  <2>1. ASSUME ~clash', NEW u \in Thread PROVE loader'[u].pc = "idle"
    BY <1>1, <1>6, <2>1 DEF Loading
  <2> QED
    BY <2>1 DEF OwnsAll, Owns, OwnStatement, OwnResult, Inside
<1>10. WillBeFreed'
  BY <1>0, <1>1 DEF IInv, WillBeFreed, Others, Inside
<1> QED
  BY <1>3, <1>7, <1>8, <1>9, <1>10 DEF IInv

(* A load that begins while the other is at work tears both their lists.   *)
LEMMA TearKeeps ==
  ASSUME NEW l \in [Thread -> LoaderType]
  PROVE  /\ Tear(l) \in [Thread -> LoaderType]
         /\ \A u \in Thread : Tear(l)[u].pc = l[u].pc /\ Tear(l)[u].at = l[u].at
         /\ (\E u \in Thread : l[u].pc = "idle") => Tear(l) = l
<1>1. ASSUME NEW u \in Thread
      PROVE  /\ [l[u] EXCEPT !.list = <<>>, !.ok = FALSE] \in LoaderType
             /\ [l[u] EXCEPT !.list = <<>>, !.ok = FALSE].pc = l[u].pc
             /\ [l[u] EXCEPT !.list = <<>>, !.ok = FALSE].at = l[u].at
  <2>1. l[u] \in LoaderType /\ <<>> \in Seq(Entries) /\ FALSE \in BOOLEAN
    OBVIOUS
  <2>2. \A e \in Seq(Entries), b \in BOOLEAN :
           LET r == [l[u] EXCEPT !.list = e, !.ok = b]
           IN  r \in LoaderType /\ r.pc = l[u].pc /\ r.at = l[u].at
    BY <2>1 DEF LoaderType
  <2> QED
    BY <2>1, <2>2, Zenon
<1> QED
  BY <1>1 DEF Tear

(* A load begins with nothing asked; so does the end of a round.           *)
LEMMA BeginningKeeps ==
  ASSUME IInv, NEW t \in Thread, UNCHANGED <<query, writer, stored>>, Overlap,
         NEW r \in LoaderType, r.pc \in {"gone", "add"}, r.at <= Len(r.list),
         loader' = Tear([loader EXCEPT ![t] = r]),
         loader[t].pc \in {"idle", "gone"}, t = "tcp" => ~Saving
  PROVE  /\ IInv'
         /\ ~clash' => loader' = [loader EXCEPT ![t] = r]
<1> DEFINE l == [loader EXCEPT ![t] = r]
<1>0. /\ Typed /\ QueryTyped /\ loader \in [Thread -> LoaderType]
      /\ UNCHANGED <<sql, res, eof, count, stored>>
  BY DEF IInv, Typed, query
<1>1. /\ l \in [Thread -> LoaderType] /\ l[t] = r
      /\ \A u \in Thread \ {t} : l[u] = loader[u]
  BY <1>0
<1> HIDE DEF l
<1>2. /\ loader' \in [Thread -> LoaderType]
      /\ \A u \in Thread : loader'[u].pc = l[u].pc /\ loader'[u].at = l[u].at
      /\ (\E u \in Thread : l[u].pc = "idle") => loader' = l
  BY <1>1, TearKeeps DEF l
<1>3. /\ loader'[t].pc = r.pc /\ Loading(t)' /\ Saving' = Saving
      /\ \A u \in Thread \ {t} : loader'[u].pc = loader[u].pc
      /\ \A u \in Thread \ {t} : Loading(u)' <=> Loading(u)
  BY <1>1, <1>2 DEF Loading, Saving
<1>4. Recorded' /\ overlap' \in BOOLEAN /\ clash' \in BOOLEAN
  <2>1. Saving' => ~Loading("tcp")'
    BY <1>3 DEF IInv, Recorded, Thread
  <2> QED
    BY <2>1, RecordKept DEF IInv
<1>5. ~clash' => ~clash /\ loader' = l /\ \A u \in Thread \ {t} : loader'[u].pc = "idle"
  <2> SUFFICES ASSUME ~clash'
               PROVE  ~clash /\ loader' = l /\ \A u \in Thread \ {t} : loader'[u].pc = "idle"
    OBVIOUS
  <2>1. ~clash
    BY <1>3, Zenon DEF Overlap
  <2>2. ~ \A u \in Thread : Loading(u)'
    BY <1>4, Zenon DEF Recorded
  <2>3. PICK v \in Thread \ {t} : ~Loading(v)'
    BY <1>3, <2>2, Zenon
  <2>4. \A u, v1 \in Thread \ {t} : u = v1
    BY DEF Thread
  <2>5. \A u \in Thread \ {t} : loader'[u].pc = "idle"
    BY <2>3, <2>4 DEF Loading
  <2>6. l[v].pc = "idle"
    BY <1>2, <2>5
  <2> QED
    BY <1>2, <2>1, <2>5, <2>6
<1>6. QueryTyped'
  BY <1>0 DEF QueryTyped
<1>7. Typed'
  <2>1. ASSUME NEW u \in Thread
        PROVE  (clash' /\ Loading(u)') \/ loader'[u].at <= Len(loader'[u].list)
    <3>1. CASE ~clash'
      BY <1>1, <1>5, <3>1 DEF IInv, Typed
    <3>2. CASE clash' /\ ~Loading(u)'
      <4>1. u # t /\ ~Loading(u) /\ loader' = l
        BY <1>2, <1>3, <3>2 DEF Loading
      <4> QED
        BY <1>1, <4>1 DEF IInv, Typed
    <3> QED
      BY <3>1, <3>2
  <2> QED
    BY <1>2, <1>4, <1>6, <2>1 DEF IInv, Typed
<1>8. Asked'
  BY <1>0, <1>3 DEF IInv, Asked
<1>9. OwnsAll'
  BY <1>3, <1>5 DEF OwnsAll, Owns, OwnStatement, OwnResult, Inside
<1>10. WillBeFreed'
  <2>1. \A u \in Thread : loader[u].pc \in Inside \cup {"close", "crashed"}
           => loader'[u].pc \in Inside \cup {"close", "crashed"}
    BY <1>3 DEF Inside
  <2> QED
    BY <1>0, <2>1 DEF IInv, WillBeFreed
<1> QED
  BY <1>4, <1>5, <1>7, <1>8, <1>9, <1>10 DEF IInv, l

LEMMA EnteredList ==
  ASSUME NEW rows \in Seq(Row) PROVE Entered(rows) \in Seq(Entries)
<1>2. \A i \in 1 .. Len(rows) : Entry(rows[i]) \in Entries
  BY DEF Entry, Entries
<1>3. Entered(rows) = [i \in 1 .. Len(rows) |-> Entry(rows[i])]
  BY DEF Entered
<1> QED
  BY <1>2, <1>3

(* What freshjzq and TcpServer's constructor begin.                        *)
Begun(rows) == [Idle EXCEPT !.pc = "add", !.list = Entered(rows)]

LEMMA BegunTyped ==
  ASSUME NEW rows \in Seq(Row)
  PROVE  /\ Begun(rows) \in LoaderType /\ Begun(rows).pc = "add" /\ Begun(rows).at = 0
         /\ Begun(rows).list = Entered(rows) /\ Begun(rows).at <= Len(Begun(rows).list)
<1>1. Entered(rows) \in Seq(Entries)
  BY EnteredList
<1>2. /\ Begun(rows) \in LoaderType /\ Begun(rows).pc = "add" /\ Begun(rows).at = 0
      /\ Begun(rows).list = Entered(rows)
  BY <1>1 DEF Begun, Idle, LoaderType, LoaderPc
<1> QED
  BY <1>1, <1>2

LEMMA LoadBegins ==
  ASSUME IInv, NEW t \in Thread, NEW rows \in Seq(Row), BeginLoad(t, rows),
         UNCHANGED writer, Overlap, loader[t].pc \in {"idle", "gone"}, t = "tcp" => ~Saving
  PROVE  IInv' /\ (~clash' => loader' = [loader EXCEPT ![t] = Begun(rows)])
<1>1. loader' = Tear([loader EXCEPT ![t] = Begun(rows)]) /\ UNCHANGED <<query, writer, stored>>
  BY DEF BeginLoad, Begun
<1> QED
  BY <1>1, BegunTyped, BeginningKeeps

LEMMA RoundsKeep ==
  ASSUME IInv, Begin \/ EndRound \/ NewRound PROVE IInv'
<1>0. "tcp" \in Thread /\ "telnet" \in Thread /\ <<>> \in Seq(Row)
  BY DEF Thread
<1>1. CASE Begin
  <2>1. PICK rows \in Before : BeginLoad("telnet", rows)
    BY <1>1 DEF Begin
  <2>2. rows \in Seq(Row) /\ UNCHANGED writer /\ Overlap /\ loader["telnet"].pc = "idle"
    BY <1>1, BeforeAssumption DEF Begin, Loading
  <2>3. "telnet" # "tcp"
    OBVIOUS
  <2> QED
    BY <1>0, <2>1, <2>2, <2>3, LoadBegins
<1>2. CASE NewRound
  <2>1. /\ BeginLoad("tcp", <<>>) /\ UNCHANGED writer /\ Overlap /\ loader["tcp"].pc = "gone"
        /\ ~Saving
    BY <1>2 DEF NewRound, In, IInv, Recorded, Loading
  <2> QED
    BY <1>0, <2>1, LoadBegins
<1>3. CASE EndRound
  <2> DEFINE r == [loader["tcp"] EXCEPT !.pc = "gone"]
  <2>1. loader["tcp"] \in LoaderType /\ loader \in [Thread -> LoaderType]
    BY <1>0 DEF IInv, Typed
  <2>2. r \in LoaderType /\ r.pc = "gone" /\ r.at = loader["tcp"].at /\ r.list = loader["tcp"].list
    BY <2>1 DEF LoaderType, LoaderPc
  <2>3. /\ loader["tcp"].pc = "idle" /\ ~Saving /\ Overlap
        /\ UNCHANGED <<query, writer, stored>>
        /\ loader' = Tear([loader EXCEPT !["tcp"].pc = "gone"])
    BY <1>3 DEF EndRound, TcpUses, Loading
  <2>4. loader' = Tear([loader EXCEPT !["tcp"] = r])
    BY <2>1, <2>3
  <2>5. r.at <= Len(r.list)
    BY <1>0, <2>2, <2>3 DEF IInv, Typed, Loading
  <2> HIDE DEF r
  <2> QED
    BY <1>0, <2>2, <2>3, <2>4, <2>5, BeginningKeeps
<1> QED
  BY <1>1, <1>2, <1>3

(* toDB's calls: what it sends beside a load is the load's own statement.  *)
LEMMA SavingKeeps ==
  ASSUME IInv, UNCHANGED loader, Overlap, SaveStep
  PROVE  IInv'
<1>0. /\ Typed /\ QueryTyped /\ \A t \in Thread : Loading(t)' <=> Loading(t)
      /\ \A t \in Thread : Stmt(t)' = Stmt(t)
  BY SameStmt DEF IInv, Typed, Loading
<1>1. ~Loading("tcp") /\ ~Loading("tcp")'
  <2>1. ~Loading("tcp")
    BY DEF SaveStep, AddInsert, ExecInsert, CloseInsert, EndSave, IInv, Recorded, Saving
  <2> QED
    BY <2>1 DEF Loading
<1>2. Recorded' /\ overlap' \in BOOLEAN /\ clash' \in BOOLEAN
  BY <1>1, RecordKept DEF IInv
<1>3. \A t \in Thread : Loading(t) => (clash' <=> clash)
  <2>1. ~ \A t \in Thread : Loading(t)'
    BY <1>1 DEF Thread
  <2>2. ASSUME NEW t \in Thread, Loading(t) PROVE \E u \in Thread : Loading(u)'
    BY <1>0, <2>2
  <2> QED
    BY <2>1, <2>2, Zenon DEF Overlap
<1>4. ASSUME QueryTyped', writer' \in {"idle", "added", "sent", "failed", "closed"}
      PROVE  Typed'
  <2>1. ASSUME NEW t \in Thread
        PROVE  (clash' /\ Loading(t)') \/ loader'[t].at <= Len(loader'[t].list)
    BY <1>0, <1>3 DEF Typed
  <2> QED
    BY <1>0, <1>2, <1>4, <2>1 DEF Typed
<1>5. ASSUME \A t \in Thread : Loading(t) /\ Owns(t) => Owns(t)'
      PROVE  OwnsAll'
  <2> SUFFICES ASSUME ~clash', NEW t \in Thread PROVE Owns(t)'
    BY DEF OwnsAll
  <2>1. CASE Loading(t)
    BY <1>3, <1>5, <2>1 DEF IInv, OwnsAll
  <2>2. CASE ~Loading(t)
    BY <2>2 DEF Loading, Owns, OwnStatement, OwnResult, Inside
  <2> QED
    BY <2>1, <2>2
<1>6. CASE AddInsert
  <2>1. /\ sql' = Insert /\ writer = "idle" /\ writer' = "added" /\ stored' = 0
        /\ UNCHANGED <<res, eof, count>>
    BY <1>6 DEF AddInsert
  <2>2. QueryTyped'
    BY <1>0, <2>1 DEF QueryTyped
  <2>3. Typed'
    BY <1>4, <2>1, <2>2
  <2>4. Asked' /\ WillBeFreed'
    BY <2>1 DEF IInv, Asked, WillBeFreed
  <2>5. OwnsAll'
    BY <1>0, <1>5, <2>1 DEF Owns, OwnStatement, OwnResult
  <2> QED
    BY <1>2, <2>3, <2>4, <2>5 DEF IInv
<1>7. ASSUME NEW ok \in BOOLEAN, ExecInsert(ok) PROVE IInv'
  <2>1. /\ ExecSQL(ok) /\ writer' \in {"sent", "failed"}
        /\ sql \in Select \cup {Insert}
    BY <1>7, Zenon DEF ExecInsert, IInv, Asked
  <2>2. /\ sql' = sql /\ QueryTyped'
        /\ res' = NoRes \/ (sql # Insert /\ res' = Result(sql))
    BY <1>0, <2>1, ExecLeaves, Zenon
  <2>3. Typed'
    BY <1>4, <2>1, <2>2
  <2>4. Asked' /\ WillBeFreed'
    BY <2>1, <2>2 DEF Asked, WillBeFreed
  <2>5. ASSUME NEW t \in Thread, Owns(t) PROVE Owns(t)'
    BY <1>0, <2>2, <2>5 DEF Owns, OwnStatement, OwnResult, Inside, Result
  <2>6. OwnsAll'
    BY <1>5, <2>5
  <2> QED
    BY <1>2, <2>3, <2>4, <2>6 DEF IInv
<1>8. CASE CloseInsert
  <2>1. Close /\ writer' = "closed" /\ UNCHANGED <<sql, stored>>
    BY <1>8 DEF CloseInsert
  <2>2. QueryTyped' /\ res' = NoRes /\ eof'
    BY <1>0, <2>1, CloseLeaves
  <2>3. Typed'
    BY <1>4, <2>1, <2>2
  <2>4. Asked' /\ WillBeFreed'
    BY <2>1, <2>2 DEF IInv, Asked, WillBeFreed
  <2>5. OwnsAll'
    BY <1>0, <1>5, <2>1, <2>2 DEF Owns, OwnStatement, OwnResult
  <2> QED
    BY <1>2, <2>3, <2>4, <2>5 DEF IInv
<1>9. CASE EndSave
  <2>1. /\ writer = "closed" /\ writer' = "idle" /\ stored' = 0 /\ UNCHANGED <<res, eof>>
        /\ Forget(Loading("telnet"))
    BY <1>9 DEF EndSave
  <2>2. QueryTyped' /\ (Loading("telnet") => sql' = sql)
    BY <1>0, <2>1, Forgets
  <2>3. \A t \in Thread : Loading(t) => sql' = sql
    BY <1>1, <2>2 DEF Thread
  <2>4. Typed'
    BY <1>4, <2>1, <2>2
  <2>5. Asked' /\ WillBeFreed'
    BY <2>1, <2>3 DEF IInv, Asked, WillBeFreed, Loading
  <2>6. OwnsAll'
    BY <1>0, <1>5, <2>1, <2>3 DEF Owns, OwnStatement, OwnResult
  <2> QED
    BY <1>2, <2>4, <2>5, <2>6 DEF IInv
<1> QED
  BY <1>6, <1>7, <1>8, <1>9 DEF SaveStep

(* Every step keeps the invariant.                                         *)
LEMMA NextIInv == IInv /\ [Next]_vars => IInv'
<1> SUFFICES ASSUME IInv, [Next]_vars PROVE IInv'
  OBVIOUS
<1>1. CASE Begin \/ EndRound \/ NewRound
  BY <1>1, RoundsKeep
<1>2. ASSUME NEW t \in Thread, Load(t) PROVE IInv'
  <2>1. LoadStep(t) /\ UNCHANGED writer /\ Overlap
    BY <1>2 DEF Load
  <2> QED
    BY <2>1, OpeningKeeps, LoopKeeps, ReadKeeps, ClosingKeeps, EndingKeeps DEF LoadStep
<1>3. CASE Save
  BY <1>3, SavingKeeps DEF Save
<1>4. CASE UNCHANGED vars
  BY <1>4 DEF vars, query, IInv, Typed, QueryTyped, Recorded, Asked, OwnsAll, Owns,
    OwnStatement, OwnResult, WillBeFreed, Stmt, Jzqs, Elements, Loading, Saving, TcpUses
<1> QED
  BY <1>1, <1>2, <1>3, <1>4 DEF Next

LEMMA Invariant == Spec => []IInv
  BY InitIInv, NextIInv, PTL DEF Spec

(* The query, the loads and toDB are well formed (TQuery, LoadJzq, toDB).  *)
THEOREM QueryType == Spec => []TypeOK
<1>1. IInv => TypeOK
  <2> SUFFICES ASSUME IInv PROVE TypeOK
    OBVIOUS
  <2>1. ASSUME NEW t \in Thread
        PROVE  /\ loader[t].pc \in LoaderPc /\ loader[t].at \in Nat
               /\ clash \/ loader[t].at <= Len(loader[t].list)
               /\ \A i \in DOMAIN loader[t].list :
                    loader[t].list[i].jzq \in Row /\ loader[t].list[i].eles \in Seq(Nat)
    <3>1. /\ loader[t].list \in Seq(Entries) /\ loader[t].at \in Nat
          /\ loader[t].pc \in LoaderPc
          /\ clash \/ loader[t].at <= Len(loader[t].list)
      BY DEF IInv, Typed, LoaderType
    <3>2. \A i \in DOMAIN loader[t].list : loader[t].list[i] \in Entries
      BY <3>1
    <3> QED
      BY <3>1, <3>2 DEF Entries
  <2>2. eof \in BOOLEAN /\ overlap \in BOOLEAN /\ clash \in BOOLEAN
    BY Zenon DEF IInv, Typed, QueryTyped
  <2> QED
    BY <2>1, <2>2 DEF IInv, Typed, QueryTyped, TypeOK
<1> QED
  BY <1>1, Invariant, PTL

(* A load that no second load runs into takes rows from answers to its own *)
(* statement only, wherever toDB sends and closes something of its own     *)
(* meanwhile (TQuery::Open, FieldByName).                                  *)
THEOREM OwnRows == Spec => []RowsOfOwnQuery
<1>1. IInv => RowsOfOwnQuery
  BY DEF IInv, OwnsAll, Owns, OwnResult, RowsOfOwnQuery, Inside
<1> QED
  BY <1>1, Invariant, PTL

(* Who closes last frees the result, two loads at once included            *)
(* (TQuery::Close in LoadJzq and toDB).                                    *)
THEOREM Freed == Spec => []ResultFreed
<1>1. IInv => ResultFreed
  BY DEF IInv, WillBeFreed, ResultFreed, Runs, Loading, Saving, TcpUses, Inside, Thread
<1> QED
  BY <1>1, Invariant, PTL

-----------------------------------------------------------------------------
(* Without a load beside it, m_FSQL holds the insert until it is sent, and *)
(* it is sent once.                                                        *)
SaveApart ==
  ~overlap /\ Saving =>
    /\ writer = "added" => sql = Insert /\ stored = 0
    /\ writer = "sent" => stored = 1
    /\ writer = "failed" => stored = 0

(* While toDB is on its own, no load is at work.                           *)
LEMMA NoLoads ==
  ASSUME IInv, Saving, ~overlap, NEW t \in Thread PROVE ~Loading(t)
  BY DEF IInv, Recorded, TcpUses, Thread

LEMMA NextSaveApart == IInv /\ SaveApart /\ [Next]_vars => SaveApart'
<1> SUFFICES ASSUME IInv, SaveApart, [Next]_vars PROVE SaveApart'
  OBVIOUS
<1>0. IInv' /\ "telnet" \in Thread /\ "tcp" \in Thread
  BY NextIInv DEF Thread
<1>1. CASE Begin \/ EndRound \/ NewRound \/ \E t \in Thread : Load(t)
  <2> SUFFICES ASSUME ~overlap', Saving' PROVE FALSE
    BY DEF SaveApart
  <2>1. Saving /\ Overlap /\ UNCHANGED writer
    BY <1>1 DEF Begin, EndRound, NewRound, Load, Saving
  <2>2. TcpUses' /\ TcpUses
    BY <2>1, Zenon DEF TcpUses
  <2>3. ~overlap
    BY <2>2, <2>1, Zenon DEF Overlap
  <2>4. \A t \in Thread : ~Loading(t)
    BY <2>1, <2>3, NoLoads
  <2>5. ~Loading("telnet")'
    BY <2>1, <2>2, <2>3, Zenon DEF Overlap
  <2>6. ~EndRound /\ ~NewRound
    BY <2>2, <2>4, <1>0 DEF EndRound, NewRound, In, Loading
  <2>7. ASSUME NEW t \in Thread PROVE ~Load(t)
    BY <2>4 DEF Load, LoadStep, AddStatement, OpenStatement, FirstRow, TestEof, ReadRow,
      NextRow, CloseRows, EndLoad, Torn, Loading, In
  <2>8. ASSUME Begin PROVE FALSE
    <3>1. PICK rows \in Before : BeginLoad("telnet", rows)
      BY <2>8 DEF Begin
    <3>2. rows \in Seq(Row) /\ loader["telnet"].pc = "idle" /\ "telnet" # "tcp"
      BY <1>0, <2>4, BeforeAssumption DEF Loading
    <3>3. ~clash'
      BY <1>0 DEF IInv, Recorded
    <3>4. loader' = [loader EXCEPT !["telnet"] = Begun(rows)]
      BY <1>0, <2>1, <3>1, <3>2, <3>3, LoadBegins
    <3>5. loader'["telnet"].pc = "add"
      BY <1>0, <3>2, <3>4, BegunTyped DEF IInv, Typed
    <3> QED
      BY <2>5, <3>5 DEF Loading
  <2> QED
    BY <1>1, <2>6, <2>7, <2>8
<1>2. CASE Save
  <2> SUFFICES ASSUME ~overlap', Saving' PROVE SaveApart'
    BY DEF SaveApart
  <2>1. Overlap /\ UNCHANGED loader /\ SaveStep
    BY <1>2 DEF Save
  <2>2. Saving => ~overlap
    <3>1. TcpUses'
      BY Zenon DEF TcpUses
    <3> QED
      BY <2>1, <3>1, Zenon DEF Overlap
  <2>3. CASE AddInsert
    BY <2>3 DEF AddInsert, SaveApart
  <2>4. ASSUME NEW ok \in BOOLEAN, ExecInsert(ok) PROVE SaveApart'
    <3>1. writer = "added" /\ sql = Insert /\ stored = 0 /\ Saving
      BY <2>2, <2>4 DEF ExecInsert, SaveApart, Saving
    <3>2. Sends(ok) /\ writer' = IF ok THEN "sent" ELSE "failed"
      BY <2>4 DEF ExecInsert, ExecSQL
    <3> QED
      BY <3>1, <3>2 DEF Sends, SaveApart
  <2>5. CASE CloseInsert \/ EndSave
    BY <2>5 DEF CloseInsert, EndSave, SaveApart, Saving
  <2> QED
    BY <2>1, <2>3, <2>4, <2>5 DEF SaveStep
<1>3. CASE UNCHANGED vars
  BY <1>3 DEF vars, query, SaveApart, Saving
<1> QED
  BY <1>1, <1>2, <1>3 DEF Next

(* A reading makes one row when no load runs meanwhile (toDB's AddSQL,     *)
(* qexec and qclose).                                                      *)
THEOREM Once == Spec => []StoredOnce
<1>1. Init => SaveApart
  BY DEF Init, SaveApart, Saving
<1>2. SaveApart => StoredOnce
  BY DEF SaveApart, StoredOnce, Saving
<1> QED
  BY <1>1, <1>2, Invariant, NextSaveApart, PTL DEF Spec

-----------------------------------------------------------------------------
(* The console does with the query what Query allows, so all the above     *)
(* holds of it (conn_readcb and the commands it runs).                     *)
THEOREM ConsoleImplements == CSpec => Spec
<1>1. CInit => Init
  BY DEF CInit
<1>2. [CNext]_cvars => [Next]_vars
  <2> SUFFICES ASSUME CNext PROVE Next \/ UNCHANGED vars
    BY Zenon DEF cvars
  <2>1. CASE (\E t \in Thread : CLoad(t)) \/ CTcp
    BY <2>1, Zenon DEF CLoad, CTcp, Next
  <2>2. ASSUME NEW c \in Client, NEW keys \in Read, CRead(c, keys) \/ CCommand(c, keys)
        PROVE  Next \/ UNCHANGED vars
    BY <2>2, Zenon DEF CRead, CCommand, Next
  <2> QED
    BY <2>1, <2>2, Zenon DEF CNext
<1> QED
  BY <1>1, <1>2, PTL DEF CSpec, Spec

-----------------------------------------------------------------------------
(* Between AddSQL and qclose an undisturbed load has its own statement,    *)
(* and the answer to it or none; the end mark is true of the row it is at. *)
OwnCursor(t) ==
  /\ loader[t].pc # "crashed"
  /\ loader[t].pc \in Inside \cup {"open"} => sql = Stmt(t)
  /\ loader[t].pc \in Inside /\ res = NoRes => count = 0 /\ ~loader[t].ok
  /\ loader[t].pc \in Inside /\ res # NoRes =>
       /\ count = RowsOf(Stmt(t)) /\ (eof <=> AtEnd(res))
       /\ res.row \in 1 .. RowsOf(Stmt(t)) + 1
  /\ loader[t].pc \in {"row", "next"} => res # NoRes /\ ~AtEnd(res)

(* How many rows of its statement the load has read.                       *)
ReadSoFar(t) ==
  IF loader[t].pc \in {"add", "open", "first"} THEN 0
  ELSE IF loader[t].pc \in {"test", "row"} THEN res.row - 1
  ELSE IF loader[t].pc = "next" THEN res.row
  ELSE RowsOf(Stmt(t))

(* The list after n rows of that statement, where rows are those of the    *)
(* entries the load has found.                                             *)
RowAt(rows, i) == IF i <= Len(rows) THEN rows[i] ELSE i - Len(rows)
Meters(rows, at, n, i) == IF i < at THEN Ele[RowAt(rows, i)] ELSE IF i = at THEN n ELSE 0
Counted(s, n) == Len(s) = n /\ \A k \in 1 .. n : s[k] = k
Listed(list, rows, at, n) ==
  /\ Len(list) = Len(rows) + (IF at = 0 THEN n ELSE Len(Ele))
  /\ \A i \in 1 .. Len(list) :
       list[i].jzq = RowAt(rows, i) /\ Counted(list[i].eles, Meters(rows, at, n, i))


(* A load starts with nothing counted.                                     *)
LEMMA ListedStart ==
  ASSUME NEW rows \in Seq(Row) PROVE Listed(Entered(rows), rows, 0, 0)
<1>1. Entered(rows) = [i \in 1 .. Len(rows) |-> Entry(rows[i])]
  BY DEF Entered
<1>2. Len(Entered(rows)) = Len(rows)
  BY <1>1
<1>3. ASSUME NEW i \in 1 .. Len(rows)
      PROVE  /\ Entered(rows)[i].jzq = RowAt(rows, i)
             /\ Counted(Entered(rows)[i].eles, Meters(rows, 0, 0, i))
  BY <1>1 DEF Entry, RowAt, Counted, Meters
<1> QED
  BY <1>2, <1>3 DEF Listed

(* A row of the table comes after the rows before it.                      *)
LEMMA ListedRow ==
  ASSUME NEW list \in Seq(Entries), NEW rows \in Seq(Row), NEW n \in Nat,
         Listed(list, rows, 0, n)
  PROVE  Listed(Append(list, Entry(n + 1)), rows, 0, n + 1)
<1> DEFINE longer == Append(list, Entry(n + 1))
<1>1. /\ Len(list) = Len(rows) + n /\ Len(longer) = Len(list) + 1
      /\ longer[Len(list) + 1] = Entry(n + 1)
      /\ \A i \in 1 .. Len(list) : longer[i] = list[i]
  BY DEF Listed
<1>2. Len(rows) \in Nat
  OBVIOUS
<1> HIDE DEF longer
<1>3. ASSUME NEW i \in 1 .. Len(longer)
      PROVE  /\ longer[i].jzq = RowAt(rows, i)
             /\ Counted(longer[i].eles, Meters(rows, 0, n + 1, i))
  <2>1. Meters(rows, 0, n + 1, i) = 0 /\ Meters(rows, 0, n, i) = 0
    BY <1>1 DEF Meters
  <2>2. CASE i \in 1 .. Len(list)
    BY <1>1, <2>1, <2>2 DEF Listed
  <2>3. CASE i = Len(list) + 1
    <3>1. longer[i].jzq = n + 1 /\ longer[i].eles = <<>>
      BY <1>1, <2>3 DEF Entry
    <3>2. RowAt(rows, i) = n + 1
      BY <1>1, <1>2, <2>3 DEF RowAt
    <3> QED
      BY <2>1, <3>1, <3>2 DEF Counted
  <2> QED
    BY <1>1, <2>2, <2>3
<1>4. Len(longer) = Len(rows) + (n + 1)
  BY <1>1, <1>2
<1>5. Listed(longer, rows, 0, n + 1)
  BY <1>3, <1>4 DEF Listed
<1> QED
  BY <1>5 DEF longer

(* A meter comes after the entry's meters before it.                       *)
LEMMA ListedMeter ==
  ASSUME NEW list \in Seq(Entries), NEW rows \in Seq(Row), NEW n \in Nat,
         NEW at \in 1 .. Len(list), Listed(list, rows, at, n)
  PROVE  Listed([list EXCEPT ![at].eles = Append(@, n + 1)], rows, at, n + 1)
<1> DEFINE longer == [list EXCEPT ![at].eles = Append(@, n + 1)]
<1>1. list[at] \in Entries /\ at # 0
  OBVIOUS
<1>2. list[at].eles \in Seq(Nat) /\ Counted(list[at].eles, n)
  BY <1>1 DEF Entries, Listed, Meters
<1>3. Counted(Append(list[at].eles, n + 1), n + 1)
  BY <1>2 DEF Counted
<1>4. longer[at] = [list[at] EXCEPT !.eles = Append(@, n + 1)]
  <2>1. at \in DOMAIN list
    OBVIOUS
  <2>2. \A v : [list EXCEPT ![at] = v][at] = v
    BY <2>1
  <2> QED
    BY <2>2
<1>5. longer[at].jzq = list[at].jzq /\ longer[at].eles = Append(list[at].eles, n + 1)
  BY <1>1, <1>4 DEF Entries
<1>6. Len(longer) = Len(list) /\ \A i \in 1 .. Len(list) : i # at => longer[i] = list[i]
  <2>1. Len(longer) = Len(list)
    BY LongerEntry
  <2>2. DOMAIN list = 1 .. Len(list)
    OBVIOUS
  <2>3. \A i \in DOMAIN list : i # at => longer[i] = list[i]
    OBVIOUS
  <2> QED
    BY <2>1, <2>2, <2>3
<1> HIDE DEF longer
<1>7. ASSUME NEW i \in 1 .. Len(longer)
      PROVE  /\ longer[i].jzq = RowAt(rows, i)
             /\ Counted(longer[i].eles, Meters(rows, at, n + 1, i))
  <2>1. CASE i = at
    <3>1. Meters(rows, at, n + 1, i) = n + 1
      BY <2>1 DEF Meters
    <3>2. list[at].jzq = RowAt(rows, at)
      BY DEF Listed
    <3> QED
      BY <1>3, <1>5, <2>1, <3>1, <3>2
  <2>2. CASE i # at
    <3>1. Meters(rows, at, n + 1, i) = Meters(rows, at, n, i)
      BY <2>2 DEF Meters
    <3> QED
      BY <1>6, <2>2, <3>1 DEF Listed
  <2> QED
    BY <2>1, <2>2
<1>8. Len(longer) = Len(rows) + Len(Ele)
  BY <1>1, <1>6 DEF Listed
<1>9. Listed(longer, rows, at, n + 1)
  BY <1>1, <1>7, <1>8 DEF Listed
<1> QED
  BY <1>9 DEF longer

(* After the last row of a statement the next entry's meters begin.        *)
LEMMA ListedOn ==
  ASSUME NEW list \in Seq(Entries), NEW rows \in Seq(Row), NEW at \in Nat, at < Len(list),
         NEW n \in Nat, n = IF at = 0 THEN Len(Ele) ELSE Ele[list[at].jzq],
         Listed(list, rows, at, n)
  PROVE  Listed(list, rows, at + 1, 0)
<1>1. at + 1 # 0 /\ Len(list) \in Nat
  OBVIOUS
<1>2. Len(list) = Len(rows) + Len(Ele)
  BY DEF Listed
<1>3. ASSUME NEW i \in 1 .. Len(list)
      PROVE  /\ list[i].jzq = RowAt(rows, i)
             /\ Counted(list[i].eles, Meters(rows, at + 1, 0, i))
  <2>1. list[i].jzq = RowAt(rows, i) /\ Counted(list[i].eles, Meters(rows, at, n, i))
    BY DEF Listed
  <2>2. Meters(rows, at + 1, 0, i) = Meters(rows, at, n, i)
    <3>1. CASE i < at
      BY <3>1 DEF Meters
    <3>2. CASE i = at
      BY <2>1, <3>2 DEF Meters
    <3>3. CASE i > at
      BY <3>3 DEF Meters
    <3> QED
      BY <3>1, <3>2, <3>3
  <2> QED
    BY <2>1, <2>2
<1> QED
  BY <1>1, <1>2, <1>3 DEF Listed
(* The load is right as far as it has come.                                *)
RightSoFar(t) ==
  /\ OwnCursor(t)
  /\ loader[t].ok =>
       \E rows \in Found(t) : Listed(loader[t].list, rows, loader[t].at, ReadSoFar(t))
  /\ loader[t].pc = "end" => loader[t].at = Len(loader[t].list)

(* While the threads keep apart.                                           *)
LoadInv ==
  \A t \in Thread : ~overlap /\ loader[t].pc \notin {"idle", "gone"} => RightSoFar(t)

(* An entry found in the list was made from a row.                         *)
LEMMA FoundRows == \A t \in Thread : Found(t) \subseteq Seq(Row)
<1>1. <<>> \in Seq(Row)
  OBVIOUS
<1>2. {<<>>} \subseteq Seq(Row)
  BY <1>1, Zenon
<1> QED
  BY <1>2, BeforeAssumption, Zenon DEF Found

(* How many rows the load's statement has.                                 *)
LEMMA StmtRows ==
  ASSUME IInv, ~clash, NEW t \in Thread
  PROVE  /\ Typed /\ loader \in [Thread -> LoaderType] /\ Owns(t)
         /\ loader[t].list \in Seq(Entries) /\ loader[t].at \in 0 .. Len(loader[t].list)
         /\ RowsOf(Stmt(t)) \in Nat /\ Stmt(t) \in Select /\ Stmt(t) # Insert
         /\ RowsOf(Stmt(t)) = IF loader[t].at = 0 THEN Len(Ele)
                              ELSE Ele[loader[t].list[loader[t].at].jzq]
<1>1. /\ Typed /\ loader \in [Thread -> LoaderType] /\ Owns(t)
      /\ loader[t].list \in Seq(Entries) /\ loader[t].at \in 0 .. Len(loader[t].list)
  BY DEF IInv, Typed, OwnsAll, LoaderType
<1>2. Stmt(t) \in Select /\ Stmt(t) # Insert
  BY <1>1, StmtSelects
<1>3. CASE loader[t].at = 0
  BY <1>1, <1>2, <1>3, Statements DEF Stmt
<1>4. CASE loader[t].at # 0
  <2>1. loader[t].at \in 1 .. Len(loader[t].list)
    BY <1>1, <1>4
  <2>2. loader[t].list[loader[t].at] \in Entries
    BY <1>1, <2>1
  <2>3. loader[t].list[loader[t].at].jzq \in Row
    BY <2>2 DEF Entries
  <2> QED
    BY <1>1, <1>2, <1>4, <2>3, Statements DEF Stmt
<1> QED
  BY <1>3, <1>4

(* A step that moves the load on and leaves the list as far as it was.     *)
LEMMA StaysRight ==
  ASSUME NEW t \in Thread, RightSoFar(t),
         loader'[t].at = loader[t].at, loader'[t].list = loader[t].list,
         loader'[t].ok => loader[t].ok /\ ReadSoFar(t)' = ReadSoFar(t),
         loader'[t].pc # "end", OwnCursor(t)'
  PROVE  RightSoFar(t)'
  BY DEF RightSoFar, Found

LEMMA OpeningRight ==
  ASSUME IInv, ~clash, NEW t \in Thread, RightSoFar(t),
         AddStatement(t) \/ \E ok \in BOOLEAN : OpenStatement(t, ok)
  PROVE  RightSoFar(t)'
<1>0. /\ Typed /\ RowsOf(Stmt(t)) \in Nat /\ Stmt(t) \in Select /\ Stmt(t) # Insert
      /\ loader \in [Thread -> LoaderType]
  BY StmtRows
<1>1. CASE AddStatement(t)
  <2>1. /\ loader[t].pc = "add" /\ loader'[t].pc = "open" /\ loader'[t].at = loader[t].at
        /\ loader'[t].list = loader[t].list /\ loader'[t].ok = loader[t].ok
        /\ Stmt(t)' = Stmt(t)
    BY <1>0, <1>1, MovesOn DEF AddStatement, In, LoaderPc
  <2>2. sql' = Stmt(t)
    BY <1>1 DEF AddStatement
  <2>3. OwnCursor(t)'
    BY <2>1, <2>2 DEF OwnCursor, Inside
  <2>4. ReadSoFar(t)' = ReadSoFar(t)
    BY <2>1 DEF ReadSoFar
  <2> QED
    BY <2>1, <2>3, <2>4, StaysRight
<1>2. ASSUME NEW ok \in BOOLEAN, OpenStatement(t, ok) PROVE RightSoFar(t)'
  <2>0. Open(ok) /\ loader[t].pc = "open" /\ sql = Stmt(t)
    BY <1>2 DEF OpenStatement, In, RightSoFar, OwnCursor
  <2>1. loader' = [loader EXCEPT ![t] = [@ EXCEPT !.pc = "first", !.ok = loader[t].ok /\ ok]]
    BY <1>0, <1>2, Zenon DEF OpenStatement
  <2>2. loader'[t] = [loader[t] EXCEPT !.pc = "first", !.ok = loader[t].ok /\ ok]
    BY <1>0, <2>1, Zenon
  <2>3. loader[t] \in LoaderType
    BY <1>0
  <2>4. loader'[t].pc = "first" /\ loader'[t].at = loader[t].at /\ loader'[t].list = loader[t].list
    BY <2>2, <2>3 DEF LoaderType
  <2>5. loader'[t].ok <=> loader[t].ok /\ ok
    BY <2>2, <2>3, Zenon DEF LoaderType
  <2>6. Stmt(t)' = Stmt(t)
    BY <2>4, SameStmt
  <2>7. sql' = sql /\ count' = IF res' = NoRes THEN 0 ELSE RowsOf(res'.of)
    BY <2>0 DEF Open
  <2>8. CASE ok
    <3>1. res' = First(Result(sql)) /\ eof' = AtEnd(res')
      BY <1>0, <2>0, <2>8 DEF Open
    <3>2. res' = [of |-> Stmt(t), row |-> 1]
      BY <2>0, <3>1 DEF First, Result
    <3>3. res' # NoRes
      BY <3>2 DEF NoRes
    <3>4. eof' <=> AtEnd(res')
      BY <3>1, Zenon
    <3>5. OwnCursor(t)'
      BY <1>0, <2>0, <2>4, <2>6, <2>7, <3>2, <3>3, <3>4 DEF OwnCursor, Inside
    <3>6. ReadSoFar(t)' = ReadSoFar(t)
      BY <2>0, <2>4 DEF ReadSoFar
    <3> QED
      BY <2>4, <2>5, <3>5, <3>6, StaysRight
  <2>9. CASE ~ok
    <3>1. res' = NoRes
      BY <2>0, <2>9 DEF Open
    <3>2. ~loader'[t].ok
      BY <2>5, <2>9
    <3>3. OwnCursor(t)'
      BY <2>0, <2>4, <2>6, <2>7, <3>1, <3>2 DEF OwnCursor, Inside
    <3> QED
      BY <2>4, <3>2, <3>3, StaysRight
  <2> QED
    BY <2>8, <2>9
<1> QED
  BY <1>1, <1>2

LEMMA LoopRight ==
  ASSUME IInv, ~clash, NEW t \in Thread, RightSoFar(t), FirstRow(t) \/ TestEof(t) \/ NextRow(t)
  PROVE  RightSoFar(t)'
<1>0. Typed /\ QueryTyped /\ RowsOf(Stmt(t)) \in Nat /\ OwnResult(t)
  BY StmtRows DEF Typed, Owns
<1>1. CASE FirstRow(t)
  <2>1. /\ loader[t].pc = "first" /\ loader'[t].pc = "test" /\ loader'[t].at = loader[t].at
        /\ loader'[t].list = loader[t].list /\ loader'[t].ok = loader[t].ok /\ count' = count
        /\ Stmt(t)' = Stmt(t) /\ sql' = sql
    BY <1>0, <1>1, MovesOn DEF FirstRow, In, LoaderPc
  <2>2. CASE res = NoRes
    <3>1. res' = NoRes /\ ~loader[t].ok /\ count = 0
      BY <1>1, <2>1, <2>2 DEF FirstRow, RightSoFar, OwnCursor, Inside
    <3>2. OwnCursor(t)'
      BY <2>1, <3>1 DEF RightSoFar, OwnCursor, Inside
    <3> QED
      BY <2>1, <3>1, <3>2, StaysRight
  <2>3. CASE res # NoRes
    <3>1. res' = First(res) /\ eof' = AtEnd(res') /\ res.of = Stmt(t)
      BY <1>0, <1>1, <2>1, <2>3 DEF FirstRow, OwnResult, Inside
    <3>2. res'.of = Stmt(t) /\ res'.row = 1 /\ res' # NoRes
      BY <1>0, <3>1 DEF First, QueryTyped, NoRes
    <3>3. eof' <=> AtEnd(res')
      BY <3>1, Zenon
    <3>4. OwnCursor(t)'
      BY <1>0, <2>1, <2>3, <3>2, <3>3 DEF RightSoFar, OwnCursor, Inside
    <3>5. ReadSoFar(t)' = ReadSoFar(t)
      BY <2>1, <3>2 DEF ReadSoFar
    <3> QED
      BY <2>1, <3>4, <3>5, StaysRight
  <2> QED
    BY <2>2, <2>3
<1>2. CASE TestEof(t)
  <2>0. UNCHANGED <<sql, res, eof, count>> /\ loader[t].pc = "test"
    BY <1>2 DEF TestEof, query, In
  <2>1. CASE count > 0 /\ ~eof
    <3>1. /\ loader'[t].pc = "row" /\ loader'[t].at = loader[t].at
          /\ loader'[t].list = loader[t].list /\ loader'[t].ok = loader[t].ok
          /\ Stmt(t)' = Stmt(t)
      BY <1>0, <1>2, <2>1, MovesOn DEF TestEof, LoaderPc
    <3>2. OwnCursor(t)'
      BY <2>0, <2>1, <3>1 DEF RightSoFar, OwnCursor, Inside, AtEnd, RowsOf
    <3>3. ReadSoFar(t)' = ReadSoFar(t)
      BY <2>0, <3>1 DEF ReadSoFar
    <3> QED
      BY <3>1, <3>2, <3>3, StaysRight
  <2>2. CASE ~(count > 0 /\ ~eof)
    <3>1. /\ loader'[t].pc = "close" /\ loader'[t].at = loader[t].at
          /\ loader'[t].list = loader[t].list /\ loader'[t].ok = loader[t].ok
          /\ Stmt(t)' = Stmt(t)
      BY <1>0, <1>2, <2>2, MovesOn DEF TestEof, LoaderPc
    <3>2. OwnCursor(t)'
      BY <3>1 DEF OwnCursor, Inside
    <3>3. ASSUME loader[t].ok PROVE ReadSoFar(t)' = ReadSoFar(t)
      <4>1. /\ res # NoRes /\ count = RowsOf(Stmt(t)) /\ (eof <=> AtEnd(res))
            /\ res.row \in 1 .. RowsOf(Stmt(t)) + 1
        BY <2>0, <3>3 DEF RightSoFar, OwnCursor, Inside
      <4>2. res.of = Stmt(t)
        BY <1>0, <2>0, <4>1 DEF OwnResult, Inside
      <4>3. res.row - 1 = RowsOf(Stmt(t))
        BY <1>0, <2>2, <4>1, <4>2 DEF AtEnd
      <4>4. RowsOf(Stmt(t))' = RowsOf(Stmt(t))
        BY <3>1 DEF RowsOf
      <4> QED
        BY <2>0, <3>1, <4>3, <4>4 DEF ReadSoFar
    <3> QED
      BY <3>1, <3>2, <3>3, StaysRight
  <2> QED
    BY <2>1, <2>2
<1>3. CASE NextRow(t)
  <2>1. /\ loader[t].pc = "next" /\ loader'[t].pc = "test" /\ loader'[t].at = loader[t].at
        /\ loader'[t].list = loader[t].list /\ loader'[t].ok = loader[t].ok /\ count' = count
        /\ Stmt(t)' = Stmt(t) /\ sql' = sql
    BY <1>0, <1>3, MovesOn DEF NextRow, In, LoaderPc
  <2>2. /\ res # NoRes /\ ~AtEnd(res) /\ res.of = Stmt(t) /\ count = RowsOf(Stmt(t))
        /\ res.row \in Nat
    BY <1>0, <2>1 DEF RightSoFar, OwnCursor, OwnResult, Inside, QueryTyped
  <2>3. res' = [res EXCEPT !.row = @ + 1] /\ eof' = AtEnd(res')
    BY <1>3, <2>2 DEF NextRow
  <2>4. res'.of = Stmt(t) /\ res'.row = res.row + 1 /\ res' # NoRes
    BY <1>0, <2>2, <2>3 DEF QueryTyped, NoRes
  <2>5. eof' <=> AtEnd(res')
    BY <2>3, Zenon
  <2>6. res'.row \in 1 .. RowsOf(Stmt(t)) + 1
    BY <1>0, <2>2, <2>4 DEF AtEnd
  <2>7. OwnCursor(t)'
    BY <2>1, <2>2, <2>4, <2>5, <2>6 DEF RightSoFar, OwnCursor, Inside, RowsOf
  <2>8. ReadSoFar(t)' = ReadSoFar(t)
    BY <2>1, <2>2, <2>4 DEF ReadSoFar
  <2> QED
    BY <2>1, <2>7, <2>8, StaysRight
<1> QED
  BY <1>1, <1>2, <1>3

(* A row read is the next one.                                             *)
LEMMA ReadRight ==
  ASSUME IInv, ~clash, NEW t \in Thread, RightSoFar(t), ReadRow(t)
  PROVE  RightSoFar(t)'
<1>0. /\ Typed /\ QueryTyped /\ RowsOf(Stmt(t)) \in Nat /\ OwnResult(t)
      /\ loader[t].list \in Seq(Entries) /\ loader[t].at \in 0 .. Len(loader[t].list)
      /\ RowsOf(Stmt(t)) = IF loader[t].at = 0 THEN Len(Ele)
                           ELSE Ele[loader[t].list[loader[t].at].jzq]
  BY StmtRows DEF Typed, Owns
<1>1. /\ loader[t].pc = "row" /\ UNCHANGED <<sql, res, eof, count>>
      /\ res # NoRes /\ ~AtEnd(res) /\ res.of = Stmt(t)
      /\ sql = Stmt(t) /\ count = RowsOf(Stmt(t)) /\ (eof <=> AtEnd(res))
      /\ res.row \in 1 .. RowsOf(Stmt(t)) + 1
  BY <1>0 DEF ReadRow, In, RightSoFar, OwnCursor, OwnResult, Inside, query
<1>2. OnRow
  BY <1>0, <1>1 DEF OnRow
<1>3. PICK n \in Nat : n = res.row - 1 /\ n + 1 = res.row
  BY <1>0, <1>1
<1>4. PICK list \in Seq(Entries) :
         /\ list = IF loader[t].at = 0 THEN Append(loader[t].list, Entry(res.row))
                   ELSE [loader[t].list EXCEPT ![loader[t].at].eles = Append(@, res.row)]
         /\ loader' = [loader EXCEPT ![t].pc = "next", ![t].list = list]
         /\ Stmt(t)' = Stmt(t) /\ loader[t].at <= Len(list)
  BY <1>0, <1>1, <1>2, ReadAdds
<1>5. /\ loader'[t].pc = "next" /\ loader'[t].at = loader[t].at /\ loader'[t].list = list
      /\ loader'[t].ok = loader[t].ok
  <2>1. Typed /\ loader' = [loader EXCEPT ![t].pc = "next", ![t].list = list]
    BY <1>0, <1>4
  <2> QED
    BY <2>1, ListsOn, Zenon
<1>6. OwnCursor(t)'
  BY <1>1, <1>4, <1>5 DEF OwnCursor, Inside, AtEnd, RowsOf
<1>7. ReadSoFar(t) = n /\ ReadSoFar(t)' = n + 1
  BY <1>1, <1>3, <1>5 DEF ReadSoFar
<1>8. ASSUME NEW rows \in Seq(Row), Listed(loader[t].list, rows, loader[t].at, n)
      PROVE  Listed(list, rows, loader[t].at, n + 1)
  <2>1. CASE loader[t].at = 0
    <3>1. list = Append(loader[t].list, Entry(n + 1))
      BY <1>3, <1>4, <2>1
    <3> QED
      BY <1>0, <1>8, <2>1, <3>1, ListedRow
  <2>2. CASE loader[t].at # 0
    <3>1. list = [loader[t].list EXCEPT ![loader[t].at].eles = Append(@, n + 1)]
      BY <1>3, <1>4, <2>2
    <3>2. loader[t].at \in 1 .. Len(loader[t].list)
      BY <1>0, <2>2
    <3> QED
      BY <1>0, <1>8, <3>1, <3>2, ListedMeter
  <2> QED
    BY <2>1, <2>2
<1>9. \A rows \in Found(t) : Listed(loader[t].list, rows, loader[t].at, n)
         => Listed(list, rows, loader[t].at, n + 1)
  BY <1>8, FoundRows
<1> QED
  BY <1>5, <1>6, <1>7, <1>9 DEF RightSoFar, Found

LEMMA ClosingRight ==
  ASSUME IInv, ~clash, NEW t \in Thread, RightSoFar(t), CloseRows(t)
  PROVE  RightSoFar(t)'
<1>0. /\ Typed /\ RowsOf(Stmt(t)) \in Nat /\ loader \in [Thread -> LoaderType]
      /\ RowsOf(Stmt(t)) = IF loader[t].at = 0 THEN Len(Ele)
                           ELSE Ele[loader[t].list[loader[t].at].jzq]
      /\ loader[t].list \in Seq(Entries) /\ loader[t].at \in 0 .. Len(loader[t].list)
  BY StmtRows
<1>1. loader[t].pc = "close" /\ ReadSoFar(t) = RowsOf(Stmt(t))
  BY DEF CloseRows, In, ReadSoFar
<1>2. CASE loader[t].at < Len(loader[t].list)
           /\ loader' = [loader EXCEPT ![t].pc = "add", ![t].at = @ + 1]
  <2>1. loader[t] \in LoaderType /\ loader' = [loader EXCEPT
           ![t] = [loader[t] EXCEPT !.pc = "add", !.at = loader[t].at + 1]]
    BY <1>0, <1>2
  <2>2. loader'[t] = [loader[t] EXCEPT !.pc = "add", !.at = loader[t].at + 1]
    BY <1>0, <2>1
  <2>3. /\ loader'[t].pc = "add" /\ loader'[t].at = loader[t].at + 1
        /\ loader'[t].list = loader[t].list /\ loader'[t].ok = loader[t].ok
    BY <2>1, <2>2 DEF LoaderType
  <2>4. OwnCursor(t)' /\ ReadSoFar(t)' = 0
    BY <2>3 DEF OwnCursor, Inside, ReadSoFar
  <2>5. ASSUME NEW rows \in Seq(Row),
               Listed(loader[t].list, rows, loader[t].at, RowsOf(Stmt(t)))
        PROVE  Listed(loader[t].list, rows, loader[t].at + 1, 0)
    BY <1>0, <1>2, <2>5, ListedOn
  <2>6. \A rows \in Found(t) : Listed(loader[t].list, rows, loader[t].at, RowsOf(Stmt(t)))
           => Listed(loader[t].list, rows, loader[t].at + 1, 0)
    BY <2>5, FoundRows
  <2> QED
    BY <1>1, <2>3, <2>4, <2>6 DEF RightSoFar, Found
<1>3. CASE loader[t].at = Len(loader[t].list) /\ At(t, "end")
  <2>1. /\ loader'[t].pc = "end" /\ loader'[t].at = loader[t].at
        /\ loader'[t].list = loader[t].list /\ loader'[t].ok = loader[t].ok
        /\ Stmt(t)' = Stmt(t)
    BY <1>0, <1>3, MovesOn DEF LoaderPc
  <2>2. OwnCursor(t)' /\ ReadSoFar(t)' = ReadSoFar(t)
    BY <1>1, <2>1 DEF OwnCursor, Inside, ReadSoFar, RowsOf
  <2> QED
    BY <1>1, <1>3, <2>1, <2>2 DEF RightSoFar, Found
<1> QED
  BY <1>2, <1>3 DEF CloseRows

(* A load begins with what it finds.                                       *)
LEMMA BegunRight ==
  ASSUME IInv, ~clash', NEW t \in Thread, NEW rows \in Found(t), BeginLoad(t, rows),
         UNCHANGED writer, Overlap, loader[t].pc \in {"idle", "gone"}, t = "tcp" => ~Saving
  PROVE  /\ RightSoFar(t)'
         /\ \A u \in Thread \ {t} : loader'[u] = loader[u]
<1>1. rows \in Seq(Row)
  BY FoundRows
<1>2. loader' = [loader EXCEPT ![t] = Begun(rows)] /\ loader \in [Thread -> LoaderType]
  BY <1>1, LoadBegins DEF IInv, Typed
<1>3. loader'[t].pc = "add" /\ loader'[t].at = 0 /\ loader'[t].list = Entered(rows)
  BY <1>1, <1>2, BegunTyped
<1>4. OwnCursor(t)' /\ ReadSoFar(t)' = 0
  BY <1>3 DEF OwnCursor, Inside, ReadSoFar
<1>5. Listed(Entered(rows), rows, 0, 0)
  BY <1>1, ListedStart
<1> QED
  BY <1>2, <1>3, <1>4, <1>5 DEF RightSoFar, Found

(* While the threads keep apart no second load is at work.                 *)
LEMMA Alone ==
  ASSUME IInv, ~overlap, NEW t \in Thread, Loading(t)
  PROVE  ~clash /\ ~Saving /\ \A u \in Thread \ {t} : ~Loading(u)
  BY DEF IInv, Recorded, TcpUses, Thread

LEMMA NextLoadInv == IInv /\ LoadInv /\ [Next]_vars => LoadInv'
<1> SUFFICES ASSUME IInv, LoadInv, [Next]_vars, NEW t \in Thread,
                    ~overlap', loader'[t].pc \notin {"idle", "gone"}
             PROVE  RightSoFar(t)'
  BY DEF LoadInv
<1>0. /\ IInv' /\ Loading(t)' /\ "telnet" \in Thread /\ "tcp" \in Thread
      /\ loader \in [Thread -> LoaderType]
  BY NextIInv DEF Loading, Thread, IInv, Typed
<1>1. ~clash' /\ \A u \in Thread \ {t} : loader'[u].pc = "idle"
  <2>1. ~clash' /\ ~Saving' /\ \A u \in Thread \ {t} : ~Loading(u)'
    <3>1. ~clash' /\ (Loading("telnet")' => ~TcpUses')
      BY <1>0 DEF IInv, Recorded
    <3> QED
      BY <1>0, <3>1 DEF IInv, Recorded, TcpUses, Thread
  <2> QED
    BY <2>1 DEF Loading
<1>2. CASE Begin
  <2>1. PICK rows \in Before : BeginLoad("telnet", rows)
    BY <1>2 DEF Begin
  <2>2. /\ rows \in Found("telnet") /\ UNCHANGED writer /\ Overlap
        /\ loader["telnet"].pc = "idle" /\ "telnet" # "tcp"
    BY <1>2 DEF Begin, Loading, Found
  <2>3. loader'["telnet"].pc = "add"
    <3>1. rows \in Seq(Row)
      BY BeforeAssumption
    <3>2. loader' = [loader EXCEPT !["telnet"] = Begun(rows)]
      BY <1>0, <1>1, <2>1, <2>2, <3>1, LoadBegins
    <3> QED
      BY <1>0, <3>1, <3>2, BegunTyped
  <2>4. t = "telnet"
    BY <1>0, <1>1, <2>3
  <2> QED
    BY <1>1, <2>1, <2>2, <2>4, BegunRight
<1>3. CASE NewRound
  <2>1. /\ BeginLoad("tcp", <<>>) /\ UNCHANGED writer /\ Overlap /\ loader["tcp"].pc = "gone"
        /\ ~Saving /\ <<>> \in Found("tcp") /\ <<>> \in Seq(Row)
    BY <1>3 DEF NewRound, In, IInv, Recorded, Loading, Found
  <2>2. loader'["tcp"].pc = "add"
    <3>1. loader' = [loader EXCEPT !["tcp"] = Begun(<<>>)]
      BY <1>0, <1>1, <2>1, LoadBegins
    <3> QED
      BY <1>0, <2>1, <3>1, BegunTyped
  <2>3. t = "tcp"
    BY <1>0, <1>1, <2>2
  <2> QED
    BY <1>1, <2>1, <2>3, BegunRight
<1>4. CASE EndRound
  <2>1. loader' = Tear([loader EXCEPT !["tcp"].pc = "gone"])
    BY <1>4 DEF EndRound
  <2> DEFINE r == [loader["tcp"] EXCEPT !.pc = "gone"]
  <2>2. r \in LoaderType /\ r.pc = "gone"
    BY <1>0 DEF LoaderType, LoaderPc
  <2>3. loader' = Tear([loader EXCEPT !["tcp"] = r])
    BY <1>0, <2>1
  <2> HIDE DEF r
  <2>4. [loader EXCEPT !["tcp"] = r] \in [Thread -> LoaderType]
    BY <1>0, <2>2
  <2>5. loader'["tcp"].pc = "gone"
    BY <1>0, <2>2, <2>3, <2>4, TearKeeps
  <2> QED
    BY <1>0, <1>1, <2>5
<1>5. ASSUME NEW u \in Thread, Load(u) PROVE RightSoFar(t)'
  <2>1. LoadStep(u) /\ Overlap /\ Saving' = Saving
    BY <1>5 DEF Load, Saving
  <2>2. Loading(u) /\ loader[u].pc \notin {"idle", "gone"}
    BY <2>1 DEF LoadStep, AddStatement, OpenStatement, FirstRow, TestEof, ReadRow,
      NextRow, CloseRows, EndLoad, Torn, Loading, In
  <2>3. Others(u)
    BY <1>0, <2>1 DEF LoadStep, AddStatement, OpenStatement, FirstRow, TestEof, ReadRow,
      NextRow, CloseRows, EndLoad, Torn, At, Others
  <2>4. t = u
    <3>1. ASSUME t # u PROVE FALSE
      <4>1. Loading(t) /\ loader'[u].pc = "idle"
        BY <1>0, <1>1, <2>3, <3>1 DEF Others, Loading
      <4>2. clash
        BY <2>2, <3>1, <4>1 DEF IInv, Recorded, Thread
      <4>3. clash'
        BY <1>0, <2>1, <4>2, Zenon DEF Overlap
      <4> QED
        BY <1>1, <4>3
    <3> QED
      BY <3>1
  <2>5. ~overlap
    <3>1. Loading("telnet")' \/ TcpUses'
      BY <1>0 DEF Thread, TcpUses
    <3> QED
      BY <2>1, <3>1, Zenon DEF Overlap
  <2>6. RightSoFar(u) /\ ~clash
    BY <2>2, <2>5, Alone DEF LoadInv
  <2>7. ~EndLoad(u)
    <3>1. ASSUME EndLoad(u) PROVE FALSE
      <4>1. loader'[u] = Idle
        BY <1>0, <3>1 DEF EndLoad
      <4> QED
        BY <1>0, <2>4, <4>1 DEF Loading, Idle
    <3> QED
      BY <3>1
  <2>8. ~Torn(u)
    BY <2>6 DEF Torn
  <2> QED
    BY <2>1, <2>4, <2>6, <2>7, <2>8, OpeningRight, LoopRight, ReadRight, ClosingRight
      DEF LoadStep
<1>6. CASE Save
  <2>1. UNCHANGED loader /\ Overlap /\ SaveStep
    BY <1>6 DEF Save
  <2>2. Loading(t)
    BY <1>0, <2>1 DEF Loading
  <2>3. ~overlap
    <3>1. Loading("telnet")' \/ TcpUses'
      BY <1>0 DEF Thread, TcpUses
    <3> QED
      BY <2>1, <3>1, Zenon DEF Overlap
  <2>4. ~Saving /\ ~Saving'
    <3>1. ~Saving
      BY <2>2, <2>3, Alone
    <3>2. ~Saving'
      BY <1>0, Alone DEF IInv, Recorded, TcpUses, Thread
    <3> QED
      BY <3>1, <3>2
  <2>5. ~SaveStep
    BY <2>4 DEF SaveStep, AddInsert, ExecInsert, CloseInsert, EndSave, Saving
  <2> QED
    BY <2>1, <2>5
<1>7. CASE UNCHANGED vars
  BY <1>7 DEF vars, query, LoadInv, RightSoFar, OwnCursor, Listed, ReadSoFar, Stmt, Jzqs,
    Elements, RowsOf, AtEnd, Found
<1> QED
  BY <1>2, <1>3, <1>4, <1>5, <1>6, <1>7 DEF Next

(* A list counted to the end of its last statement is the one promised.    *)
LEMMA ListedAll ==
  ASSUME NEW list \in Seq(Entries), NEW rows \in Seq(Row), NEW n \in Nat,
         n = IF list = <<>> THEN Len(Ele) ELSE Ele[list[Len(list)].jzq],
         Listed(list, rows, Len(list), n)
  PROVE  list = [i \in 1 .. Len(rows) + Len(Ele) |-> Whole(Entry(RowAt(rows, i)))]
<1>1. Len(list) = Len(rows) + Len(Ele)
  BY EleAssumption DEF Listed
<1>2. ASSUME NEW i \in 1 .. Len(list) PROVE list[i] = Whole(Entry(RowAt(rows, i)))
  <2>1. list[i] \in Entries /\ list # <<>>
    OBVIOUS
  <2>2. list[i].jzq = RowAt(rows, i) /\ Counted(list[i].eles, Ele[RowAt(rows, i)])
    BY <2>1 DEF Listed, Meters
  <2> DEFINE r == RowAt(rows, i)
  <2>3. r \in Row /\ list[i].eles \in Seq(Nat)
    BY <2>1, <2>2 DEF Entries
  <2>4. list[i].eles = [k \in 1 .. Ele[r] |-> k]
    <3> DEFINE s == list[i].eles
    <3>1. s \in Seq(Nat) /\ Len(s) = Ele[r] /\ \A k \in 1 .. Ele[r] : s[k] = k
      BY <2>2, <2>3 DEF Counted
    <3> HIDE DEF s, r
    <3>2. s = [k \in 1 .. Len(s) |-> s[k]]
      BY <3>1
    <3> QED
      BY <3>1, <3>2 DEF s, r
  <2>5. Whole(Entry(r)) = [jzq |-> r, eles |-> [k \in 1 .. Ele[r] |-> k]]
    <3> HIDE DEF r
    <3>1. Entry(r) = [jzq |-> r, eles |-> <<>>] /\ Entry(r).jzq = r
      BY DEF Entry
    <3>2. \A v : [[jzq |-> r, eles |-> <<>>] EXCEPT !.eles = v] = [jzq |-> r, eles |-> v]
      OBVIOUS
    <3> QED
      BY <3>1, <3>2, Zenon DEF Whole
  <2> QED
    BY <2>1, <2>2, <2>4, <2>5 DEF Entries
<1> QED
  BY <1>1, <1>2

(* An undisturbed load is right, in either thread, for a table of any size *)
(* and whatever it found in the list (LoadJzq's two loops over             *)
(* RecordCount, IsEof, FieldByName and Next).                              *)
THEOREM LoadsRight == Spec => []LoadedRight
<1>1. Init => LoadInv
  BY DEF Init, LoadInv, Idle
<1>2. IInv /\ LoadInv => LoadedRight
  <2> SUFFICES ASSUME IInv, LoadInv, NEW t \in Thread
               PROVE  /\ loader[t].pc = "crashed" => overlap
                      /\ loader[t].pc = "end" /\ loader[t].ok /\ ~overlap =>
                           \E rows \in Found(t) :
                              loader[t].list = [i \in 1 .. Len(rows) + Len(Ele) |->
                                                  Whole(Entry(RowAt(rows, i)))]
    BY DEF LoadedRight, RowAt
  <2>1. loader[t].pc = "crashed" => overlap
    BY DEF LoadInv, RightSoFar, OwnCursor
  <2>2. ASSUME loader[t].pc = "end", loader[t].ok, ~overlap
        PROVE  \E rows \in Found(t) :
                 loader[t].list = [i \in 1 .. Len(rows) + Len(Ele) |-> Whole(Entry(RowAt(rows, i)))]
    <3>1. RightSoFar(t) /\ ReadSoFar(t) = RowsOf(Stmt(t))
      BY <2>2 DEF LoadInv, ReadSoFar
    <3>2. PICK rows \in Found(t) :
             Listed(loader[t].list, rows, Len(loader[t].list), RowsOf(Stmt(t)))
      BY <2>2, <3>1 DEF RightSoFar
    <3>3. ~clash
      BY <2>2 DEF IInv, Recorded
    <3>4. rows \in Seq(Row) /\ loader[t].list \in Seq(Entries) /\ RowsOf(Stmt(t)) \in Nat
      BY <3>3, FoundRows, StmtRows
    <3>5. RowsOf(Stmt(t)) = IF loader[t].list = <<>> THEN Len(Ele)
                            ELSE Ele[loader[t].list[Len(loader[t].list)].jzq]
      <4>1. RowsOf(Stmt(t)) = IF loader[t].at = 0 THEN Len(Ele)
                              ELSE Ele[loader[t].list[loader[t].at].jzq]
        BY <3>3, StmtRows
      <4>2. loader[t].at = Len(loader[t].list)
        BY <2>2, <3>1 DEF RightSoFar
      <4>3. Len(loader[t].list) = 0 <=> loader[t].list = <<>>
        BY <3>4
      <4> QED
        BY <4>1, <4>2, <4>3
    <3> QED
      BY <3>2, <3>4, <3>5, ListedAll
  <2> QED
    BY <2>1, <2>2
<1> QED
  BY <1>1, <1>2, Invariant, NextLoadInv, PTL DEF Spec

-----------------------------------------------------------------------------
(***************************************************************************)
(* The command line all sessions share.                                    *)
(***************************************************************************)

(* A non-empty set of numbers has a least one.                             *)
LEMMA LeastNumber ==
  ASSUME NEW T, T \subseteq Nat, T # {}
  PROVE  \E x \in T : \A y \in T : x <= y
<1>1. PICK x \in T : \A y \in T : ~(<<y, x>> \in OpToRel(<, Nat))
  BY NatLessThanWellFounded, WFMin, Zenon
<1>2. \A y \in T : ~(y < x)
  BY <1>1 DEF OpToRel
<1> QED
  BY <1>2

(* The lines after each key.                                               *)
Lines(f, line, keys, m) ==
  f = [n \in 0 .. m |-> IF n = 0 THEN line ELSE Press(f[n - 1], keys[n])]

(* There is such a function for every number of keys, by its least         *)
(* counterexample.                                                         *)
LEMMA LinesExist ==
  ASSUME NEW line, NEW keys, NEW m \in Nat
  PROVE  \E f : Lines(f, line, keys, m)
<1> DEFINE Bad == {n \in Nat : ~ \E f : Lines(f, line, keys, n)}
<1> SUFFICES ASSUME Bad # {} PROVE FALSE
  OBVIOUS
<1>1. PICK x \in Bad : \A y \in Bad : x <= y
  <2>1. Bad \subseteq Nat
    OBVIOUS
  <2> QED
    BY <2>1, LeastNumber, Zenon
<1>2. CASE x = 0
  <2> DEFINE f == [n \in 0 .. 0 |-> line]
  <2>1. Lines(f, line, keys, 0)
    BY DEF Lines
  <2> QED
    BY <1>2, <2>1
<1>3. CASE x # 0
  <2>1. x - 1 \in Nat /\ x \in Nat
    BY <1>3
  <2>2. PICK f : Lines(f, line, keys, x - 1)
    BY <1>1, <2>1
  <2> DEFINE p == Press(f[x - 1], keys[x])
  <2> DEFINE g == [n \in 0 .. x |-> IF n = x THEN p ELSE f[n]]
  <2>3. \A n \in 0 .. x - 1 : g[n] = f[n]
    BY <2>1
  <2>4. g[x] = p
    BY <2>1
  <2>5. ASSUME NEW n \in 0 .. x
        PROVE  g[n] = IF n = 0 THEN line ELSE Press(g[n - 1], keys[n])
    <3>1. CASE n = x
      <4>1. g[x - 1] = f[x - 1]
        BY <2>1, <2>3
      <4> HIDE DEF g
      <4> QED
        BY <1>3, <2>4, <3>1, <4>1
    <3>2. CASE n # x /\ n # 0
      <4>1. n \in 0 .. x - 1 /\ n - 1 \in 0 .. x - 1
        BY <2>1, <3>2
      <4>2. g[n] = f[n] /\ g[n - 1] = f[n - 1]
        BY <2>3, <4>1
      <4>3. f[n] = Press(f[n - 1], keys[n])
        BY <2>2, <3>2, <4>1 DEF Lines
      <4> HIDE DEF g
      <4> QED
        BY <3>2, <4>2, <4>3
    <3>3. CASE n = 0
      <4>1. g[0] = f[0]
        BY <2>1, <2>3
      <4>2. f[0] = line
        BY <2>1, <2>2 DEF Lines
      <4> HIDE DEF g
      <4> QED
        BY <3>3, <4>1, <4>2
    <3> QED
      BY <3>1, <3>2, <3>3
  <2>6. g = [n \in 0 .. x |-> g[n]]
    OBVIOUS
  <2> HIDE DEF g, p
  <2>7. Lines(g, line, keys, x)
    BY <2>5, <2>6 DEF Lines
  <2> QED
    BY <1>1, <2>1, <2>7
<1> QED
  BY <1>2, <1>3

(* The screen is what the last of them leaves.                             *)
LEMMA ScreenIs ==
  ASSUME NEW line, NEW keys, Len(keys) \in Nat
  PROVE  \E f : Lines(f, line, keys, Len(keys)) /\ Screen(line, keys) = f[Len(keys)]
<1> DEFINE f == CHOOSE f : Lines(f, line, keys, Len(keys))
<1>1. Lines(f, line, keys, Len(keys))
  BY LinesExist
<1>2. Screen(line, keys) = f[Len(keys)]
  BY DEF Screen, Lines
<1> QED
  BY <1>1, <1>2

(* Keys of one read.                                                       *)
LEMMA KeysSeq ==
  ASSUME NEW keys \in Read
  PROVE  keys \in Seq(Key) /\ Len(keys) \in Nat \ {0} /\ DOMAIN keys = 1 .. Len(keys)
<1>1. PICK n \in 1 .. MaxRead : keys \in [1 .. n -> Key]
  BY DEF Read
<1>2. n \in Nat \ {0}
  BY LineAssumption
<1>3. keys \in Seq(Key)
  BY <1>1, <1>2, SeqDef
<1> QED
  BY <1>1, <1>2, <1>3, LenProperties

LEMMA KeysAssociate ==
  \A r, s, t \in Seq(Key) : (r \o s) \o t = r \o (s \o t)
  BY ConcatAssociative

(* Keys but Enter and the erasure are added to the line as they come.      *)
LEMMA ScreenLetters ==
  ASSUME NEW line \in Seq(Key), NEW keys \in Seq(Key),
         \A i \in 1 .. Len(keys) : keys[i] # Enter /\ keys[i] # Erase
  PROVE  Screen(line, keys) = line \o keys
<1> DEFINE L == Len(keys)
<1>1. L \in Nat
  BY LenProperties
<1>2. PICK f : Lines(f, line, keys, L) /\ Screen(line, keys) = f[L]
  BY <1>1, ScreenIs
<1> DEFINE Good(n) == f[n] = line \o SubSeq(keys, 1, n)
<1> DEFINE Bad == {n \in 0 .. L : ~Good(n)}
<1> HIDE DEF L
<1>3. Bad = {}
  <2> SUFFICES ASSUME Bad # {} PROVE FALSE
    OBVIOUS
  <2>1. PICK x \in Bad : \A y \in Bad : x <= y
    <3>1. Bad \subseteq Nat
      BY <1>1
    <3> HIDE DEF Bad
    <3> QED
      BY <3>1, LeastNumber, Zenon
  <2>2. CASE x = 0
    <3>1. f[0] = line
      BY <1>1, <1>2 DEF Lines
    <3>2. SubSeq(keys, 1, 0) = <<>>
      BY SubSeqEmpty
    <3>3. line \o <<>> = line
      BY ConcatEmptySeq
    <3> QED
      BY <2>1, <2>2, <3>1, <3>2, <3>3
  <2>3. CASE x # 0
    <3> DEFINE s == SubSeq(keys, 1, x - 1)
    <3>1. x \in 1 .. L /\ x - 1 \in 0 .. L
      BY <1>1, <2>1, <2>3
    <3>2. Good(x - 1)
      <4>1. x - 1 \notin Bad
        BY <1>1, <2>1, <3>1
      <4> QED
        BY <3>1, <4>1
    <3>3. f[x] = Press(line \o s, keys[x])
      <4>1. f[x] = Press(f[x - 1], keys[x])
        BY <1>1, <1>2, <3>1 DEF Lines
      <4> QED
        BY <3>2, <4>1
    <3>4. keys[x] \in Key /\ keys[x] # Enter /\ keys[x] # Erase
      BY <3>1, ElementOfSeq DEF L
    <3>5. s \in Seq(Key)
      <4>1. \A i \in 1 .. x - 1 : keys[i] \in Key
        BY <1>1, <3>1, ElementOfSeq DEF L
      <4> QED
        BY <1>1, <3>1, <4>1, SubSeqProperties
    <3>6. SubSeq(keys, 1, x) = s \o <<keys[x]>>
      <4>1. 1 \in 1 .. Len(keys) /\ x \in 1 .. Len(keys)
        BY <1>1, <3>1 DEF L
      <4> QED
        BY <4>1, SubSeqRecursiveSecond
    <3> HIDE DEF s
    <3>7. line \o s \in Seq(Key) /\ <<keys[x]>> \in Seq(Key)
      BY <3>4, <3>5, ConcatProperties
    <3>8. Press(line \o s, keys[x]) = (line \o s) \o <<keys[x]>>
      BY <3>4, <3>7, AppendIsConcat DEF Press
    <3>9. (line \o s) \o <<keys[x]>> = line \o (s \o <<keys[x]>>)
      BY <3>5, <3>7, KeysAssociate, Zenon
    <3> QED
      BY <2>1, <3>3, <3>6, <3>8, <3>9
  <2> QED
    BY <2>2, <2>3
<1>4. Good(L)
  BY <1>1, <1>3
<1>5. SubSeq(keys, 1, L) = keys
  BY SubSeqFull DEF L
<1> QED
  BY <1>2, <1>4, <1>5

(* Enter clears the line whatever it was.                                  *)
LEMMA ScreenEnter ==
  ASSUME NEW line, NEW keys, Len(keys) \in Nat \ {0}, Last(keys) = Enter
  PROVE  Screen(line, keys) = <<>>
<1>1. PICK f : Lines(f, line, keys, Len(keys)) /\ Screen(line, keys) = f[Len(keys)]
  BY ScreenIs
<1>2. f[Len(keys)] = Press(f[Len(keys) - 1], keys[Len(keys)])
  BY <1>1 DEF Lines
<1>3. keys[Len(keys)] = Enter
  BY DEF Last
<1>4. Press(f[Len(keys) - 1], Enter) = <<>>
  BY KeyAssumption DEF Press
<1> QED
  BY <1>1, <1>2, <1>3, <1>4

(* A lone erasure takes the last letter.                                   *)
LEMMA ScreenErase ==
  ASSUME NEW line
  PROVE  Screen(line, <<Erase>>) = IF line = <<>> THEN line ELSE Front(line)
<1> DEFINE keys == <<Erase>>
<1>1. Len(keys) = 1 /\ keys[1] = Erase
  OBVIOUS
<1> HIDE DEF keys
<1>2. PICK f : Lines(f, line, keys, 1) /\ Screen(line, keys) = f[1]
  BY <1>1, ScreenIs
<1>3. f[0] = line /\ f[1] = Press(f[0], keys[1])
  <2>1. 0 \in 0 .. 1 /\ 1 \in 0 .. 1
    OBVIOUS
  <2> QED
    BY <1>2, <2>1 DEF Lines
<1>4. Press(line, Erase) = IF line = <<>> THEN line ELSE Front(line)
  BY KeyAssumption DEF Press
<1> QED
  BY <1>1, <1>2, <1>3, <1>4 DEF keys

(* What a client that need not doubt its screen can rely on: keys of its   *)
(* own, and nothing of others before or behind them.                       *)
OwnKeys ==
  /\ g_cmd \in Seq(Key) /\ DOMAIN typed = Client
  /\ g_cmd = <<>> <=> by = {}
  /\ \A c \in Client \ doubt :
       /\ typed[c] # <<>> => g_cmd = typed[c]
       /\ by \subseteq {c} /\ ~Ended(g_cmd) => g_cmd = typed[c]

(* The command line after a read.                                          *)
LEMMA LineKeys ==
  ASSUME g_cmd \in Seq(Key), NEW keys \in Read
  PROVE  Line(keys) \in Seq(Key)
<1>1. keys \in Seq(Key)
  BY KeysSeq
<1>2. g_cmd \o keys \in Seq(Key)
  BY <1>1, ConcatProperties
<1>3. Front(g_cmd) \in Seq(Key)
  <2>1. Len(g_cmd) \in Nat /\ \A i \in 1 .. Len(g_cmd) - 1 : g_cmd[i] \in Key
    BY LenProperties, ElementOfSeq
  <2> QED
    BY <2>1, SubSeqProperties DEF Front
<1> QED
  BY <1>2, <1>3 DEF Line

(* What keys of a read add to a line that ends in none of them.            *)
LEMMA EndsOfLine ==
  ASSUME NEW line \in Seq(Key), NEW keys \in Seq(Key), Len(keys) # 0
  PROVE  /\ Last(keys) = Enter => Ended(line \o keys)
         /\ ~Ended(line) /\ (\A i \in 1 .. Len(keys) : keys[i] # Enter) => ~Ended(line \o keys)
<1> DEFINE all == line \o keys
<1>1. /\ Len(line) \in Nat /\ Len(keys) \in Nat \ {0}
      /\ DOMAIN line = 1 .. Len(line)
  BY LenProperties
<1>2. /\ all \in Seq(Key) /\ Len(all) = Len(line) + Len(keys)
      /\ \A i \in 1 .. Len(line) + Len(keys) :
           all[i] = IF i <= Len(line) THEN line[i] ELSE keys[i - Len(line)]
  BY ConcatProperties
<1> HIDE DEF all
<1>3. DOMAIN all = 1 .. Len(line) + Len(keys)
  BY <1>2, LenProperties
<1>4. Ended(all) <=> \E i \in 1 .. Len(line) + Len(keys) : all[i] = Enter
  BY <1>3 DEF Ended, Range
<1>5. Ended(line) <=> \E i \in 1 .. Len(line) : line[i] = Enter
  BY <1>1 DEF Ended, Range
<1>6. Last(keys) = Enter => Ended(all)
  <2>1. Len(line) + Len(keys) \in 1 .. Len(line) + Len(keys)
    BY <1>1
  <2>2. all[Len(line) + Len(keys)] = keys[Len(keys)]
    BY <1>1, <1>2, <2>1
  <2> QED
    BY <1>4, <2>1, <2>2 DEF Last
<1>7. ~Ended(line) /\ (\A i \in 1 .. Len(keys) : keys[i] # Enter) => ~Ended(all)
  <2> SUFFICES ASSUME ~Ended(line), \A i \in 1 .. Len(keys) : keys[i] # Enter,
                      NEW i \in 1 .. Len(line) + Len(keys)
               PROVE  all[i] # Enter
    BY <1>4
  <2>1. CASE i <= Len(line)
    BY <1>1, <1>2, <1>5, <2>1
  <2>2. CASE i > Len(line)
    <3>1. i - Len(line) \in 1 .. Len(keys)
      BY <1>1, <2>2
    <3> QED
      BY <1>1, <1>2, <2>2, <3>1
  <2> QED
    BY <1>1, <2>1, <2>2
<1> QED
  BY <1>6, <1>7 DEF all

(* A read of client c, complete or not, keeps what the others rely on and  *)
(* what c relies on.                                                       *)
LEMMA TypingKeeps ==
  ASSUME OwnKeys, NEW c \in Client, NEW keys \in Read, Typing(c, keys),
         \/ ~Complete(keys) /\ g_cmd' = Line(keys)
         \/ Complete(keys) /\ g_cmd' = <<>>
  PROVE  OwnKeys'
<1>1. g_cmd' \in Seq(Key)
  BY LineKeys, EmptySeq DEF OwnKeys
<1>2. /\ typed' = [d \in Client |-> CASE d \in doubt' -> <<>>
                                      [] d = c -> Screen(typed[c], keys)
                                      [] OTHER -> typed[d]]
      /\ by' = IF g_cmd' = <<>> THEN {} ELSE by \cup {c}
  BY DEF Typing
<1>3. DOMAIN typed' = Client /\ (g_cmd' = <<>> <=> by' = {})
  BY <1>2 DEF OwnKeys
<1>4. /\ \A d \in Client \ {c} : typed[d] # <<>> => d \in doubt'
      /\ \A d \in Client \ {c} : d \notin doubt' => d \notin doubt
      /\ c \notin doubt' =>
           /\ Plain(keys)
           /\ Last(keys) # Enter => c \notin doubt /\ ~Ended(g_cmd) /\ by \subseteq {c}
  BY DEF Typing
<1>5. ASSUME NEW d \in Client \ doubt', d # c
      PROVE  /\ typed'[d] # <<>> => g_cmd' = typed'[d]
             /\ by' \subseteq {d} /\ ~Ended(g_cmd') => g_cmd' = typed'[d]
  <2>1. typed'[d] = typed[d]
    BY <1>2, <1>5
  <2>2. typed'[d] = <<>>
    BY <1>4, <1>5, <2>1
  <2>3. by' \subseteq {d} => g_cmd' = <<>>
    BY <1>2, <1>5
  <2> QED
    BY <2>2, <2>3
<1>6. ASSUME c \notin doubt'
      PROVE  /\ typed'[c] # <<>> => g_cmd' = typed'[c]
             /\ by' \subseteq {c} /\ ~Ended(g_cmd') => g_cmd' = typed'[c]
  <2>1. /\ keys \in Seq(Key) /\ Len(keys) \in Nat \ {0} /\ DOMAIN keys = 1 .. Len(keys)
        /\ g_cmd \in Seq(Key)
    BY KeysSeq DEF OwnKeys
  <2>2. typed'[c] = Screen(typed[c], keys)
    BY <1>2, <1>6
  <2>3. CASE Last(keys) = Enter
    <3>1. typed'[c] = <<>>
      BY <2>1, <2>2, <2>3, ScreenEnter
    <3>2. Last(keys) # Erase
      BY <2>3, KeyAssumption
    <3>3. g_cmd' = <<>> \/ Ended(g_cmd')
      <4>1. Line(keys) = g_cmd \o keys
        BY <3>2 DEF Line
      <4>2. Ended(g_cmd \o keys)
        BY <2>1, <2>3, EndsOfLine
      <4> QED
        BY <4>1, <4>2
    <3> QED
      BY <3>1, <3>3
  <2>4. CASE Last(keys) # Enter
    <3>1. c \notin doubt /\ ~Ended(g_cmd) /\ by \subseteq {c}
      BY <1>4, <1>6, <2>4
    <3>2. g_cmd = typed[c]
      BY <3>1 DEF OwnKeys
    <3>3. CASE keys = <<Erase>>
      <4>1. Last(keys) = Erase
        BY <3>3 DEF Last
      <4>2. g_cmd' = Line(keys)
        BY <4>1 DEF Complete
      <4>3. Line(keys) = IF g_cmd = <<>> THEN g_cmd ELSE Front(g_cmd)
        BY <4>1 DEF Line
      <4>4. typed'[c] = IF g_cmd = <<>> THEN g_cmd ELSE Front(g_cmd)
        BY <2>2, <3>2, <3>3, ScreenErase
      <4> QED
        BY <4>2, <4>3, <4>4
    <3>4. CASE keys # <<Erase>>
      <4>1. \A i \in 1 .. Len(keys) : keys[i] \in Letter \cup {Blank}
        BY <1>4, <1>6, <2>1, <2>4, <3>4 DEF Plain, Last
      <4>2. \A i \in 1 .. Len(keys) : keys[i] # Enter /\ keys[i] # Erase
        BY <4>1, KeyAssumption
      <4>3. Line(keys) = g_cmd \o keys
        BY <2>1, <4>2 DEF Line, Last
      <4>4. ~Ended(Line(keys))
        BY <2>1, <3>1, <4>2, <4>3, EndsOfLine
      <4>5. g_cmd' = g_cmd \o keys
        BY <4>3, <4>4 DEF Complete
      <4>6. typed'[c] = g_cmd \o keys
        BY <2>1, <2>2, <3>2, <4>2, ScreenLetters
      <4> QED
        BY <4>5, <4>6
    <3> QED
      BY <3>3, <3>4
  <2> QED
    BY <2>3, <2>4
<1> QED
  BY <1>1, <1>3, <1>5, <1>6 DEF OwnKeys

(* While a client need not doubt its screen, g_cmd is what it shows, so    *)
(* the words before its Enter are the command that runs: whatever the      *)
(* other sessions, their erasures, lines without a word and the loads of   *)
(* both threads do (TelnetServer's g_cmd).                                 *)
THEOREM OwnLineRuns == CSpec => []OwnLine
<1>1. CInit => OwnKeys
  <2> SUFFICES ASSUME CInit PROVE OwnKeys
    OBVIOUS
  <2>1. g_cmd = <<>> /\ typed = [c \in Client |-> <<>>] /\ by = {}
    BY DEF CInit
  <2>2. <<>> \in Seq(Key)
    BY EmptySeq
  <2> QED
    BY <2>1, <2>2 DEF OwnKeys
<1>2. OwnKeys /\ [CNext]_cvars => OwnKeys'
  <2> SUFFICES ASSUME OwnKeys, [CNext]_cvars PROVE OwnKeys'
    OBVIOUS
  <2>1. ASSUME NEW c \in Client, NEW keys \in Read, CRead(c, keys) PROVE OwnKeys'
    BY <2>1, TypingKeeps DEF CRead
  <2>2. ASSUME NEW c \in Client, NEW keys \in Read, CCommand(c, keys) PROVE OwnKeys'
    BY <2>2, TypingKeeps DEF CCommand
  <2>3. CASE UNCHANGED <<g_cmd, typed, by, doubt>>
    BY <2>3 DEF OwnKeys
  <2> QED
    BY <2>1, <2>2, <2>3 DEF CNext, CLoad, CTcp, cvars
<1>3. OwnKeys => OwnLine
  BY DEF OwnKeys, OwnLine
<1> QED
  BY <1>1, <1>2, <1>3, PTL DEF CSpec
=============================================================================
