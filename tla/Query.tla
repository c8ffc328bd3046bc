-------------------------------- MODULE Query --------------------------------
(***************************************************************************)
(* The one database query of the server process (DBManager's Query) and    *)
(* the two threads that use it without a lock of their own.  The telnet    *)
(* thread runs JzqList::LoadJzq in freshjzq under g_JzqConList_Mutex; the  *)
(* TcpServer thread runs it in the constructor of every later round, with  *)
(* no lock, and toDB in notify, under CritSection.  Statement text, result *)
(* set, end mark and RecordCount belong to whoever touched them last.  A   *)
(* step is one call of a method of TQuery.                                 *)
(***************************************************************************)
EXTENDS Integers, Sequences

CONSTANTS
  NoSql,    \* m_FSQL is NULL
  Ele,      \* for every row of gc_equipmentjzq, its rows in gc_equipmentelect
  Before    \* rows the entries of m_jzqList may come from before freshjzq

Row == DOMAIN Ele

ASSUME EleAssumption == Ele \in Seq(Nat)
ASSUME BeforeAssumption == Before \subseteq Seq(Row)

Thread == {"telnet", "tcp"}

VARIABLES
  sql,      \* m_FSQL, forgotten when nobody will send it any more
  res,      \* m_res: the statement it answers and the row fetched last
  eof,      \* bEof
  count,    \* RecordCount, forgotten with m_FSQL
  loader,   \* LoadJzq in each thread
  writer,   \* where toDB is in the TcpServer thread
  stored,   \* rows of gc_nhfxelect the answer in notify has made
  overlap,  \* both threads have used the query since it was last left alone
  clash     \* a round has ended or begun under freshjzq, or freshjzq in its load

query == <<sql, res, eof, count>>
vars == <<query, loader, writer, stored, overlap, clash>>

(***************************************************************************)
(* Statements and their rows.                                              *)
(***************************************************************************)
Select == [table : {"jzq"}, of : {0}] \cup [table : {"elect"}, of : Row]
Insert == [table |-> "nhfx", of |-> 0]
Jzqs == [table |-> "jzq", of |-> 0]
Elements(r) == [table |-> "elect", of |-> r]
RowsOf(s) == IF s.table = "jzq" THEN Len(Ele) ELSE Ele[s.of]

NoRes == [of |-> NoSql, row |-> 0]
Result(s) == [of |-> s, row |-> 0]

(* An entry of m_jzqList: the row it was made from and the rows of the     *)
(* meters this load has appended to eleLst.                                *)
Entry(r) == [jzq |-> r, eles |-> <<>>]
Entered(rows) == [i \in DOMAIN rows |-> Entry(rows[i])]

(* at = 0 is the first loop; then it is the entry whose meters are loaded. *)
(* "gone" is between ~TcpServer and the load of the next round.            *)
Idle == [pc |-> "idle", at |-> 0, list |-> <<>>, ok |-> TRUE]
LoaderPc == {"idle", "gone", "add", "open", "first", "test", "row", "next",
             "close", "end", "crashed"}
Loading(t) == loader[t].pc # "idle"
Saving == writer # "idle"
TcpUses == Loading("tcp") \/ Saving

Init ==
  /\ sql = NoSql /\ res = NoRes /\ eof = TRUE /\ count = 0
  /\ loader = [t \in Thread |-> Idle] /\ writer = "idle" /\ stored = 0
  /\ overlap = FALSE /\ clash = FALSE

(* Each begins when both are at work and ends when neither is.             *)
Overlap ==
  /\ overlap' = IF overlap THEN Loading("telnet")' \/ TcpUses'
                ELSE Loading("telnet")' /\ TcpUses'
  /\ clash' = IF clash THEN \E t \in Thread : Loading(t)'
              ELSE \A t \in Thread : Loading(t)'

(***************************************************************************)
(* TYQMySQLQuery: what one call makes of the query.                        *)
(***************************************************************************)
Close == res' = NoRes /\ eof' = TRUE /\ UNCHANGED count

(* Faulty variant: rows are fetched from where the result set stands.      *)
FirstNoSeek(r) == [r EXCEPT !.row = @ + 1]

First(r) == [r EXCEPT !.row = 1]

AtEnd(r) == r.row > RowsOf(r.of)

(* mysql_query sends what m_FSQL holds now, not what the caller put there; *)
(* an insert takes effect whoever sends it.  One sent after notify is a    *)
(* second row of a reading that is gone, and not counted.                  *)
Sends(ok) == stored' = IF ok /\ sql = Insert /\ Saving THEN stored + 1 ELSE stored

(* Faulty variant: the last result is kept until the next one is there.    *)
OpenKeeping(ok) ==
  /\ IF ok /\ sql # Insert
     THEN res' = First(Result(sql)) /\ eof' = AtEnd(res')
     ELSE UNCHANGED <<res, eof>>
  /\ count' = IF res' = NoRes THEN 0 ELSE RowsOf(res'.of)
  /\ Sends(ok)
  /\ UNCHANGED sql

(* TQuery::Open: Close, mysql_query, First, RecordCount.                   *)
Open(ok) ==
  /\ IF ok /\ sql # Insert
     THEN res' = First(Result(sql)) /\ eof' = AtEnd(res')
     ELSE res' = NoRes /\ eof' = TRUE
  /\ count' = IF res' = NoRes THEN 0 ELSE RowsOf(res'.of)
  /\ Sends(ok)
  /\ UNCHANGED sql

ExecSQL(ok) ==
  /\ IF ok /\ sql # Insert THEN res' = Result(sql) ELSE res' = NoRes
  /\ eof' = TRUE
  /\ Sends(ok)
  /\ UNCHANGED <<sql, count>>

-----------------------------------------------------------------------------
(***************************************************************************)
(* LoadJzq, in either thread.                                              *)
(***************************************************************************)
Stmt(t) ==
  IF loader[t].at = 0 THEN Jzqs ELSE Elements(loader[t].list[loader[t].at].jzq)
In(t, pc) == loader[t].pc = pc
At(t, pc) == loader' = [loader EXCEPT ![t].pc = pc]

(* Two threads in one std::list, or one in a list that has been deleted:   *)
(* what it holds is undefined from now on, and so is not kept.             *)
Tear(l) ==
  IF \A t \in Thread : l[t].pc # "idle"
  THEN [t \in Thread |-> [l[t] EXCEPT !.list = <<>>, !.ok = FALSE]]
  ELSE l

BeginLoad(t, rows) ==
  /\ loader' = Tear([loader EXCEPT
                       ![t] = [Idle EXCEPT !.pc = "add", !.list = Entered(rows)]])
  /\ UNCHANGED <<query, stored>>

(* The next entry of such a list may be made from any row.                 *)
AddStatement(t) ==
  /\ In(t, "add")
  /\ IF clash /\ loader[t].at > 0
     THEN \E r \in Row : sql' = Elements(r)
     ELSE sql' = Stmt(t)
  /\ At(t, "open")
  /\ UNCHANGED <<res, eof, count, stored>>

OpenStatement(t, ok) ==
  /\ In(t, "open")
  /\ Open(ok)
  /\ loader' = [loader EXCEPT ![t].pc = "first", ![t].ok = @ /\ ok]

(* OpenQuery and LoadJzq go to the first row again.                        *)
FirstRow(t) ==
  /\ In(t, "first")
  /\ IF res = NoRes THEN UNCHANGED <<res, eof>>
     ELSE res' = First(res) /\ eof' = AtEnd(res')
  /\ At(t, "test")
  /\ UNCHANGED <<sql, count, stored>>

(* Faulty variant: the loop ends by RecordCount alone.                     *)
TestCount(t) ==
  /\ In(t, "test")
  /\ At(t, CASE ~eof -> "row" [] count > 0 -> "next" [] OTHER -> "close")
  /\ UNCHANGED <<query, stored>>

(* while (RecordCount > 0 && !IsEof())                                     *)
TestEof(t) ==
  /\ In(t, "test")
  /\ At(t, IF count > 0 /\ ~eof THEN "row" ELSE "close")
  /\ UNCHANGED <<query, stored>>

(* FieldByName is NULL without a result and reads through a NULL row       *)
(* before the first and after the last.                                    *)
OnRow == res # NoRes /\ res.row > 0 /\ ~AtEnd(res)
ReadRow(t) ==
  /\ In(t, "row")
  /\ \/ /\ OnRow /\ ~clash /\ loader[t].at = 0
        /\ loader' = [loader EXCEPT ![t].pc = "next",
                                    ![t].list = Append(@, Entry(res.row))]
     \/ /\ OnRow /\ ~clash /\ loader[t].at > 0
        /\ loader' = [loader EXCEPT ![t].pc = "next",
                                    ![t].list[loader[t].at].eles = Append(@, res.row)]
     \/ OnRow /\ clash /\ At(t, "next")
     \/ ~OnRow /\ At(t, "crashed")
  /\ UNCHANGED <<query, stored>>

NextRow(t) ==
  /\ In(t, "next")
  /\ IF res = NoRes \/ AtEnd(res) THEN UNCHANGED <<res, eof>>
     ELSE res' = [res EXCEPT !.row = @ + 1] /\ eof' = AtEnd(res')
  /\ At(t, "test")
  /\ UNCHANGED <<sql, count, stored>>

(* qclose, and on to the meters of the next entry, old ones included.  A   *)
(* torn list may end anywhere.                                             *)
CloseRows(t) ==
  /\ In(t, "close")
  /\ Close
  /\ \/ /\ ~clash /\ loader[t].at < Len(loader[t].list)
        /\ loader' = [loader EXCEPT ![t].pc = "add", ![t].at = @ + 1]
     \/ clash /\ loader' = [loader EXCEPT ![t].pc = "add", ![t].at = 1]
     \/ (clash \/ loader[t].at = Len(loader[t].list)) /\ At(t, "end")
  /\ UNCHANGED <<sql, stored>>

(* Nobody will use the statement and its RecordCount any more.             *)
Forget(used) ==
  IF used THEN UNCHANGED <<sql, count>> ELSE sql' = NoSql /\ count' = 0

EndLoad(t) ==
  /\ In(t, "end")
  /\ loader' = [loader EXCEPT ![t] = Idle]
  /\ Forget(Saving \/ \E u \in Thread \ {t} : Loading(u))
  /\ UNCHANGED <<res, eof, stored>>

(* Whatever a load does in a torn list may be its last.                    *)
Torn(t) ==
  /\ clash /\ loader[t].pc \notin {"idle", "gone", "crashed"}
  /\ At(t, "crashed")
  /\ UNCHANGED <<query, stored>>

LoadStep(t) ==
  \/ AddStatement(t)
  \/ \E ok \in BOOLEAN : OpenStatement(t, ok)
  \/ FirstRow(t) \/ TestEof(t) \/ ReadRow(t) \/ NextRow(t) \/ CloseRows(t)
  \/ EndLoad(t)
  \/ Torn(t)

(***************************************************************************)
(* TcpServer thread: toDB inside notify, with CritSection.                 *)
(***************************************************************************)
AddInsert ==
  /\ writer = "idle" /\ ~Loading("tcp")
  /\ sql' = Insert
  /\ stored' = 0
  /\ writer' = "added"
  /\ UNCHANGED <<res, eof, count>>

(* The result of qexec is not looked at.                                   *)
ExecInsert(ok) ==
  /\ writer = "added"
  /\ ExecSQL(ok)
  /\ writer' = IF ok THEN "sent" ELSE "failed"

(* Faulty variant: toDB without qclose.                                    *)
CloseInsertNot ==
  /\ writer \in {"sent", "failed"}
  /\ writer' = "closed"
  /\ UNCHANGED <<query, stored>>

CloseInsert ==
  /\ writer \in {"sent", "failed"}
  /\ Close
  /\ writer' = "closed"
  /\ UNCHANGED <<sql, stored>>

EndSave ==
  /\ writer = "closed"
  /\ writer' = "idle" /\ stored' = 0
  /\ Forget(Loading("telnet"))
  /\ UNCHANGED <<res, eof>>

SaveStep ==
  \/ AddInsert
  \/ \E ok \in BOOLEAN : ExecInsert(ok)
  \/ CloseInsert
  \/ EndSave

-----------------------------------------------------------------------------
(* A crash of a loader ends the program.                                   *)
Runs == \A t \in Thread : loader[t].pc # "crashed"

(* freshjzq, in the list as it is.                                         *)
Begin ==
  /\ Runs /\ ~Loading("telnet")
  /\ \E rows \in Before : BeginLoad("telnet", rows)
  /\ UNCHANGED writer /\ Overlap

(* A round is over, and the list is deleted; the next makes a new one.     *)
EndRound ==
  /\ Runs /\ ~TcpUses
  /\ loader' = Tear([loader EXCEPT !["tcp"].pc = "gone"])
  /\ UNCHANGED <<query, writer, stored>> /\ Overlap

NewRound ==
  /\ Runs /\ In("tcp", "gone")
  /\ BeginLoad("tcp", <<>>)
  /\ UNCHANGED writer /\ Overlap

Load(t) == Runs /\ LoadStep(t) /\ UNCHANGED writer /\ Overlap
Save == Runs /\ SaveStep /\ UNCHANGED loader /\ Overlap

Next == Begin \/ EndRound \/ NewRound \/ (\E t \in Thread : Load(t)) \/ Save

Spec == Init /\ [][Next]_vars

(* A thread carries on with a load it has begun.                           *)
FairSpec == Spec /\ \A t \in Thread : WF_vars(Load(t))

-----------------------------------------------------------------------------
(* The query as both threads leave it.                                     *)
TypeOK ==
  /\ sql \in Select \cup {Insert, NoSql}
  /\ res.of \in Select \cup {NoSql} /\ res.row \in Nat
  /\ eof \in BOOLEAN /\ count \in Nat
  /\ \A t \in Thread :
       /\ loader[t].pc \in LoaderPc /\ loader[t].at \in Nat
       /\ clash \/ loader[t].at <= Len(loader[t].list)
       /\ \A i \in DOMAIN loader[t].list :
            loader[t].list[i].jzq \in Row /\ loader[t].list[i].eles \in Seq(Nat)
  /\ writer \in {"idle", "added", "sent", "failed", "closed"}
  /\ stored \in Nat /\ overlap \in BOOLEAN /\ clash \in BOOLEAN

Whole(e) == [e EXCEPT !.eles = [k \in 1 .. Ele[e.jzq] |-> k]]

(* The entries a load finds: in the constructor none.                      *)
Found(t) == IF t = "tcp" THEN {<<>>} ELSE Before

(* While the threads keep apart, a load without a failed statement adds    *)
(* the rows of the table once and in order, and to every entry, new or     *)
(* old, its meters; no load ends the program (LoadJzq's loops over         *)
(* RecordCount, IsEof, FieldByName and Next).                              *)
LoadedRight ==
  \A t \in Thread :
    /\ loader[t].pc = "end" /\ loader[t].ok /\ ~overlap =>
         \E rows \in Found(t) :
            loader[t].list = [i \in 1 .. Len(rows) + Len(Ele) |->
              Whole(Entry(IF i <= Len(rows) THEN rows[i] ELSE i - Len(rows)))]
    /\ loader[t].pc = "crashed" => overlap

(* However toDB cuts in with statements of its own, a load takes rows from *)
(* answers to its own statement only: no meter is made from a row of       *)
(* another concentrator or another table.  Two loads at once do take each  *)
(* other's rows: this is said of loads that no other has run into.         *)
RowsOfOwnQuery ==
  \A t \in Thread : loader[t].pc = "row" /\ res # NoRes /\ ~clash => res.of = Stmt(t)

(* A reading makes one row when no load runs meanwhile.                    *)
StoredOnce ==
  ~overlap => (writer = "sent" => stored = 1) /\ (writer = "failed" => stored = 0)

(* Nobody leaves a result set behind, however toDB and the loads of both   *)
(* threads interleave: who closes last frees what any of them has opened.  *)
ResultFreed ==
  Runs /\ ~Loading("telnet") /\ ~TcpUses => res = NoRes /\ eof

(* A load comes to its end although toDB may put an end to its result set  *)
(* or change the statement under it, unless another load runs into it.     *)
LoadEnds ==
  \A t \in Thread :
    loader[t].pc \notin {"idle", "gone"} ~> ~Loading(t) \/ ~Runs \/ clash
=============================================================================
