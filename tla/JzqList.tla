------------------------------- MODULE JzqList -------------------------------
(***************************************************************************)
(* The registry of concentrators ("jzq") and their TCP connections:        *)
(* ConnectionList.cpp, Jzq.cpp, ConnectionPower.cpp, AFN02.cpp and the     *)
(* request side of AFNPackageBuilder.cpp.                                  *)
(*                                                                         *)
(* Two threads act on it.  The TcpServer thread accepts and closes         *)
(* connections, handles packages and checks heartbeats.  The telnet thread *)
(* reloads the registry (freshjzq), sends synchronous requests and sweeps  *)
(* the registry every ten seconds to poll meters.  Only delConnection and  *)
(* the request functions take g_JzqConList_Mutex, so the other handlers of *)
(* the TcpServer thread interleave with a sweep that holds it.             *)
(***************************************************************************)
EXTENDS Integers, Sequences

CONSTANTS
  Addr,        \* concentrator addresses, a pair (A1 area code, A2 number)
  NoAddr,      \* content of m_jzq that is no concentrator's address
  ConnId,      \* bufferevents
  NoConn,      \* no bufferevent
  DB,          \* rows of gc_equipmentjzq, a sequence of addresses
  EleCount,    \* rows of gc_equipmentelect for every address
  SeqMod,      \* 16: the PRSEQ field has four bits
  PfcMod,      \* 256: m_PFC is a BYTE
  HeartLimit,  \* 180000 ms, in ticks
  GetLimit,    \* TM_GETKWH, in ticks
  Relays,      \* may one connection carry several or group addresses?
  MaxJzq       \* bound on the length of m_jzqList reached by freshjzq

ASSUME SeqAssumption == SeqMod \in Nat \ {0} /\ PfcMod \in Nat \ {0}
(* 16 divides 256, so the byte counter wraps where its low bits do. *)
ASSUME PfcAssumption == \E k \in 1 .. PfcMod : PfcMod = k * SeqMod
ASSUME LimitAssumption == HeartLimit \in Nat /\ GetLimit \in Nat
ASSUME DBAssumption == DB \in Seq(Addr) /\ EleCount \in [Addr -> Nat]
ASSUME NoneAssumption == NoAddr \notin Addr /\ NoConn \notin ConnId

VARIABLES
  jzqs,    \* m_jzqList
  conns,   \* the list JzqList itself: one element per open connection
  sweep    \* where the telnet thread is in AutoGetAllKwh

vars == <<jzqs, conns, sweep>>

(***************************************************************************)
(* A Jzq: m_a1a2, the two bits of m_tag, m_RSEQ, m_PFC, the time elapsed   *)
(* since m_heartTimer and m_getTimer (saturated one tick after the limit,  *)
(* where a zero timer starts), and the size of eleLst.  Names are left     *)
(* out: a name belongs to one address.                                     *)
(***************************************************************************)
Jzq == [a : Addr, conf : BOOLEAN, online : BOOLEAN,
        rseq : 0 .. SeqMod - 1, pfc : 0 .. PfcMod - 1,
        heart : 0 .. HeartLimit + 1, get : 0 .. GetLimit + 1, eles : Nat]

NewJzq(a, conf) ==
  [a |-> a, conf |-> conf, online |-> FALSE, rseq |-> 0, pfc |-> 0,
   heart |-> HeartLimit + 1, get |-> GetLimit + 1, eles |-> 0]

(* A connection; "set" says whether m_jzq has been assigned at all.        *)
Conn == [bev : ConnId, a : Addr \cup {NoAddr}, set : BOOLEAN]

(* i = 0 outside AutoGetAllKwh; bev is the connection getallkwh_async      *)
(* found, kept while it holds the mutex; k meters are still to be asked.   *)
Sweep == [i : Nat, bev : ConnId \cup {NoConn}, k : Nat]
Idle == [i |-> 0, bev |-> NoConn, k |-> 0]

Locked == sweep.bev # NoConn

(***************************************************************************)
(* Look-ups: every one of them walks a list and stops at the first match.  *)
(***************************************************************************)
Entries(js, a) == {i \in DOMAIN js : js[i].a = a}
Known(js, a) == Entries(js, a) # {}
(* Faulty variant: the walk does not stop at the first match.             *)
getJzqLast(js, a) == CHOOSE i \in Entries(js, a) : \A j \in Entries(js, a) : i >= j
getJzq(js, a) == CHOOSE i \in Entries(js, a) : \A j \in Entries(js, a) : i <= j

Links(a) == {i \in DOMAIN conns : conns[i].a = a}
getJzqConnection(a) == CHOOSE i \in Links(a) : \A j \in Links(a) : i <= j
getConnection(b) == CHOOSE i \in DOMAIN conns : conns[i].bev = b
Open == {conns[i].bev : i \in DOMAIN conns}

(***************************************************************************)
(* Jzq::LoginState and the counters.                                       *)
(***************************************************************************)

(* Faulty variant: a logout leaves the online bit set.                     *)
LoginStateSticky(e, Fn, pseq) ==
  CASE Fn = 1 -> [e EXCEPT !.online = TRUE, !.rseq = pseq]
    [] Fn = 2 -> e
    [] Fn = 3 -> [e EXCEPT !.online = TRUE, !.heart = 0]

LoginState(e, Fn, pseq) ==
  CASE Fn = 1 -> [e EXCEPT !.online = TRUE, !.rseq = pseq]
    [] Fn = 2 -> [e EXCEPT !.online = FALSE]
    [] Fn = 3 -> [e EXCEPT !.online = TRUE, !.heart = 0]

ReportLoginState(js, a, Fn, pseq) ==
  LET all == IF Known(js, a) THEN js ELSE Append(js, NewJzq(a, FALSE))
  IN  [all EXCEPT ![getJzq(all, a)] = LoginState(@, Fn, pseq)]

GetRSEQ(js, a) == IF Known(js, a) THEN js[getJzq(js, a)].rseq ELSE 0

(* Faulty variants: the wrap to zero comes too late, or too early.         *)
IncRSEQLate(js, a) ==
  IF Known(js, a)
  THEN [js EXCEPT ![getJzq(js, a)].rseq = IF @ + 1 > SeqMod THEN 0 ELSE @ + 1]
  ELSE js
IncRSEQEarly(js, a) ==
  IF Known(js, a)
  THEN [js EXCEPT ![getJzq(js, a)].rseq =
                     IF @ + 1 >= SeqMod - 1 THEN 0 ELSE @ + 1]
  ELSE js

(* ++m_RSEQ > 15 wraps to 0; an unknown address has no counter.            *)
IncRSEQ(js, a) ==
  IF Known(js, a)
  THEN [js EXCEPT ![getJzq(js, a)].rseq =
                     IF @ + 1 > SeqMod - 1 THEN 0 ELSE @ + 1]
  ELSE js

GetPSEQ(js, a) == IF Known(js, a) THEN js[getJzq(js, a)].pfc % SeqMod ELSE 0

(* Faulty variant: the counter wraps one early.                            *)
IncPFCShort(js, a) ==
  IF Known(js, a)
  THEN [js EXCEPT ![getJzq(js, a)].pfc = (@ + 1) % (PfcMod - 1)]
  ELSE js

IncPFC(js, a) ==
  IF Known(js, a)
  THEN [js EXCEPT ![getJzq(js, a)].pfc = (@ + 1) % PfcMod]
  ELSE js

-----------------------------------------------------------------------------
(* LoadJzq: the rows are appended, then every entry of the list, old or    *)
(* new, gets its meters appended to eleLst.                                *)
LoadJzq(js) ==
  LET all == js \o [r \in DOMAIN DB |-> NewJzq(DB[r], TRUE)]
  IN  [i \in DOMAIN all |-> [all[i] EXCEPT !.eles = @ + EleCount[all[i].a]]]

Init ==
  /\ jzqs = LoadJzq(<<>>)
  /\ conns = <<>>
  /\ sweep = Idle

(***************************************************************************)
(* TcpServer thread.                                                       *)
(***************************************************************************)

(* newJzqConnection: no constructor writes m_jzq, so the connection starts *)
(* with whatever the allocated memory holds.                               *)
NewConnection(b) ==
  /\ b \notin Open
  /\ \E garbage \in Addr \cup {NoAddr} :
        conns' = Append(conns, [bev |-> b, a |-> garbage, set |-> FALSE])
  /\ UNCHANGED <<jzqs, sweep>>

(***************************************************************************)
(* A package as handlePackage sees it: PRM, the AFN code, whether A3 says  *)
(* single address, the link function Fn, PSEQ and CON.  Responses          *)
(* (prm = 0) stand for every package no handler acts on, the AFN02 frames  *)
(* with another FUN, pn or Fn included.  PSEQ and CON matter for a link    *)
(* frame only: any other request is acknowledged whatever it says.         *)
(***************************************************************************)
Package ==
  [prm : {1}, afn : {"AFN02"}, a : Addr, single : BOOLEAN, Fn : 1 .. 3,
   pseq : 0 .. SeqMod - 1, con : BOOLEAN]
    \cup
  [prm : {1}, afn : {"other"}, a : Addr, single : BOOLEAN, Fn : {0},
   pseq : {0}, con : {FALSE}]
    \cup
  [prm : {0}, afn : {"other"}, a : Addr, single : BOOLEAN, Fn : {0},
   pseq : {0}, con : {FALSE}]

(* AFN02::HandleRequest: report the state, acknowledge when CON asks.      *)
IsLink(p) == p.prm = 1 /\ p.afn = "AFN02"
Reported(p) ==
  IF IsLink(p) THEN ReportLoginState(jzqs, p.a, p.Fn, p.pseq) ELSE jzqs
Acked(p) == p.prm = 1 /\ (p.afn = "other" \/ p.con)

(* RecBuf -> handlePackage -> HandlePkg -> DoHandleRequest for a package   *)
(* that came in on connection b.  Responses (PRM = 0) end in               *)
(* PackageBuilder::DoHandleAck, which leaves everything as it is.          *)
RecvPackage(b, p) ==
  /\ b \in Open
  /\ ~Relays => /\ p.single
                /\ conns[getConnection(b)].set => conns[getConnection(b)].a = p.a
  /\ conns' = IF p.single
              THEN [conns EXCEPT ![getConnection(b)].a = p.a,
                                 ![getConnection(b)].set = TRUE]
              ELSE conns
  /\ jzqs' = IF Acked(p) THEN IncRSEQ(Reported(p), p.a) ELSE Reported(p)
  /\ UNCHANGED sweep

Without(n) == [i \in 1 .. Len(conns) - 1 |->
                 IF i < n THEN conns[i] ELSE conns[i + 1]]
LoggedOut(js, a) ==
  IF Known(js, a)
  THEN [js EXCEPT ![getJzq(js, a)] = LoginState(@, 2, 0)]
  ELSE js

(* Faulty variant: delConnection without AUTO_LOCK.                        *)
CloseConnectionUnlocked(b) ==
  /\ b \in Open
  /\ conns' = Without(getConnection(b))
  /\ jzqs' = LoggedOut(jzqs, conns[getConnection(b)].a)
  /\ UNCHANGED sweep

(* conn_eventcb -> delConnection, under the mutex, and ~ConnectionPower,   *)
(* which logs out the concentrator m_jzq names.                            *)
CloseConnection(b) ==
  /\ ~Locked
  /\ b \in Open
  /\ conns' = Without(getConnection(b))
  /\ jzqs' = LoggedOut(jzqs, conns[getConnection(b)].a)
  /\ UNCHANGED sweep

(* Faulty variants: the timer restarts but the online bit stays; the       *)
(* counter is cleared with the login.                                      *)
CheckTimeoutTimerOnly(e) ==
  IF e.heart > HeartLimit THEN [e EXCEPT !.heart = 0] ELSE e
CheckTimeoutCounters(e) ==
  IF e.heart > HeartLimit
  THEN [e EXCEPT !.heart = 0, !.online = FALSE, !.rseq = 0, !.pfc = 0]
  ELSE e

(* Jzq::CheckTimeout restarts the timer it found expired.                  *)
CheckTimeout(e) ==
  IF e.heart > HeartLimit
  THEN LoginState([e EXCEPT !.heart = 0], 2, 0)
  ELSE e

(* timeout_cb_heart: CheckConnection walks the whole list.                 *)
CheckConnection ==
  /\ jzqs' = [i \in DOMAIN jzqs |-> CheckTimeout(jzqs[i])]
  /\ UNCHANGED <<conns, sweep>>

(***************************************************************************)
(* Telnet thread.                                                          *)
(***************************************************************************)

(* freshjzq appends to the list it finds.                                  *)
FreshJzq ==
  /\ sweep.i = 0
  /\ Len(jzqs) + Len(DB) <= MaxJzq
  /\ jzqs' = LoadJzq(jzqs)
  /\ UNCHANGED <<conns, sweep>>

(* REQUEST_DATA on connection number n: the frame is addressed from the    *)
(* connection's m_jzq as it is now.                                        *)
RequestData(n) == jzqs' = IncPFC(jzqs, conns[n].a)

(* getclock, getstatus, getallkwh, setpoint...: one request, if the named  *)
(* concentrator has a connection.                                          *)
SyncRequest(a) ==
  /\ sweep.i = 0
  /\ Known(jzqs, a)
  /\ Links(a) # {}
  /\ RequestData(getJzqConnection(a))
  /\ UNCHANGED <<conns, sweep>>

(* timeout_cb_kwh enters AutoGetAllKwh.                                    *)
KwhTimer ==
  /\ sweep.i = 0
  /\ jzqs # <<>>
  /\ sweep' = [Idle EXCEPT !.i = 1]
  /\ UNCHANGED <<jzqs, conns>>

(* Faulty variant: the loop ends after one concentrator.                   *)
NextEntryNone == Idle

NextEntry == IF sweep.i < Len(jzqs) THEN [Idle EXCEPT !.i = sweep.i + 1] ELSE Idle

(* One iteration: the timer restarts before a connection is looked for.    *)
SweepEntry ==
  /\ sweep.i > 0
  /\ ~Locked
  /\ LET e == jzqs[sweep.i]
     IN  IF e.get > GetLimit
         THEN /\ jzqs' = [jzqs EXCEPT ![sweep.i].get = 0]
              /\ sweep' = IF Links(e.a) = {} \/ e.eles = 0
                          THEN NextEntry
                          ELSE [sweep EXCEPT
                                 !.bev = conns[getJzqConnection(e.a)].bev,
                                 !.k = e.eles]
         ELSE /\ sweep' = NextEntry
              /\ UNCHANGED jzqs
  /\ UNCHANGED conns

(* getallkwh_async asks for one meter, then sleeps with the mutex held.    *)
SweepElement ==
  /\ Locked
  /\ RequestData(getConnection(sweep.bev))
  /\ sweep' = IF sweep.k > 1 THEN [sweep EXCEPT !.k = @ - 1] ELSE NextEntry
  /\ UNCHANGED conns

(* One tick of ftime() for every timer.                                    *)
Older(n, limit) == IF n > limit THEN n ELSE n + 1
Tick ==
  /\ jzqs' = [i \in DOMAIN jzqs |->
                [jzqs[i] EXCEPT !.heart = Older(@, HeartLimit),
                                !.get = Older(@, GetLimit)]]
  /\ UNCHANGED <<conns, sweep>>

-----------------------------------------------------------------------------
Next ==
  \/ \E b \in ConnId : NewConnection(b)
  \/ \E b \in ConnId, p \in Package : RecvPackage(b, p)
  \/ \E b \in ConnId : CloseConnection(b)
  \/ CheckConnection
  \/ FreshJzq
  \/ \E a \in Addr : SyncRequest(a)
  \/ KwhTimer
  \/ SweepEntry
  \/ SweepElement
  \/ Tick

Spec == Init /\ [][Next]_vars

(* The telnet thread runs its event loop, so its timer fires and a sweep   *)
(* that was begun is carried on; time passes.                              *)
Fairness ==
  /\ WF_vars(Tick)
  /\ WF_vars(KwhTimer)
  /\ WF_vars(SweepEntry)
  /\ WF_vars(SweepElement)

FairSpec == Spec /\ Fairness

-----------------------------------------------------------------------------
(* The state of the registry, its connections and the sweep is well formed *)
(* (types of Jzq.h and ConnectionPower.h).                                 *)
TypeOK ==
  /\ jzqs \in Seq(Jzq)
  /\ conns \in Seq(Conn)
  /\ sweep \in Sweep
  /\ sweep.i <= Len(jzqs)

Online(a) == Known(jzqs, a) /\ jzqs[getJzq(jzqs, a)].online

(* Entries that freshjzq appended for an address already listed never get  *)
(* any state of their own: look-ups stop at the first entry, so the others *)
(* keep their counters at zero and stay offline (getJzq, GetRSEQ, GetPSEQ).*)
DuplicatesInert ==
  \A i \in DOMAIN jzqs :
    i # getJzq(jzqs, jzqs[i].a) =>
      ~jzqs[i].online /\ jzqs[i].rseq = 0 /\ jzqs[i].pfc = 0

(* The connection getallkwh_async sends on still exists at every meter:    *)
(* delConnection waits for the mutex it holds over its sleeps.             *)
SweepLinkOpen == Locked => sweep.bev \in Open

(* When every connection carries one concentrator under its single         *)
(* address, a concentrator that is online has a connection                 *)
(* (~ConnectionPower logs out whom the connection carried).                *)
OnlineHasLink ==
  ~Relays => \A a \in Addr : Online(a) => \E i \in Links(a) : conns[i].set

(* A concentrator with meters that stays connected is polled again and     *)
(* again, whatever the other entries do (AutoGetAllKwh).                   *)
Polled(a) == \E i \in Links(a) : conns[i].bev = sweep.bev
PolledWhileConnected ==
  \A a \in Addr :
    (Known(jzqs, a) /\ jzqs[getJzq(jzqs, a)].eles > 0 /\ Links(a) # {})
      ~> (Polled(a) \/ Links(a) = {})

-----------------------------------------------------------------------------
(* The list with its first-match look-ups, reloads and duplicates is one   *)
(* login state and two counters per address.                               *)
State(a) == jzqs[getJzq(jzqs, a)]
Link == INSTANCE ConcentratorLink WITH
  known <- {a \in Addr : Known(jzqs, a)},
  online <- [a \in Addr |-> Online(a)],
  rseq <- [a \in Addr |-> IF Known(jzqs, a) THEN State(a).rseq ELSE 0],
  pfc <- [a \in Addr |-> IF Known(jzqs, a) THEN State(a).pfc ELSE 0]

ImplementsLink == Link!Spec
=============================================================================
