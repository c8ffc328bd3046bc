----------------------------- MODULE JzqTraffic -----------------------------
(***************************************************************************)
(* The registry of JzqList together with the frames the master station     *)
(* puts on the wire: which connection carries a request, which numbers     *)
(* responses and requests get, and what a concentrator was last heard to   *)
(* say.  Every action is one of JzqList with the frames it sends.          *)
(***************************************************************************)
EXTENDS JzqList

CONSTANTS NoSeq   \* no number sent or received yet
ASSUME NoSeqAssumption == NoSeq \notin Nat

VARIABLES
  ackSeq,   \* PRSEQ of the last response sent to a listed address,
            \* none since an unacknowledged login
  askSeq,   \* PRSEQ of the last package of an address that asks for one
  reqSeq,   \* PRSEQ of the last request sent to a listed address
  quiet,    \* ticks since the last login or heartbeat message of an address
  wire      \* connection that carried the last request, and its address

tvars == <<jzqs, conns, sweep, ackSeq, askSeq, reqSeq, quiet, wire>>
frames == <<ackSeq, askSeq, reqSeq, wire>>

NoWire == [bev |-> NoConn, a |-> NoAddr]
Numbers == 0 .. SeqMod - 1

TInit ==
  /\ Init
  /\ ackSeq = [a \in Addr |-> NoSeq]
  /\ askSeq = [a \in Addr |-> NoSeq]
  /\ reqSeq = [a \in Addr |-> NoSeq]
  /\ quiet = [a \in Addr |-> HeartLimit + 1]
  /\ wire = NoWire

(* CreateAck numbers the response after ReportLoginState has run.          *)
CreateAck(p) == GetRSEQ(Reported(p), p.a)

TRecvPackage(b, p) ==
  /\ RecvPackage(b, p)
  /\ ackSeq' = [ackSeq EXCEPT ![p.a] =
                  CASE Acked(p) /\ Known(Reported(p), p.a) -> CreateAck(p)
                    [] IsLink(p) /\ p.Fn = 1 /\ ~p.con -> NoSeq
                    [] OTHER -> @]
  /\ askSeq' = IF Acked(p) THEN [askSeq EXCEPT ![p.a] = p.pseq] ELSE askSeq
  /\ quiet' = IF IsLink(p) /\ p.Fn # 2 THEN [quiet EXCEPT ![p.a] = 0] ELSE quiet
  /\ UNCHANGED <<reqSeq, wire>>

(* REQUEST_DATA: number and address of the frame come from m_jzq of the    *)
(* connection it leaves on.                                                *)
SendRequest(n) ==
  LET a == conns[n].a
  IN  /\ wire' = [bev |-> conns[n].bev, a |-> a]
      /\ reqSeq' = IF Known(jzqs, a)
                   THEN [reqSeq EXCEPT ![a] = GetPSEQ(jzqs, a)]
                   ELSE reqSeq
      /\ UNCHANGED <<ackSeq, askSeq, quiet>>

TSyncRequest(a) == SyncRequest(a) /\ SendRequest(getJzqConnection(a))

TSweepElement == SweepElement /\ SendRequest(getConnection(sweep.bev))

TTick ==
  /\ Tick
  /\ quiet' = [a \in Addr |-> Older(quiet[a], HeartLimit)]
  /\ UNCHANGED frames

(* A handler that sends nothing.                                           *)
Silent ==
  /\ \/ \E b \in ConnId : NewConnection(b) \/ CloseConnection(b)
     \/ CheckConnection
     \/ FreshJzq
     \/ KwhTimer
     \/ SweepEntry
  /\ UNCHANGED <<ackSeq, askSeq, reqSeq, quiet, wire>>

TNext ==
  \/ \E b \in ConnId, p \in Package : TRecvPackage(b, p)
  \/ \E a \in Addr : TSyncRequest(a)
  \/ TSweepElement
  \/ TTick
  \/ Silent

TSpec == TInit /\ [][TNext]_tvars

(* The TcpServer thread's heartbeat timer fires again and again.           *)
TCheckConnection == CheckConnection /\ Silent
TFairSpec == TSpec /\ WF_tvars(TTick) /\ WF_tvars(TCheckConnection)

-----------------------------------------------------------------------------
(* A request carries the number after that of the previous request to the  *)
(* same concentrator (GetPSEQ).                                            *)
Asks(a) ==
  /\ wire'.a = a
  /\ TSweepElement \/ \E named \in Addr : TSyncRequest(named)
RequestFollows ==
  \A a \in Addr : Known(jzqs, a) /\ reqSeq[a] # NoSeq /\ Asks(a) =>
    reqSeq'[a] = (reqSeq[a] + 1) % SeqMod

(* "Initially PSEQ, then incremented by 1; frames received with the same    *)
(* RSEQ in a row are not processed, on the same PSEQ in a row the response *)
(* is resent" (proto.h:237).  The response to a login has the login's own  *)
(* number, any other the number after the last one to the concentrator.    *)
(* The last clause has no code: CreateAck takes a new number for a repeat  *)
(* as well (AFNPackageBuilder.cpp:82), so that a package that repeats the  *)
(* PSEQ of the one before it is left out here.                             *)
Repeats(p) == p.pseq = askSeq[p.a]
ResponseFollows ==
  \A b \in ConnId, p \in Package :
    Acked(p) /\ Known(jzqs, p.a) /\ TRecvPackage(b, p) =>
      IF IsLink(p) /\ p.Fn = 1
      THEN ackSeq'[p.a] = p.pseq
      ELSE ackSeq[p.a] # NoSeq /\ ~Repeats(p) =>
             ackSeq'[p.a] = (ackSeq[p.a] + 1) % SeqMod

(* The numbers of the frames sent to a concentrator neither skip nor stay, *)
(* the response to a repeated PSEQ aside, however synchronous requests,    *)
(* sweeps, reloads and logins interleave and wherever the counters wrap    *)
(* (GetPSEQ, GetRSEQ).                                                     *)
FramesNumbered == [][RequestFollows /\ ResponseFollows]_tvars

(* A concentrator that sends no login and no heartbeat any more goes       *)
(* offline, wherever logouts, reloads and earlier timeouts left its timer  *)
(* (timeout_cb_heart).                                                     *)
SilentGoesOffline ==
  \A a \in Addr :
    Online(a) /\ quiet[a] > HeartLimit ~> ~Online(a) \/ quiet[a] = 0
=============================================================================
