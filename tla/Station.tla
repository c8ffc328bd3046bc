------------------------------- MODULE Station -------------------------------
(***************************************************************************)
(* The server processes under their supervisor: TSvr and YQLoop from fork  *)
(* to exit.  The main thread makes the registry (TcpServer), starts the    *)
(* telnet thread, listens, and on SIGINT takes everything down again; the  *)
(* telnet thread is never told and goes on with the registry.  Supervisor  *)
(* knows of this only that a server which is told to end does.             *)
(***************************************************************************)
EXTENDS Supervisor

CONSTANTS Faults  \* of the steps "db", "power", "water" and "signal" of a
                  \* round those that may fail

ASSUME FaultAssumption == Faults \subseteq {"db", "power", "water", "signal"}

VARIABLES srv   \* what each server has got

svars == <<FMyMg, FTerminated, pc, target, handler, pending, child, srv>>

(* A "dead" server has been killed by SIGINT or a bad pointer.  list says  *)
(* whether g_JzqConList points to a list, leaked holds listeners nobody    *)
(* will free, a "stale" telnet thread uses a list that has been deleted.   *)
Server ==
  [stage : {"start", "loop", "made", "up", "stopping", "left", "after", "dead"},
   told : BOOLEAN, list : BOOLEAN, db : {"unopened", "open", "broken"},
   leaked : SUBSET {"power", "water"},
   telnet : {"none", "idle", "busy", "stale"}]

Fresh == [stage |-> "start", told |-> FALSE, list |-> FALSE, db |-> "unopened",
          leaked |-> {}, telnet |-> "none"]

Serving(c) == child[c] \in {"run", "term"} /\ srv[c].stage # "dead"
In(c, s) == Serving(c) /\ srv[c].stage = s
Put(c, r) == srv' = [srv EXCEPT ![c] = r] /\ UNCHANGED vars
Becomes(c, s) == Put(c, [srv[c] EXCEPT !.stage = s])

(***************************************************************************)
(* Main thread.                                                            *)
(***************************************************************************)

(* FTerminated = false; BeforeRun.                                         *)
OnStart(c) ==
  /\ In(c, "start")
  /\ Put(c, [srv[c] EXCEPT !.stage = "loop", !.told = FALSE])

(* while (!FTerminated) OnRun(): TcpServer's constructor makes the list    *)
(* and loads it.  DBManager::Instance keeps the object whose Init has      *)
(* thrown: the next load finds no query in it.  The exception leaves the   *)
(* list behind and is caught by the loop.                                  *)
OnRun(c) ==
  /\ In(c, "loop")
  /\ IF srv[c].told THEN Becomes(c, "after")
     ELSE \/ srv[c].db = "broken" /\ Becomes(c, "dead")
          \/ /\ srv[c].db # "broken"
             /\ Put(c, [srv[c] EXCEPT !.stage = "made", !.list = TRUE, !.db = "open"])
          \/ /\ srv[c].db = "unopened" /\ "db" \in Faults
             /\ Put(c, [srv[c] EXCEPT !.list = TRUE, !.db = "broken"])

(* A port whose listener was left behind can not be bound again.           *)
Free(c, p) == p \notin srv[c].leaked
Fails(c, p) == p \in srv[c].leaked \cup Faults

(* TcpServer::Run binds both ports and adds the event for SIGINT.  Without *)
(* the second port the first listener is left behind, without the event    *)
(* both are.                                                               *)
Run(c) ==
  /\ In(c, "made")
  /\ \/ Free(c, "power") /\ Free(c, "water") /\ Becomes(c, "up")
     \/ Fails(c, "power") /\ Becomes(c, "left")
     \/ /\ Free(c, "power") /\ Fails(c, "water")
        /\ Put(c, [srv[c] EXCEPT !.stage = "left", !.leaked = @ \cup {"power"}])
     \/ /\ Free(c, "power") /\ Free(c, "water") /\ "signal" \in Faults
        /\ Put(c, [srv[c] EXCEPT !.stage = "left", !.leaked = {"power", "water"}])

(* signal_cb: exit in two seconds.                                         *)
Interrupt(c) == In(c, "up") /\ srv[c].told /\ Becomes(c, "stopping")

(* Faulty variant: ~TcpServer comes before ~TelnetThread.                  *)
ShutdownDeleting(c) ==
  /\ In(c, "stopping")
  /\ Put(c, [srv[c] EXCEPT !.stage = "left", !.list = FALSE])

(* The loop has ended; only listener_power is freed.                       *)
Shutdown(c) ==
  /\ In(c, "stopping")
  /\ Put(c, [srv[c] EXCEPT !.stage = "left", !.leaked = @ \cup {"water"}])

(* ~TelnetThread sleeps for a second, ~TcpServer deletes the list.         *)
Leave(c) ==
  /\ In(c, "left")
  /\ Put(c, [srv[c] EXCEPT !.stage = "loop", !.list = FALSE,
                           !.telnet = IF @ = "busy" THEN "stale" ELSE @])

(***************************************************************************)
(* Telnet thread, started before Run.  A thread of an earlier round goes   *)
(* on and keeps the port, so that there is at most one.                    *)
(***************************************************************************)

TelnetRun(c) ==
  /\ Serving(c) /\ srv[c].telnet = "none"
  /\ srv[c].stage \in {"made", "up", "stopping"}
  /\ Put(c, [srv[c] EXCEPT !.telnet = "idle"])

(* The timer or a command calls g_JzqConList, NULL or not.                 *)
TelnetCalls(c) ==
  /\ Serving(c) /\ srv[c].telnet = "idle"
  /\ IF srv[c].list
     THEN Put(c, [srv[c] EXCEPT !.telnet = "busy"])
     ELSE Becomes(c, "dead")

TelnetReturns(c) ==
  /\ Serving(c)
  /\ \/ srv[c].telnet \in {"busy", "stale"} /\ Put(c, [srv[c] EXCEPT !.telnet = "idle"])
     \/ srv[c].telnet = "stale" /\ Becomes(c, "dead")

(***************************************************************************)
(* Signals and the supervisor.                                             *)
(***************************************************************************)

(* Faulty variants: TSvr::OnSignal only sets the flag; it only raises      *)
(* SIGINT.                                                                 *)
OnSigtermFlag(r) == [r EXCEPT !.told = TRUE]
OnSigtermRaise(r) ==
  [r EXCEPT !.stage = IF @ = "up" THEN "stopping" ELSE IF @ = "stopping" THEN @ ELSE "dead"]

(* FTerminated = true, then kill(GetPid(), SIGINT): while the event loop   *)
(* runs it catches SIGINT, otherwise SIGINT ends the process.              *)
OnSigterm(r) ==
  [r EXCEPT !.told = TRUE, !.stage = IF @ \in {"up", "stopping"} THEN @ ELSE "dead"]

(* Somebody else sends the server SIGTERM.                                 *)
SigtermServer(c) == Serving(c) /\ Put(c, OnSigterm(srv[c]))

STerminate ==
  /\ Terminate
  /\ srv' = [c \in Pid |-> CASE child'[c] = "term" /\ child[c] = "run" -> OnSigterm(srv[c])
                             [] child'[c] = "zombie" -> Fresh
                             [] OTHER -> srv[c]]

SMain ==
  \/ STerminate
  \/ /\ Loop \/ (\E c \in Pid : Fork(c)) \/ ForkFailed \/ Assign \/ Sleep
        \/ AfterRun \/ CallWait \/ Wait
     /\ UNCHANGED srv

SSigchld == Sigchld /\ UNCHANGED srv
SOnSignal == OnSignal /\ UNCHANGED srv
SBegin(c) == Begin(c) /\ UNCHANGED srv

(* exit(0), or the end of a server that died, here or for any reason the   *)
(* other modules describe.                                                 *)
SExit(c) == Exit(c) /\ srv' = [srv EXCEPT ![c] = Fresh]
Ended(c) == srv[c].stage \in {"after", "dead"} /\ SExit(c)

-----------------------------------------------------------------------------
SInit == Init /\ srv = [c \in Pid |-> Fresh]

MainThread(c) ==
  OnStart(c) \/ OnRun(c) \/ Run(c) \/ Interrupt(c) \/ Shutdown(c) \/ Leave(c)

SNext ==
  \/ SMain \/ SSigchld \/ SOnSignal
  \/ Sigterm /\ UNCHANGED srv
  \/ \E c \in Pid : \/ SBegin(c) \/ SExit(c) \/ SigtermServer(c)
                    \/ MainThread(c)
                    \/ TelnetRun(c) \/ TelnetCalls(c) \/ TelnetReturns(c)

SSpec == SInit /\ [][SNext]_svars

(* The supervisor and the main threads run; SIGINT is delivered and the    *)
(* two timers of the shutdown fire.  Nothing is assumed of the telnet      *)
(* thread.                                                                 *)
SFairSpec ==
  /\ SSpec
  /\ WF_svars(SMain) /\ WF_svars(SSigchld) /\ WF_svars(SOnSignal)
  /\ \A c \in Pid : WF_svars(SBegin(c)) /\ WF_svars(MainThread(c)) /\ WF_svars(Ended(c))

-----------------------------------------------------------------------------
(* The servers' stages are well formed, and one that does not exist has    *)
(* nothing (svr.cpp, Api.cpp).                                             *)
StationTypeOK ==
  /\ TypeOK
  /\ srv \in [Pid -> Server]
  /\ \A c \in Pid : child[c] \notin {"run", "term"} => srv[c] = Fresh

(* A server that is told to end does so, from whatever stage SIGTERM finds *)
(* it in: before its flag is reset, while it loads, between two rounds, in *)
(* the event loop or on its way out.  That is what the supervisor's        *)
(* waitpid relies on (TSvr::OnSignal).                                     *)
ImplementsSupervisor == FairSpec

(* The telnet thread never finds g_JzqConList NULL while the server is     *)
(* being set up, serves or stops, in this round or after one that failed   *)
(* (YQLoop).                                                               *)
ListWhileServing ==
  \A c \in Pid : srv[c].telnet # "none" /\ srv[c].stage \notin {"loop", "after", "dead"}
                   => srv[c].list
=============================================================================
