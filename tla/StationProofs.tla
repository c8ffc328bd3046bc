--------------------------- MODULE StationProofs ---------------------------
(***************************************************************************)
(* Proofs about Supervisor: at every point of the main loop and of the     *)
(* handler, the only process that may be alive is the one FMyMg or fork's  *)
(* result names.  Then about Station: its steps are the supervisor's, so   *)
(* that what is proved of Supervisor holds of the whole station, and the   *)
(* telnet thread has a list to work on.  Last about the log the processes  *)
(* share.                                                                  *)
(***************************************************************************)
EXTENDS LogFile, TLAPS

(* The process a server may have, if any.                                  *)
Owned ==
  /\ FMyMg \in Pid => Alive \subseteq {FMyMg}
  /\ FMyMg \in {NULL, Failed} => Alive = {}
  /\ pc = "fork" => Alive = {}
  /\ pc = "assign" => target \in Pid /\ Alive \subseteq {target}
  /\ pc = "wait" => Alive \subseteq {target}
  /\ pc \in {"done", "crashed"} => Alive = {}

IInv == TypeOK /\ Owned

(* Before the first fork nothing is alive (BeforeRun).                     *)
LEMMA InitOwned == Init => IInv
  BY PidAssumption DEF Init, IInv, TypeOK, Owned, Alive

(* Every step of the main loop keeps the invariant.                        *)
LEMMA MainKeeps == IInv /\ Main => IInv'
<1> SUFFICES ASSUME IInv, Main PROVE IInv'
  OBVIOUS
<1> USE PidAssumption DEF IInv, TypeOK, At, Go
<1>1. CASE Loop
  BY <1>1 DEF Loop, Owned, Alive
<1>2. ASSUME NEW c \in Pid, Fork(c) PROVE IInv'
  BY <1>2 DEF Fork, Owned, Alive
<1>3. CASE ForkFailed
  BY <1>3 DEF ForkFailed, Owned, Alive
<1>4. CASE Assign
  BY <1>4 DEF Assign, Owned, Alive
<1>5. CASE Sleep
  BY <1>5 DEF Sleep, Owned, Alive
<1>6. CASE AfterRun
  BY <1>6 DEF AfterRun, Owned, Alive
<1>7. CASE Terminate
  BY <1>7 DEF Terminate, Owned, Alive
<1>8. CASE CallWait
  BY <1>8 DEF CallWait, Owned, Alive
<1>9. CASE Wait
  BY <1>9 DEF Wait, Owned, Alive
<1> QED
  BY <1>1, <1>2, <1>3, <1>4, <1>5, <1>6, <1>7, <1>8, <1>9 DEF Main

(* So does every signal and every step of a child.                         *)
LEMMA SignalsKeep ==
  IInv /\ (Sigterm \/ Sigchld \/ OnSignal \/ \E c \in Pid : Begin(c) \/ Exit(c)) => IInv'
<1> SUFFICES ASSUME IInv,
                    Sigterm \/ Sigchld \/ OnSignal \/ \E c \in Pid : Begin(c) \/ Exit(c)
             PROVE IInv'
  OBVIOUS
<1> USE PidAssumption DEF IInv, TypeOK
<1>1. CASE Sigterm
  BY <1>1 DEF Sigterm, Owned, Alive
<1>2. CASE Sigchld
  BY <1>2 DEF Sigchld, Owned, Alive
<1>3. CASE OnSignal
  BY <1>3 DEF OnSignal, Owned, Alive, Zombies
<1>4. ASSUME NEW c \in Pid, Begin(c) PROVE IInv'
  BY <1>4 DEF Begin, Owned, Alive
<1>5. ASSUME NEW c \in Pid, Exit(c) PROVE IInv'
  BY <1>5 DEF Exit, Owned, Alive
<1> QED
  BY <1>1, <1>2, <1>3, <1>4, <1>5

(* The invariant holds in every state.                                     *)
LEMMA Invariant == Spec => []IInv
<1>1. IInv /\ UNCHANGED vars => IInv'
  BY DEF IInv, TypeOK, Owned, Alive, vars
<1>2. IInv /\ [Next]_vars => IInv'
  BY <1>1, MainKeeps, SignalsKeep DEF Next
<1> QED
  BY InitOwned, <1>2, PTL DEF Spec

(* Two servers never run at once, whatever the handler interrupts          *)
(* (TSvrAdm::OnRun, OnSignal).                                             *)
THEOREM AtMostOneServer == Spec => []OneServer
<1>1. IInv => OneServer
  BY DEF IInv, TypeOK, Owned, OneServer
<1> QED
  BY <1>1, Invariant, PTL

(* The supervisor never ends while a server is alive (TSvrAdm::AfterRun).  *)
THEOREM NothingLeftBehind == Spec => []NoOrphan
<1>1. IInv => NoOrphan
  BY DEF IInv, Owned, NoOrphan
<1> QED
  BY <1>1, Invariant, PTL

-----------------------------------------------------------------------------
(* Every step of the station is one of the supervisor's or none of its     *)
(* business.                                                               *)
LEMMA StationStep == [SNext]_svars => [Next]_vars
<1> SUFFICES ASSUME [SNext]_svars PROVE [Next]_vars
  OBVIOUS
<1>1. CASE SMain
  BY <1>1 DEF SMain, STerminate, Main, Next
<1>2. CASE SSigchld \/ SOnSignal \/ (Sigterm /\ UNCHANGED srv)
  BY <1>2 DEF SSigchld, SOnSignal, Next
<1>3. ASSUME NEW c \in Pid, SBegin(c) \/ SExit(c) PROVE Next
  BY <1>3 DEF SBegin, SExit, Next
<1>4. ASSUME NEW c \in Pid,
             \/ SigtermServer(c) \/ MainThread(c)
             \/ TelnetRun(c) \/ TelnetCalls(c) \/ TelnetReturns(c)
      PROVE UNCHANGED vars
  BY <1>4 DEF SigtermServer, MainThread, TelnetRun, TelnetCalls, TelnetReturns, Put,
     Becomes, OnStart, OnRun, Run, Interrupt, Shutdown, Leave
<1>5. CASE UNCHANGED svars
  BY <1>5 DEF svars, vars
<1> QED
  BY <1>1, <1>2, <1>3, <1>4, <1>5 DEF SNext

(* The station implements the supervisor's specification; with the fairness*)
(* of the server's threads TLC checks that it also ends when told to.      *)
THEOREM StationImplements == SSpec => Spec
<1>1. SInit => Init
  BY DEF SInit
<1> QED
  BY <1>1, StationStep, PTL DEF SSpec, Spec

(* What is proved of the supervisor therefore holds here: one server, and  *)
(* none left behind, whatever the servers do (TSvrAdm).                    *)
THEOREM StationKeepsServers == SSpec => []OneServer /\ []NoOrphan
  BY StationImplements, AtMostOneServer, NothingLeftBehind, PTL

(***************************************************************************)
(* The telnet thread and g_JzqConList.                                     *)
(***************************************************************************)

(* The list is there from the end of OnRun's first half to Leave, and no   *)
(* telnet thread is there before.                                          *)
Listed(r) ==
  /\ r.stage \in {"made", "up", "stopping", "left"} => r.list
  /\ r.stage = "start" => r.telnet = "none"
ListInv == srv \in [Pid -> Server] /\ \A c \in Pid : Listed(srv[c])

(* A step that gives one server a new state keeps the invariant when that  *)
(* state does.                                                             *)
LEMMA PutKeeps ==
  ASSUME ListInv, NEW c \in Pid, NEW r \in Server, Listed(r), Put(c, r)
  PROVE  ListInv'
  BY DEF ListInv, Put

(* Every step keeps the invariant.                                         *)
LEMMA ListStep == ListInv /\ [SNext]_svars => ListInv'
<1> SUFFICES ASSUME ListInv, [SNext]_svars PROVE ListInv'
  OBVIOUS
<1>0. \A c \in Pid : srv[c] \in Server /\ Listed(srv[c])
  BY DEF ListInv
<1>1. Fresh \in Server /\ Listed(Fresh)
  BY DEF Fresh, Server, Listed
<1>2. \A r \in Server : Listed(r) => OnSigterm(r) \in Server /\ Listed(OnSigterm(r))
  BY DEF OnSigterm, Server, Listed
<1>3. CASE SMain
  <2>1. CASE STerminate
    BY <2>1, <1>0, <1>1, <1>2 DEF STerminate, ListInv
  <2>2. CASE UNCHANGED srv
    BY <2>2 DEF ListInv
  <2> QED
    BY <1>3, <2>1, <2>2 DEF SMain
<1>4. CASE UNCHANGED srv
  BY <1>4 DEF ListInv
<1>5. ASSUME NEW c \in Pid, SExit(c) PROVE ListInv'
  BY <1>5, <1>0, <1>1 DEF SExit, ListInv
<1>6. ASSUME NEW c \in Pid, SigtermServer(c) PROVE ListInv'
  BY <1>6, <1>0, <1>2, PutKeeps DEF SigtermServer
<1>7. ASSUME NEW c \in Pid, MainThread(c) PROVE ListInv'
  <2> USE <1>0 DEF In, Becomes, Server, Listed
  <2>1. CASE OnStart(c)
    BY <2>1, PutKeeps DEF OnStart
  <2>2. CASE OnRun(c)
    BY <2>2, PutKeeps DEF OnRun
  <2>3. CASE Run(c)
    BY <2>3, PutKeeps DEF Run
  <2>4. CASE Interrupt(c)
    BY <2>4, PutKeeps DEF Interrupt
  <2>5. CASE Shutdown(c)
    BY <2>5, PutKeeps DEF Shutdown
  <2>6. CASE Leave(c)
    BY <2>6, PutKeeps DEF Leave
  <2> QED
    BY <1>7, <2>1, <2>2, <2>3, <2>4, <2>5, <2>6 DEF MainThread
<1>8. ASSUME NEW c \in Pid, TelnetRun(c) \/ TelnetCalls(c) \/ TelnetReturns(c)
      PROVE ListInv'
  BY <1>8, <1>0, PutKeeps DEF TelnetRun, TelnetCalls, TelnetReturns, Becomes, Server, Listed
<1> QED
  BY <1>3, <1>4, <1>5, <1>6, <1>7, <1>8 DEF SNext, SSigchld, SOnSignal, SBegin, svars

(* The telnet thread never finds g_JzqConList NULL while the server is     *)
(* being set up, serves or stops (YQLoop).                                 *)
THEOREM ListStays == SSpec => []ListWhileServing
<1>1. SInit => ListInv
  BY DEF SInit, ListInv, Fresh, Server, Listed
<1>2. ListInv => ListWhileServing
  BY DEF ListInv, Listed, ListWhileServing, Server
<1> QED
  BY <1>1, <1>2, ListStep, PTL DEF SSpec

(* The main loop and the handler leave a running server alone.             *)
LEMMA RunsOn ==
  ASSUME IInv, SMain \/ OnSignal, NEW c \in Pid, child[c] \in {"run", "term"}
  PROVE  child'[c] \in {"run", "term"}
<1> USE DEF IInv, TypeOK
<1>1. CASE OnSignal
  BY <1>1 DEF OnSignal, Zombies
<1>2. CASE Terminate
  BY <1>2 DEF Terminate
<1>3. CASE Wait
  BY <1>3 DEF Wait, Alive
<1>4. ASSUME NEW d \in Pid, Fork(d) PROVE child'[c] \in {"run", "term"}
  BY <1>4 DEF Fork
<1>5. CASE Loop \/ ForkFailed \/ Assign \/ Sleep \/ AfterRun \/ CallWait
  BY <1>5 DEF Loop, ForkFailed, Assign, Sleep, AfterRun, CallWait
<1> QED
  BY <1>1, <1>2, <1>3, <1>4, <1>5 DEF SMain, STerminate

(* A server that does not exist has nothing.                               *)
FreshInv == \A c \in Pid : child[c] \notin {"run", "term"} => srv[c] = Fresh

(* Every step keeps that.                                                  *)
LEMMA FreshStep == IInv /\ ListInv /\ FreshInv /\ [SNext]_svars => FreshInv'
<1> SUFFICES ASSUME IInv, ListInv, FreshInv, [SNext]_svars PROVE FreshInv'
  OBVIOUS
<1> USE DEF IInv, TypeOK
<1>1. CASE STerminate
  BY <1>1 DEF STerminate, Terminate, FreshInv
<1>2. ASSUME UNCHANGED srv, \A c \in Pid : child[c] \in {"run", "term"} => child'[c] \in {"run", "term"}
      PROVE FreshInv'
  BY <1>2 DEF FreshInv
<1>3. CASE SMain /\ ~STerminate
  BY <1>2, <1>3, RunsOn DEF SMain
<1>4. CASE SSigchld \/ SOnSignal \/ (Sigterm /\ UNCHANGED srv)
  BY <1>2, <1>4, RunsOn DEF SSigchld, SOnSignal, Sigchld, Sigterm
<1>5. ASSUME NEW c \in Pid, SBegin(c) PROVE FreshInv'
  BY <1>2, <1>5 DEF SBegin, Begin
<1>6. ASSUME NEW c \in Pid, SExit(c) PROVE FreshInv'
  BY <1>6 DEF SExit, Exit, FreshInv, ListInv
<1>7. ASSUME NEW c \in Pid,
             \/ SigtermServer(c) \/ MainThread(c)
             \/ TelnetRun(c) \/ TelnetCalls(c) \/ TelnetReturns(c)
      PROVE FreshInv'
  <2>1. child[c] \in {"run", "term"} /\ \E r : Put(c, r)
    BY <1>7 DEF SigtermServer, MainThread, TelnetRun, TelnetCalls, TelnetReturns, In, Serving,
       Becomes, OnStart, OnRun, Run, Interrupt, Shutdown, Leave
  <2> QED
    BY <2>1 DEF Put, vars, FreshInv, ListInv
<1>8. CASE UNCHANGED svars
  BY <1>2, <1>8 DEF svars
<1> QED
  BY <1>1, <1>3, <1>4, <1>5, <1>6, <1>7, <1>8 DEF SNext

(* The station's state is well formed (svr.cpp, Api.cpp).                  *)
THEOREM StationType == SSpec => []StationTypeOK
<1>1. SInit => ListInv /\ FreshInv
  BY DEF SInit, ListInv, FreshInv, Fresh, Server, Listed
<1>2. IInv /\ ListInv /\ FreshInv => StationTypeOK
  BY DEF IInv, ListInv, FreshInv, StationTypeOK
<1> QED
  BY <1>1, <1>2, ListStep, FreshStep, StationImplements, Invariant, PTL DEF SSpec

(***************************************************************************)
(* The log.                                                                *)
(***************************************************************************)

(* Every step of LogFile is one of the station's or none of its business.  *)
LEMMA LogStep == [LNext]_lvars => [SNext]_svars
<1> SUFFICES ASSUME [LNext]_lvars PROVE [SNext]_svars
  OBVIOUS
<1>1. CASE LMain \/ LSigchld \/ LOnSignal \/ (Sigterm /\ UNCHANGED <<srv, sem, undo, FFlag, at>>)
  BY <1>1 DEF LMain, LSigchld, LOnSignal, SNext
<1>2. ASSUME NEW c \in Pid,
             \/ LBegin(c) \/ LExit(c) \/ LMainThread(c) \/ LTelnet(c)
             \/ SigtermServer(c) /\ UNCHANGED logvars
      PROVE SNext
  BY <1>2 DEF LBegin, LExit, LMainThread, LTelnet, SNext
<1>3. ASSUME NEW t \in Thread, Log(t) \/ Lock(t) \/ WriteStep(t) PROVE UNCHANGED svars
  BY <1>3 DEF Log, Lock, WriteStep, Semop, CountOut, Unlock, svars, vars
<1>4. CASE UNCHANGED lvars
  BY <1>4 DEF lvars, svars
<1> QED
  BY <1>1, <1>2, <1>3, <1>4 DEF LNext

(* The processes that exist, dead ones included: with the ones that are    *)
(* alive as in Owned.  A SIGCHLD or its handler has somebody to wait for.  *)
Kids == {c \in Pid : child[c] # "none"}
KidInv ==
  /\ FMyMg \in Pid => Kids \subseteq {FMyMg}
  /\ FMyMg \in {NULL, Failed} /\ pc # "done" => Kids = {}
  /\ pc = "fork" => Kids = {}
  /\ pc = "assign" => target \in Pid /\ Kids \subseteq {target}
  /\ handler => pc \notin {"done", "crashed"} /\ Zombies # {} /\ ~pending
  /\ pending /\ pc \notin {"done", "crashed"} => Zombies # {}

(* Every step of the main loop keeps it.                                   *)
LEMMA KidsMain == IInv /\ KidInv /\ Main => KidInv'
<1> SUFFICES ASSUME IInv, KidInv, Main PROVE KidInv'
  OBVIOUS
<1> USE PidAssumption DEF IInv, TypeOK, At, Go
<1>1. CASE Loop
  BY <1>1 DEF Loop, KidInv, Kids, Zombies
<1>2. ASSUME NEW c \in Pid, Fork(c) PROVE KidInv'
  BY <1>2 DEF Fork, KidInv, Kids, Zombies
<1>3. CASE ForkFailed
  BY <1>3 DEF ForkFailed, KidInv, Kids, Zombies
<1>4. CASE Assign
  BY <1>4 DEF Assign, KidInv, Kids, Zombies
<1>5. CASE Sleep
  BY <1>5 DEF Sleep, KidInv, Kids, Zombies
<1>6. CASE AfterRun
  BY <1>6 DEF AfterRun, KidInv, Kids, Zombies
<1>7. CASE Terminate
  BY <1>7 DEF Terminate, KidInv, Kids, Zombies
<1>8. CASE CallWait
  BY <1>8 DEF CallWait, KidInv, Kids, Zombies
<1>9. CASE Wait
  BY <1>9 DEF Wait, KidInv, Kids, Zombies
<1> QED
  BY <1>1, <1>2, <1>3, <1>4, <1>5, <1>6, <1>7, <1>8, <1>9 DEF Main

(* So does every signal and every step of a child.                         *)
LEMMA KidsSignals ==
  IInv /\ KidInv /\ (Sigterm \/ Sigchld \/ OnSignal \/ \E c \in Pid : Begin(c) \/ Exit(c))
    => KidInv'
<1> SUFFICES ASSUME IInv, KidInv,
                    Sigterm \/ Sigchld \/ OnSignal \/ \E c \in Pid : Begin(c) \/ Exit(c)
             PROVE KidInv'
  OBVIOUS
<1> USE PidAssumption DEF IInv, TypeOK
<1>1. CASE Sigterm
  BY <1>1 DEF Sigterm, KidInv, Kids, Zombies
<1>2. CASE Sigchld
  BY <1>2 DEF Sigchld, KidInv, Kids, Zombies
<1>3. CASE OnSignal
  BY <1>3 DEF OnSignal, KidInv, Kids, Zombies
<1>4. ASSUME NEW c \in Pid, Begin(c) PROVE KidInv'
  BY <1>4 DEF Begin, KidInv, Kids, Zombies
<1>5. ASSUME NEW c \in Pid, Exit(c) PROVE KidInv'
  BY <1>5 DEF Exit, KidInv, Kids, Zombies, Owned, Alive
<1> QED
  BY <1>1, <1>2, <1>3, <1>4, <1>5

(* Where the threads are; nobody exists while the supervisor logs, and a   *)
(* server's thread in the log has a process.                               *)
Stage == {"out", "lock"} \cup Locked
InLog(t) == at[t] # "out"
QuietInv ==
  /\ at \in [Thread -> Stage]
  /\ ~SupOut => Kids = {} /\ ~handler /\ ~pending
  /\ HandlerLogsAlone
  /\ \A t \in Thread : t[1] \in Pid /\ InLog(t) => child[t[1]] \in {"run", "term"}

(* One thread has the locks, and the flags, the semaphore and what is to   *)
(* be undone say so.                                                       *)
Counted(p) == \E t \in Thread : t[1] = p /\ at[t] \in {"sem", "write"}
Taken(p) == \E t \in Thread : t[1] = p /\ at[t] \in {"write", "post"}
LockInv ==
  /\ \A t, u \in Holding : t = u
  /\ FFlag = [p \in Process |-> IF Counted(p) THEN 1 ELSE 0]
  /\ undo = [p \in Process |-> IF Taken(p) THEN 1 ELSE 0]
  /\ sem = IF \E p \in Process : Taken(p) THEN 0 ELSE 1

LogInv == IInv /\ KidInv /\ QuietInv /\ LockInv

(* The threads and their processes.                                        *)
LEMMA Threads ==
  /\ SupMain \in Thread /\ SupHandler \in Thread
  /\ \A c \in Pid : <<c, "main">> \in Thread /\ <<c, "telnet">> \in Thread
  /\ \A t \in Thread : /\ t[1] \in Process
                       /\ t[1] = Sup => t = SupMain \/ t = SupHandler
  BY SupAssumption DEF Thread, SupMain, SupHandler, Process

(* A step after which every thread is where it was keeps the locks.        *)
LEMMA SameLocks ==
  ASSUME LockInv, UNCHANGED logvars PROVE LockInv'
<1>1. \A p \in Process : Counted(p)' = Counted(p) /\ Taken(p)' = Taken(p)
  BY DEF Counted, Taken, logvars
<1> QED
  BY <1>1 DEF LockInv, Holding, logvars

(* In the initial state nothing exists and nobody logs.                    *)
LEMMA InitLog == LInit => LogInv
<1> SUFFICES ASSUME LInit PROVE LogInv
  OBVIOUS
<1>1. IInv /\ KidInv
  BY InitOwned, PidAssumption DEF LInit, SInit, Init, KidInv, Kids, Zombies
<1>2. QuietInv
  BY Threads DEF LInit, QuietInv, SupOut, HandlerLogsAlone, InLog, Stage
<1>3. LockInv
  BY DEF LInit, LockInv, Holding, Locked, Counted, Taken
<1> QED
  BY <1>1, <1>2, <1>3 DEF LogInv

(* Two threads that exist at once and are in the log are of one process.   *)
LEMMA OneProcess ==
  ASSUME LogInv, NEW t \in Thread, NEW u \in Thread, InLog(t), InLog(u)
  PROVE  t[1] = u[1] /\ (t[1] = Sup => t = u)
<1>1. \A c, d \in Alive : c = d
  BY DEF LogInv, IInv, TypeOK, Owned
<1>2. CASE t[1] = Sup \/ u[1] = Sup
  BY <1>2, Threads, SupAssumption DEF LogInv, QuietInv, SupOut, HandlerLogsAlone, InLog, Kids, Process
<1>3. CASE t[1] \in Pid /\ u[1] \in Pid
  BY <1>1, <1>3, SupAssumption DEF LogInv, QuietInv, Alive
<1> QED
  BY <1>2, <1>3, Threads DEF Process

(* What is shown of the supervisor's steps holds of the log's.             *)
LEMMA BaseKeeps == LogInv /\ [LNext]_lvars => IInv' /\ KidInv'
<1>1. KidInv /\ UNCHANGED vars => KidInv'
  BY DEF KidInv, Kids, Zombies, vars
<1>2. IInv /\ UNCHANGED vars => IInv'
  BY DEF IInv, TypeOK, Owned, Alive, vars
<1>3. [LNext]_lvars => [Next]_vars
  BY LogStep, StationStep
<1> QED
  BY <1>1, <1>2, <1>3, MainKeeps, SignalsKeep, KidsMain, KidsSignals DEF LogInv, Next

(* Every step keeps the supervisor's logging apart from its servers.       *)
LEMMA QuietKeeps == LogInv /\ [LNext]_lvars => QuietInv'
<1> SUFFICES ASSUME LogInv, [LNext]_lvars PROVE QuietInv'
  OBVIOUS
<1> USE PidAssumption, SupAssumption DEF LogInv, IInv, TypeOK
<1>1. CASE LMain
  <2>1. SupOut /\ SupMain # SupHandler
    BY <1>1 DEF LMain, SupMain, SupHandler
  <2>2. /\ at' = [at EXCEPT ![SupMain] = IF Threw THEN "lock" ELSE "out"]
        /\ SMain
    BY <1>1 DEF LMain, Moves
  <2>3. at' \in [Thread -> Stage] /\ at'[SupHandler] = "out"
    BY <2>1, <2>2, Threads DEF QuietInv, SupOut, Stage
  <2>4. ASSUME ~SupOut' PROVE Kids' = {} /\ ~handler' /\ ~pending'
    <3>1. Threw /\ UNCHANGED <<child, handler, pending>> /\ ~handler
      BY <2>1, <2>2, <2>3, <2>4, Threads
      DEF SupOut, QuietInv, Threw, SMain, STerminate, Terminate, Loop, Fork, ForkFailed, Assign,
          Sleep, AfterRun, CallWait, Wait, At
    <3> QED
      BY <3>1 DEF Threw, KidInv, Kids, Zombies
  <2>5. ASSUME NEW t \in Thread, t[1] \in Pid, InLog(t)'
        PROVE  child'[t[1]] \in {"run", "term"}
    <3>1. InLog(t) /\ child[t[1]] \in {"run", "term"}
      BY <2>2, <2>5 DEF QuietInv, InLog, SupMain
    <3> QED
      BY <2>2, <2>5, <3>1, RunsOn
  <2> QED
    BY <2>3, <2>4, <2>5 DEF QuietInv, HandlerLogsAlone
<1>2. CASE LOnSignal
  <2>1. handler /\ SupOut /\ ~pending /\ OnSignal
    BY <1>2 DEF LOnSignal, SOnSignal, OnSignal, QuietInv, KidInv
  <2>2. at' = [at EXCEPT ![SupHandler] = IF FMyMg # NULL /\ FMyMg' = NULL THEN "lock" ELSE "out"]
    BY <1>2 DEF LOnSignal, Moves
  <2>3. at' \in [Thread -> Stage] /\ at'[SupMain] = "out"
    BY <2>1, <2>2, Threads DEF QuietInv, SupOut, Stage, SupMain, SupHandler
  <2>4. ASSUME ~SupOut' PROVE Kids' = {} /\ ~handler' /\ ~pending'
    <3>1. FMyMg # NULL /\ FMyMg' = NULL
      BY <2>2, <2>3, <2>4, Threads DEF SupOut, QuietInv
    <3> QED
      BY <2>1, <3>1 DEF OnSignal, KidInv, Kids, Zombies
  <2>5. ASSUME NEW t \in Thread, t[1] \in Pid, InLog(t)'
        PROVE  child'[t[1]] \in {"run", "term"}
    <3>1. InLog(t) /\ child[t[1]] \in {"run", "term"}
      BY <2>2, <2>5 DEF QuietInv, InLog, SupHandler
    <3> QED
      BY <2>1, <2>5, <3>1, RunsOn
  <2> QED
    BY <2>3, <2>4, <2>5 DEF QuietInv, HandlerLogsAlone
<1>3. CASE LSigchld
  BY <1>3 DEF LSigchld, SSigchld, Sigchld, QuietInv, SupOut, HandlerLogsAlone, InLog, Kids, logvars
<1>4. CASE Sigterm /\ UNCHANGED <<srv, sem, undo, FFlag, at>>
  BY <1>4 DEF Sigterm, QuietInv, SupOut, HandlerLogsAlone, InLog, Kids
<1>5. ASSUME NEW c \in Pid, LExit(c) PROVE QuietInv'
  <2>1. c \in Alive /\ SupOut /\ handler' = handler
    BY <1>5 DEF LExit, SExit, Exit, QuietInv, Kids, Alive
  <2>2. at' = [t \in Thread |-> IF t[1] = c THEN "out" ELSE at[t]]
    BY <1>5 DEF LExit
  <2>3. at' \in [Thread -> Stage] /\ SupOut'
    BY <2>1, <2>2, Threads DEF QuietInv, Stage, SupOut, SupMain, SupHandler
  <2>4. ASSUME NEW t \in Thread, t[1] \in Pid, InLog(t)'
        PROVE  child'[t[1]] \in {"run", "term"}
    BY <1>5, <2>2, <2>4 DEF LExit, SExit, Exit, QuietInv, InLog
  <2> QED
    BY <2>3, <2>4 DEF QuietInv, SupOut, HandlerLogsAlone
<1>6. ASSUME NEW c \in Pid, LBegin(c) PROVE QuietInv'
  BY <1>6 DEF LBegin, SBegin, Begin, QuietInv, SupOut, HandlerLogsAlone, InLog, Kids, logvars
<1>7. ASSUME UNCHANGED <<vars, at>> PROVE QuietInv'
  BY <1>7 DEF vars, QuietInv, SupOut, HandlerLogsAlone, InLog, Kids
<1>8. ASSUME NEW c \in Pid,
             LMainThread(c) \/ LTelnet(c) \/ (SigtermServer(c) /\ UNCHANGED logvars)
      PROVE QuietInv'
  BY <1>7, <1>8 DEF LMainThread, LTelnet, SigtermServer, MainThread, TelnetRun, TelnetCalls,
     TelnetReturns, Put, Becomes, OnStart, OnRun, Run, Interrupt, Shutdown, Leave, logvars
<1>9. ASSUME NEW t \in Thread, NEW s \in Stage, Moves(t, s), UNCHANGED vars,
             IF t[1] = Sup THEN InLog(t) ELSE Serving(t[1])
      PROVE QuietInv'
  <2>1. at' \in [Thread -> Stage]
    BY <1>9 DEF QuietInv, Moves
  <2>2. UNCHANGED <<child, handler, pending>> /\ Kids' = Kids
    BY <1>9 DEF vars, Kids
  <2>3. \A u \in Thread : u # t => at'[u] = at[u]
    BY <1>9 DEF Moves, QuietInv
  <2>4. (~SupOut' => ~SupOut) /\ HandlerLogsAlone'
    <3>1. SupMain[1] = Sup /\ SupHandler[1] = Sup /\ SupMain # SupHandler
      BY DEF SupMain, SupHandler
    <3>2. CASE t = SupMain
      BY <1>9, <2>3, <3>1, <3>2, Threads DEF QuietInv, SupOut, HandlerLogsAlone, InLog
    <3>3. CASE t = SupHandler
      BY <1>9, <2>3, <3>1, <3>3, Threads DEF QuietInv, SupOut, HandlerLogsAlone, InLog
    <3>4. CASE t # SupMain /\ t # SupHandler
      BY <2>3, <3>4, Threads DEF QuietInv, SupOut, HandlerLogsAlone
    <3> QED
      BY <3>2, <3>3, <3>4
  <2>5. \A u \in Thread : u[1] \in Pid /\ InLog(u)' => child[u[1]] \in {"run", "term"}
    BY <1>9, <2>3, Threads DEF QuietInv, InLog, Serving
  <2> QED
    BY <2>1, <2>2, <2>4, <2>5 DEF QuietInv
<1>10. ASSUME NEW t \in Thread, Log(t) \/ Lock(t) \/ WriteStep(t) PROVE QuietInv'
  <2>1. {"out", "lock", "sem", "write", "post"} \subseteq Stage
    BY DEF Stage, Locked
  <2> QED
    BY <1>9, <1>10, <2>1, Threads DEF Log, Lock, WriteStep, Semop, CountOut, Unlock, Runs, InLog
<1>11. CASE UNCHANGED lvars
  BY <1>7, <1>11 DEF lvars, vars
<1> QED
  BY <1>1, <1>2, <1>3, <1>4, <1>5, <1>6, <1>8, <1>10, <1>11 DEF LNext

(* Whoever is in the log is there alone but for threads that wait, so that *)
(* one thread's stage decides about all of LockInv.                        *)
LEMMA OneMoves ==
  ASSUME LogInv, NEW t \in Thread, NEW s \in Stage, Moves(t, s),
         Holding \subseteq {t},
         FFlag' = [FFlag EXCEPT ![t[1]] = IF s \in {"sem", "write"} THEN 1 ELSE 0],
         undo' = [undo EXCEPT ![t[1]] = IF s \in {"write", "post"} THEN 1 ELSE 0],
         sem' = IF s \in {"write", "post"} THEN 0 ELSE 1
  PROVE  LockInv'
<1>1. t[1] \in Process
  BY Threads
<1>2. /\ at' \in [Thread -> Stage] /\ at'[t] = s
      /\ \A u \in Thread : u # t => at'[u] = at[u] /\ at[u] \notin Locked
  BY DEF LogInv, QuietInv, Moves, Holding
<1>3. \A p \in Process : /\ Counted(p)' <=> p = t[1] /\ s \in {"sem", "write"}
                         /\ Taken(p)' <=> p = t[1] /\ s \in {"write", "post"}
  BY <1>2 DEF Counted, Taken, Locked
<1>4. \A p \in Process : p # t[1] => ~Counted(p) /\ ~Taken(p)
  BY <1>2 DEF Counted, Taken, Locked
<1>5. FFlag' = [p \in Process |-> IF Counted(p)' THEN 1 ELSE 0]
  BY <1>1, <1>3, <1>4 DEF LogInv, LockInv
<1>6. undo' = [p \in Process |-> IF Taken(p)' THEN 1 ELSE 0]
  BY <1>1, <1>3, <1>4 DEF LogInv, LockInv
<1>7. (\E p \in Process : Taken(p)') <=> s \in {"write", "post"}
  BY <1>1, <1>3
<1>8. \A u, v \in Holding' : u = v
  BY <1>2 DEF Holding
<1> QED
  BY <1>5, <1>6, <1>7, <1>8 DEF LockInv

(* What LockInv says of the one thread that has the locks.                 *)
LEMMA OneHas ==
  ASSUME LogInv, NEW t \in Thread, Holding \subseteq {t}
  PROVE  /\ FFlag[t[1]] = IF at[t] \in {"sem", "write"} THEN 1 ELSE 0
         /\ undo[t[1]] = IF at[t] \in {"write", "post"} THEN 1 ELSE 0
         /\ sem = IF at[t] \in {"write", "post"} THEN 0 ELSE 1
<1>1. \A u \in Thread : u # t => at[u] \notin Locked
  BY DEF Holding
<1>2. \A p \in Process : /\ Counted(p) <=> p = t[1] /\ at[t] \in {"sem", "write"}
                         /\ Taken(p) <=> p = t[1] /\ at[t] \in {"write", "post"}
  BY <1>1 DEF Counted, Taken, Locked
<1> QED
  BY <1>2, Threads DEF LogInv, LockInv

(* Every step of a thread in the log keeps the locks.                      *)
LEMMA WriteKeeps ==
  ASSUME LogInv, NEW t \in Thread, Log(t) \/ Lock(t) \/ WriteStep(t)
  PROVE  LockInv'
<1> USE DEF Stage, Locked
<1>1. t[1] \in Process
  BY Threads
<1>2. FFlag \in [Process -> {0, 1}] /\ undo \in [Process -> {0, 1}]
  BY DEF LogInv, LockInv
<1> DEFINE F(n) == [FFlag EXCEPT ![t[1]] = n]
           U(n) == [undo EXCEPT ![t[1]] = n]
<1>0. /\ F(FFlag[t[1]]) = FFlag
      /\ U(undo[t[1]]) = undo
  BY <1>1, <1>2
<1>3. CASE at[t] \in Locked
  <2>1. Holding \subseteq {t}
    BY <1>3 DEF LogInv, LockInv, Holding
  <2>2. CASE Semop(t)
    <3>0. FFlag[t[1]] = 1 /\ undo[t[1]] = 0 /\ sem = 1
      BY <2>1, <2>2, OneHas DEF Semop
    <3>1. Moves(t, "write") /\ FFlag' = F(1) /\ undo' = U(1) /\ sem' = 0
      BY <1>0, <2>2, <3>0 DEF Semop
    <3> QED
      BY <2>1, <3>1, OneMoves
  <2>3. CASE CountOut(t)
    <3>0. FFlag[t[1]] = 1 /\ undo[t[1]] = 1 /\ sem = 0
      BY <2>1, <2>3, OneHas DEF CountOut
    <3>1. Moves(t, "post") /\ FFlag' = F(0) /\ undo' = U(1) /\ sem' = 0
      BY <1>0, <2>3, <3>0 DEF CountOut
    <3> QED
      BY <2>1, <3>1, OneMoves
  <2>4. CASE Unlock(t)
    <3>0. FFlag[t[1]] = 0 /\ undo[t[1]] = 1 /\ sem = 0
      BY <2>1, <2>4, OneHas DEF Unlock
    <3>1. Moves(t, "out") /\ FFlag' = F(0) /\ undo' = U(0) /\ sem' = 1
      BY <1>0, <2>4, <3>0 DEF Unlock
    <3> QED
      BY <2>1, <3>1, OneMoves
  <2> QED
    BY <1>3, <2>2, <2>3, <2>4 DEF WriteStep, Log, Lock
<1>4. CASE Lock(t)
  <2>1. Holding = {}
    <3>1. ASSUME NEW u \in Holding PROVE FALSE
      <4>1. u \in Thread /\ InLog(u) /\ InLog(t) /\ at[t] = "lock"
        BY <1>4, <3>1 DEF Holding, InLog, Lock
      <4>2. u[1] = t[1] /\ (t[1] = Sup => t = u)
        BY <4>1, OneProcess
      <4>3. u \in Mine(t)
        BY <1>4, <4>1, <4>2 DEF Lock, ThreadsOf
      <4> QED
        BY <3>1, <4>1, <4>2, <4>3 DEF Mine, Holding
    <3> QED
      BY <3>1
  <2>2. FFlag[t[1]] = 0 /\ undo[t[1]] = 0 /\ sem = 1
    BY <1>4, <2>1, OneHas DEF Lock
  <2>3. Moves(t, "sem") /\ FFlag' = F(1) /\ undo' = U(0) /\ sem' = 1
    BY <1>0, <1>4, <2>2 DEF Lock
  <2> QED
    BY <2>1, <2>3, OneMoves
<1>5. CASE Log(t)
  <2>1. \A u \in Thread : at'[u] \in Locked \/ at[u] \in Locked => at'[u] = at[u]
    BY <1>5 DEF Log, Moves, LogInv, QuietInv
  <2>2. \A p \in Process : Counted(p)' = Counted(p) /\ Taken(p)' = Taken(p)
    BY <2>1 DEF Counted, Taken
  <2> QED
    BY <1>5, <2>1, <2>2 DEF Log, LogInv, LockInv, Holding
<1> QED
  BY <1>3, <1>4, <1>5 DEF WriteStep, Semop, CountOut, Unlock

(* Every other step leaves the locks as they are, but for the end of a     *)
(* server, which gives back what it has.                                   *)
LEMMA OthersKeep ==
  ASSUME LogInv,
         \/ LMain \/ LSigchld \/ LOnSignal
         \/ Sigterm /\ UNCHANGED <<srv, sem, undo, FFlag, at>>
         \/ \E c \in Pid : \/ LBegin(c) \/ LExit(c) \/ LMainThread(c) \/ LTelnet(c)
                           \/ SigtermServer(c) /\ UNCHANGED logvars
  PROVE  LockInv'
<1> USE SupAssumption
<1>0. FFlag \in [Process -> {0, 1}] /\ undo \in [Process -> {0, 1}]
  BY DEF LogInv, LockInv
<1>1. ASSUME NEW t \in Thread, NEW s \in {"out", "lock"}, at[t] \in {"out", "lock"},
             Moves(t, s), UNCHANGED <<sem, undo, FFlag>>
      PROVE  LockInv'
  <2>1. \A u \in Thread : at'[u] \in Locked \/ at[u] \in Locked => at'[u] = at[u]
    BY <1>1 DEF Moves, LogInv, QuietInv, Locked
  <2>2. \A p \in Process : Counted(p)' = Counted(p) /\ Taken(p)' = Taken(p)
    BY <2>1 DEF Counted, Taken, Locked
  <2> QED
    BY <1>1, <2>1, <2>2 DEF LogInv, LockInv, Holding
<1>2. CASE LMain
  <2>1. SupOut /\ UNCHANGED <<sem, undo>>
    BY <1>2 DEF LMain
  <2>2. FFlag[Sup] = 0
    BY <2>1, Threads DEF LogInv, LockInv, Counted, SupOut, Process
  <2>3. ASSUME NEW p \in Pid, pc = "fork", child'[p] = "new" PROVE FFlag[p] = 0
    <3>1. child[p] \notin {"run", "term"}
      BY <1>2, <2>3, RunsOn DEF LMain, LogInv
    <3>2. ~Counted(p)
      BY <3>1 DEF LogInv, QuietInv, Counted, InLog
    <3> QED
      BY <3>2 DEF LogInv, LockInv, Process
  <2>4. FFlag' = FFlag
    BY <1>0, <1>2, <2>2, <2>3 DEF LMain
  <2> QED
    BY <1>1, <1>2, <2>1, <2>4, Threads DEF LMain, SupOut
<1>3. CASE LOnSignal
  <2>1. SupOut
    BY <1>3 DEF LOnSignal, SOnSignal, OnSignal, LogInv, QuietInv
  <2> QED
    BY <1>1, <1>3, <2>1, Threads DEF LOnSignal, SupOut
<1>4. ASSUME NEW c \in Pid, LExit(c) PROVE LockInv'
  <2>1. /\ sem' = sem + undo[c]
        /\ undo' = [undo EXCEPT ![c] = 0]
        /\ FFlag' = [FFlag EXCEPT ![c] = 0]
        /\ at' = [t \in Thread |-> IF t[1] = c THEN "out" ELSE at[t]]
    BY <1>4 DEF LExit
  <2>2. c \in Process
    BY DEF Process
  <2>3. \A p \in Process : /\ Counted(p)' <=> p # c /\ Counted(p)
                           /\ Taken(p)' <=> p # c /\ Taken(p)
    BY <2>1 DEF Counted, Taken
  <2>4. FFlag' = [p \in Process |-> IF Counted(p)' THEN 1 ELSE 0]
    BY <2>1, <2>2, <2>3 DEF LogInv, LockInv
  <2>5. undo' = [p \in Process |-> IF Taken(p)' THEN 1 ELSE 0]
    BY <2>1, <2>2, <2>3 DEF LogInv, LockInv
  <2>6. sem' = IF \E p \in Process : Taken(p)' THEN 0 ELSE 1
    <3>1. CASE Taken(c)
      <4>1. \A p \in Process : Taken(p) => p = c
        BY <3>1 DEF LogInv, LockInv, Taken, Holding, Locked
      <4>2. sem = 0 /\ undo[c] = 1
        BY <2>2, <3>1 DEF LogInv, LockInv
      <4> QED
        BY <2>1, <2>3, <4>1, <4>2
    <3>2. CASE ~Taken(c)
      <4>1. undo[c] = 0 /\ sem \in {0, 1}
        BY <2>2, <3>2 DEF LogInv, LockInv
      <4>2. sem' = sem
        BY <2>1, <4>1
      <4>3. (\E p \in Process : Taken(p)') <=> (\E p \in Process : Taken(p))
        BY <2>3, <3>2
      <4> QED
        BY <4>2, <4>3 DEF LogInv, LockInv
    <3> QED
      BY <3>1, <3>2
  <2>7. \A t, u \in Holding' : t = u
    BY <2>1 DEF LogInv, LockInv, Holding, Locked
  <2> QED
    BY <2>4, <2>5, <2>6, <2>7 DEF LockInv
<1>5. CASE UNCHANGED logvars
  BY <1>5, SameLocks DEF LogInv
<1> QED
  BY <1>2, <1>3, <1>4, <1>5 DEF LSigchld, LBegin, LMainThread, LTelnet, logvars

(* The invariant of the log.                                               *)
LEMMA LogInvariant == LSpec => []LogInv
<1>1. LogInv /\ [LNext]_lvars => LogInv'
  <2> SUFFICES ASSUME LogInv, [LNext]_lvars PROVE LockInv'
    BY BaseKeeps, QuietKeeps DEF LogInv
  <2>1. CASE UNCHANGED lvars
    BY <2>1, SameLocks DEF LogInv, lvars, logvars
  <2> QED
    BY <2>1, WriteKeeps, OthersKeep DEF LNext
<1> QED
  BY <1>1, InitLog, PTL DEF LSpec

(* The log is written by one thread at a time, of whatever process, and    *)
(* whoever dies in it (TLogFileMp::Lock).                                  *)
THEOREM LogExclusive == LSpec => []OneWriter
<1>1. LogInv => OneWriter
  BY DEF LogInv, LockInv, OneWriter, Writers, Holding, Locked
<1> QED
  BY <1>1, LogInvariant, PTL

(* Nobody finds the semaphore taken, by a dead server or by itself         *)
(* (TYQPrcSync::CriticalLock).                                             *)
THEOREM LogFree == LSpec => []SemFree
<1>1. LogInv => SemFree
  <2> SUFFICES ASSUME LogInv, NEW t \in Thread, at[t] = "sem" PROVE sem = 1
    BY DEF SemFree
  <2>1. Holding \subseteq {t}
    BY DEF LogInv, LockInv, Holding, Locked
  <2> QED
    BY <2>1, OneHas
<1> QED
  BY <1>1, LogInvariant, PTL

(* The handler does not log within the main loop's logging                 *)
(* (TSvrAdm::OnSignal).                                                    *)
THEOREM LogNotReentered == LSpec => []HandlerLogsAlone
<1>1. LogInv => HandlerLogsAlone
  BY DEF LogInv, QuietInv
<1> QED
  BY <1>1, LogInvariant, PTL

(* With the log the station is still the station, and so the supervisor.   *)
THEOREM LogImplements == LSpec => SSpec
<1>1. LInit => SInit
  BY DEF LInit
<1> QED
  BY <1>1, LogStep, PTL DEF LSpec, SSpec
=============================================================================
