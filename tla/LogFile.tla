------------------------------- MODULE LogFile -------------------------------
(***************************************************************************)
(* The log all processes of the station write: TLogFileMp, whose lock is a *)
(* recursive mutex of the process and then, for the outermost writer, a    *)
(* semaphore shared with the other processes that the kernel gives back    *)
(* when its holder dies (TYQPrcSync::CriticalLock).  The server's threads  *)
(* may log at any time, the supervisor when fork has failed, and its       *)
(* handler when a server has ended.                                        *)
(***************************************************************************)
EXTENDS Station

CONSTANT Sup  \* the supervisor's process

ASSUME SupAssumption == Sup \notin Pid

VARIABLES
  sem,    \* the semaphore
  undo,   \* what the kernel gives back at the end of each process
  FFlag,  \* writers within each process
  at      \* where each thread is in TLogFile::Write

lvars == <<FMyMg, FTerminated, pc, target, handler, pending, child, srv,
           sem, undo, FFlag, at>>
logvars == <<sem, undo, FFlag, at>>

Process == Pid \cup {Sup}
Thread == ({Sup} \X {"main", "handler"}) \cup (Pid \X {"main", "telnet"})
ThreadsOf(p) == {t \in Thread : t[1] = p}
SupMain == <<Sup, "main">>
SupHandler == <<Sup, "handler">>

(* "lock" waits for the mutex, "sem" for the semaphore; "post" has counted *)
(* itself out and not given the semaphore back.                            *)
Locked == {"sem", "write", "post"}
Holding == {t \in Thread : at[t] \in Locked}
Writers == {t \in Thread : at[t] = "write"}
SupOut == at[SupMain] = "out" /\ at[SupHandler] = "out"
Moves(t, s) == at' = [at EXCEPT ![t] = s]

(***************************************************************************)
(* TLogFile::Write, by a thread whose process lives and which no handler   *)
(* has interrupted.                                                        *)
(***************************************************************************)

Runs(t) == IF t[1] = Sup
           THEN t = SupMain => ~handler /\ at[SupHandler] = "out"
           ELSE Serving(t[1])

(* A handler that interrupts the thread has the thread's mutex.            *)
Mine(t) == IF t[1] = Sup THEN ThreadsOf(Sup) ELSE {t}

(* Faulty variant: without the mutex.                                      *)
LockNot(t) ==
  /\ at[t] = "lock" /\ Runs(t)
  /\ FFlag' = [FFlag EXCEPT ![t[1]] = @ + 1]
  /\ Moves(t, IF FFlag[t[1]] = 0 THEN "sem" ELSE "write")
  /\ UNCHANGED <<sem, undo, vars, srv>>

(* The first to count itself in takes the semaphore.                       *)
Lock(t) ==
  /\ at[t] = "lock" /\ Runs(t)
  /\ Holding \cap ThreadsOf(t[1]) \subseteq Mine(t)
  /\ FFlag' = [FFlag EXCEPT ![t[1]] = @ + 1]
  /\ Moves(t, IF FFlag[t[1]] = 0 THEN "sem" ELSE "write")
  /\ UNCHANGED <<sem, undo, vars, srv>>

(* Faulty variant: without SEM_UNDO.                                       *)
SemopKept(t) ==
  /\ at[t] = "sem" /\ Runs(t) /\ sem > 0
  /\ sem' = sem - 1
  /\ Moves(t, "write")
  /\ UNCHANGED <<undo, FFlag, vars, srv>>

(* Because of SemFree it never waits here, so that no signal interrupts    *)
(* the wait, whose result is ignored.                                      *)
Semop(t) ==
  /\ at[t] = "sem" /\ Runs(t) /\ sem > 0
  /\ sem' = sem - 1
  /\ undo' = [undo EXCEPT ![t[1]] = @ + 1]
  /\ Moves(t, "write")
  /\ UNCHANGED <<FFlag, vars, srv>>

(* Whatever becomes of the file, Write ends in Unlock; only the outermost  *)
(* writer gives the semaphore back.                                        *)
CountOut(t) ==
  /\ at[t] = "write" /\ Runs(t)
  /\ FFlag' = [FFlag EXCEPT ![t[1]] = @ - 1]
  /\ Moves(t, IF FFlag[t[1]] = 1 THEN "post" ELSE "out")
  /\ UNCHANGED <<sem, undo, vars, srv>>

Unlock(t) ==
  /\ at[t] = "post" /\ Runs(t)
  /\ sem' = sem + 1
  /\ undo' = [undo EXCEPT ![t[1]] = @ - 1]
  /\ Moves(t, "out")
  /\ UNCHANGED <<FFlag, vars, srv>>

WriteStep(t) == Semop(t) \/ CountOut(t) \/ Unlock(t)

(* A thread of a server logs.                                              *)
Log(t) ==
  /\ t[1] \in Pid /\ Serving(t[1]) /\ at[t] = "out"
  /\ t[2] = "telnet" => srv[t[1]].telnet # "none"
  /\ Moves(t, "lock")
  /\ UNCHANGED <<sem, undo, FFlag, vars, srv>>

(***************************************************************************)
(* What the station does, by threads that are not in the log.              *)
(***************************************************************************)

Threw == pc = "fork" /\ FMyMg' = Failed

(* Faulty variant: the supervisor logs on every round.                     *)
LMainLogging ==
  /\ SupOut /\ SMain
  /\ Moves(SupMain, IF pc = "sleep" \/ Threw THEN "lock" ELSE "out")
  /\ UNCHANGED <<sem, undo, FFlag>>

(* OnException logs that fork has failed.  The new process gets a copy of  *)
(* FFlag and nothing of undo.                                              *)
LMain ==
  /\ SupOut /\ SMain
  /\ Moves(SupMain, IF Threw THEN "lock" ELSE "out")
  /\ FFlag' = [p \in Process |-> IF p \in Pid /\ pc = "fork" /\ child'[p] = "new"
                                 THEN FFlag[Sup] ELSE FFlag[p]]
  /\ UNCHANGED <<sem, undo>>

(* The handler logs before it deletes the object; nobody looks in between. *)
LOnSignal ==
  /\ SOnSignal
  /\ Moves(SupHandler, IF FMyMg # NULL /\ FMyMg' = NULL THEN "lock" ELSE "out")
  /\ UNCHANGED <<sem, undo, FFlag>>

LSigchld == at[SupHandler] = "out" /\ SSigchld /\ UNCHANGED logvars

(* At the end of a process the kernel undoes what it did to the semaphore. *)
LExit(c) ==
  /\ SExit(c)
  /\ sem' = sem + undo[c]
  /\ undo' = [undo EXCEPT ![c] = 0]
  /\ FFlag' = [FFlag EXCEPT ![c] = 0]
  /\ at' = [t \in Thread |-> IF t[1] = c THEN "out" ELSE at[t]]
LEnded(c) == srv[c].stage \in {"after", "dead"} /\ LExit(c)

LMainThread(c) == at[<<c, "main">>] = "out" /\ MainThread(c) /\ UNCHANGED logvars
LTelnet(c) ==
  /\ at[<<c, "telnet">>] = "out"
  /\ TelnetRun(c) \/ TelnetCalls(c) \/ TelnetReturns(c)
  /\ UNCHANGED logvars
LBegin(c) == SBegin(c) /\ UNCHANGED logvars

-----------------------------------------------------------------------------
(* TSvrAdm::BeforeRun creates the lock and the log before the first fork.  *)
LInit ==
  /\ SInit
  /\ sem = 1
  /\ undo = [p \in Process |-> 0]
  /\ FFlag = [p \in Process |-> 0]
  /\ at = [t \in Thread |-> "out"]

LNext ==
  \/ LMain \/ LSigchld \/ LOnSignal
  \/ Sigterm /\ UNCHANGED <<srv, sem, undo, FFlag, at>>
  \/ \E c \in Pid : \/ LBegin(c) \/ LExit(c) \/ LMainThread(c) \/ LTelnet(c)
                    \/ SigtermServer(c) /\ UNCHANGED logvars
  \/ \E t \in Thread : Log(t) \/ Lock(t) \/ WriteStep(t)

LSpec == LInit /\ [][LNext]_lvars

(* As in Station, and a thread in the log goes on.  A server's main thread *)
(* does not do nothing but log, and gets a mutex that is free again and    *)
(* again.                                                                  *)
LFairSpec ==
  /\ LSpec
  /\ WF_lvars(LMain) /\ WF_lvars(LSigchld) /\ WF_lvars(LOnSignal)
  /\ \A t \in Thread : WF_lvars(WriteStep(t))
  /\ WF_lvars(Lock(SupMain)) /\ WF_lvars(Lock(SupHandler))
  /\ \A c \in Pid : /\ WF_lvars(LBegin(c)) /\ WF_lvars(LEnded(c))
                    /\ SF_lvars(Lock(<<c, "main">>)) /\ SF_lvars(LMainThread(c))

-----------------------------------------------------------------------------
(* The log is never written by two at once, the threads of one server or   *)
(* two processes; only a handler may write within what it interrupts       *)
(* (TLogFileMp::Lock).                                                     *)
OneWriter ==
  \A t, u \in Writers : t = u \/ (t[1] = Sup /\ u[1] = Sup)

(* Who comes to the semaphore finds it free: what a dead server held has   *)
(* been given back, and a process does not wait for itself, as a handler   *)
(* would that logs between the two steps of CriticalUnlock (YQProcess.cpp  *)
(* 150-161).                                                               *)
SemFree == \A t \in Thread : at[t] = "sem" => sem = 1

(* The handler never logs while the code it interrupts does, which would   *)
(* wait for itself in malloc or localtime or at the semaphore: the main    *)
(* loop logs only when fork has failed, and then no server is left to end  *)
(* (svr.cpp 50, TLogFile::Log).                                            *)
HandlerLogsAlone == at[SupHandler] # "out" => at[SupMain] = "out"

(* Once the server has taken its SIGTERM the supervisor ends, whether      *)
(* waitpid or the handler finds the server gone (TSvrAdm::AfterRun).       *)
ToldEnds == \A c \in Pid : child[c] = "term" ~> pc \in {"done", "crashed"}
=============================================================================
