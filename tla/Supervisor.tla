----------------------------- MODULE Supervisor -----------------------------
(***************************************************************************)
(* The daemon that keeps the master station running: svr.cpp and the       *)
(* process classes of YQProcess.cpp.  TSvrAdm forks a TSvr, restarts it    *)
(* when SIGCHLD reports its end, and on SIGTERM ends it and itself.  The   *)
(* signal handler runs between any two steps of the main loop and shares   *)
(* FMyMg with it.                                                          *)
(***************************************************************************)
EXTENDS Integers, FiniteSets

CONSTANTS
  Pid,       \* process ids, free again once the process is reaped
  NULL,      \* no TSvr object
  Unset,     \* FPid before fork has returned
  Failed,    \* FPid when fork has failed
  ForkFails  \* may fork fail?

ASSUME FailAssumption == ForkFails \in BOOLEAN
ASSUME PidAssumption ==
  NULL \notin Pid /\ Unset \notin Pid /\ Failed \notin Pid
  /\ NULL # Unset /\ NULL # Failed /\ Unset # Failed

VARIABLES
  FMyMg,        \* NULL, or the FPid of the TSvr object
  FTerminated,
  pc,           \* the supervisor's main loop
  target,       \* pid in a register: of fork, or the argument of waitpid
  handler,      \* the handler of SIGCHLD is in wait(NULL)
  pending,      \* SIGCHLD is pending
  child         \* state of each process

vars == <<FMyMg, FTerminated, pc, target, handler, pending, child>>

(* A "new" child still has the supervisor's SubPrcPtr and so its handlers, *)
(* a "blank" one its own but no FPid, a "term" child has handled SIGTERM   *)
(* and is on its way out.                                                  *)
Alive == {c \in Pid : child[c] \in {"new", "blank", "run", "term"}}
Zombies == {c \in Pid : child[c] = "zombie"}

Init ==
  /\ FMyMg = NULL
  /\ FTerminated = FALSE
  /\ pc = "loop"
  /\ target = Unset
  /\ handler = FALSE
  /\ pending = FALSE
  /\ child = [c \in Pid |-> "none"]

(* The main loop goes on while no handler runs.                            *)
At(l) == pc = l /\ ~handler
Go(l) == pc' = l

(***************************************************************************)
(* TYQProcessMsg::OnStart, TSvrAdm::OnRun and AfterRun.                    *)
(***************************************************************************)

(* Faulty variant: OnRun does not look at FMyMg.                           *)
LoopAgain ==
  /\ At("loop")
  /\ IF FTerminated
     THEN Go("after") /\ UNCHANGED FMyMg
     ELSE FMyMg' = Unset /\ Go("fork")
  /\ UNCHANGED <<FTerminated, target, handler, pending, child>>

Loop ==
  /\ At("loop")
  /\ IF FTerminated
     THEN Go("after") /\ UNCHANGED FMyMg
     ELSE IF FMyMg = NULL
          THEN FMyMg' = Unset /\ Go("fork")
          ELSE Go("sleep") /\ UNCHANGED FMyMg
  /\ UNCHANGED <<FTerminated, target, handler, pending, child>>

(* fork returns in both processes; the child's pid is not in FPid yet.     *)
Fork(c) ==
  /\ At("fork")
  /\ child[c] = "none"
  /\ child' = [child EXCEPT ![c] = "new"]
  /\ target' = c
  /\ Go("assign")
  /\ UNCHANGED <<FMyMg, FTerminated, handler, pending>>

(* fork fails: Run throws, and OnStart logs and goes on.                   *)
ForkFailed ==
  /\ At("fork")
  /\ ForkFails
  /\ FMyMg' = Failed
  /\ Go("loop")
  /\ UNCHANGED <<FTerminated, target, handler, pending, child>>

Assign ==
  /\ At("assign")
  /\ FMyMg' = target
  /\ Go("sleep")
  /\ UNCHANGED <<FTerminated, target, handler, pending, child>>

(* sleep(1) and usleep.                                                    *)
Sleep ==
  /\ At("sleep")
  /\ Go("loop")
  /\ UNCHANGED <<FMyMg, FTerminated, target, handler, pending, child>>

AfterRun ==
  /\ At("after")
  /\ Go(IF FMyMg # NULL THEN "kill" ELSE "done")
  /\ UNCHANGED <<FMyMg, FTerminated, target, handler, pending, child>>

(* A new child takes SIGTERM for the supervisor's.  A blank one does       *)
(* kill(0, SIGINT), which ends the whole process group, the supervisor     *)
(* included.  The -1 of a failed fork names every process there is.  What  *)
(* is no child is not modelled further.                                    *)
Named == IF FMyMg = Failed THEN Pid ELSE {FMyMg}
Terminate ==
  /\ At("kill")
  /\ \/ FMyMg = NULL /\ Go("crashed") /\ UNCHANGED child
     \/ /\ \E c \in Pid : c \in Named /\ child[c] = "blank"
        /\ Go("crashed")
        /\ child' = [c \in Pid |-> IF c \in Named /\ child[c] = "blank"
                                   THEN "zombie" ELSE child[c]]
     \/ /\ FMyMg # NULL /\ \A c \in Pid : c \in Named => child[c] # "blank"
        /\ Go("call")
        /\ child' = [c \in Pid |-> IF c \in Named /\ child[c] = "run"
                                   THEN "term" ELSE child[c]]
  /\ UNCHANGED <<FMyMg, FTerminated, target, handler, pending>>

(* FMyMg->Wait() reads FPid before it calls waitpid.                       *)
CallWait ==
  /\ At("call")
  /\ IF FMyMg = NULL
     THEN Go("crashed") /\ UNCHANGED target
     ELSE Go("wait") /\ target' = FMyMg
  /\ UNCHANGED <<FMyMg, FTerminated, handler, pending, child>>

(* Faulty variant: WNOHANG.                                                *)
WaitNot ==
  /\ At("wait")
  /\ FMyMg' = NULL
  /\ Go("done")
  /\ UNCHANGED <<FTerminated, target, handler, pending, child>>

(* Faulty variant: waitpid is called until it has got the child.           *)
WaitRetry ==
  /\ At("wait")
  /\ target \in Zombies
  /\ child' = [child EXCEPT ![target] = "none"]
  /\ FMyMg' = NULL
  /\ Go("done")
  /\ UNCHANGED <<FTerminated, target, handler, pending>>

(* waitpid reaps the child, or finds that the handler has; a failed fork   *)
(* leaves -1, any child.                                                   *)
Wait ==
  /\ At("wait")
  /\ IF target = Failed THEN Alive = {} ELSE target \notin Alive
  /\ child' = [c \in Pid |-> IF c = target THEN "none" ELSE child[c]]
  /\ FMyMg' = NULL
  /\ Go("done")
  /\ UNCHANGED <<FTerminated, target, handler, pending>>

(***************************************************************************)
(* Signals.                                                                *)
(***************************************************************************)

(* SIGTERM for the supervisor.                                             *)
Sigterm ==
  /\ pc \notin {"done", "crashed"}
  /\ FTerminated' = TRUE
  /\ UNCHANGED <<FMyMg, pc, target, handler, pending, child>>

Sigchld ==
  /\ pending /\ ~handler
  /\ pc \notin {"done", "crashed"}
  /\ handler' = TRUE /\ pending' = FALSE
  /\ UNCHANGED <<FMyMg, FTerminated, pc, target, child>>

(* Faulty variant: the object is kept.                                     *)
OnSignalKeep ==
  /\ handler
  /\ Zombies # {} \/ Alive = {}
  /\ child' = [c \in Pid |-> IF c \in Zombies THEN "none" ELSE child[c]]
  /\ handler' = FALSE
  /\ UNCHANGED <<FMyMg, FTerminated, pc, target, pending>>

(* wait(NULL) blocks while there are children and none has ended, and      *)
(* returns -1 when there are none.                                         *)
OnSignal ==
  /\ handler
  /\ \/ \E c \in Zombies :
          /\ child' = [child EXCEPT ![c] = "none"]
          /\ FMyMg' = IF FMyMg = c THEN NULL ELSE FMyMg
     \/ /\ Zombies = {} /\ Alive = {}
        /\ FMyMg' = IF FMyMg = Failed THEN NULL ELSE FMyMg
        /\ UNCHANGED child
  /\ handler' = FALSE
  /\ UNCHANGED <<FTerminated, pc, target, pending>>

(***************************************************************************)
(* The child.                                                              *)
(***************************************************************************)

(* SubPrcPtr = this; FPid = getpid(), and OnStart begins.                  *)
Begin(c) ==
  /\ child[c] \in {"new", "blank"}
  /\ child' = [child EXCEPT ![c] = IF @ = "new" THEN "blank" ELSE "run"]
  /\ UNCHANGED <<FMyMg, FTerminated, pc, target, handler, pending>>

(* YQLoop has ended, or the server has died.                               *)
Exit(c) ==
  /\ c \in Alive
  /\ child' = [child EXCEPT ![c] = "zombie"]
  /\ pending' = TRUE
  /\ UNCHANGED <<FMyMg, FTerminated, pc, target, handler>>

-----------------------------------------------------------------------------
Main == Loop \/ (\E c \in Pid : Fork(c)) \/ ForkFailed \/ Assign \/ Sleep
        \/ AfterRun \/ Terminate \/ CallWait \/ Wait

Next ==
  \/ Main
  \/ Sigterm \/ Sigchld \/ OnSignal
  \/ \E c \in Pid : Begin(c) \/ Exit(c)

Spec == Init /\ [][Next]_vars

(* The supervisor and its handler run, a new child starts, and a child     *)
(* that has been told to ends; a running child need not end by itself.     *)
FairSpec ==
  /\ Spec
  /\ WF_vars(Main) /\ WF_vars(Sigchld) /\ WF_vars(OnSignal)
  /\ \A c \in Pid : WF_vars(Begin(c)) /\ WF_vars(child[c] = "term" /\ Exit(c))

-----------------------------------------------------------------------------
(* The states of the main loop, the object and the children; the object    *)
(* has no pid only while the supervisor is in Run (svr.h).                 *)
TypeOK ==
  /\ FMyMg \in Pid \cup {NULL, Unset, Failed}
  /\ FTerminated \in BOOLEAN
  /\ pc \in {"loop", "fork", "assign", "sleep", "after", "kill", "call",
             "wait", "done", "crashed"}
  /\ target \in Pid \cup {Unset, Failed}
  /\ handler \in BOOLEAN /\ pending \in BOOLEAN
  /\ child \in [Pid -> {"none", "new", "blank", "run", "term", "zombie"}]
  /\ FMyMg = Unset <=> pc \in {"fork", "assign"}

(* Two servers never run at once, which would fight for the ports and the  *)
(* concentrators: FMyMg is cleared only for the child it stands for        *)
(* (TSvrAdm::OnSignal).                                                    *)
OneServer == \A c, d \in Alive : c = d

(* The supervisor does not end, nor die on a cleared FMyMg, and leave a    *)
(* server behind (TSvrAdm::AfterRun).                                      *)
NoOrphan == pc \in {"done", "crashed"} => Alive = {}

(* A server whose end is noticed once its pid is stored is replaced, until *)
(* the supervisor is told to stop or cannot fork (TSvrAdm::OnSignal).      *)
CanFork == \E c \in Pid : child[c] = "none"
EndedIsReplaced ==
  FMyMg \in Zombies /\ pc # "assign" ~> Alive # {} \/ FTerminated \/ FMyMg = Failed

(* "MG ended abnormally and will be run again automatically" (svr.cpp:50): *)
(* as long as the supervisor is not told to stop there will be a server.   *)
ServerRuns == []<>(Alive # {} \/ FTerminated)
=============================================================================
