-------------------------------- MODULE Calls --------------------------------
(***************************************************************************)
(* Synchronous and asynchronous calls of AFNPackageBuilder: the telnet     *)
(* thread sends a request and waits in Wait for its answer, the TcpServer  *)
(* thread unpacks answers in DoHandleAck and hands them over in notify.    *)
(* Both threads use cmdMap under CritSection; the answers themselves are   *)
(* heap objects that exactly one of the threads has to delete.             *)
(***************************************************************************)
EXTENDS Integers, Functions, FiniteSets

CONSTANTS
  Call,      \* AppCall values: concentrator, AFN, Fn and pn
  Meter,     \* the calls whose answers toDB stores (AFN0C, F33)
  Data,      \* addresses of Pkg_Afn_Data objects
  NoData,    \* NULL
  Dispatch,  \* may HandlePkg reach the override of DoHandleAck?
  Patience,  \* the 10 s of Wait, in ticks
  Copies     \* bound on the answers one request may get

ASSUME CallAssumption == Meter \subseteq Call
ASSUME DataAssumption == NoData \notin Data
ASSUME DispatchAssumption == Dispatch \subseteq BOOLEAN
ASSUME BoundAssumption == Patience \in Nat /\ Copies \in Nat

VARIABLES
  net,     \* answers on their way, for every call
  tcp,     \* what DoHandleAck has unpacked and not yet passed to notify
  cmdMap,  \* the calls waited for, with their answer or NULL
  woken,   \* ConditionVar has been broadcast since the caller slept
  caller,  \* the telnet thread
  left,    \* ticks to the deadline of pthread_cond_timedwait
  heap,    \* live answers and the call they answer
  saved,   \* addresses whose last answer toDB has stored
  heard    \* an answer with data to the current call has arrived

vars == <<net, tcp, cmdMap, woken, caller, left, heap, saved, heard>>

(* data is NoData for FUN 9 (no such data) and for an Fn without handler.  *)
Unpacked == [call : Call, data : Data \cup {NoData}, busy : {TRUE}]
Free == [busy |-> FALSE]

Caller == [pc : {"idle", "sent", "waiting", "done"},
           call : Call, val : Data \cup {NoData}]

Extend(f, x, v) == [y \in DOMAIN f \cup {x} |-> IF y = x THEN v ELSE f[y]]
Without(f, S) == [y \in DOMAIN f \ S |-> f[y]]

Init ==
  /\ net = [c \in Call |-> 0]
  /\ tcp = Free
  /\ cmdMap = [c \in {} |-> NoData]
  /\ woken = FALSE
  /\ caller \in [pc : {"idle"}, call : Call, val : {NoData}]
  /\ left = 0
  /\ heap = [d \in {} |-> CHOOSE c \in Call : TRUE]
  /\ saved = {}
  /\ heard = FALSE

(***************************************************************************)
(* Telnet thread.                                                          *)
(***************************************************************************)

(* The network loses the request or an answer, or duplicates answers.      *)
Request(c) == \E n \in net[c] .. Copies : net' = [net EXCEPT ![c] = n]

(* getclock, getstatus, getallkwh...: the mutex is released and the frame  *)
(* is on its way before Wait enters the call in cmdMap.                    *)
SyncCall(c) ==
  /\ caller.pc = "idle"
  /\ Request(c)
  /\ caller' = [caller EXCEPT !.pc = "sent", !.call = c]
  /\ heard' = FALSE
  /\ UNCHANGED <<tcp, cmdMap, woken, left, heap, saved>>

(* getallkwh_async sends and does not wait.                                *)
AsyncCall(c) ==
  /\ caller.pc = "idle"
  /\ c \in Meter
  /\ Request(c)
  /\ UNCHANGED <<tcp, cmdMap, woken, caller, left, heap, saved, heard>>

EnterWait ==
  /\ caller.pc = "sent"
  /\ cmdMap' = Extend(cmdMap, caller.call, NoData)
  /\ caller' = [caller EXCEPT !.pc = "waiting"]
  /\ woken' = FALSE
  /\ left' = Patience
  /\ UNCHANGED <<net, tcp, heap, saved, heard>>

(* Faulty variant: the entry stays in cmdMap.                              *)
LeaveWaitKeeping ==
  /\ caller' = [caller EXCEPT !.pc = "done", !.val = cmdMap[caller.call]]
  /\ UNCHANGED cmdMap

(* p = cmdMap[call]; cmdMap.erase(call)                                    *)
LeaveWait ==
  /\ caller' = [caller EXCEPT !.pc = "done", !.val = cmdMap[caller.call]]
  /\ cmdMap' = Without(cmdMap, {caller.call})

(* Woken without an answer, the loop computes a new deadline.              *)
Wake ==
  /\ caller.pc = "waiting" /\ woken
  /\ woken' = FALSE
  /\ IF cmdMap[caller.call] = NoData
     THEN left' = Patience /\ UNCHANGED <<cmdMap, caller>>
     ELSE LeaveWait /\ UNCHANGED left
  /\ UNCHANGED <<net, tcp, heap, saved, heard>>

(* Faulty variant: a timeout goes back to sleep.                           *)
TimeoutAgain ==
  /\ caller.pc = "waiting" /\ left = 0
  /\ left' = Patience
  /\ UNCHANGED <<net, tcp, cmdMap, woken, caller, heap, saved, heard>>

(* A timeout takes what is there, an answer that has just come included.   *)
Timeout ==
  /\ caller.pc = "waiting" /\ left = 0
  /\ LeaveWait
  /\ UNCHANGED <<net, tcp, woken, left, heap, saved, heard>>

Tick ==
  /\ caller.pc = "waiting" /\ left > 0
  /\ left' = left - 1
  /\ UNCHANGED <<net, tcp, cmdMap, woken, caller, heap, saved, heard>>

Delete(S) == heap' = Without(heap, S)

(* The command prints the answer and deletes it.                           *)
Return ==
  /\ caller.pc = "done"
  /\ Delete({caller.val})
  /\ caller' = [caller EXCEPT !.pc = "idle", !.val = NoData]
  /\ UNCHANGED <<net, tcp, cmdMap, woken, left, saved, heard>>

(***************************************************************************)
(* TcpServer thread.                                                       *)
(***************************************************************************)

(* DoHandleAck for the answer d to call c.  PackageBuilder::DoHandleAck is *)
(* not virtual: where HandlePkg does not reach the override, the answer    *)
(* ends there.                                                             *)
DoHandleAck(c, d) ==
  /\ tcp = Free
  /\ net[c] > 0
  /\ net' = [net EXCEPT ![c] = @ - 1]
  /\ heard' = (heard \/ (d # NoData /\ caller.pc \in {"sent", "waiting"}
                          /\ caller.call = c))
  /\ \/ /\ TRUE \in Dispatch
        /\ tcp' = [call |-> c, data |-> d, busy |-> TRUE]
        /\ heap' = IF d = NoData THEN heap ELSE Extend(heap, d, c)
        /\ saved' = saved \ {d}
     \/ /\ FALSE \in Dispatch
        /\ UNCHANGED <<tcp, heap, saved>>
  /\ UNCHANGED <<cmdMap, woken, caller, left>>

(* saveResultToDB stores the answers that have a toDB.                     *)
Save(c, d) == saved \cup {x \in {d} \ {NoData} : c \in Meter}

(* Faulty variants: any waiting call is given the answer; an answer nobody *)
(* waits for is not stored.                                                *)
NotifyAnyCall ==
  /\ tcp # Free
  /\ tcp' = Free
  /\ saved' = Save(tcp.call, tcp.data)
  /\ IF DOMAIN cmdMap # {}
     THEN /\ cmdMap' = [c \in DOMAIN cmdMap |-> tcp.data]
          /\ woken' = TRUE
          /\ UNCHANGED heap
     ELSE /\ Delete({tcp.data})
          /\ UNCHANGED <<cmdMap, woken>>
  /\ UNCHANGED <<net, caller, left, heard>>
NotifyUnsaved ==
  /\ tcp # Free
  /\ tcp' = Free
  /\ IF tcp.call \in DOMAIN cmdMap
     THEN /\ cmdMap' = [cmdMap EXCEPT ![tcp.call] = tcp.data]
          /\ woken' = TRUE
          /\ saved' = Save(tcp.call, tcp.data)
          /\ UNCHANGED heap
     ELSE /\ Delete({tcp.data})
          /\ UNCHANGED <<cmdMap, woken, saved>>
  /\ UNCHANGED <<net, caller, left, heard>>

(* The answer is stored; a waiting call is given it, NULL included, and    *)
(* without one it is deleted.                                              *)
Notify ==
  /\ tcp # Free
  /\ tcp' = Free
  /\ saved' = Save(tcp.call, tcp.data)
  /\ IF tcp.call \in DOMAIN cmdMap
     THEN /\ cmdMap' = [cmdMap EXCEPT ![tcp.call] = tcp.data]
          /\ woken' = TRUE
          /\ UNCHANGED heap
     ELSE /\ Delete({tcp.data})
          /\ UNCHANGED <<cmdMap, woken>>
  /\ UNCHANGED <<net, caller, left, heard>>

-----------------------------------------------------------------------------
Next ==
  \/ \E c \in Call : SyncCall(c) \/ AsyncCall(c)
  \/ EnterWait \/ Wake \/ Timeout \/ Tick \/ Return
  \/ \E c \in Call, d \in (Data \ DOMAIN heap) \cup {NoData} : DoHandleAck(c, d)
  \/ Notify

Spec == Init /\ [][Next]_vars

(* The telnet thread runs and its clock advances; nothing is assumed of    *)
(* the network and the TcpServer thread.                                   *)
FairSpec ==
  /\ Spec
  /\ WF_vars(EnterWait) /\ WF_vars(Wake) /\ WF_vars(Timeout)
  /\ WF_vars(Tick) /\ WF_vars(Return)

-----------------------------------------------------------------------------
(* Both threads' shares of the call state are well formed (AppCall,        *)
(* cmdMap).                                                                *)
TypeOK ==
  /\ net \in [Call -> 0 .. Copies]
  /\ tcp \in Unpacked \cup {Free}
  /\ DOMAIN cmdMap \subseteq Call
  /\ \A c \in DOMAIN cmdMap : cmdMap[c] \in Data \cup {NoData}
  /\ woken \in BOOLEAN
  /\ caller \in Caller
  /\ left \in 0 .. Patience
  /\ DOMAIN heap \subseteq Data
  /\ \A d \in DOMAIN heap : heap[d] \in Call
  /\ saved \subseteq Data
  /\ heard \in BOOLEAN

(* cmdMap holds the call being waited for and no other: an entry left      *)
(* behind would swallow a later asynchronous answer of the same call.      *)
OnlyCallWaitedFor ==
  DOMAIN cmdMap = IF caller.pc = "waiting" THEN {caller.call} ELSE {}

(* An answer that cmdMap or the caller points to has not been deleted by   *)
(* the other thread, and it is an answer to that very call: late answers   *)
(* of earlier calls that timed out go elsewhere.                           *)
AnswersOwnCall ==
  /\ \A c \in DOMAIN cmdMap :
       cmdMap[c] # NoData => cmdMap[c] \in DOMAIN heap /\ heap[cmdMap[c]] = c
  /\ caller.val # NoData =>
       caller.val \in DOMAIN heap /\ heap[caller.val] = caller.call

(* Two places never own one answer, so it is deleted at most once.         *)
OneOwner ==
  /\ tcp # Free /\ tcp.data # NoData =>
       tcp.data # caller.val /\ \A c \in DOMAIN cmdMap : cmdMap[c] # tcp.data
  /\ caller.val # NoData => \A c \in DOMAIN cmdMap : cmdMap[c] # caller.val

(* No reading is lost for good: a meter's answer is stored before it is    *)
(* deleted, whether a call waits for it, has timed out or never waited.    *)
StoredBeforeDeleted ==
  [][\A d \in DOMAIN heap \ DOMAIN heap' : heap[d] \in Meter => d \in saved']_vars

(* A synchronous call comes back, answered or not (Wait's deadline).       *)
CallReturns == caller.pc = "sent" ~> caller.pc = "idle"

(* "telnet thread's user call these function, user sync wait for result"   *)
(* (AFNPackageBuilder.h:78): a call whose answer has come in while it was  *)
(* being made or waited for returns that result.                           *)
HeardCallHasResult == caller.pc = "done" /\ heard => caller.val # NoData
=============================================================================
