---------------------------- MODULE CallsProofs ----------------------------
(***************************************************************************)
(* Proofs about Calls: who has an answer, and to which call, for any       *)
(* number of calls and answers and any order of answers and deadlines.     *)
(***************************************************************************)
EXTENDS Calls, TLAPS

(* What DoHandleAck has unpacked is a live answer to the call it names.    *)
UnpackedLives ==
  tcp # Free /\ tcp.data # NoData => tcp.data \in DOMAIN heap /\ heap[tcp.data] = tcp.call

(* What a caller is given has been stored.                                 *)
GivenStored ==
  /\ \A c \in DOMAIN cmdMap : cmdMap[c] # NoData /\ c \in Meter => cmdMap[c] \in saved
  /\ caller.val # NoData /\ caller.call \in Meter => caller.val \in saved

(* The caller has an answer only once it has left Wait.                    *)
ValWhenDone == caller.val # NoData => caller.pc = "done"

IInv ==
  /\ TypeOK /\ OnlyCallWaitedFor /\ AnswersOwnCall /\ OneOwner
  /\ UnpackedLives /\ GivenStored /\ ValWhenDone

(* At first nobody waits and there is no answer.                           *)
LEMMA InitIInv == Init => IInv
<1> SUFFICES ASSUME Init PROVE IInv
  OBVIOUS
<1>1. /\ DOMAIN cmdMap = {} /\ DOMAIN heap = {} /\ saved = {} /\ tcp = Free
      /\ caller \in Caller /\ caller.pc = "idle" /\ caller.val = NoData
  BY DEF Init, Caller
<1>2. net \in [Call -> 0 .. Copies] /\ left \in 0 .. Patience
  BY BoundAssumption DEF Init
<1>3. TypeOK
  BY <1>1, <1>2 DEF Init, TypeOK
<1> QED
  BY <1>1, <1>3 DEF IInv, OnlyCallWaitedFor, AnswersOwnCall, OneOwner, UnpackedLives,
     GivenStored, ValWhenDone

(* The network never holds more than Copies answers to a call.             *)
LEMMA Requested ==
  ASSUME net \in [Call -> 0 .. Copies], NEW c \in Call, Request(c)
  PROVE  net' \in [Call -> 0 .. Copies]
<1>1. PICK n \in net[c] .. Copies : net' = [net EXCEPT ![c] = n]
  BY DEF Request
<1>2. n \in 0 .. Copies
  BY BoundAssumption
<1> QED
  BY <1>1, <1>2

(* What a free place and a full one look like.                             *)
LEMMA Places ==
  /\ \A u \in Unpacked : u # Free /\ u.call \in Call /\ u.data \in Data \cup {NoData}
  /\ \A u : u \in Unpacked \cup {Free} /\ u # Free => u \in Unpacked
<1>1. ASSUME NEW u \in Unpacked PROVE u # Free
  <2>1. u.busy # Free.busy
    BY DEF Unpacked, Free
  <2> QED
    BY <2>1
<1> QED
  BY <1>1 DEF Unpacked

(* The telnet thread's steps that neither give nor take an answer.         *)
LEMMA QuietSteps ==
  ASSUME IInv, \/ EnterWait \/ Tick
               \/ \E c \in Call : SyncCall(c) \/ AsyncCall(c)
  PROVE  IInv'
<1> USE BoundAssumption, DataAssumption, CallAssumption, Places DEF IInv, TypeOK, Caller
<1>1. ASSUME NEW c \in Call, SyncCall(c) PROVE IInv'
  <2>1. net' \in [Call -> 0 .. Copies]
    BY <1>1, Requested DEF SyncCall
  <2>2. caller.val = NoData
    BY <1>1 DEF SyncCall, ValWhenDone
  <2>3. caller' \in Caller /\ caller'.pc = "sent" /\ caller'.call = c /\ caller'.val = NoData
    BY <1>1, <2>2 DEF SyncCall
  <2> QED
    BY <1>1, <2>1, <2>3
    DEF SyncCall, OnlyCallWaitedFor, AnswersOwnCall, OneOwner, UnpackedLives, GivenStored, ValWhenDone
<1>2. ASSUME NEW c \in Call, AsyncCall(c) PROVE IInv'
  <2>1. net' \in [Call -> 0 .. Copies]
    BY <1>2, Requested DEF AsyncCall
  <2> QED
    BY <1>2, <2>1
    DEF AsyncCall, OnlyCallWaitedFor, AnswersOwnCall, OneOwner, UnpackedLives, GivenStored, ValWhenDone
<1>3. CASE EnterWait
  <2>1. DOMAIN cmdMap = {} /\ caller.val = NoData /\ caller.call \in Call
    BY <1>3 DEF EnterWait, OnlyCallWaitedFor, ValWhenDone
  <2>2. DOMAIN cmdMap' = {caller.call} /\ cmdMap'[caller.call] = NoData
    BY <1>3, <2>1 DEF EnterWait, Extend
  <2>3. /\ caller' \in Caller /\ caller'.pc = "waiting"
        /\ caller'.call = caller.call /\ caller'.val = NoData
    BY <1>3, <2>1 DEF EnterWait
  <2>4. left' \in 0 .. Patience
    BY <1>3 DEF EnterWait
  <2> QED
    BY <1>3, <2>1, <2>2, <2>3, <2>4
    DEF EnterWait, OnlyCallWaitedFor, AnswersOwnCall, OneOwner, UnpackedLives, GivenStored, ValWhenDone
<1>4. CASE Tick
  BY <1>4
  DEF Tick, OnlyCallWaitedFor, AnswersOwnCall, OneOwner, UnpackedLives, GivenStored, ValWhenDone
<1> QED
  BY <1>1, <1>2, <1>3, <1>4

(* The caller leaves Wait with what is in cmdMap, or deletes what it has.  *)
LEMMA CallerSteps ==
  ASSUME IInv, Wake \/ Timeout \/ Return
  PROVE  IInv'
<1> USE BoundAssumption, DataAssumption, CallAssumption, Places DEF IInv, TypeOK, Caller
<1>1. ASSUME caller.pc = "waiting", LeaveWait, left' \in 0 .. Patience, woken' \in BOOLEAN,
             UNCHANGED <<net, tcp, heap, saved, heard>>
      PROVE IInv'
  <2>1. DOMAIN cmdMap = {caller.call} /\ DOMAIN cmdMap' = {}
    BY <1>1 DEF LeaveWait, Without, OnlyCallWaitedFor
  <2>2. /\ caller' \in Caller /\ caller'.pc = "done"
        /\ caller'.call = caller.call /\ caller'.val = cmdMap[caller.call]
    BY <1>1, <2>1 DEF LeaveWait
  <2> QED
    BY <1>1, <2>1, <2>2
    DEF OnlyCallWaitedFor, AnswersOwnCall, OneOwner, UnpackedLives, GivenStored, ValWhenDone
<1>2. CASE Wake
  <2>1. CASE cmdMap[caller.call] = NoData
    <3>1. /\ left' \in 0 .. Patience
          /\ UNCHANGED <<net, tcp, cmdMap, caller, heap, saved, heard>>
      BY <1>2, <2>1 DEF Wake
    <3>2. woken' \in BOOLEAN
      BY <1>2, Zenon DEF Wake
    <3> QED
      BY <3>1, <3>2
        DEF OnlyCallWaitedFor, AnswersOwnCall, OneOwner, UnpackedLives, GivenStored, ValWhenDone
  <2>2. CASE cmdMap[caller.call] # NoData
    BY <1>1, <1>2, <2>2 DEF Wake
  <2> QED
    BY <2>1, <2>2
<1>3. CASE Timeout
  BY <1>1, <1>3 DEF Timeout
<1>4. CASE Return
  <2>1. DOMAIN cmdMap = {}
    BY <1>4 DEF Return, OnlyCallWaitedFor
  <2>2. /\ DOMAIN heap' = DOMAIN heap \ {caller.val}
        /\ \A d \in DOMAIN heap' : heap'[d] = heap[d]
    BY <1>4 DEF Return, Delete, Without
  <2>3. /\ caller' \in Caller /\ caller'.pc = "idle"
        /\ caller'.call = caller.call /\ caller'.val = NoData
    BY <1>4 DEF Return
  <2> QED
    BY <1>4, <2>1, <2>2, <2>3
    DEF Return, OnlyCallWaitedFor, AnswersOwnCall, OneOwner, UnpackedLives, GivenStored, ValWhenDone
<1> QED
  BY <1>2, <1>3, <1>4

(* An answer that DoHandleAck unpacks takes an address nobody has.         *)
LEMMA AckKeeps ==
  ASSUME IInv, NEW c \in Call, NEW d \in (Data \ DOMAIN heap) \cup {NoData}, DoHandleAck(c, d)
  PROVE  IInv'
<1> USE DataAssumption, CallAssumption, Places DEF IInv, TypeOK, Caller
<1>1. /\ net' \in [Call -> 0 .. Copies] /\ heard' \in BOOLEAN
      /\ UNCHANGED <<cmdMap, woken, caller, left>>
  <2>1. net' \in [Call -> 0 .. Copies]
    <3>1. net[c] > 0 /\ net' = [net EXCEPT ![c] = net[c] - 1]
      BY Zenon DEF DoHandleAck
    <3>2. net[c] - 1 \in 0 .. Copies
      BY <3>1, BoundAssumption
    <3> QED
      BY <3>1, <3>2
  <2>2. heard' \in BOOLEAN
    BY Zenon DEF DoHandleAck
  <2> QED
    BY <2>1, <2>2 DEF DoHandleAck
<1>2. CASE UNCHANGED <<tcp, heap, saved>>
  BY <1>1, <1>2
  DEF OnlyCallWaitedFor, AnswersOwnCall, OneOwner, UnpackedLives, GivenStored, ValWhenDone
<1>3. CASE /\ tcp' = [call |-> c, data |-> d, busy |-> TRUE]
           /\ heap' = IF d = NoData THEN heap ELSE Extend(heap, d, c)
           /\ saved' = saved \ {d}
  <2>1. tcp' \in Unpacked /\ tcp'.call = c /\ tcp'.data = d
    BY <1>3 DEF Unpacked
  <2>2. CASE d = NoData
    BY <1>1, <1>3, <2>1, <2>2
    DEF OnlyCallWaitedFor, AnswersOwnCall, OneOwner, UnpackedLives, GivenStored, ValWhenDone
  <2>3. CASE d # NoData
    <3>1. d \notin DOMAIN heap /\ d \in Data
      BY <2>3
    <3>2. /\ DOMAIN heap' = DOMAIN heap \cup {d} /\ heap'[d] = c
          /\ \A x \in DOMAIN heap : heap'[x] = heap[x]
      BY <1>3, <2>3, <3>1 DEF Extend
    <3>3. caller.val # d /\ \A x \in DOMAIN cmdMap : cmdMap[x] # d
      BY <3>1, <2>3 DEF AnswersOwnCall
    <3> QED
      BY <1>1, <1>3, <2>1, <3>1, <3>2, <3>3
      DEF OnlyCallWaitedFor, AnswersOwnCall, OneOwner, UnpackedLives, GivenStored, ValWhenDone
  <2> QED
    BY <2>2, <2>3
<1> QED
  BY <1>2, <1>3 DEF DoHandleAck

(* notify gives the answer to its call or deletes it.                      *)
LEMMA NotifyKeeps == ASSUME IInv, Notify PROVE IInv'
<1> USE DataAssumption, CallAssumption, Places DEF IInv, TypeOK, Caller
<1>1. /\ tcp \in Unpacked /\ tcp' = Free /\ saved' = Save(tcp.call, tcp.data)
      /\ UNCHANGED <<net, caller, left, heard>>
  BY DEF Notify
<1>2. /\ saved \subseteq saved' /\ saved' \subseteq Data
      /\ tcp.data # NoData /\ tcp.call \in Meter => tcp.data \in saved'
  BY <1>1 DEF Save
<1>3. CASE tcp.call \in DOMAIN cmdMap
  <2>1. /\ DOMAIN cmdMap = {caller.call} /\ tcp.call = caller.call /\ caller.pc = "waiting"
        /\ caller.val = NoData
    BY <1>3 DEF OnlyCallWaitedFor, ValWhenDone
  <2>2. DOMAIN cmdMap' = {caller.call} /\ cmdMap'[caller.call] = tcp.data
    BY <1>3, <2>1 DEF Notify
  <2>3. heap' = heap /\ woken' \in BOOLEAN
    BY <1>3 DEF Notify
  <2> QED
    BY <1>1, <1>2, <2>1, <2>2, <2>3
    DEF OnlyCallWaitedFor, AnswersOwnCall, OneOwner, UnpackedLives, GivenStored, ValWhenDone
<1>4. CASE tcp.call \notin DOMAIN cmdMap
  <2>1. /\ DOMAIN heap' = DOMAIN heap \ {tcp.data}
        /\ \A x \in DOMAIN heap' : heap'[x] = heap[x]
        /\ UNCHANGED <<cmdMap, woken>>
    BY <1>4 DEF Notify, Delete, Without
  <2> QED
    BY <1>1, <1>2, <2>1
    DEF OnlyCallWaitedFor, AnswersOwnCall, OneOwner, UnpackedLives, GivenStored, ValWhenDone
<1> QED
  BY <1>3, <1>4

(* The invariant holds in every state.                                     *)
LEMMA Invariant == Spec => []IInv
<1>1. IInv /\ UNCHANGED vars => IInv'
  BY DEF vars, IInv, TypeOK, OnlyCallWaitedFor, AnswersOwnCall, OneOwner, UnpackedLives,
     GivenStored, ValWhenDone
<1>2. IInv /\ [Next]_vars => IInv'
  BY <1>1, QuietSteps, CallerSteps, AckKeeps, NotifyKeeps DEF Next
<1> QED
  BY InitIInv, <1>2, PTL DEF Spec

(* The state of both threads is well formed (AppCall, cmdMap).             *)
THEOREM CallsType == Spec => []TypeOK
  BY Invariant, PTL DEF IInv

(* cmdMap holds the call being waited for and no other (Wait).             *)
THEOREM NoStaleEntry == Spec => []OnlyCallWaitedFor
  BY Invariant, PTL DEF IInv

(* A caller is given a live answer to its own call (notify, Wait).         *)
THEOREM OwnAnswers == Spec => []AnswersOwnCall
  BY Invariant, PTL DEF IInv

(* An answer is never in two hands, so that it is deleted once (notify).   *)
THEOREM SingleOwner == Spec => []OneOwner
  BY Invariant, PTL DEF IInv

(* A meter's answer is stored before it is deleted (saveResultToDB).       *)
THEOREM StoredFirst == Spec => StoredBeforeDeleted
<1>1. ASSUME IInv, [Next]_vars, NEW d \in DOMAIN heap \ DOMAIN heap', heap[d] \in Meter
      PROVE  d \in saved'
  <2> USE DataAssumption, CallAssumption, Places DEF IInv, TypeOK
  <2>1. CASE Return
    BY <1>1, <2>1 DEF Return, Delete, Without, AnswersOwnCall, GivenStored
  <2>2. CASE Notify
    <3>1. d = tcp.data /\ tcp # Free
      BY <1>1, <2>2 DEF Notify, Delete, Without
    <3>2. heap[d] = tcp.call /\ d # NoData
      BY <1>1, <3>1 DEF UnpackedLives
    <3> QED
      BY <1>1, <2>2, <3>1, <3>2 DEF Notify, Save
  <2>3. ASSUME NEW c \in Call, NEW x \in (Data \ DOMAIN heap) \cup {NoData}, DoHandleAck(c, x)
        PROVE  FALSE
    BY <1>1, <2>3 DEF DoHandleAck, Extend
  <2>4. CASE UNCHANGED heap
    BY <1>1, <2>4
  <2> QED
    BY <1>1, <2>1, <2>2, <2>3, <2>4
    DEF Next, SyncCall, AsyncCall, EnterWait, Wake, Timeout, Tick, vars
<1>2. IInv /\ [Next]_vars
        => [\A d \in DOMAIN heap \ DOMAIN heap' : heap[d] \in Meter => d \in saved']_vars
  BY <1>1
<1> QED
  BY <1>2, Invariant, PTL DEF Spec, StoredBeforeDeleted
=============================================================================
