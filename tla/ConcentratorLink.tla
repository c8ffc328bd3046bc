-------------------------- MODULE ConcentratorLink --------------------------
(***************************************************************************)
(* What the registry promises of each concentrator, whatever lists it      *)
(* keeps: one login state, one response counter and one request counter    *)
(* per address.  A login sets the response counter to the number the       *)
(* concentrator chose, every response advances it by one, every request    *)
(* advances the request counter by one, and logging out keeps both         *)
(* (proto.h:237, Jzq.h:31-44).                                             *)
(***************************************************************************)
EXTENDS Integers

CONSTANTS Addr, SeqMod, PfcMod

VARIABLES known, online, rseq, pfc

link == <<known, online, rseq, pfc>>

Init ==
  /\ known \in SUBSET Addr
  /\ online = [a \in Addr |-> FALSE]
  /\ rseq = [a \in Addr |-> 0]
  /\ pfc = [a \in Addr |-> 0]

Next1(n) == (n + 1) % SeqMod

(* Concentrators become known together, all of them logged out.            *)
Load ==
  /\ known' \in SUBSET Addr
  /\ known \subseteq known'
  /\ UNCHANGED <<online, rseq, pfc>>

Login(a, pseq, ack) ==
  /\ known' = known \cup {a}
  /\ online' = [online EXCEPT ![a] = TRUE]
  /\ rseq' = [rseq EXCEPT ![a] = IF ack THEN Next1(pseq) ELSE pseq]
  /\ UNCHANGED pfc

(* A heartbeat or a logout message: first ones make the address known.     *)
Report(a, on, ack) ==
  /\ known' = known \cup {a}
  /\ online' = [online EXCEPT ![a] = on]
  /\ rseq' = [rseq EXCEPT ![a] = IF ack THEN Next1(@) ELSE @]
  /\ UNCHANGED pfc

Answer(a) ==
  /\ a \in known
  /\ rseq' = [rseq EXCEPT ![a] = Next1(@)]
  /\ UNCHANGED <<known, online, pfc>>

Request(a) ==
  /\ a \in known
  /\ pfc' = [pfc EXCEPT ![a] = (@ + 1) % PfcMod]
  /\ UNCHANGED <<known, online, rseq>>

(* A closed connection or expired heartbeats.                              *)
GoOffline ==
  /\ online' \in [Addr -> BOOLEAN]
  /\ \A a \in Addr : online'[a] => online[a]
  /\ UNCHANGED <<known, rseq, pfc>>

Next ==
  \/ Load
  \/ GoOffline
  \/ \E a \in Addr, s \in 0 .. SeqMod - 1, ack \in BOOLEAN : Login(a, s, ack)
  \/ \E a \in Addr, on \in BOOLEAN, ack \in BOOLEAN : Report(a, on, ack)
  \/ \E a \in Addr : Answer(a) \/ Request(a)

Spec == Init /\ [][Next]_link
=============================================================================
