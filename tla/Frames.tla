------------------------------- MODULE Frames -------------------------------
(***************************************************************************)
(* Messages of several frames: ConnectionPower::handlePackage on one open  *)
(* connection.  The TcpServer thread keeps middle frames in m_pkgList and  *)
(* hands the list over with the last frame; a telnet command that uses the *)
(* connection first clears the list, under g_JzqConList_Mutex, which the   *)
(* read callback does not take.  Who still owns which package is the       *)
(* subject; a package is the number of its frame.                          *)
(***************************************************************************)
EXTENDS Integers, Sequences, Functions

CONSTANTS
  MaxFrames,    \* bound on the frames received
  MaxCommands,  \* bound on the telnet commands
  NoFrame       \* handlePackage is not running

ASSUME BoundAssumption == MaxFrames \in Nat /\ MaxCommands \in Nat
ASSUME FrameAssumption == NoFrame \notin Nat

VARIABLES
  got,       \* frames received so far
  pkg,       \* the package handlePackage works on
  kind,      \* its FIR and FIN
  pc,        \* where handlePackage is
  list,      \* m_pkgList
  heap,      \* packages that exist
  handed,    \* how often each package was given to HandlePkg
  telnet,    \* the telnet thread is inside ClearPkgList
  commands   \* telnet commands so far

vars == <<got, pkg, kind, pc, list, heap, handed, telnet, commands>>

Kind == {"single", "first", "middle", "end"}
Frame == 1 .. MaxFrames

Init ==
  /\ got = 0 /\ commands = 0
  /\ pkg = NoFrame /\ kind = "single" /\ pc = "idle"
  /\ list = <<>> /\ heap = {}
  /\ handed = [f \in Frame |-> 0]
  /\ telnet = FALSE

(* What HandlePkg gets: single frames in a list of their own.              *)
Handed == IF kind = "single" THEN <<pkg>> ELSE list

(***************************************************************************)
(* TcpServer thread.                                                       *)
(***************************************************************************)

(* Faulty variant: a frame is put in front of the list.                    *)
ReceiveFront(k) ==
  /\ pc = "idle" /\ got < MaxFrames
  /\ got' = got + 1
  /\ kind' = k
  /\ list' = CASE k = "single" -> list
               [] k = "first" -> <<got'>>
               [] OTHER -> <<got'>> \o list
  /\ heap' = (IF k = "first" THEN heap \ Range(list) ELSE heap) \cup {got'}
  /\ IF k = "middle"
     THEN pkg' = NoFrame /\ pc' = "idle"
     ELSE pkg' = got' /\ pc' = "handle"
  /\ UNCHANGED <<handed, telnet, commands>>

(* A frame has been parsed.  FIR decides what becomes of the list.  The    *)
(* delete loop and clear() of this thread are one step.                    *)
Receive(k) ==
  /\ pc = "idle" /\ got < MaxFrames
  /\ got' = got + 1
  /\ kind' = k
  /\ list' = CASE k = "single" -> list
               [] k = "first" -> <<got'>>
               [] OTHER -> Append(list, got')
  /\ heap' = (IF k = "first" THEN heap \ Range(list) ELSE heap) \cup {got'}
  /\ IF k = "middle"
     THEN pkg' = NoFrame /\ pc' = "idle"
     ELSE pkg' = got' /\ pc' = "handle"
  /\ UNCHANGED <<handed, telnet, commands>>

(* Reading or deleting a package that is gone may end the program.         *)
Alive(S, next) == IF S \subseteq heap THEN {next} ELSE {next, "crashed"}

(* HandlePkg and its handlers read the packages of the list.               *)
HandlePkg ==
  /\ pc = "handle"
  /\ handed' = [f \in Frame |-> handed[f] + (IF f \in Range(Handed) THEN 1 ELSE 0)]
  /\ pc' \in Alive(Range(Handed), IF kind = "single" THEN "delete" ELSE "clear")
  /\ UNCHANGED <<got, pkg, kind, list, heap, telnet, commands>>

(* Faulty variant: the frames stay in m_pkgList after a first frame.       *)
ClearKeepsFirst ==
  /\ pc = "clear"
  /\ IF kind = "first" THEN UNCHANGED <<heap, list>>
     ELSE heap' = heap \ Range(list) /\ list' = <<>>
  /\ pc' \in Alive(Range(list), "delete")
  /\ UNCHANGED <<got, pkg, kind, handed, telnet, commands>>

(* Faulty variant: the list is emptied without deleting the packages.      *)
ClearOnly ==
  /\ pc = "clear"
  /\ list' = <<>>
  /\ pc' = "delete"
  /\ UNCHANGED <<got, pkg, kind, heap, handed, telnet, commands>>

(* ClearPkgList(m_pkgList)                                                 *)
Clear ==
  /\ pc = "clear"
  /\ heap' = heap \ Range(list)
  /\ list' = <<>>
  /\ pc' \in Alive(Range(list), "delete")
  /\ UNCHANGED <<got, pkg, kind, handed, telnet, commands>>

(* delete pkg, for first and last frames too, which Clear has deleted.     *)
Delete ==
  /\ pc = "delete"
  /\ heap' = heap \ {pkg}
  /\ pc' \in Alive({pkg}, "idle")
  /\ pkg' = IF pc' = "idle" THEN NoFrame ELSE pkg
  /\ UNCHANGED <<got, kind, list, handed, telnet, commands>>

(***************************************************************************)
(* Telnet thread: ClearRecPkgList in LOCK_CONNECTION.                      *)
(***************************************************************************)

(* The loop that deletes the packages of the list ...                      *)
BeginClear ==
  /\ ~ telnet /\ commands < MaxCommands /\ pc # "crashed"
  /\ commands' = commands + 1
  /\ heap' = heap \ Range(list)
  /\ telnet' = TRUE
  /\ UNCHANGED <<got, pkg, kind, pc, list, handed>>

(* ... and lst.clear().                                                    *)
EndClear ==
  /\ telnet /\ pc # "crashed"
  /\ list' = <<>>
  /\ telnet' = FALSE
  /\ UNCHANGED <<got, pkg, kind, pc, heap, handed, commands>>

Next ==
  \/ \E k \in Kind : Receive(k)
  \/ HandlePkg
  \/ Clear
  \/ Delete
  \/ BeginClear
  \/ EndClear

Spec == Init /\ [][Next]_vars

(***************************************************************************)
(* Properties.                                                             *)
(***************************************************************************)

(* Types; pkg is a package as long as handlePackage runs, and not after.   *)
TypeOK ==
  /\ got \in 0 .. MaxFrames /\ commands \in 0 .. MaxCommands
  /\ kind \in Kind
  /\ pc \in {"idle", "handle", "clear", "delete", "crashed"}
  /\ list \in Seq(1 .. got) /\ heap \subseteq 1 .. got
  /\ handed \in [Frame -> Nat]
  /\ telnet \in BOOLEAN
  /\ pkg \in 1 .. got \cup {NoFrame}
  /\ pc # "crashed" => (pkg = NoFrame <=> pc = "idle")

(* No frame is handled twice, whatever the order of frames and however a   *)
(* telnet command interferes (handlePackage, lines 48, 58 and 75): its     *)
(* answer would be unpacked and stored again.                              *)
HandedOnce == \A f \in Frame : handed[f] <= 1

(* The frames of the list are in the order of their arrival.               *)
KeptInOrder == \A i, j \in DOMAIN list : i < j => list[i] < list[j]

(* As long as no telnet command has cleared the list, every package that   *)
(* exists between two callbacks is one handlePackage keeps in m_pkgList:   *)
(* none is leaked, and the list names no deleted package.                  *)
NothingLeaked == commands = 0 /\ pc = "idle" => heap = Range(list)
=============================================================================
