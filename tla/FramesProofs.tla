---------------------------- MODULE FramesProofs ----------------------------
(* Proofs about Frames, for any number of frames and telnet commands.      *)
EXTENDS Frames, SequenceTheorems, TLAPS

(* The packages of the list have not been handled, unless handlePackage is *)
(* just about to remove them.                                              *)
Fresh ==
  pc \in {"idle", "handle"} \/ (pc = "delete" /\ kind = "single") =>
    \A i \in DOMAIN list : handed[list[i]] = 0

(* A single frame is newer than all those kept.                            *)
Newest == pc = "handle" /\ kind = "single" =>
            /\ handed[pkg] = 0
            /\ \A i \in DOMAIN list : list[i] # pkg

(* Frames to come have not been handled, and the list is cleared between   *)
(* HandlePkg and the deletion, except for single frames.                   *)
Stage ==
  /\ \A f \in Frame : f > got => handed[f] = 0
  /\ pc = "clear" => kind # "single"
  /\ pc = "delete" /\ kind # "single" => list = <<>>

IInv == TypeOK /\ KeptInOrder /\ HandedOnce /\ Fresh /\ Newest /\ Stage

(* At first no frame has been received.                                    *)
LEMMA InitInv == Init => IInv
<1> SUFFICES ASSUME Init PROVE IInv
  OBVIOUS
<1>1. list = <<>> /\ list \in Seq(1 .. got) /\ \A i \in DOMAIN list : FALSE
  BY DEF Init
<1>2. handed \in [Frame -> Nat] /\ \A f \in Frame : handed[f] = 0
  BY DEF Init
<1>3. TypeOK
  <2>1. got = 0 /\ commands = 0 /\ kind = "single" /\ pc = "idle" /\ heap = {}
        /\ telnet \in BOOLEAN /\ pkg = NoFrame
    BY DEF Init
  <2>2. got \in 0 .. MaxFrames /\ commands \in 0 .. MaxCommands /\ kind \in Kind
    BY <2>1, BoundAssumption DEF Kind
  <2> QED
    BY <1>1, <1>2, <2>1, <2>2 DEF TypeOK
<1> QED
  BY <1>1, <1>2, <1>3 DEF Init, IInv, KeptInOrder, HandedOnce, Fresh, Newest, Stage

(* The three lists Receive may leave: the old one, the new frame alone,    *)
(* and the old one with the new frame at its end.                          *)
LEMMA ReceivedList ==
  ASSUME IInv, NEW k \in Kind, Receive(k)
  PROVE  /\ list' \in Seq(1 .. got') /\ KeptInOrder'
         /\ \A i \in DOMAIN list' : list'[i] = got' \/ \E j \in DOMAIN list : list'[i] = list[j]
         /\ k = "single" => list' = list
<1>1. got \in Nat /\ got' = got + 1 /\ list \in Seq(1 .. got)
  BY BoundAssumption DEF IInv, TypeOK, Receive
<1>2. \A i \in DOMAIN list : list[i] \in 1 .. got
  BY <1>1
<1>3. list \in Seq(1 .. got')
  BY <1>1, <1>2, Z3
<1>4. CASE list' = list
  BY <1>3, <1>4, <1>1 DEF IInv, KeptInOrder
<1>5. CASE list' = <<got'>> /\ k = "first"
  BY <1>1, <1>5 DEF KeptInOrder
<1>6. CASE list' = Append(list, got') /\ k # "single"
  <2>1. list' \in Seq(1 .. got') /\ Len(list') = Len(list) + 1
    BY <1>1, <1>3, <1>6
  <2>2. \A i \in DOMAIN list' :
          list'[i] = IF i = Len(list) + 1 THEN got' ELSE list[i]
    BY <1>1, <1>6
  <2>3. DOMAIN list' = 1 .. Len(list) + 1 /\ DOMAIN list = 1 .. Len(list)
    BY <1>1, <2>1
  <2>4. KeptInOrder'
    BY <1>1, <1>2, <2>2, <2>3 DEF IInv, KeptInOrder
  <2>5. \A i \in DOMAIN list' : list'[i] = got' \/ \E j \in DOMAIN list : list'[i] = list[j]
    <3> SUFFICES ASSUME NEW i \in DOMAIN list', i # Len(list) + 1
                 PROVE  i \in DOMAIN list
      BY <2>2
    <3> QED
      BY <1>1, <2>3
  <2> QED
    BY <2>1, <2>4, <2>5, <1>6
<1> QED
  BY <1>4, <1>5, <1>6 DEF Receive, Kind

(* A new frame has not been handled before.                                *)
LEMMA ReceiveKeeps ==
  ASSUME IInv, NEW k \in Kind, Receive(k)
  PROVE  IInv'
<1>1. /\ got \in 0 .. MaxFrames /\ got' = got + 1 /\ got < MaxFrames
      /\ got' \in Frame /\ got' \in 1 .. MaxFrames
      /\ handed' = handed /\ kind' = k /\ pc = "idle"
  BY BoundAssumption DEF IInv, TypeOK, Receive, Frame
<1>2. got \in Nat
  BY <1>1
<1>3. heap \subseteq 1 .. got'
  BY <1>1, <1>2 DEF IInv, TypeOK
<1>4. heap' \subseteq 1 .. got'
  BY <1>1, <1>2, <1>3 DEF Receive
<1>5. TypeOK'
  <2>1. /\ got' \in 0 .. MaxFrames /\ got' \in 1 .. got' /\ got' # NoFrame
        /\ UNCHANGED <<handed, telnet, commands>>
        /\ (pkg' = NoFrame /\ pc' = "idle") \/ (pkg' = got' /\ pc' = "handle")
    BY <1>1, <1>2, FrameAssumption DEF Receive
  <2> QED
    BY <2>1, <1>1, <1>4, ReceivedList DEF IInv, TypeOK
<1>6. handed[got'] = 0
  BY <1>1, <1>2 DEF IInv, Stage
<1>7. \A j \in DOMAIN list : list[j] \in 1 .. got /\ handed[list[j]] = 0
  BY <1>1 DEF IInv, TypeOK, Fresh
<1>8. \A i \in DOMAIN list' : handed[list'[i]] = 0
  BY <1>6, <1>7, ReceivedList
<1>9. Newest'
  <2> SUFFICES ASSUME pc' = "handle", k = "single" PROVE Newest'
    BY <1>1 DEF Newest
  <2>1. pkg' = got' /\ list' = list
    BY ReceivedList DEF Receive
  <2> QED
    BY <2>1, <1>1, <1>2, <1>6, <1>7 DEF Newest
<1>10. Stage'
  BY <1>1, <1>2 DEF IInv, Stage, Receive, Frame
<1> QED
  BY <1>1, <1>5, <1>8, <1>9, <1>10, ReceivedList DEF IInv, Fresh, HandedOnce

(* HandlePkg gets only frames that nobody handled.                         *)
LEMMA HandleKeeps ==
  ASSUME IInv, HandlePkg
  PROVE  IInv'
<1>1. /\ pc = "handle" /\ handed \in [Frame -> Nat] /\ got \in 0 .. MaxFrames
      /\ kind \in Kind /\ pkg \in 1 .. got
      /\ UNCHANGED <<got, pkg, kind, list, heap, telnet, commands>>
  BY FrameAssumption DEF IInv, TypeOK, HandlePkg
<1>2. got \in Nat /\ 1 .. got \subseteq Frame
  BY <1>1, BoundAssumption DEF Frame
<1>3. \A i \in DOMAIN list : list[i] \in 1 .. got /\ handed[list[i]] = 0
  BY <1>1 DEF IInv, TypeOK, Fresh
<1>4. Range(Handed) = IF kind = "single" THEN {pkg} ELSE {list[i] : i \in DOMAIN list}
  BY DEF Handed, Range
<1>5. \A f \in Range(Handed) : f \in 1 .. got /\ handed[f] = 0
  BY <1>1, <1>3, <1>4 DEF IInv, Newest
<1>6. \A f \in Frame : handed'[f] = handed[f] + (IF f \in Range(Handed) THEN 1 ELSE 0)
  BY DEF HandlePkg
<1>7. handed' \in [Frame -> Nat]
  BY <1>1 DEF HandlePkg
<1>8. HandedOnce'
  BY <1>1, <1>5, <1>6 DEF IInv, HandedOnce
<1>9. /\ pc' \in {"clear", "delete", "crashed"}
      /\ pc' = "clear" => kind # "single"
      /\ pc' = "delete" => kind = "single"
  BY DEF HandlePkg, Alive
<1>10. TypeOK'
  BY <1>1, <1>7, <1>9, FrameAssumption DEF IInv, TypeOK
<1>11. Fresh'
  <2> SUFFICES ASSUME pc' = "delete", NEW i \in DOMAIN list
               PROVE  handed'[list[i]] = 0
    BY <1>1, <1>9 DEF Fresh
  <2>1. list[i] # pkg /\ kind = "single"
    BY <1>1, <1>9 DEF IInv, Newest
  <2> QED
    BY <2>1, <1>2, <1>3, <1>4, <1>6
<1>12. Stage'
  <2>1. \A f \in Frame : f > got => f \notin Range(Handed)
    BY <1>2, <1>5
  <2>2. \A f \in Frame : f > got => handed'[f] = 0
    BY <2>1, <1>1, <1>6 DEF IInv, Stage
  <2> QED
    BY <2>2, <1>1, <1>9 DEF Stage
<1> QED
  BY <1>1, <1>8, <1>9, <1>10, <1>11, <1>12 DEF IInv, KeptInOrder, Newest

(* Packages are only ever taken off the list.                              *)
LEMMA ClearKeeps ==
  ASSUME IInv, Clear \/ Delete \/ BeginClear \/ EndClear
  PROVE  IInv'
<1>1. /\ UNCHANGED <<got, kind, handed>>
      /\ list' \in {list, <<>>}
      /\ heap' \subseteq heap
  BY DEF Clear, Delete, BeginClear, EndClear
<1>2. list' \in Seq(1 .. got) /\ KeptInOrder'
  <2>1. <<>> \in Seq(1 .. got) /\ \A i \in DOMAIN <<>> : FALSE
    OBVIOUS
  <2> QED
    BY <2>1, <1>1 DEF IInv, TypeOK, KeptInOrder
<1>3. \A i \in DOMAIN list' : list' = list
  BY <1>1
<1>4. CASE Clear
  <2>1. pc = "clear" /\ pc' \in {"delete", "crashed"} /\ list' = <<>>
        /\ UNCHANGED <<pkg, telnet, commands>>
    BY <1>4 DEF Clear, Alive
  <2> QED
    BY <1>1, <1>2, <2>1, FrameAssumption
    DEF IInv, TypeOK, HandedOnce, Fresh, Newest, Stage
<1>5. CASE Delete
  <2>1. /\ pc = "delete" /\ pc' \in {"idle", "crashed"} /\ list' = list
        /\ pkg' = IF pc' = "idle" THEN NoFrame ELSE pkg
        /\ UNCHANGED <<telnet, commands>>
    BY <1>5 DEF Delete, Alive
  <2>2. Fresh'
    BY <1>1, <2>1 DEF IInv, Fresh, Stage
  <2> QED
    BY <1>1, <1>2, <2>1, <2>2, FrameAssumption
    DEF IInv, TypeOK, HandedOnce, Newest, Stage
<1>6. CASE BeginClear
  <2>1. list' = list /\ telnet' \in BOOLEAN /\ commands' \in 0 .. MaxCommands
        /\ UNCHANGED <<pkg, pc>>
    BY <1>6, BoundAssumption DEF BeginClear, IInv, TypeOK
  <2> QED
    BY <1>1, <1>2, <2>1 DEF IInv, TypeOK, HandedOnce, Fresh, Newest, Stage
<1>7. CASE EndClear
  <2>1. list' = <<>> /\ telnet' \in BOOLEAN /\ UNCHANGED <<pkg, pc, commands>>
    BY <1>7 DEF EndClear
  <2> QED
    BY <1>1, <1>2, <2>1 DEF IInv, TypeOK, HandedOnce, Fresh, Newest, Stage
<1> QED
  BY <1>4, <1>5, <1>6, <1>7

(* IInv is inductive.                                                      *)
LEMMA NextKeeps == IInv /\ [Next]_vars => IInv'
<1> SUFFICES ASSUME IInv, [Next]_vars PROVE IInv'
  OBVIOUS
<1>1. CASE Next
  BY <1>1, ReceiveKeeps, HandleKeeps, ClearKeeps DEF Next
<1>2. CASE UNCHANGED vars
  BY <1>2 DEF vars, IInv, TypeOK, KeptInOrder, HandedOnce, Fresh, Newest, Stage, Handed
<1> QED
  BY <1>1, <1>2

(* IInv holds in every state.                                              *)
LEMMA Inductive == Spec => []IInv
  BY InitInv, NextKeeps, PTL DEF Spec

(* Type correctness of Frames.                                             *)
THEOREM TypeCorrect == Spec => []TypeOK
<1>1. IInv => TypeOK
  BY DEF IInv
<1> QED
  BY <1>1, Inductive, PTL

(* No frame is handed to HandlePkg twice (handlePackage), whatever the     *)
(* order of the frames and the telnet commands.                            *)
THEOREM HandedOnceAlways == Spec => []HandedOnce
<1>1. IInv => HandedOnce
  BY DEF IInv
<1> QED
  BY <1>1, Inductive, PTL

(* m_pkgList is in the order of arrival (handlePackage).                   *)
THEOREM Ordered == Spec => []KeptInOrder
<1>1. IInv => KeptInOrder
  BY DEF IInv
<1> QED
  BY <1>1, Inductive, PTL

(* Until the first telnet command, what exists is what the list names and  *)
(* the single frame being handled.                                         *)
Owned ==
  commands = 0 =>
    /\ ~ telnet
    /\ pc # "crashed" =>
         heap = Range(list) \cup (IF kind = "single" /\ pc \in {"handle", "delete"}
                                 THEN {pkg} ELSE {})
    /\ kind = "single" /\ pc \in {"handle", "delete"} => pkg \notin Range(list)

(* The elements of a list with one more at its end.                        *)
LEMMA RangeAppend ==
  ASSUME NEW S, NEW s \in Seq(S), NEW x \in S
  PROVE  Range(Append(s, x)) = Range(s) \cup {x}
<1>1. DOMAIN Append(s, x) = DOMAIN s \cup {Len(s) + 1} /\ Len(s) + 1 \notin DOMAIN s
  OBVIOUS
<1>2. \A i \in DOMAIN s : Append(s, x)[i] = s[i]
  OBVIOUS
<1>3. Append(s, x)[Len(s) + 1] = x
  OBVIOUS
<1> QED
  BY <1>1, <1>2, <1>3 DEF Range

(* The elements of the other lists handlePackage makes.                    *)
LEMMA RangeSmall == Range(<<>>) = {} /\ \A x : Range(<<x>>) = {x}
  BY DEF Range

(* A frame that arrives is in the list or the one being handled.           *)
LEMMA ReceiveOwned ==
  ASSUME IInv, Owned, commands = 0, NEW k \in Kind, Receive(k)
  PROVE  Owned'
<1>1. /\ got \in Nat /\ got' = got + 1 /\ pc = "idle" /\ kind' = k
      /\ list \in Seq(1 .. got) /\ heap = Range(list)
      /\ UNCHANGED <<telnet, commands>>
  <2>1. got \in Nat /\ list \in Seq(1 .. got)
    BY BoundAssumption DEF IInv, TypeOK
  <2>2. got' = got + 1 /\ pc = "idle" /\ kind' = k /\ UNCHANGED <<telnet, commands>>
    BY DEF Receive
  <2>3. heap = Range(list)
    BY <2>2 DEF Owned
  <2> QED
    BY <2>1, <2>2, <2>3
<1>2. \A x \in Range(list) : x \in 1 .. got
  BY <1>1 DEF Range
<1>3. got' \notin Range(list)
  BY <1>1, <1>2
<1>4. list \in Seq(Nat) /\ got' \in Nat
  BY <1>1
<1>5. Range(Append(list, got')) = Range(list) \cup {got'}
  BY <1>4, RangeAppend
<1>6. CASE k = "single"
  <2>1. list' = list /\ pkg' = got' /\ pc' = "handle" /\ heap' = heap \cup {got'}
    BY <1>6 DEF Receive
  <2> QED
    BY <2>1, <1>1, <1>3, <1>6 DEF Owned
<1>7. CASE k = "first"
  <2>1. list' = <<got'>> /\ pc' = "handle" /\ heap' = (heap \ Range(list)) \cup {got'}
    BY <1>7 DEF Receive
  <2> QED
    BY <2>1, <1>1, <1>7, RangeSmall DEF Owned
<1>8. CASE k \in {"middle", "end"}
  <2>1. list' = Append(list, got') /\ pc' \in {"idle", "handle"} /\ heap' = heap \cup {got'}
    BY <1>8 DEF Receive
  <2> QED
    BY <2>1, <1>1, <1>5, <1>8 DEF Owned
<1> QED
  BY <1>6, <1>7, <1>8 DEF Kind

(* handlePackage deletes what it has taken off the list.                   *)
LEMMA StepOwned ==
  ASSUME IInv, Owned, commands = 0, HandlePkg \/ Clear \/ Delete
  PROVE  Owned'
<1>1. UNCHANGED <<kind, telnet, commands>>
  BY DEF HandlePkg, Clear, Delete
<1>2. CASE HandlePkg
  <2>1. /\ pc = "handle" /\ UNCHANGED <<pkg, list, heap>>
        /\ pc' \in {IF kind = "single" THEN "delete" ELSE "clear", "crashed"}
    BY <1>2 DEF HandlePkg, Alive
  <2> QED
    BY <2>1, <1>1 DEF Owned
<1>3. CASE Clear
  <2>1. /\ pc = "clear" /\ kind # "single" /\ list' = <<>> /\ heap' = heap \ Range(list)
        /\ heap = Range(list)
    BY <1>3 DEF Clear, Owned, IInv, Stage
  <2> QED
    BY <2>1, <1>1, RangeSmall DEF Owned
<1>4. CASE Delete
  <2>1. /\ pc = "delete" /\ list' = list /\ heap' = heap \ {pkg}
        /\ pc' \in {"idle", "crashed"}
    BY <1>4 DEF Delete, Alive
  <2>2. kind # "single" => list = <<>>
    BY <2>1 DEF IInv, Stage
  <2>3. heap' = Range(list)
    BY <2>1, <2>2, RangeSmall DEF Owned
  <2> QED
    BY <2>1, <2>3, <1>1 DEF Owned
<1> QED
  BY <1>2, <1>3, <1>4

(* handlePackage leaks nothing and the list names no deleted package, as   *)
(* long as no telnet command has cleared the list.                         *)
THEOREM NothingLeaks == Spec => []NothingLeaked
<1>1. Init => Owned
  BY RangeSmall DEF Init, Owned
<1>2. IInv /\ Owned /\ [Next]_vars => Owned'
  <2> SUFFICES ASSUME IInv, Owned, [Next]_vars, commands' = 0 PROVE Owned'
    BY DEF Owned
  <2>1. commands \in Nat
    BY BoundAssumption DEF IInv, TypeOK
  <2>2. ~ BeginClear
    BY <2>1 DEF BeginClear
  <2>3. commands = 0
    BY <2>2 DEF Next, vars, Receive, HandlePkg, Clear, Delete, EndClear
  <2>4. ~ EndClear
    BY <2>3 DEF EndClear, Owned
  <2>5. CASE Next
    BY <2>2, <2>3, <2>4, <2>5, ReceiveOwned, StepOwned DEF Next
  <2>6. CASE UNCHANGED vars
    BY <2>6 DEF vars, Owned
  <2> QED
    BY <2>5, <2>6
<1>3. Owned => NothingLeaked
  BY DEF Owned, NothingLeaked
<1> QED
  BY <1>1, <1>2, <1>3, Inductive, PTL DEF Spec
=============================================================================
