------------------------------- MODULE Stream -------------------------------
(***************************************************************************)
(* From bytes to packages: EventConnection::RecBuf and                     *)
(* AFNPackage::ParseProto on one connection.  The peer's frames arrive as  *)
(* a stream that TCP cuts anywhere; RecBuf reads a piece, joins it to the  *)
(* half package it kept, and hands the complete packages to handlePackage. *)
(* Bytes are cells that know the frame they belong to: what a checksum and *)
(* the tag bytes tell apart.                                               *)
(***************************************************************************)
EXTENDS Integers, Sequences

CONSTANTS
  Size,     \* lengths of the frames the peer sends
  MaxSize,  \* largest length a header can announce (14 bits, plus 8)
  Least,    \* 14 bytes: fewer are a half package whatever they hold
  Full,     \* 20 bytes: LEN 12, the headers and the tag of one data unit
  Chunk,    \* BUF_SIZE - 1, the most one call of RecBuf reads
  MaxSent   \* bound on the number of frames sent

ASSUME SizeAssumption ==
  /\ MaxSize \in Nat /\ Least \in Nat \ {0} /\ Full \in Nat
  /\ Least <= Full /\ Full <= MaxSize
  /\ Size \subseteq Full .. MaxSize
ASSUME BoundAssumption == Chunk \in Nat \ {0} /\ MaxSent \in Nat

VARIABLES
  sent,     \* lengths of the frames sent so far
  net,      \* cells sent and not yet read
  buffer,   \* m_buffer, empty when NULL
  pc,       \* RecBuf is "idle", "parsing" or has "crashed"
  rest,     \* what is still to be parsed, from pMsg on
  handled,  \* numbers of the frames given to handlePackage, 0 for no frame
  whole     \* every read so far ended at the end of a frame

vars == <<sent, net, buffer, pc, rest, handled, whole>>

Cell == [frame : Nat, pos : Nat, size : 0 .. MaxSize]
Junk == [frame |-> 0, pos |-> 0, size |-> 0]
Frame(i, size) == [k \in 1 .. size |-> [frame |-> i, pos |-> k, size |-> size]]

Init ==
  /\ sent = <<>> /\ net = <<>> /\ buffer = <<>> /\ rest = <<>> /\ handled = <<>>
  /\ pc = "idle"
  /\ whole = TRUE

(* The concentrator sends a frame.                                         *)
Send(size) ==
  /\ Len(sent) < MaxSent
  /\ sent' = Append(sent, size)
  /\ net' = net \o Frame(Len(sent) + 1, size)
  /\ UNCHANGED <<buffer, pc, rest, handled, whole>>

(* appendData2Buffer adds the new length first: its first memcpy reads     *)
(* that much past the end of the old buffer, its second one writes the     *)
(* message past the end of the new buffer.                                 *)
appendData2Buffer(msg) == buffer \o [k \in 1 .. Len(msg) |-> Junk]

EndsFrame(msg) == msg[Len(msg)].pos = msg[Len(msg)].size

(* bufferevent_read of n bytes and the join with the half package.         *)
Read(n) ==
  /\ pc = "idle"
  /\ n <= Len(net) /\ n <= Chunk
  /\ LET msg == SubSeq(net, 1, n)
     IN  /\ net' = SubSeq(net, n + 1, Len(net))
         /\ whole' = (whole /\ EndsFrame(msg))
         /\ IF buffer = <<>>
            THEN rest' = msg /\ pc' = "parsing" /\ UNCHANGED buffer
            ELSE /\ rest' = appendData2Buffer(msg)
                 /\ buffer' = rest'
                 /\ pc' \in {"parsing", "crashed"}
  /\ UNCHANGED <<sent, handled>>

(***************************************************************************)
(* ParseProto.  Cells that are not the start of a frame announce any       *)
(* length, and a piece that is not a frame may have its tags and checksum. *)
(***************************************************************************)
Announced == IF rest[1].pos = 1 THEN {rest[1].size} ELSE 1 .. MaxSize
Half(size) == Len(rest) < Least \/ Len(rest) < size
Intact(size) == SubSeq(rest, 1, size) = Frame(rest[1].frame, size)
Left(size) == SubSeq(rest, size + 1, Len(rest))
Number(size) == IF Intact(size) THEN rest[1].frame ELSE 0
Parsed(size) == ~Half(size) /\ size >= Full

(* Faulty variants: damaged packages are kept too; the loop stops after    *)
(* the first package; it does not advance past a package unless it is the  *)
(* last; it does not stop at a half package.                               *)
KeepMore ==
  /\ \E size \in Announced : ~Half(size) => ~Intact(size)
  /\ buffer' = rest
  /\ pc' = "idle" /\ rest' = <<>>
  /\ UNCHANGED <<sent, net, handled, whole>>
HandleFirst ==
  /\ \E size \in Announced : Parsed(size) /\ handled' = Append(handled, Number(size))
  /\ rest' = <<>>
  /\ UNCHANGED <<sent, net, buffer, pc, whole>>
HandleAgain ==
  /\ \E size \in Announced :
        /\ Parsed(size)
        /\ handled' = Append(handled, Number(size))
        /\ rest' = IF Left(size) = <<>> THEN <<>> ELSE rest
  /\ UNCHANGED <<sent, net, buffer, pc, whole>>
KeepGoing ==
  /\ \E size \in Announced : Half(size)
  /\ buffer' = rest
  /\ UNCHANGED <<sent, net, pc, rest, handled, whole>>

(* A half package is kept for the next read.                               *)
Keep ==
  /\ \E size \in Announced : Half(size)
  /\ buffer' = rest
  /\ pc' = "idle" /\ rest' = <<>>
  /\ UNCHANGED <<sent, net, handled, whole>>

(* A package is complete and looks right: it goes to handlePackage.        *)
Handle ==
  /\ \E size \in Announced :
        /\ Parsed(size)
        /\ handled' = Append(handled, Number(size))
        /\ rest' = Left(size)
  /\ UNCHANGED <<sent, net, buffer, pc, whole>>

(* A package that looks right and has no room for a data unit leaves       *)
(* pAfnData NULL, or makes its length wrap, and ParseProto reads there.    *)
Short ==
  /\ \E size \in Announced : ~Half(size) /\ size < Full
  /\ pc' = "crashed"
  /\ UNCHANGED <<sent, net, buffer, rest, handled, whole>>

(* Wrong tags or checksum.                                                 *)
Drop ==
  /\ \E size \in Announced : ~Half(size) /\ ~Intact(size) /\ rest' = Left(size)
  /\ UNCHANGED <<sent, net, buffer, pc, handled, whole>>

(* All parsed: the buffer is deleted.                                      *)
Finish ==
  /\ rest = <<>>
  /\ buffer' = <<>> /\ pc' = "idle"
  /\ UNCHANGED <<sent, net, rest, handled, whole>>

RecBuf ==
  /\ pc = "parsing"
  /\ Finish \/ (rest # <<>> /\ (Keep \/ Handle \/ Short \/ Drop))

-----------------------------------------------------------------------------
Next ==
  \/ \E size \in Size : Send(size)
  \/ \E n \in 1 .. Chunk : Read(n)
  \/ RecBuf

Spec == Init /\ [][Next]_vars

(* The event loop carries on with the callback it is in.                   *)
FairSpec == Spec /\ WF_vars(RecBuf)

-----------------------------------------------------------------------------
(* Types; one call of RecBuf never has more to parse than one read and    *)
(* the half package before it.                                             *)
TypeOK ==
  /\ sent \in Seq(Size)
  /\ net \in Seq(Cell) /\ buffer \in Seq(Cell) /\ rest \in Seq(Cell)
  /\ pc \in {"idle", "parsing", "crashed"}
  /\ handled \in Seq(Nat)
  /\ whole \in BOOLEAN
  /\ Len(rest) < Chunk + MaxSize

(* However the stream is cut and damaged, no frame of it is handled twice  *)
(* or out of order: what is kept starts after what was handled.            *)
InOrder ==
  \A i, j \in 1 .. Len(handled) :
     handled[i] # 0 /\ handled[j] # 0 /\ i < j => handled[i] < handled[j]

(* Between two reads the connection keeps less than one largest package,   *)
(* whatever the peer sends.                                                *)
BufferBounded == pc = "idle" => Len(buffer) < MaxSize

(* While every read ends with the end of a frame, however many frames it   *)
(* holds, every frame read has been handled.                               *)
NumberRead == Len(sent) - (IF net = <<>> THEN 0 ELSE Len(sent) - net[1].frame + 1)
WholeReadsHandled ==
  whole /\ pc = "idle" => handled = [i \in 1 .. NumberRead |-> i]

(* The loop over the packages of one read ends (while msgLen > 0), and     *)
(* while every read ends with the end of a frame it is not by a crash.     *)
RecBufEnds == pc = "parsing" ~> pc = "idle" \/ (pc = "crashed" /\ ~whole)

(* "half a package: buffer it and go on receiving" (EventConnection.cpp:92)*)
(* means that a frame that came in two pieces is handled.                  *)
SplitFramesHandled ==
  pc = "idle" /\ net = <<>> => handled = [i \in 1 .. Len(sent) |-> i]
=============================================================================
