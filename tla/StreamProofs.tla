---------------------------- MODULE StreamProofs ----------------------------
(* Proofs about Stream, for frames, headers and reads of any size: what    *)
(* RecBuf keeps between two reads is bounded, frames are handled in the    *)
(* order in which they were sent, and all of them while reads end frames.  *)
EXTENDS Stream, SequenceTheorems, TLAPS

IInv == TypeOK /\ BufferBounded

(* A piece of a sequence of cells is one, and no longer.                   *)
LEMMA Piece ==
  ASSUME NEW s \in Seq(Cell), NEW m \in Nat \ {0}, NEW n \in 0 .. Len(s)
  PROVE  /\ SubSeq(s, m, n) \in Seq(Cell)
         /\ Len(SubSeq(s, m, n)) = IF m <= n THEN n - m + 1 ELSE 0
  OBVIOUS

(* A frame is a sequence of cells.                                         *)
LEMMA FrameType ==
  ASSUME NEW i \in Nat, NEW size \in 1 .. MaxSize
  PROVE  Frame(i, size) \in Seq(Cell) /\ Len(Frame(i, size)) = size
<1>1. \A k \in 1 .. size : [frame |-> i, pos |-> k, size |-> size] \in Cell
  BY SizeAssumption DEF Cell
<1>2. size \in Nat
  BY SizeAssumption
<1> QED
  BY <1>1, <1>2 DEF Frame

(* The joined buffer is as long as its two parts (appendData2Buffer).      *)
LEMMA JoinType ==
  ASSUME NEW msg \in Seq(Cell), buffer \in Seq(Cell)
  PROVE  /\ appendData2Buffer(msg) \in Seq(Cell)
         /\ Len(appendData2Buffer(msg)) = Len(buffer) + Len(msg)
<1> DEFINE junk == [k \in 1 .. Len(msg) |-> Junk]
<1>1. Junk \in Cell
  BY SizeAssumption DEF Junk, Cell
<1>2. junk \in Seq(Cell) /\ Len(junk) = Len(msg)
  BY <1>1
<1> QED
  BY <1>2 DEF appendData2Buffer

(* A header announces at most MaxSize.                                     *)
LEMMA AnnouncedBound ==
  ASSUME rest \in Seq(Cell), rest # <<>>
  PROVE  Announced \subseteq 0 .. MaxSize
<1>1. rest[1] \in Cell
  OBVIOUS
<1> QED
  BY <1>1, SizeAssumption DEF Announced, Cell

(* Nothing has been read at first.                                         *)
LEMMA InitBounded == Init => IInv
<1> SUFFICES ASSUME Init PROVE IInv
  OBVIOUS
<1>1. <<>> \in Seq(Size) /\ <<>> \in Seq(Cell) /\ <<>> \in Seq(Nat) /\ Len(<<>>) = 0
  OBVIOUS
<1> QED
  BY <1>1, SizeAssumption, BoundAssumption DEF Init, IInv, TypeOK, BufferBounded

(* A frame sent is typed and leaves the buffer alone.                      *)
LEMMA SendKeeps ==
  ASSUME IInv, NEW size \in Size, Send(size)
  PROVE  IInv'
<1>1. size \in 1 .. MaxSize
  BY SizeAssumption
<1>2. Len(sent) + 1 \in Nat
  BY DEF IInv, TypeOK
<1>3. sent' \in Seq(Size)
  BY DEF Send, IInv, TypeOK
<1>4. net' \in Seq(Cell)
  BY <1>1, <1>2, FrameType DEF Send, IInv, TypeOK
<1> QED
  BY <1>3, <1>4 DEF Send, IInv, TypeOK, BufferBounded

(* One read adds at most Chunk to less than MaxSize.                       *)
LEMMA ReadKeeps ==
  ASSUME IInv, NEW n \in 1 .. Chunk, Read(n)
  PROVE  IInv'
<1> DEFINE msg == SubSeq(net, 1, n)
<1>1. n \in Nat /\ n <= Len(net) /\ n <= Chunk /\ Len(net) \in Nat
  BY BoundAssumption DEF Read, IInv, TypeOK
<1>2. msg \in Seq(Cell) /\ Len(msg) = n
  BY <1>1, Piece DEF IInv, TypeOK
<1>3. net' \in Seq(Cell)
  <2>1. net' = SubSeq(net, n + 1, Len(net))
    BY DEF Read
  <2> QED
    BY <1>1, <2>1, Piece DEF IInv, TypeOK
<1>4. /\ rest' \in Seq(Cell) /\ buffer' \in Seq(Cell)
      /\ Len(rest') < Chunk + MaxSize
  <2>1. CASE buffer = <<>>
    <3>1. rest' = msg /\ buffer' = buffer
      BY <2>1 DEF Read
    <3>2. buffer \in Seq(Cell)
      BY DEF IInv, TypeOK
    <3> QED
      BY <1>1, <1>2, <3>1, <3>2, SizeAssumption, BoundAssumption
  <2>2. CASE buffer # <<>>
    <3>1. rest' = appendData2Buffer(msg) /\ buffer' = rest'
      BY <2>2 DEF Read
    <3>2. Len(buffer) \in Nat /\ Len(buffer) < MaxSize
      BY DEF Read, IInv, TypeOK, BufferBounded
    <3>3. rest' \in Seq(Cell) /\ Len(rest') = Len(buffer) + n
      BY <1>2, <3>1, JoinType DEF IInv, TypeOK
    <3> QED
      BY <1>1, <3>1, <3>2, <3>3, SizeAssumption, BoundAssumption
  <2> QED
    BY <2>1, <2>2
<1>5. pc' \in {"parsing", "crashed"} /\ whole' \in BOOLEAN
  BY DEF Read, IInv, TypeOK
<1> QED
  BY <1>3, <1>4, <1>5 DEF Read, IInv, TypeOK, BufferBounded

(* What is kept is shorter than the package it announces, or than the      *)
(* least package.                                                          *)
LEMMA KeepBounded ==
  ASSUME IInv, rest # <<>>, Keep
  PROVE  IInv'
<1>1. Len(rest) \in Nat /\ rest \in Seq(Cell)
  BY DEF IInv, TypeOK
<1>2. Len(rest) < MaxSize
  BY <1>1, AnnouncedBound, SizeAssumption DEF Keep, Half
<1>3. <<>> \in Seq(Cell) /\ Len(<<>>) = 0
  OBVIOUS
<1> QED
  BY <1>1, <1>2, <1>3, SizeAssumption, BoundAssumption
     DEF Keep, IInv, TypeOK, BufferBounded

(* What is left to parse only gets shorter.                                *)
LEMMA LeftType ==
  ASSUME IInv, NEW size \in 0 .. MaxSize
  PROVE  Left(size) \in Seq(Cell) /\ Len(Left(size)) < Chunk + MaxSize
<1>1. rest \in Seq(Cell) /\ Len(rest) \in Nat /\ Len(rest) < Chunk + MaxSize
  BY DEF IInv, TypeOK
<1>2. size + 1 \in Nat \ {0}
  BY SizeAssumption
<1> QED
  BY <1>1, <1>2, Piece, SizeAssumption, BoundAssumption DEF Left

(* Whatever the inner loop keeps, the type and the bound of the buffer     *)
(* survive it: its last action either keeps a short rest or goes on.       *)
LEMMA RecBufKeeps ==
  ASSUME IInv, RecBuf
  PROVE  IInv'
<1>1. CASE Finish
  <2>1. <<>> \in Seq(Cell) /\ Len(<<>>) = 0
    OBVIOUS
  <2> QED
    BY <1>1, <2>1, SizeAssumption DEF Finish, IInv, TypeOK, BufferBounded
<1>2. CASE rest # <<>> /\ Keep
  BY <1>2, KeepBounded
<1>3. CASE rest # <<>> /\ Handle
  <2>1. PICK size \in Announced :
          handled' = Append(handled, Number(size)) /\ rest' = Left(size)
    BY <1>3 DEF Handle
  <2>2. size \in 0 .. MaxSize
    BY <1>3, AnnouncedBound DEF IInv, TypeOK
  <2>3. Number(size) \in Nat
    <3>1. rest[1] \in Cell
      BY <1>3 DEF IInv, TypeOK
    <3> QED
      BY <3>1 DEF Number, Cell
  <2>4. handled' \in Seq(Nat)
    BY <2>1, <2>3 DEF IInv, TypeOK
  <2> QED
    BY <1>3, <2>1, <2>2, <2>4, LeftType DEF Handle, RecBuf, IInv, TypeOK, BufferBounded
<1>4. CASE rest # <<>> /\ Drop
  <2>1. PICK size \in Announced : rest' = Left(size)
    BY <1>4 DEF Drop
  <2>2. size \in 0 .. MaxSize
    BY <1>4, AnnouncedBound DEF IInv, TypeOK
  <2> QED
    BY <1>4, <2>1, <2>2, LeftType DEF Drop, RecBuf, IInv, TypeOK, BufferBounded
<1>5. CASE Short
  BY <1>5 DEF Short, IInv, TypeOK, BufferBounded
<1> QED
  BY <1>1, <1>2, <1>3, <1>4, <1>5 DEF RecBuf

(* Types and the bound hold in every state.                                *)
LEMMA Invariant == Spec => []IInv
<1>1. IInv /\ UNCHANGED vars => IInv'
  BY DEF IInv, TypeOK, BufferBounded, vars
<1>2. IInv /\ [Next]_vars => IInv'
  BY <1>1, SendKeeps, ReadKeeps, RecBufKeeps DEF Next
<1> QED
  BY InitBounded, <1>2, PTL DEF Spec

(* The buffers hold cells, and what one call has to parse is bounded       *)
(* (RecBuf, appendData2Buffer).                                            *)
THEOREM TypeCorrect == Spec => []TypeOK
  BY Invariant, PTL DEF IInv

(* Between reads a connection keeps less than the largest package,         *)
(* whatever arrives and whatever overwritten memory holds (RecBuf).        *)
THEOREM BufferStaysBounded == Spec => []BufferBounded
  BY Invariant, PTL DEF IInv

(***************************************************************************)
(* The order of frames.                                                    *)
(***************************************************************************)

(* What is still to be handled: the half package or what is being parsed,  *)
(* then what was not read yet.                                             *)
Held == IF pc = "idle" THEN buffer ELSE rest
Pending == Held \o net

(* Cells that are not junk belong to a frame that was sent, ...            *)
Sound(ss, s) ==
  \A i \in 1 .. Len(s) :
    s[i].frame # 0 => /\ s[i].frame \in 1 .. Len(ss)
                      /\ s[i].size = ss[s[i].frame]
                      /\ s[i].pos \in 1 .. s[i].size

(* ... stand in the order in which they were sent, ...                     *)
Earlier(c, d) == c.frame < d.frame \/ (c.frame = d.frame /\ c.pos < d.pos)
Rising(s) ==
  \A i, j \in 1 .. Len(s) :
    i < j /\ s[i].frame # 0 /\ s[j].frame # 0 => Earlier(s[i], s[j])

(* ... and are of later frames than those handled.                         *)
Later(h, s) ==
  \A k \in 1 .. Len(h), i \in 1 .. Len(s) :
    h[k] # 0 /\ s[i].frame # 0 => h[k] < s[i].frame

OrderInv ==
  /\ Sound(sent, Pending) /\ Rising(Pending) /\ Later(handled, Pending)
  /\ \A k \in 1 .. Len(handled) : handled[k] <= Len(sent)
  /\ InOrder

(***************************************************************************)
(* While every read ended a frame: the cells follow each other without a   *)
(* gap, from the first one of the next frame to the last one sent.         *)
(***************************************************************************)
First(ss, f) == [frame |-> f, pos |-> 1, size |-> ss[f]]
Runs(ss, s) ==
  \A i, j \in 1 .. Len(s) :
    /\ i <= j /\ s[i].pos + (j - i) <= s[i].size =>
         s[j] = [frame |-> s[i].frame, pos |-> s[i].pos + (j - i),
                 size |-> s[i].size]
    /\ i <= j /\ s[i].pos + (j - i) = s[i].size + 1 => s[j] = First(ss, s[i].frame + 1)

Whole(ss, h, s) ==
  /\ Runs(ss, s)
  /\ s = <<>> => Len(h) = Len(ss)
  /\ s # <<>> => /\ s[1] = First(ss, Len(h) + 1)
                 /\ EndsFrame(s) /\ s[Len(s)].frame = Len(ss)
  /\ \A k \in 1 .. Len(h) : h[k] = k

WholeInv ==
  whole => /\ buffer = <<>> /\ pc # "crashed"
           /\ pc = "idle" => rest = <<>>
           /\ rest # <<>> => EndsFrame(rest)
           /\ Whole(sent, handled, Pending)

(* What is left when n cells are dropped and some are overwritten.         *)
Thinned(s, t) ==
  \E n \in Nat :
    /\ Len(s) = Len(t) + n
    /\ \A i \in 1 .. Len(t) : t[i] = s[i + n] \/ t[i].frame = 0

(* Cells of a sequence of cells.                                           *)
LEMMA CellsOf ==
  ASSUME NEW s \in Seq(Cell)
  PROVE  /\ Len(s) \in Nat
         /\ \A i \in 1 .. Len(s) : /\ s[i] \in Cell /\ s[i].frame \in Nat
                                   /\ s[i].pos \in Nat /\ s[i].size \in Nat
  <1>1. \A i \in 1 .. Len(s) : s[i] \in Cell
    OBVIOUS
  <1> QED
    BY <1>1, SizeAssumption DEF Cell

(* The cells of two sequences, one after the other.                        *)
LEMMA Joined ==
  ASSUME NEW s \in Seq(Cell), NEW t \in Seq(Cell)
  PROVE  /\ s \o t \in Seq(Cell)
         /\ Len(s \o t) = Len(s) + Len(t)
         /\ \A i \in 1 .. Len(s) : (s \o t)[i] = s[i]
         /\ \A i \in 1 .. Len(t) : (s \o t)[Len(s) + i] = t[i]
         /\ \A i \in 1 .. Len(s) + Len(t) :
              (s \o t)[i] = IF i <= Len(s) THEN s[i] ELSE t[i - Len(s)]
<1>1. /\ s \o t \in Seq(Cell) /\ Len(s \o t) = Len(s) + Len(t)
      /\ \A i \in 1 .. Len(s) + Len(t) :
           (s \o t)[i] = IF i <= Len(s) THEN s[i] ELSE t[i - Len(s)]
  BY ConcatProperties
<1>2. Len(s) \in Nat /\ Len(t) \in Nat
  OBVIOUS
<1> HIDE DEF Cell
<1> QED
  BY <1>1, <1>2

(* The arithmetic of dropping the first n of a cells before b others.      *)
LEMMA Shift ==
  ASSUME NEW a \in Nat, NEW b \in Nat, NEW n \in 0 .. a, NEW i \in 1 .. (a - n) + b
  PROVE  /\ i + n \in 1 .. a + b
         /\ i <= a - n \/ i > a - n
         /\ i <= a - n => i \in 1 .. a - n /\ i + n <= a
         /\ i > a - n => ~(i <= a - n) /\ ~(i + n <= a) /\ (i + n) - a = i - (a - n)
  OBVIOUS

(* Dropping the first n cells.                                             *)
LEMMA Dropped ==
  ASSUME NEW s \in Seq(Cell), NEW n \in 0 .. Len(s)
  PROVE  LET r == SubSeq(s, n + 1, Len(s))
         IN  /\ r \in Seq(Cell) /\ Len(r) = Len(s) - n
             /\ \A i \in 1 .. Len(s) - n : r[i] = s[i + n]
<1> DEFINE r == SubSeq(s, n + 1, Len(s))
<1>1. r \in Seq(Cell) /\ Len(r) = Len(s) - n
  OBVIOUS
<1>2. \A i \in 1 .. Len(r) : r[i] = s[i + n]
  BY <1>1
<1> QED
  BY <1>1, <1>2

(* Dropping the first n of the cells still to be parsed.                   *)
LEMMA Advanced ==
  ASSUME NEW s \in Seq(Cell), NEW t \in Seq(Cell), NEW n \in 0 .. Len(s)
  PROVE  LET q == SubSeq(s, n + 1, Len(s)) \o t
         IN  /\ Len(q) = Len(s \o t) - n
             /\ \A i \in 1 .. Len(q) : q[i] = (s \o t)[i + n]
<1> DEFINE r == SubSeq(s, n + 1, Len(s))
<1>1. /\ r \in Seq(Cell) /\ Len(r) = Len(s) - n
      /\ \A i \in 1 .. Len(r) : r[i] = s[i + n]
  BY Dropped
<1>2. Len(s) \in Nat /\ Len(t) \in Nat /\ n \in 0 .. Len(s)
  OBVIOUS
<1>3. /\ Len(r \o t) = Len(r) + Len(t)
      /\ \A i \in 1 .. Len(r) + Len(t) :
           (r \o t)[i] = IF i <= Len(r) THEN r[i] ELSE t[i - Len(r)]
  BY <1>1, Joined
<1>4. /\ Len(s \o t) = Len(s) + Len(t)
      /\ \A i \in 1 .. Len(s) + Len(t) :
           (s \o t)[i] = IF i <= Len(s) THEN s[i] ELSE t[i - Len(s)]
  BY Joined
<1> DEFINE rt == r \o t
           st == s \o t
<1> HIDE DEF r, rt, st
<1>5. Len(rt) = Len(st) - n /\ \A i \in 1 .. Len(rt) : rt[i] = st[i + n]
  <2>1. /\ Len(rt) = Len(r) + Len(t)
        /\ \A i \in 1 .. Len(r) + Len(t) : rt[i] = IF i <= Len(r) THEN r[i] ELSE t[i - Len(r)]
        /\ Len(st) = Len(s) + Len(t)
        /\ \A i \in 1 .. Len(s) + Len(t) : st[i] = IF i <= Len(s) THEN s[i] ELSE t[i - Len(s)]
    BY <1>3, <1>4 DEF rt, st
  <2>2. Len(rt) = Len(st) - n
    BY <1>1, <1>2, <2>1
  <2>3. ASSUME NEW i \in 1 .. Len(rt) PROVE rt[i] = st[i + n]
    <3>0. /\ i + n \in 1 .. Len(s) + Len(t) /\ i \in 1 .. Len(r) + Len(t)
          /\ i <= Len(r) \/ i > Len(r)
          /\ i <= Len(r) => i \in 1 .. Len(r) /\ i + n <= Len(s)
          /\ i > Len(r) => /\ ~(i <= Len(r)) /\ ~(i + n <= Len(s))
                           /\ (i + n) - Len(s) = i - Len(r)
      <4>1. Len(r) = Len(s) - n /\ i \in 1 .. Len(r) + Len(t)
        BY <1>1, <2>1
      <4>2. i \in 1 .. (Len(s) - n) + Len(t)
        BY <4>1
      <4>3. LET d == Len(s) - n
            IN  /\ i + n \in 1 .. Len(s) + Len(t)
                /\ i <= d \/ i > d
                /\ i <= d => i \in 1 .. d /\ i + n <= Len(s)
                /\ i > d => ~(i <= d) /\ ~(i + n <= Len(s)) /\ (i + n) - Len(s) = i - d
        BY <1>2, <4>2, Shift
      <4> QED
        BY <4>1, <4>3
    <3>1. CASE i <= Len(r)
      <4>1. rt[i] = r[i]
        BY <2>1, <3>0, <3>1
      <4>2. st[i + n] = s[i + n]
        BY <2>1, <3>0, <3>1
      <4> QED
        BY <1>1, <3>0, <3>1, <4>1, <4>2
    <3>2. CASE i > Len(r)
      <4>1. rt[i] = t[i - Len(r)]
        BY <2>1, <3>0, <3>2
      <4>2. st[i + n] = t[(i + n) - Len(s)]
        BY <2>1, <3>0, <3>2
      <4> QED
        BY <3>0, <3>2, <4>1, <4>2
    <3> QED
      BY <3>0, <3>1, <3>2
  <2> QED
    BY <2>2, <2>3
<1> QED
  BY <1>5 DEF r, rt, st

(* Thinning keeps the order.                                               *)
LEMMA ThinnedOrder ==
  ASSUME NEW s \in Seq(Cell), NEW t \in Seq(Cell), Thinned(s, t),
         NEW ss, NEW h, Sound(ss, s), Rising(s), Later(h, s)
  PROVE  Sound(ss, t) /\ Rising(t) /\ Later(h, t)
<1>1. PICK n \in Nat : /\ Len(s) = Len(t) + n
                       /\ \A i \in 1 .. Len(t) : t[i] = s[i + n] \/ t[i].frame = 0
  BY DEF Thinned
<1>2. Len(s) \in Nat /\ Len(t) \in Nat
  OBVIOUS
<1>3. \A i \in 1 .. Len(t) : i + n \in 1 .. Len(s)
  BY <1>1, <1>2
<1>4. Sound(ss, t)
  BY <1>1, <1>3 DEF Sound
<1>5. Rising(t)
  <2> SUFFICES ASSUME NEW i \in 1 .. Len(t), NEW j \in 1 .. Len(t), i < j,
                      t[i].frame # 0, t[j].frame # 0
               PROVE  Earlier(t[i], t[j])
    BY DEF Rising
  <2>1. i + n < j + n /\ t[i] = s[i + n] /\ t[j] = s[j + n]
    BY <1>1
  <2> QED
    BY <1>3, <2>1 DEF Rising
<1>6. Later(h, t)
  BY <1>1, <1>3 DEF Later
<1> QED
  BY <1>4, <1>5, <1>6

(* What is pending is a sequence of cells.                                 *)
LEMMA PendingType ==
  ASSUME IInv
  PROVE  Held \in Seq(Cell) /\ net \in Seq(Cell) /\ Pending \in Seq(Cell)
<1>1. Held \in Seq(Cell) /\ net \in Seq(Cell)
  BY DEF IInv, TypeOK, Held
<1> QED
  BY <1>1, Joined DEF Pending

(* A frame sent is appended to what is pending.                            *)
LEMMA SendPending ==
  ASSUME IInv, NEW size \in Size, Send(size)
  PROVE  LET f == Len(sent) + 1
         IN  /\ Len(sent') = f /\ sent'[f] = size
             /\ \A k \in 1 .. Len(sent) : sent'[k] = sent[k]
             /\ Len(Pending') = Len(Pending) + size
             /\ \A i \in 1 .. Len(Pending') :
                  Pending'[i] = IF i <= Len(Pending) THEN Pending[i]
                                ELSE [frame |-> f, pos |-> i - Len(Pending), size |-> size]
<1> DEFINE f == Len(sent) + 1
           fr == Frame(f, size)
<1>1. f \in Nat /\ size \in 1 .. MaxSize /\ Size \subseteq Nat /\ size \in Nat
  BY SizeAssumption DEF IInv, TypeOK
<1>2. /\ fr \in Seq(Cell) /\ Len(fr) = size
      /\ \A k \in 1 .. size : fr[k] = [frame |-> f, pos |-> k, size |-> size]
  BY <1>1, FrameType DEF Frame
<1>3. sent \in Seq(Size) /\ sent' = Append(sent, size)
  BY DEF Send, IInv, TypeOK
<1>4. /\ sent' \in Seq(Size) /\ Len(sent') = f /\ sent'[f] = size
      /\ \A k \in 1 .. Len(sent) : sent'[k] = sent[k]
  BY <1>3, AppendProperties
<1>6. Held' = Held /\ net' = net \o fr
  BY DEF Send, Held
<1> HIDE DEF f, fr
<1>7. Held \in Seq(Cell) /\ net \in Seq(Cell) /\ Len(Held) \in Nat /\ Len(net) \in Nat
  BY PendingType
<1>8. /\ net' \in Seq(Cell) /\ Len(net') = Len(net) + size
      /\ \A i \in 1 .. Len(net) + size : net'[i] = IF i <= Len(net) THEN net[i] ELSE fr[i - Len(net)]
  BY <1>2, <1>6, <1>7, Joined
<1>9. /\ Len(Pending) = Len(Held) + Len(net)
      /\ \A i \in 1 .. Len(Held) + Len(net) :
           Pending[i] = IF i <= Len(Held) THEN Held[i] ELSE net[i - Len(Held)]
  BY <1>7, Joined DEF Pending
<1>10. /\ Len(Pending') = Len(Held) + Len(net')
       /\ \A i \in 1 .. Len(Held) + Len(net') :
            Pending'[i] = IF i <= Len(Held) THEN Held[i] ELSE net'[i - Len(Held)]
  BY <1>6, <1>7, <1>8, Joined DEF Pending
<1>11. Len(Pending') = Len(Pending) + size
  BY <1>1, <1>7, <1>8, <1>9, <1>10
<1>12. ASSUME NEW i \in 1 .. Len(Pending')
       PROVE  Pending'[i] = IF i <= Len(Pending) THEN Pending[i]
                            ELSE [frame |-> f, pos |-> i - Len(Pending), size |-> size]
  <2>1. CASE i <= Len(Held)
    BY <1>7, <1>8, <1>9, <1>10, <2>1
  <2>2. CASE i > Len(Held) /\ i <= Len(Pending)
    <3>1. i - Len(Held) \in 1 .. Len(net)
      BY <1>7, <1>9, <2>2
    <3>2. Pending'[i] = net'[i - Len(Held)] /\ Pending[i] = net[i - Len(Held)]
      BY <1>7, <1>8, <1>9, <1>10, <2>2
    <3>3. net'[i - Len(Held)] = net[i - Len(Held)]
      BY <1>1, <1>7, <1>8, <3>1
    <3> QED
      BY <2>2, <3>2, <3>3
  <2>3. CASE i > Len(Pending)
    <3>1. i - Len(Pending) \in 1 .. size /\ i - Len(Held) \in 1 .. Len(net')
          /\ i > Len(Held) /\ i - Len(Held) > Len(net)
          /\ (i - Len(Held)) - Len(net) = i - Len(Pending)
          /\ i - Len(Held) \in 1 .. Len(net) + size
          /\ ~(i - Len(Held) <= Len(net))
      BY <1>1, <1>7, <1>8, <1>9, <1>11, <2>3
    <3>2. Pending'[i] = net'[i - Len(Held)]
      BY <1>7, <1>8, <1>10, <3>1
    <3>3. net'[i - Len(Held)] = fr[i - Len(Pending)]
      BY <1>8, <3>1
    <3>4. fr[i - Len(Pending)] =
            [frame |-> f, pos |-> i - Len(Pending), size |-> size]
      BY <1>2, <3>1
    <3>5. Pending'[i] = [frame |-> f, pos |-> i - Len(Pending), size |-> size]
      BY <3>2, <3>3, <3>4
    <3>6. ~(i <= Len(Pending))
      BY <1>7, <1>9, <2>3
    <3> QED
      BY <3>5, <3>6
  <2> QED
    BY <1>7, <1>9, <2>1, <2>2, <2>3
<1> QED
  BY <1>4, <1>11, <1>12 DEF f

(* Reading moves cells, or overwrites them with what memory held.          *)
LEMMA ReadPending ==
  ASSUME IInv, NEW n \in 1 .. Chunk, Read(n)
  PROVE  /\ buffer = <<>> /\ buffer' = <<>> => Pending' = Pending
         /\ Thinned(Pending, Pending')
<1> DEFINE msg == SubSeq(net, 1, n)
           r == SubSeq(net, n + 1, Len(net))
<1>0. Len(net) \in Nat /\ net \in Seq(Cell) /\ n \in 1 .. Len(net) /\ n \in Nat
  BY BoundAssumption DEF Read, IInv, TypeOK
<1>1. pc = "idle" /\ net' = r /\ Held = buffer
  BY DEF Read, Held
<1>2. /\ msg \in Seq(Cell) /\ Len(msg) = n
      /\ \A i \in 1 .. n : msg[i] = net[i]
  BY <1>0
<1>3. /\ r \in Seq(Cell) /\ Len(r) = Len(net) - n
      /\ \A i \in 1 .. Len(net) - n : r[i] = net[i + n]
  BY <1>0
<1>4. buffer \in Seq(Cell) /\ Len(buffer) \in Nat
  BY DEF IInv, TypeOK
<1> HIDE DEF msg, r
<1>5. ASSUME buffer = <<>> PROVE pc' = "parsing" /\ Pending' = Pending
  <2>1. rest' = msg /\ pc' = "parsing"
    BY <1>5 DEF Read, msg
  <2>2. Pending = net
    BY <1>0, <1>1, <1>5 DEF Pending
  <2>3. Pending' = msg \o r
    BY <1>1, <2>1 DEF Pending, Held
  <2>4. /\ Len(msg \o r) = n + (Len(net) - n) /\ msg \o r \in Seq(Cell)
        /\ \A i \in 1 .. n + (Len(net) - n) :
             (msg \o r)[i] = IF i <= n THEN msg[i] ELSE r[i - n]
    <3>1. /\ Len(msg \o r) = Len(msg) + Len(r) /\ msg \o r \in Seq(Cell)
          /\ \A i \in 1 .. Len(msg) + Len(r) :
               (msg \o r)[i] = IF i <= Len(msg) THEN msg[i] ELSE r[i - Len(msg)]
      BY <1>2, <1>3, Joined
    <3>2. Len(msg) = n /\ Len(r) = Len(net) - n
      BY <1>2, <1>3
    <3> QED
      BY <3>1, <3>2, Zenon
  <2>5. Len(msg \o r) = Len(net)
    BY <1>0, <2>4
  <2>6. \A i \in 1 .. Len(net) : (msg \o r)[i] = net[i]
    <3> SUFFICES ASSUME NEW i \in 1 .. Len(net) PROVE (msg \o r)[i] = net[i]
      OBVIOUS
    <3>1. CASE i <= n
      BY <1>0, <1>2, <2>4, <3>1
    <3>2. CASE i > n
      <4>1. (msg \o r)[i] = r[i - n]
        BY <1>0, <2>4, <3>2
      <4>2. i - n \in 1 .. Len(net) - n /\ (i - n) + n = i
        BY <1>0, <3>2
      <4> QED
        BY <1>3, <4>1, <4>2
    <3>3. i <= n \/ i > n
      BY <1>0
    <3> QED
      BY <3>1, <3>2, <3>3
  <2>7. msg \o r = net
    BY <1>0, <2>4, <2>5, <2>6, SeqEqual
  <2> QED
    BY <2>1, <2>2, <2>3, <2>7
<1>6. ASSUME buffer # <<>>
      PROVE  Thinned(Pending, Pending')
  <2> DEFINE j == appendData2Buffer(msg)
  <2>1. Held' = j
    BY <1>6 DEF Read, Held, msg
  <2>2. j = buffer \o [k \in 1 .. n |-> Junk]
    BY <1>2 DEF appendData2Buffer
  <2>3. [k \in 1 .. n |-> Junk] \in Seq(Cell) /\ Len([k \in 1 .. n |-> Junk]) = n
    <3>1. Junk \in Cell
      BY SizeAssumption DEF Junk, Cell
    <3> QED
      BY <1>0, <3>1
  <2>4. /\ j \in Seq(Cell) /\ Len(j) = Len(buffer) + n
        /\ \A i \in 1 .. Len(buffer) : j[i] = buffer[i]
        /\ \A i \in 1 .. n : j[Len(buffer) + i] = Junk
    <3>1. \A i \in 1 .. n : [k \in 1 .. n |-> Junk][i] = Junk
      OBVIOUS
    <3> QED
      BY <1>4, <2>2, <2>3, <3>1, Joined
  <2> HIDE DEF j
  <2>5. /\ Len(Pending) = Len(buffer) + Len(net)
        /\ \A i \in 1 .. Len(buffer) + Len(net) :
             Pending[i] = IF i <= Len(buffer) THEN buffer[i] ELSE net[i - Len(buffer)]
    BY <1>0, <1>1, <1>4, Joined DEF Pending
  <2>6. /\ Len(Pending') = Len(j) + Len(r)
        /\ \A i \in 1 .. Len(j) + Len(r) :
             Pending'[i] = IF i <= Len(j) THEN j[i] ELSE r[i - Len(j)]
    BY <1>1, <1>3, <2>1, <2>4, Joined DEF Pending
  <2>7. Len(Pending') = Len(Pending) /\ Len(Pending) \in Nat
    BY <1>0, <1>3, <1>4, <2>4, <2>5, <2>6
  <2>8. ASSUME NEW i \in 1 .. Len(Pending)
        PROVE  Pending'[i] = Pending[i] \/ Pending'[i].frame = 0
    <3>1. CASE i <= Len(buffer)
      BY <1>0, <1>4, <2>4, <2>5, <2>6, <2>7, <3>1
    <3>2. CASE i > Len(buffer) /\ i <= Len(j)
      <4>1. i - Len(buffer) \in 1 .. n /\ Len(buffer) + (i - Len(buffer)) = i
        BY <1>0, <1>4, <2>4, <3>2
      <4>2. j[i] = Junk
        BY <2>4, <4>1
      <4>3. Pending'[i] = j[i]
        BY <2>6, <2>7, <3>2
      <4> QED
        BY <4>2, <4>3 DEF Junk
    <3>3. CASE i > Len(j)
      <4>1. i - Len(j) \in 1 .. Len(net) - n /\ (i - Len(j)) + n = i - Len(buffer)
            /\ i > Len(buffer)
        BY <1>0, <1>3, <1>4, <2>4, <2>5, <3>3
      <4>2. Pending'[i] = r[i - Len(j)] /\ Pending[i] = net[i - Len(buffer)]
        BY <1>0, <1>4, <2>4, <2>5, <2>6, <2>7, <3>3, <4>1
      <4> QED
        BY <1>3, <4>1, <4>2
    <3> QED
      BY <1>4, <2>4, <3>1, <3>2, <3>3
  <2>9. /\ 0 \in Nat /\ Len(Pending) = Len(Pending') + 0
        /\ \A i \in 1 .. Len(Pending') :
             Pending'[i] = Pending[i + 0] \/ Pending'[i].frame = 0
    <3>1. \A i \in 1 .. Len(Pending') : i + 0 = i
      BY <2>7
    <3> QED
      BY <2>7, <2>8, <3>1
  <2> QED
    BY <2>9 DEF Thinned
<1>7. Thinned(Pending, Pending)
  <2>1. Len(Pending) \in Nat
    BY PendingType
  <2>2. /\ 0 \in Nat /\ Len(Pending) = Len(Pending) + 0
        /\ \A i \in 1 .. Len(Pending) : i + 0 = i
    BY <2>1
  <2> QED
    BY <2>2 DEF Thinned
<1> QED
  BY <1>5, <1>6, <1>7

(* Keeping a half package, a crash and the end of the loop drop nothing.   *)
LEMMA LoopPending ==
  ASSUME IInv, RecBuf
  PROVE  /\ Finish \/ Keep \/ Short =>
              Pending' = Pending /\ UNCHANGED <<sent, handled, whole>>
         /\ \A n \in 0 .. Len(rest) : rest' = Left(n) /\ UNCHANGED <<net, pc>> =>
              /\ Len(Pending') = Len(Pending) - n
              /\ \A i \in 1 .. Len(Pending') : Pending'[i] = Pending[i + n]
<1>1. pc = "parsing" /\ Held = rest
  BY DEF RecBuf, Held
<1>2. Finish \/ Keep \/ Short =>
        Pending' = Pending /\ UNCHANGED <<sent, handled, whole>>
  BY <1>1 DEF Finish, Keep, Short, Pending, Held
<1>3. ASSUME NEW n \in 0 .. Len(rest), rest' = Left(n), UNCHANGED <<net, pc>>
      PROVE  /\ Len(Pending') = Len(Pending) - n
             /\ \A i \in 1 .. Len(Pending') : Pending'[i] = Pending[i + n]
  <2>1. rest \in Seq(Cell) /\ net \in Seq(Cell)
    BY DEF IInv, TypeOK
  <2>2. Held' = rest' /\ Pending' = rest' \o net /\ Pending = rest \o net
    BY <1>1, <1>3 DEF Held, Pending
  <2>3. rest' = SubSeq(rest, n + 1, Len(rest))
    BY <1>3 DEF Left
  <2>4. /\ Len(rest' \o net) = Len(rest \o net) - n
        /\ \A i \in 1 .. Len(rest' \o net) : (rest' \o net)[i] = (rest \o net)[i + n]
    <3> DEFINE q == SubSeq(rest, n + 1, Len(rest))
    <3>1. n \in 0 .. Len(rest)
      BY <1>3
    <3>2. /\ Len(q \o net) = Len(rest \o net) - n
          /\ \A i \in 1 .. Len(q \o net) : (q \o net)[i] = (rest \o net)[i + n]
      BY <2>1, <3>1, Advanced
    <3>3. rest' = q
      BY <2>3
    <3> HIDE DEF q
    <3> QED
      BY <3>2, <3>3
  <2> QED
    BY <2>2, <2>4
<1> QED
  BY <1>2, <1>3

(* At first nothing is pending.                                            *)
LEMMA InitOrder == Init => OrderInv
<1> SUFFICES ASSUME Init PROVE OrderInv
  OBVIOUS
<1>1. Pending = <<>> \o <<>> /\ handled = <<>>
  BY DEF Init, Pending, Held
<1>2. <<>> \o <<>> = <<>> /\ Len(<<>>) = 0
  OBVIOUS
<1>3. Len(Pending) = 0 /\ Len(handled) = 0
  BY <1>1, <1>2
<1> QED
  BY <1>3 DEF OrderInv, Sound, Rising, Later, InOrder

(* A frame sent is later than everything pending or handled.               *)
LEMMA SendOrder ==
  ASSUME IInv, OrderInv, NEW size \in Size, Send(size)
  PROVE  OrderInv'
<1> DEFINE f == Len(sent) + 1
           p == Pending
           q == Pending'
<1>1. /\ Len(sent') = f /\ sent'[f] = size
      /\ \A k \in 1 .. Len(sent) : sent'[k] = sent[k]
      /\ Len(q) = Len(p) + size
      /\ \A i \in 1 .. Len(q) :
           q[i] = IF i <= Len(p) THEN p[i]
                  ELSE [frame |-> f, pos |-> i - Len(p), size |-> size]
  BY SendPending
<1>2. Len(sent) \in Nat /\ Len(p) \in Nat /\ size \in Nat
  BY PendingType, SizeAssumption DEF IInv, TypeOK
<1>3. \A i \in 1 .. Len(p) : p[i].frame \in Nat
  BY PendingType, CellsOf
<1>4. handled' = handled /\ \A k \in 1 .. Len(handled) : handled[k] \in Nat
  BY DEF Send, IInv, TypeOK
<1>5. /\ Sound(sent, p) /\ Rising(p) /\ Later(handled, p)
      /\ \A k \in 1 .. Len(handled) : handled[k] <= Len(sent)
      /\ InOrder
  BY DEF OrderInv
<1> HIDE DEF f, p, q
<1>6. f \in Nat /\ f > Len(sent) /\ f # 0
  BY <1>2 DEF f
<1>7. ASSUME NEW i \in 1 .. Len(q)
      PROVE  \/ i \in 1 .. Len(p) /\ q[i] = p[i]
             \/ /\ i > Len(p) /\ i - Len(p) \in 1 .. size
                /\ q[i].frame = f /\ q[i].pos = i - Len(p) /\ q[i].size = size
  BY <1>1, <1>2
<1>8. Sound(sent', q)
  <2> SUFFICES ASSUME NEW i \in 1 .. Len(q), q[i].frame # 0
               PROVE  /\ q[i].frame \in 1 .. Len(sent')
                      /\ q[i].size = sent'[q[i].frame]
                      /\ q[i].pos \in 1 .. q[i].size
    BY DEF Sound
  <2>1. CASE i \in 1 .. Len(p) /\ q[i] = p[i]
    <3>1. /\ p[i].frame \in 1 .. Len(sent)
          /\ p[i].size = sent[p[i].frame]
          /\ p[i].pos \in 1 .. p[i].size
      BY <1>5, <2>1 DEF Sound
    <3>2. p[i].frame \in 1 .. Len(sent')
      BY <1>1, <1>2, <3>1 DEF f
    <3> QED
      BY <1>1, <2>1, <3>1, <3>2
  <2>2. CASE /\ i - Len(p) \in 1 .. size
             /\ q[i].frame = f /\ q[i].pos = i - Len(p) /\ q[i].size = size
    BY <1>1, <1>2, <1>6, <2>2
  <2> QED
    BY <1>7, <2>1, <2>2
<1>9. Rising(q)
  <2> SUFFICES ASSUME NEW i \in 1 .. Len(q), NEW j \in 1 .. Len(q), i < j,
                      q[i].frame # 0, q[j].frame # 0
               PROVE  Earlier(q[i], q[j])
    BY DEF Rising
  <2>1. CASE j \in 1 .. Len(p) /\ q[j] = p[j]
    <3>1. i \in 1 .. Len(p) /\ q[i] = p[i]
      BY <1>2, <1>7, <2>1
    <3> QED
      BY <1>5, <2>1, <3>1 DEF Rising
  <2>2. CASE q[j].frame = f /\ q[j].pos = j - Len(p) /\ j > Len(p)
    <3>1. CASE i \in 1 .. Len(p) /\ q[i] = p[i]
      <4>1. p[i].frame \in 1 .. Len(sent)
        BY <1>5, <3>1 DEF Sound
      <4> QED
        BY <1>2, <1>6, <2>2, <3>1, <4>1 DEF Earlier
    <3>2. CASE q[i].frame = f /\ q[i].pos = i - Len(p)
      BY <1>2, <2>2, <3>2 DEF Earlier
    <3> QED
      BY <1>7, <3>1, <3>2
  <2> QED
    BY <1>7, <2>1, <2>2
<1>10. Later(handled, q)
  <2> SUFFICES ASSUME NEW k \in 1 .. Len(handled), NEW i \in 1 .. Len(q),
                      handled[k] # 0, q[i].frame # 0
               PROVE  handled[k] < q[i].frame
    BY DEF Later
  <2>1. CASE i \in 1 .. Len(p) /\ q[i] = p[i]
    BY <1>5, <2>1 DEF Later
  <2>2. CASE q[i].frame = f
    <3>1. handled[k] \in Nat /\ handled[k] <= Len(sent)
      BY <1>4, <1>5
    <3> QED
      BY <1>2, <1>6, <2>2, <3>1
  <2> QED
    BY <1>7, <2>1, <2>2
<1>11. \A k \in 1 .. Len(handled) : handled[k] <= Len(sent')
  <2>1. \A k \in 1 .. Len(handled) : handled[k] \in Nat /\ handled[k] <= Len(sent)
    BY <1>4, <1>5
  <2> QED
    BY <1>1, <1>2, <1>6, <2>1
<1> QED
  BY <1>4, <1>5, <1>8, <1>9, <1>10, <1>11 DEF OrderInv, InOrder, p, q

(* A step that handles nothing keeps the order.                            *)
LEMMA ThinnedInv ==
  ASSUME IInv, IInv', OrderInv, Thinned(Pending, Pending'), UNCHANGED <<sent, handled>>
  PROVE  OrderInv'
<1>1. Pending \in Seq(Cell) /\ Pending' \in Seq(Cell)
  <2>1. Held' \in Seq(Cell) /\ net' \in Seq(Cell)
    BY DEF IInv, TypeOK, Held
  <2> QED
    BY <2>1, PendingType, Joined DEF Pending
<1>2. Sound(sent, Pending') /\ Rising(Pending') /\ Later(handled, Pending')
  BY <1>1, ThinnedOrder DEF OrderInv
<1> QED
  BY <1>2 DEF OrderInv, InOrder

(* What is pending after a package is thinner than before.                 *)
LEMMA CutThinned ==
  ASSUME IInv, NEW n \in Nat, Len(Pending') = Len(Pending) - n,
         Pending' \in Seq(Cell),
         \A i \in 1 .. Len(Pending') : Pending'[i] = Pending[i + n]
  PROVE  Thinned(Pending, Pending')
<1>1. Len(Pending) \in Nat /\ Len(Pending') \in Nat
  BY PendingType, LenProperties
<1>2. Len(Pending) = Len(Pending') + n
  BY <1>1
<1> QED
  BY <1>2 DEF Thinned

(* What a package leaves pending.                                          *)
LEMMA PackageCut ==
  ASSUME IInv, IInv', RecBuf, rest # <<>>, NEW size \in Announced, ~Half(size),
         rest' = Left(size), UNCHANGED <<net, pc>>
  PROVE  /\ Pending' \in Seq(Cell) /\ Len(Pending') = Len(Pending) - size
         /\ \A i \in 1 .. Len(Pending') : Pending'[i] = Pending[i + size]
         /\ Thinned(Pending, Pending')
<1>1. size \in 0 .. Len(rest) /\ size \in Nat
  <2>1. size \in 0 .. MaxSize /\ Len(rest) \in Nat
    BY AnnouncedBound DEF IInv, TypeOK
  <2> QED
    BY <2>1, SizeAssumption DEF Half
<1>2. /\ Len(Pending') = Len(Pending) - size
      /\ \A i \in 1 .. Len(Pending') : Pending'[i] = Pending[i + size]
  BY <1>1, LoopPending
<1>3. Pending' \in Seq(Cell)
  <2>1. Held' \in Seq(Cell) /\ net' \in Seq(Cell)
    BY DEF IInv, TypeOK, Held
  <2> QED
    BY <2>1, Joined DEF Pending
<1> QED
  BY <1>1, <1>2, <1>3, CutThinned

(* The cells of a package handled as frame f end that frame: what is left  *)
(* is of later frames.                                                     *)
LEMMA LeftIsLater ==
  ASSUME IInv, OrderInv, RecBuf, rest # <<>>,
         NEW size \in Announced, ~Half(size), Number(size) # 0,
         Pending' \in Seq(Cell), Len(Pending') = Len(Pending) - size,
         \A i \in 1 .. Len(Pending') : Pending'[i] = Pending[i + size]
  PROVE  /\ Number(size) \in 1 .. Len(sent)
         /\ \A k \in 1 .. Len(handled) : handled[k] # 0 => handled[k] < Number(size)
         /\ \A i \in 1 .. Len(Pending') :
              Pending'[i].frame # 0 => Number(size) < Pending'[i].frame
<1> DEFINE f == Number(size)
           p == Pending
<1>1. Held = rest /\ rest \in Seq(Cell) /\ net \in Seq(Cell) /\ p \in Seq(Cell)
  BY PendingType DEF RecBuf, Held
<1>2. /\ Len(rest) \in Nat /\ Len(net) \in Nat /\ Len(rest) # 0
      /\ Len(p) = Len(rest) + Len(net)
      /\ \A i \in 1 .. Len(rest) : p[i] = rest[i]
  <2>1. Len(rest) \in Nat /\ Len(net) \in Nat /\ Len(rest) # 0
    BY <1>1, EmptySeq, LenProperties
  <2> QED
    BY <1>1, <2>1, Joined DEF Pending
<1>3. f = rest[1].frame /\ SubSeq(rest, 1, size) = Frame(f, size) /\ f # 0
  BY DEF Number, Intact
<1>4. /\ Sound(sent, p) /\ Rising(p) /\ Later(handled, p)
  BY DEF OrderInv
<1> HIDE DEF f, p
<1>5. p[1] = rest[1] /\ 1 \in 1 .. Len(p)
  BY <1>2
<1>6. f \in 1 .. Len(sent) /\ rest[1].size = sent[f] /\ rest[1].pos \in 1 .. rest[1].size
  BY <1>3, <1>4, <1>5 DEF Sound
<1>7. size \in 1 .. Len(rest)
  <2>1. rest[1].size \in Nat
    BY <1>1, <1>2, CellsOf
  <2>2. size \in 1 .. MaxSize \/ size = rest[1].size
    BY DEF Announced
  <2>3. size \in Nat /\ size >= 1
    BY <1>6, <2>1, <2>2, SizeAssumption
  <2>4. ~(Len(rest) < size)
    BY DEF Half
  <2> QED
    BY <1>2, <2>3, <2>4
<1>8. p[size] = [frame |-> f, pos |-> size, size |-> size]
  <2>1. SubSeq(rest, 1, size)[size] = rest[size]
    BY <1>1, <1>7
  <2>2. Frame(f, size)[size] = [frame |-> f, pos |-> size, size |-> size]
    BY <1>7 DEF Frame
  <2> QED
    BY <1>2, <1>3, <1>7, <2>1, <2>2
<1>9. sent[f] = size
  <2>1. size \in 1 .. Len(p)
    BY <1>2, <1>7
  <2> QED
    BY <1>3, <1>4, <1>8, <2>1 DEF Sound
<1>10. \A k \in 1 .. Len(handled) : handled[k] # 0 => handled[k] < f
  BY <1>3, <1>4, <1>5 DEF Later
<1>11. ASSUME NEW i \in 1 .. Len(Pending'), Pending'[i].frame # 0
       PROVE  f < Pending'[i].frame
  <2>1. /\ Pending'[i] = p[i + size] /\ i + size \in 1 .. Len(p)
        /\ size \in 1 .. Len(p) /\ size < i + size
    BY <1>2, <1>7 DEF p
  <2>2. p[size].frame = f /\ p[size].pos = size
    BY <1>8
  <2>3. f < p[i + size].frame \/ (f = p[i + size].frame /\ size < p[i + size].pos)
    BY <1>3, <1>4, <1>11, <2>1, <2>2 DEF Rising, Earlier
  <2>4. p[i + size].size = sent[p[i + size].frame] /\ p[i + size].pos \in 1 .. p[i + size].size
    BY <1>4, <1>11, <2>1 DEF Sound
  <2>5. f # p[i + size].frame
    <3> SUFFICES ASSUME f = p[i + size].frame PROVE FALSE
      OBVIOUS
    <3>1. p[i + size].pos \in 1 .. size
      BY <1>9, <2>4
    <3>2. size < p[i + size].pos
      BY <1>6, <2>3
    <3> QED
      BY <1>2, <1>7, <3>1, <3>2
  <2> QED
    BY <2>1, <2>3, <2>5
<1> QED
  BY <1>6, <1>10, <1>11 DEF f

(* A package handled is of a later frame than those before it.             *)
LEMMA HandleOrder ==
  ASSUME IInv, IInv', OrderInv, RecBuf, rest # <<>>, Handle
  PROVE  OrderInv'
<1>1. PICK size \in Announced :
        ~Half(size) /\ handled' = Append(handled, Number(size)) /\ rest' = Left(size)
  BY DEF Handle, Parsed
<1> DEFINE g == Number(size)
           n == Len(handled)
<1>3. UNCHANGED <<net, pc>>
  BY DEF Handle
<1>4. /\ Pending' \in Seq(Cell) /\ Len(Pending') = Len(Pending) - size
      /\ \A i \in 1 .. Len(Pending') : Pending'[i] = Pending[i + size]
      /\ Thinned(Pending, Pending')
  BY <1>1, <1>3, PackageCut
<1>6. Sound(sent, Pending') /\ Rising(Pending') /\ Later(handled, Pending')
  BY <1>4, PendingType, ThinnedOrder DEF OrderInv
<1>7. n \in Nat /\ handled \in Seq(Nat) /\ Len(sent) \in Nat /\ sent' = sent
  BY DEF Handle, IInv, TypeOK
<1>8. g \in Nat
  <2>1. rest[1] \in Cell
    BY DEF IInv, TypeOK
  <2> QED
    BY <2>1 DEF Number, Cell
<1>9. g # 0 => /\ g \in 1 .. Len(sent)
               /\ \A k \in 1 .. n : handled[k] # 0 => handled[k] < g
               /\ \A i \in 1 .. Len(Pending') :
                    Pending'[i].frame # 0 => g < Pending'[i].frame
  BY <1>1, <1>4, LeftIsLater
<1>10. /\ Len(handled') = n + 1 /\ handled'[n + 1] = g
       /\ \A k \in 1 .. n : handled'[k] = handled[k]
  BY <1>1, <1>7, <1>8, AppendProperties
<1>12. /\ \A k \in 1 .. n : handled[k] <= Len(sent)
       /\ \A i, j \in 1 .. n :
            handled[i] # 0 /\ handled[j] # 0 /\ i < j => handled[i] < handled[j]
  BY DEF OrderInv, InOrder
<1> HIDE DEF g, n
<1>11. \A k \in 1 .. n + 1 : k \in 1 .. n \/ k = n + 1
  BY <1>7
<1>13. Later(handled', Pending')
  BY <1>6, <1>9, <1>10, <1>11 DEF Later, n
<1>14. \A k \in 1 .. n + 1 : handled'[k] <= Len(sent)
  BY <1>7, <1>9, <1>10, <1>11, <1>12
<1>15. InOrder'
  <2> SUFFICES ASSUME NEW i \in 1 .. n + 1, NEW j \in 1 .. n + 1,
                      handled'[i] # 0, handled'[j] # 0, i < j
               PROVE  handled'[i] < handled'[j]
    BY <1>10 DEF InOrder
  <2>1. i \in 1 .. n
    BY <1>7
  <2>2. CASE j \in 1 .. n
    BY <1>10, <1>12, <2>1, <2>2
  <2>3. CASE j = n + 1
    BY <1>9, <1>10, <2>1, <2>3
  <2> QED
    BY <1>11, <2>2, <2>3
<1> QED
  BY <1>6, <1>7, <1>10, <1>13, <1>14, <1>15 DEF OrderInv

(* The order survives every step.                                          *)
LEMMA OrderKept == IInv /\ IInv' /\ OrderInv /\ [Next]_vars => OrderInv'
<1> SUFFICES ASSUME IInv, IInv', OrderInv, [Next]_vars PROVE OrderInv'
  OBVIOUS
<1>1. ASSUME Pending' = Pending, UNCHANGED <<sent, handled>> PROVE OrderInv'
  BY <1>1 DEF OrderInv, InOrder
<1>2. ASSUME NEW size \in Size, Send(size) PROVE OrderInv'
  BY <1>2, SendOrder
<1>3. ASSUME NEW n \in 1 .. Chunk, Read(n) PROVE OrderInv'
  <2>0. sent' = sent /\ handled' = handled
    BY <1>3 DEF Read
  <2> QED
    BY <1>3, <2>0, ReadPending, ThinnedInv
<1>4. CASE RecBuf
  <2>1. CASE Finish \/ Keep \/ Short
    BY <1>1, <1>4, <2>1, LoopPending
  <2>2. CASE rest # <<>> /\ Handle
    BY <1>4, <2>2, HandleOrder
  <2>3. CASE rest # <<>> /\ Drop
    <3>1. PICK size \in Announced : ~Half(size) /\ rest' = Left(size)
      BY <2>3 DEF Drop
    <3>2. UNCHANGED <<net, pc, sent, handled>>
      BY <2>3 DEF Drop
    <3>3. Thinned(Pending, Pending')
      BY <1>4, <2>3, <3>1, <3>2, PackageCut
    <3> QED
      BY <3>2, <3>3, ThinnedInv
  <2> QED
    BY <1>4, <2>1, <2>2, <2>3 DEF RecBuf
<1>5. CASE UNCHANGED vars
  <2>1. Pending' = Pending /\ UNCHANGED <<sent, handled>>
    BY <1>5 DEF vars, Pending, Held
  <2> QED
    BY <1>1, <2>1
<1> QED
  BY <1>2, <1>3, <1>4, <1>5 DEF Next

(* However the stream is cut and damaged, frames are handled in the order  *)
(* in which they were sent, and none twice (RecBuf, ParseProto).           *)
THEOREM HandledInOrder == Spec => []InOrder
<1>1. OrderInv => InOrder
  BY DEF OrderInv
<1> QED
  BY InitOrder, OrderKept, Invariant, <1>1, PTL DEF Spec

(* What Runs says of two cells.                                            *)
LEMMA RunsAt ==
  ASSUME NEW ss, NEW s, Runs(ss, s), NEW i \in 1 .. Len(s), NEW j \in 1 .. Len(s), i <= j
  PROVE  /\ s[i].pos + (j - i) <= s[i].size =>
              s[j] = [frame |-> s[i].frame, pos |-> s[i].pos + (j - i), size |-> s[i].size]
         /\ s[i].pos + (j - i) = s[i].size + 1 => s[j] = First(ss, s[i].frame + 1)
  BY Zenon DEF Runs

(* The frame that is next when something is pending.                       *)
LEMMA NextFrame ==
  ASSUME IInv, OrderInv, Whole(sent, handled, Pending), Len(Pending) # 0
  PROVE  LET f == Len(handled) + 1
         IN  /\ f \in 1 .. Len(sent) /\ sent[f] \in Nat /\ sent[f] \in Full .. MaxSize
             /\ sent[f] >= 1
             /\ Pending[1] = [frame |-> f, pos |-> 1, size |-> sent[f]]
<1> DEFINE f == Len(handled) + 1
           p == Pending
<1>1. Len(p) \in Nat /\ Len(p) # 0 /\ f \in Nat /\ f # 0
  BY PendingType DEF IInv, TypeOK
<1>2. p # <<>>
  BY <1>1
<1>3. p[1] = [frame |-> f, pos |-> 1, size |-> sent[f]]
  BY <1>2 DEF Whole, First
<1>4. 1 \in 1 .. Len(p) /\ Sound(sent, p)
  BY <1>1 DEF OrderInv
<1> HIDE DEF p
<1>5. f \in 1 .. Len(sent)
  BY <1>1, <1>3, <1>4 DEF Sound
<1>6. sent[f] \in Full .. MaxSize
  <2>1. sent \in Seq(Size)
    BY DEF IInv, TypeOK
  <2>2. sent[f] \in Size
    BY <1>5, <2>1, ElementOfSeq
  <2> QED
    BY <2>2, SizeAssumption
<1> QED
  BY <1>3, <1>5, <1>6, SizeAssumption DEF p

(* A frame sent follows the last cell pending.                             *)
LEMMA SendRuns ==
  ASSUME IInv, OrderInv, Whole(sent, handled, Pending), NEW size \in Size, Send(size)
  PROVE  Runs(sent', Pending')
<1> DEFINE f == Len(sent) + 1
           p == Pending
           q == Pending'
           L == Len(p)
<1>1. /\ Len(sent') = f /\ sent'[f] = size
      /\ \A k \in 1 .. Len(sent) : sent'[k] = sent[k]
      /\ Len(q) = L + size
      /\ \A i \in 1 .. Len(q) :
           q[i] = IF i <= L THEN p[i]
                  ELSE [frame |-> f, pos |-> i - L, size |-> size]
  BY SendPending
<1>2. Len(sent) \in Nat /\ L \in Nat /\ size \in Nat /\ size >= 1
  BY PendingType, SizeAssumption DEF IInv, TypeOK
<1>3. \A i \in 1 .. L : p[i].frame \in Nat /\ p[i].pos \in Nat /\ p[i].size \in Nat
  BY PendingType, CellsOf
<1>4. /\ Sound(sent, p) /\ Runs(sent, p)
      /\ L # 0 => p[L].pos = p[L].size /\ p[L].frame = Len(sent)
  <2>1. L # 0 => p # <<>>
    BY <1>2
  <2> QED
    BY <2>1 DEF OrderInv, Whole, EndsFrame
<1> HIDE DEF f, p, q
<1>5. ASSUME NEW i \in 1 .. Len(q)
      PROVE  \/ i \in 1 .. L /\ q[i] = p[i]
             \/ /\ i > L /\ i - L \in 1 .. size
                /\ q[i] = [frame |-> f, pos |-> i - L, size |-> size]
  BY <1>1, <1>2
<1> SUFFICES ASSUME NEW i \in 1 .. Len(q), NEW j \in 1 .. Len(q), i <= j
             PROVE  /\ q[i].pos + (j - i) <= q[i].size =>
                         q[j] = [frame |-> q[i].frame, pos |-> q[i].pos + (j - i),
                                 size |-> q[i].size]
                    /\ q[i].pos + (j - i) = q[i].size + 1 =>
                         q[j] = First(sent', q[i].frame + 1)
  BY DEF Runs, q
<1>6. CASE j \in 1 .. L /\ q[j] = p[j]
  <2>1. i \in 1 .. L /\ q[i] = p[i]
    <3>1. i \in 1 .. L
      BY <1>1, <1>2, <1>6
    <3> QED
      BY <1>1, <3>1
  <2>2. /\ p[i].pos + (j - i) <= p[i].size =>
             p[j] = [frame |-> p[i].frame, pos |-> p[i].pos + (j - i),
                     size |-> p[i].size]
        /\ p[i].pos + (j - i) = p[i].size + 1 => p[j] = First(sent, p[i].frame + 1)
    BY <1>4, <1>6, <2>1, RunsAt
  <2>3. ASSUME p[j] = First(sent, p[i].frame + 1)
        PROVE  First(sent', p[i].frame + 1) = First(sent, p[i].frame + 1)
    <3>1. p[j].frame = p[i].frame + 1 /\ p[j].frame # 0
      BY <1>3, <2>1, <2>3 DEF First
    <3>2. p[j].frame \in 1 .. Len(sent)
      BY <1>4, <1>6, <3>1 DEF Sound
    <3> QED
      BY <1>1, <3>1, <3>2 DEF First
  <2> QED
    BY <1>6, <2>1, <2>2, <2>3
<1>7. CASE j > L /\ q[j] = [frame |-> f, pos |-> j - L, size |-> size] /\ j - L \in 1 .. size
  <2>1. CASE i \in 1 .. L /\ q[i] = p[i]
    <3> DEFINE x == p[i]
    <3>1. x.pos \in Nat /\ x.size \in Nat /\ x.frame \in Nat /\ i <= L /\ L \in 1 .. L
      BY <1>2, <1>3, <2>1
    <3>2. x.pos + (L - i) <= x.size =>
            p[L] = [frame |-> x.frame, pos |-> x.pos + (L - i), size |-> x.size]
      BY <1>4, <2>1, <3>1, RunsAt
    <3>3. p[L].pos = p[L].size /\ p[L].frame = Len(sent)
      BY <1>2, <1>4, <2>1
    <3> HIDE DEF x
    <3>4. x.pos + (L - i) <= x.size => x.pos + (L - i) = x.size /\ x.frame = Len(sent)
      BY <3>2, <3>3
    <3>5. ~(x.pos + (j - i) <= x.size)
      BY <1>2, <1>7, <3>1, <3>4
    <3>6. ASSUME x.pos + (j - i) = x.size + 1
          PROVE  j - L = 1 /\ x.frame + 1 = f
      <4>1. L \in Nat /\ j - L \in Nat /\ j - L >= 1 /\ j \in Nat /\ i \in Nat
        BY <1>2, <1>7
      <4>2. x.pos + (L - i) <= x.size
        BY <3>1, <3>6, <4>1
      <4>3. x.pos + (L - i) = x.size /\ x.frame = Len(sent)
        BY <3>4, <4>2
      <4>4. j - L = 1
        <5>1. x.pos \in Nat /\ x.size \in Nat
          BY <3>1
        <5>2. x.pos + (j - i) = (x.pos + (L - i)) + 1
          BY <3>6, <4>3
        <5> QED
          BY <4>1, <5>1, <5>2
      <4> QED
        BY <4>3, <4>4 DEF f
    <3>7. First(sent', f) = [frame |-> f, pos |-> 1, size |-> size]
      BY <1>1 DEF First
    <3> QED
      BY <1>7, <2>1, <3>5, <3>6, <3>7 DEF x
  <2>2. CASE i - L \in 1 .. size /\ q[i] = [frame |-> f, pos |-> i - L, size |-> size]
    <3>1. q[i].frame = f /\ q[i].pos = i - L /\ q[i].size = size
      BY <2>2
    <3>2. (i - L) + (j - i) = j - L /\ ~(j - L = size + 1)
      BY <1>2, <1>7
    <3> QED
      BY <1>7, <3>1, <3>2
  <2> QED
    BY <1>5, <2>1, <2>2
<1> QED
  BY <1>5, <1>6, <1>7

(* A frame sent leaves whole reads whole.                                  *)
LEMMA SendWhole ==
  ASSUME IInv, OrderInv, WholeInv, NEW size \in Size, Send(size)
  PROVE  WholeInv'
<1> SUFFICES ASSUME whole PROVE Whole(sent', handled, Pending')
  BY DEF Send, WholeInv, EndsFrame
<1> DEFINE f == Len(sent) + 1
           p == Pending
           q == Pending'
<1>1. /\ Len(sent') = f /\ sent'[f] = size
      /\ \A k \in 1 .. Len(sent) : sent'[k] = sent[k]
      /\ Len(q) = Len(p) + size
      /\ \A i \in 1 .. Len(q) :
           q[i] = IF i <= Len(p) THEN p[i]
                  ELSE [frame |-> f, pos |-> i - Len(p), size |-> size]
  BY SendPending
<1>2. Whole(sent, handled, p)
  BY DEF WholeInv
<1>3. Len(sent) \in Nat /\ Len(p) \in Nat /\ size \in Nat /\ size >= 1 /\ p \in Seq(Cell)
  BY PendingType, SizeAssumption DEF IInv, TypeOK
<1>4. Runs(sent', q)
  BY <1>2, SendRuns
<1>5. Len(p) # 0 => /\ Len(handled) + 1 \in 1 .. Len(sent)
                    /\ p[1] = First(sent, Len(handled) + 1)
  BY <1>2, NextFrame DEF First
<1>6. Len(p) = 0 => Len(handled) = Len(sent)
  BY <1>2, <1>3, EmptySeq DEF Whole
<1> HIDE DEF f, p, q
<1>7. 1 \in 1 .. Len(q) /\ Len(q) \in 1 .. Len(q) /\ q # <<>> /\ f \in Nat
  <2>1. 1 \in 1 .. Len(q) /\ Len(q) \in 1 .. Len(q) /\ f \in Nat
    BY <1>1, <1>3 DEF f
  <2>2. Len(<<>>) = 0
    OBVIOUS
  <2> QED
    BY <2>1, <2>2
<1>8. q[1] = First(sent', Len(handled) + 1)
  <2>1. CASE Len(p) = 0
    BY <1>1, <1>3, <1>6, <1>7, <2>1 DEF First, f
  <2>2. CASE Len(p) # 0
    <3>1. q[1] = p[1]
      BY <1>1, <1>3, <1>7, <2>2
    <3>2. sent'[Len(handled) + 1] = sent[Len(handled) + 1]
      BY <1>1, <1>5, <2>2
    <3> QED
      BY <1>5, <2>2, <3>1, <3>2 DEF First
  <2> QED
    BY <2>1, <2>2
<1>9. EndsFrame(q) /\ q[Len(q)].frame = Len(sent')
  <2>1. ~(Len(q) <= Len(p)) /\ Len(q) - Len(p) = size
    BY <1>1, <1>3
  <2>2. q[Len(q)] = [frame |-> f, pos |-> size, size |-> size]
    BY <1>1, <1>7, <2>1
  <2> QED
    BY <1>1, <2>2 DEF EndsFrame
<1>10. \A k \in 1 .. Len(handled) : handled[k] = k
  BY <1>2 DEF Whole
<1> QED
  BY <1>4, <1>7, <1>8, <1>9, <1>10 DEF Whole, q

(* A read that ends a frame, like all before it, moves whole frames.       *)
LEMMA ReadWhole ==
  ASSUME IInv, WholeInv, NEW n \in 1 .. Chunk, Read(n)
  PROVE  WholeInv'
<1> SUFFICES ASSUME whole' PROVE WholeInv'
  BY DEF WholeInv
<1>1. whole /\ EndsFrame(SubSeq(net, 1, n))
  BY DEF Read
<1>2. buffer = <<>> /\ Whole(sent, handled, Pending)
  BY <1>1 DEF WholeInv
<1>3. rest' = SubSeq(net, 1, n) /\ pc' = "parsing" /\ buffer' = buffer
  BY <1>2 DEF Read
<1>4. Pending' = Pending
  BY <1>2, <1>3, ReadPending
<1>5. UNCHANGED <<sent, handled>>
  BY DEF Read
<1>6. EndsFrame(rest)'
  BY <1>1, <1>3 DEF EndsFrame
<1> QED
  BY <1>2, <1>3, <1>4, <1>5, <1>6 DEF WholeInv

(* Whole reads leave a whole frame at the head of what is to be parsed,    *)
(* and it is the next one.                                                 *)
LEMMA WholeFrame ==
  ASSUME IInv, OrderInv, WholeInv, whole, RecBuf, rest # <<>>, NEW size \in Announced
  PROVE  /\ ~Half(size) /\ Intact(size)
         /\ Number(size) = Len(handled) + 1
         /\ size \in 1 .. Len(rest) /\ size >= Full
         /\ Pending[1] = [frame |-> Number(size), pos |-> 1, size |-> size]
<1> DEFINE f == Len(handled) + 1
           p == Pending
           L == Len(rest)
<1>1. Held = rest /\ rest \in Seq(Cell) /\ net \in Seq(Cell) /\ p \in Seq(Cell)
  BY PendingType DEF RecBuf, Held
<1>2. /\ L \in Nat /\ Len(net) \in Nat /\ L # 0
      /\ Len(p) = L + Len(net)
      /\ \A i \in 1 .. L : p[i] = rest[i]
  <2>1. L \in Nat /\ Len(net) \in Nat /\ L # 0
    BY <1>1, EmptySeq, LenProperties
  <2> QED
    BY <1>1, <2>1, Joined DEF Pending
<1>3. Whole(sent, handled, p) /\ EndsFrame(rest)
  BY DEF WholeInv
<1>4. Len(p) # 0
  BY <1>2
<1>5. /\ f \in 1 .. Len(sent) /\ sent[f] \in Nat /\ sent[f] \in Full .. MaxSize
      /\ sent[f] >= 1 /\ p[1] = [frame |-> f, pos |-> 1, size |-> sent[f]]
  BY <1>3, <1>4, NextFrame
<1>6. Runs(sent, p) /\ rest[L].pos = rest[L].size
  BY <1>3 DEF Whole, EndsFrame
<1> HIDE DEF f, p, L
<1>7. rest[1] = p[1] /\ 1 \in 1 .. L /\ L \in 1 .. L /\ 1 \in 1 .. Len(p)
  BY <1>2
<1>8. size = sent[f]
  BY <1>5, <1>7 DEF Announced
<1>9. \A j \in 1 .. Len(p) : j <= size => p[j] = [frame |-> f, pos |-> j, size |-> size]
  <2> SUFFICES ASSUME NEW j \in 1 .. Len(p), j <= size
               PROVE  p[j] = [frame |-> f, pos |-> j, size |-> size]
    OBVIOUS
  <2>1. 1 <= j /\ p[1].pos + (j - 1) = j /\ p[1].frame = f /\ p[1].size = size
    BY <1>2, <1>5, <1>8
  <2> QED
    BY <1>6, <1>7, <2>1 DEF Runs
<1>10. size <= L
  <2> SUFFICES ASSUME L < size PROVE FALSE
    BY <1>2, <1>5, <1>8
  <2>1. L \in 1 .. Len(p) /\ L <= size
    BY <1>2, <1>5, <1>8
  <2>2. rest[L] = [frame |-> f, pos |-> L, size |-> size]
    BY <1>2, <1>7, <1>9, <2>1
  <2> QED
    BY <1>2, <1>5, <1>6, <1>8, <2>2
<1>11. /\ size \in Nat /\ size \in 1 .. L /\ size >= Full
      /\ Least <= size /\ Least \in Nat
  BY <1>2, <1>5, <1>8, <1>10, SizeAssumption
<1>12. ~Half(size)
  BY <1>2, <1>11 DEF Half, L
<1>13. rest[1].frame = f
  BY <1>5, <1>7
<1>14. SubSeq(rest, 1, size) = Frame(f, size)
  <2>1. size \in 0 .. Len(rest) /\ f \in Nat /\ size \in 1 .. MaxSize
    BY <1>2, <1>5, <1>8, <1>11, SizeAssumption DEF L, f
  <2>2. /\ SubSeq(rest, 1, size) \in Seq(Cell) /\ Len(SubSeq(rest, 1, size)) = size
        /\ \A j \in 1 .. size : SubSeq(rest, 1, size)[j] = rest[j]
    BY <1>1, <1>11, <2>1
  <2>3. /\ Frame(f, size) \in Seq(Cell) /\ Len(Frame(f, size)) = size
        /\ \A j \in 1 .. size : Frame(f, size)[j] = [frame |-> f, pos |-> j, size |-> size]
    BY <2>1, FrameType DEF Frame
  <2>4. \A j \in 1 .. size : rest[j] = [frame |-> f, pos |-> j, size |-> size]
    BY <1>2, <1>9, <1>11
  <2> QED
    BY <2>2, <2>3, <2>4, SeqEqual
<1>15. Intact(size)
  BY <1>13, <1>14 DEF Intact
<1> QED
  BY <1>5, <1>8, <1>11, <1>12, <1>13, <1>15 DEF Number, f, p, L

(* No frame is too short for ParseProto while reads end frames.            *)
LEMMA ShortBreaks ==
  ASSUME IInv, OrderInv, WholeInv, RecBuf, rest # <<>>, Short
  PROVE  ~whole
<1> SUFFICES ASSUME whole PROVE FALSE
  OBVIOUS
<1>1. PICK size \in Announced : size < Full
  BY DEF Short
<1>2. size >= Full
  BY WholeFrame
<1>3. size \in Nat /\ Full \in Nat
  BY AnnouncedBound, SizeAssumption DEF IInv, TypeOK
<1> QED
  BY <1>1, <1>2, <1>3

(* Cells that follow each other still do when the first ones are gone.     *)
LEMMA RunsShift ==
  ASSUME NEW ss, NEW p \in Seq(Cell), NEW q \in Seq(Cell), NEW size \in Nat,
         Runs(ss, p),
         \A i \in 1 .. Len(q) : i + size \in 1 .. Len(p) /\ q[i] = p[i + size]
  PROVE  Runs(ss, q)
<1> SUFFICES ASSUME NEW i \in 1 .. Len(q), NEW j \in 1 .. Len(q), i <= j
             PROVE  /\ q[i].pos + (j - i) <= q[i].size =>
                         q[j] = [frame |-> q[i].frame, pos |-> q[i].pos + (j - i),
                                 size |-> q[i].size]
                    /\ q[i].pos + (j - i) = q[i].size + 1 =>
                         q[j] = First(ss, q[i].frame + 1)
  BY DEF Runs
<1> DEFINE a == i + size
           b == j + size
<1>1. /\ a \in 1 .. Len(p) /\ b \in 1 .. Len(p) /\ a <= b /\ b - a = j - i
      /\ q[i] = p[a] /\ q[j] = p[b]
  OBVIOUS
<1> HIDE DEF a, b
<1>2. /\ p[a].pos + (b - a) <= p[a].size =>
            p[b] = [frame |-> p[a].frame, pos |-> p[a].pos + (b - a), size |-> p[a].size]
      /\ p[a].pos + (b - a) = p[a].size + 1 => p[b] = First(ss, p[a].frame + 1)
  BY <1>1, Zenon DEF Runs
<1> QED
  BY <1>1, <1>2

(* From the first cell of a frame to its last, and to the next frame.      *)
LEMMA RunsFrame ==
  ASSUME NEW ss, NEW p \in Seq(Cell), NEW size \in Nat, NEW f, Runs(ss, p),
         size >= 1, size <= Len(p),
         p[1].frame = f, p[1].pos = 1, p[1].size = size
  PROVE  /\ p[size].frame = f
         /\ size + 1 <= Len(p) => p[size + 1] = First(ss, f + 1)
<1> DEFINE n == size + 1
<1>1. /\ 1 \in 1 .. Len(p) /\ size \in 1 .. Len(p) /\ 1 <= size
      /\ p[1].pos + (size - 1) = size /\ p[1].frame = f /\ p[1].size = size
      /\ p[1].pos + (size - 1) <= p[1].size
  OBVIOUS
<1>2. p[size] = [frame |-> p[1].frame, pos |-> p[1].pos + (size - 1), size |-> p[1].size]
  BY <1>1, RunsAt
<1>3. ASSUME n <= Len(p) PROVE p[n] = First(ss, f + 1)
  <2>1. n \in 1 .. Len(p) /\ 1 <= n /\ p[1].pos + (n - 1) = p[1].size + 1
    BY <1>1, <1>3
  <2> HIDE DEF n
  <2>2. p[n] = First(ss, p[1].frame + 1)
    BY <1>1, <2>1, Zenon DEF Runs
  <2> QED
    BY <1>1, <2>2
<1> QED
  BY <1>1, <1>2, <1>3

(* What is left after a frame follows it.                                  *)
LEMMA LeftWhole ==
  ASSUME NEW p \in Seq(Cell), NEW q \in Seq(Cell), NEW size \in Nat, size >= 1,
         NEW f, NEW h \in Seq(Nat), NEW g \in Seq(Nat),
         Whole(sent, h, p), f = Len(h) + 1, g = Append(h, f),
         p[size].frame = f, size + 1 <= Len(p) => p[size + 1] = First(sent, f + 1),
         Len(q) = Len(p) - size, size <= Len(p),
         \A i \in 1 .. Len(q) : q[i] = p[i + size]
  PROVE  Whole(sent, g, q)
<1>1. Len(p) \in Nat /\ Len(q) \in Nat /\ Len(h) \in Nat /\ f \in Nat /\ Len(p) # 0
  BY LenProperties
<1>2. /\ Len(g) = f /\ \A k \in 1 .. f : g[k] = IF k = f THEN f ELSE h[k]
  BY <1>1, AppendProperties
<1>3. p # <<>>
  BY <1>1, EmptySeq
<1>4. /\ Runs(sent, p) /\ EndsFrame(p) /\ p[Len(p)].frame = Len(sent)
      /\ \A k \in 1 .. Len(h) : h[k] = k
  BY <1>3 DEF Whole
<1>5. \A i \in 1 .. Len(q) : i + size \in 1 .. Len(p)
  BY <1>1
<1>6. Runs(sent, q)
  BY <1>4, <1>5, RunsShift
<1>9. ASSUME q = <<>> PROVE Len(g) = Len(sent)
  <2>1. Len(p) = size
    BY <1>1, <1>9
  <2> QED
    BY <1>2, <1>4, <2>1
<1>10. ASSUME q # <<>>
       PROVE  /\ q[1] = First(sent, Len(g) + 1)
              /\ EndsFrame(q) /\ q[Len(q)].frame = Len(sent)
  <2>1. Len(q) # 0 /\ 1 \in 1 .. Len(q) /\ Len(q) \in 1 .. Len(q)
    BY <1>1, <1>10, EmptySeq
  <2>2. q[1] = p[size + 1] /\ size + 1 \in 1 .. Len(p) /\ q[Len(q)] = p[Len(p)]
    <3> DEFINE lp == Len(p)
             lq == Len(q)
    <3>3. lp \in Nat /\ lq \in Nat /\ lq = lp - size /\ lq # 0
      BY <1>1, <2>1
    <3> HIDE DEF lp, lq
    <3>4. 1 + size = size + 1 /\ size + 1 \in 1 .. lp /\ lq + size = lp
      BY <3>3
    <3>1. 1 + size = size + 1 /\ size + 1 \in 1 .. Len(p) /\ Len(q) + size = Len(p)
      BY <3>4 DEF lp, lq
    <3>2. q[1] = p[1 + size] /\ q[Len(q)] = p[Len(q) + size]
      BY <2>1
    <3> QED
      BY <3>1, <3>2
  <2>4. p[size + 1] = First(sent, f + 1)
    BY <1>1, <2>2
  <2> QED
    BY <1>2, <1>4, <2>2, <2>4 DEF EndsFrame
<1>11. \A k \in 1 .. Len(g) : g[k] = k
  <2>1. \A k \in 1 .. f : k = f \/ k \in 1 .. Len(h)
    BY <1>1
  <2> QED
    BY <1>2, <1>4, <2>1
<1> QED
  BY <1>6, <1>9, <1>10, <1>11 DEF Whole

(* Handling the next frame leaves whole frames.                            *)
LEMMA HandleWhole ==
  ASSUME IInv, IInv', OrderInv, WholeInv, RecBuf, rest # <<>>, Handle
  PROVE  WholeInv'
<1> SUFFICES ASSUME whole PROVE WholeInv'
  BY DEF WholeInv, Handle
<1>1. PICK size \in Announced :
        ~Half(size) /\ handled' = Append(handled, Number(size)) /\ rest' = Left(size)
  BY DEF Handle, Parsed
<1>2. /\ Number(size) = Len(handled) + 1 /\ size \in 1 .. Len(rest)
      /\ Pending[1] = [frame |-> Number(size), pos |-> 1, size |-> size]
  BY WholeFrame
<1>3. UNCHANGED <<sent, net, buffer, pc, whole>> /\ pc = "parsing"
  BY DEF Handle, RecBuf
<1>4. /\ Pending' \in Seq(Cell) /\ Len(Pending') = Len(Pending) - size
      /\ \A i \in 1 .. Len(Pending') : Pending'[i] = Pending[i + size]
  BY <1>1, <1>3, PackageCut
<1>5. size \in Nat /\ size >= 1 /\ size <= Len(Pending)
  <2>1. Len(rest) \in Nat /\ Len(Pending') \in Nat /\ Len(Pending) \in Nat
    BY <1>4, PendingType, LenProperties DEF IInv, TypeOK
  <2> QED
    BY <1>2, <1>4, <2>1
<1>6. handled \in Seq(Nat) /\ handled' \in Seq(Nat) /\ Pending \in Seq(Cell)
  BY PendingType DEF IInv, TypeOK
<1>7. Whole(sent, handled, Pending) /\ buffer = <<>> /\ EndsFrame(rest)
  BY DEF WholeInv
<1> DEFINE f == Number(size)
           p == Pending
<1>10. /\ p[size].frame = f
       /\ size + 1 <= Len(p) => p[size + 1] = First(sent, f + 1)
  <2>1. p[1].frame = f /\ p[1].pos = 1 /\ p[1].size = size
    BY <1>2
  <2>2. Runs(sent, p)
    BY <1>7 DEF Whole
  <2> HIDE DEF f, p
  <2>3. p \in Seq(Cell) /\ size \in Nat /\ size >= 1 /\ size <= Len(p)
    BY <1>5, <1>6 DEF p
  <2> QED
    BY <2>1, <2>2, <2>3, RunsFrame
<1>8. Whole(sent, handled', Pending')
  BY <1>1, <1>2, <1>4, <1>5, <1>6, <1>7, <1>10, LeftWhole
<1>9. rest' # <<>> => EndsFrame(rest')
  <2>1. /\ rest' = SubSeq(rest, size + 1, Len(rest)) /\ rest \in Seq(Cell)
        /\ Len(rest) \in Nat /\ size \in 1 .. Len(rest) /\ rest' \in Seq(Cell)
    <3>1. rest \in Seq(Cell) /\ Len(rest) \in Nat /\ rest' \in Seq(Cell)
      BY DEF IInv, TypeOK
    <3> QED
      BY <1>1, <1>2, <3>1 DEF Left
  <2>2. Len(rest') = Len(rest) - size
    BY <2>1
  <2>3. ASSUME rest' # <<>> PROVE rest'[Len(rest')] = rest[Len(rest)]
    <3>1. Len(rest') # 0
      BY <2>1, <2>3, EmptySeq
    <3> DEFINE n == Len(rest) - size
    <3>2. /\ n \in 1 .. n /\ n + size = Len(rest) /\ Len(rest') = n
      BY <2>1, <2>2, <3>1
    <3>3. \A k \in 1 .. n : SubSeq(rest, size + 1, Len(rest))[k] = rest[k + size]
      BY <2>1, Dropped
    <3>4. rest'[n] = rest[n + size]
      BY <2>1, <3>2, <3>3
    <3> QED
      BY <3>2, <3>4
  <2> QED
    BY <1>7, <2>3 DEF EndsFrame
<1> QED
  BY <1>3, <1>7, <1>8, <1>9 DEF WholeInv, EndsFrame

(* Whole reads stay handled.                                               *)
LEMMA WholeKept ==
  IInv /\ IInv' /\ OrderInv /\ WholeInv /\ [Next]_vars => WholeInv'
<1> SUFFICES ASSUME IInv, IInv', OrderInv, WholeInv, [Next]_vars PROVE WholeInv'
  OBVIOUS
<1>1. CASE RecBuf /\ Finish
  <2>1. Pending' = Pending /\ UNCHANGED <<sent, handled, whole>>
    BY <1>1, LoopPending
  <2>2. rest = <<>> /\ rest' = <<>> /\ buffer' = <<>> /\ pc' = "idle"
    BY <1>1 DEF Finish
  <2> QED
    BY <2>1, <2>2 DEF WholeInv
<1>2. CASE RecBuf /\ rest # <<>> /\ Keep
  <2>1. ~whole
    BY <1>2, WholeFrame DEF Keep
  <2>2. ~whole'
    BY <1>2, <2>1 DEF Keep
  <2> QED
    BY <2>2 DEF WholeInv
<1>3. CASE RecBuf /\ rest # <<>> /\ Handle
  BY <1>3, HandleWhole
<1>4. CASE RecBuf /\ rest # <<>> /\ Drop
  <2>1. ~whole
    BY <1>4, WholeFrame DEF Drop
  <2>2. ~whole'
    BY <1>4, <2>1 DEF Drop
  <2> QED
    BY <2>2 DEF WholeInv
<1>5. CASE UNCHANGED vars
  BY <1>5 DEF vars, WholeInv, Pending, Held, EndsFrame
<1>6. CASE RecBuf /\ rest # <<>> /\ Short
  <2>1. ~whole
    BY <1>6, ShortBreaks
  <2>2. ~whole'
    BY <1>6, <2>1 DEF Short
  <2> QED
    BY <2>2 DEF WholeInv
<1> QED
  BY <1>1, <1>2, <1>3, <1>4, <1>5, <1>6, SendWhole, ReadWhole DEF Next, RecBuf

(* As long as each read ends with a frame, each frame read is handled,     *)
(* once and in order, however many a read brings (RecBuf's loop).          *)
THEOREM WholeReadsAreHandled == Spec => []WholeReadsHandled
<1>1. Init => WholeInv
  <2> SUFFICES ASSUME Init PROVE WholeInv
    OBVIOUS
  <2>1. Pending = <<>> \o <<>>
    BY DEF Init, Pending, Held
  <2>2. <<>> \o <<>> = <<>> /\ Len(<<>>) = 0
    OBVIOUS
  <2> QED
    BY <2>1, <2>2 DEF Init, WholeInv, Whole, Runs
<1>2. IInv /\ WholeInv => WholeReadsHandled
  <2> SUFFICES ASSUME IInv, WholeInv, whole, pc = "idle"
               PROVE  handled = [i \in 1 .. NumberRead |-> i]
    BY DEF WholeReadsHandled
  <2>1. buffer = <<>> /\ Whole(sent, handled, Pending)
    BY DEF WholeInv
  <2>2. Pending = net
    BY <2>1 DEF Pending, Held, IInv, TypeOK
  <2>3. Len(sent) \in Nat /\ Len(handled) \in Nat /\ handled \in Seq(Nat)
    BY DEF IInv, TypeOK
  <2>4. NumberRead = Len(handled)
    <3>1. CASE net = <<>>
      BY <2>1, <2>2, <2>3, <3>1 DEF NumberRead, Whole
    <3>2. CASE net # <<>>
      <4>1. net[1].frame = Len(handled) + 1
        BY <2>1, <2>2, <3>2 DEF Whole, First
      <4> QED
        BY <2>3, <3>2, <4>1 DEF NumberRead
    <3> QED
      BY <3>1, <3>2
  <2>5. \A k \in 1 .. Len(handled) : handled[k] = k
    BY <2>1 DEF Whole
  <2> QED
    BY <2>3, <2>4, <2>5
<1> QED
  BY <1>1, <1>2, InitOrder, OrderKept, WholeKept, Invariant, PTL DEF Spec
=============================================================================
