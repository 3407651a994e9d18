----------------------------- MODULE BaseProofs -----------------------------
(***************************************************************************)
(* Proofs about two classes of base/ that stand alone, and about a user of *)
(* the first. What they share is this module only.                         *)
(*                                                                         *)
(* base/Buffer.h, for every size of the vector, of the chars and of the    *)
(* calls: what each operation does to the contents and to the indices, and *)
(* from these that a buffer keeps its assertions, grows only when it is    *)
(* full and implements a queue of bytes.                                   *)
(*                                                                         *)
(* base/Mutex.h, for any number of threads and of Conditions: holder_ is   *)
(* exact and implements a lock.                                            *)
(*                                                                         *)
(* http/, for any tokens, streams and reads: the parser stands at the      *)
(* start of a line, in a request of its own, and answers a read exactly    *)
(* when a whole head starts it, as that head asks.                         *)
(***************************************************************************)
EXTENDS Buffer, Mutex, HttpServer, QueueLemmas, SequenceTheorems, TLAPS

Fields == {"mem", "size", "reader", "writer"}

(* The shape of a buffer between two calls; there is always room for the   *)
(* bytes that are kept free in front, where retrieveAll puts both indices. *)
WF(b) ==
    /\ DOMAIN b = Fields
    /\ b.size \in Nat /\ b.reader \in Nat /\ b.writer \in Nat
    /\ b.mem \in [0 .. (b.size - 1) -> Byte]
    /\ b.reader <= b.writer /\ b.writer <= b.size
    /\ kCheapPrepend <= b.size

(* b and c hold the same bytes. *)
SameText(b, c) == toString(c) = toString(b) /\ readableBytes(c) = readableBytes(b)

(* retrieveUntil() drops the bytes up to a position. *)
LEMMA UntilIsRetrieve ==
  ASSUME NEW b, NEW end
  PROVE  retrieveUntil(b, end) = retrieve(b, end - b.reader)
BY Zenon DEF retrieveUntil

-----------------------------------------------------------------------------
(* The pieces that the operations are made of *)

LEMMA StoreFields ==
  ASSUME NEW b, WF(b), NEW at, NEW d
  PROVE  /\ DOMAIN Store(b, at, d) = Fields
         /\ Store(b, at, d).size = b.size
         /\ Store(b, at, d).reader = b.reader
         /\ Store(b, at, d).writer = b.writer
BY DEF WF, Fields, Store

LEMMA StoreMem ==
  ASSUME NEW b, WF(b), NEW at, NEW d
  PROVE  Store(b, at, d).mem =
           [i \in 0 .. (b.size - 1) |->
                 IF i \in at .. (at + Len(d) - 1) THEN d[i - at + 1] ELSE b.mem[i]]
BY DEF WF, Fields, Store

LEMMA StoreWF ==
  ASSUME NEW b, WF(b), NEW at \in Nat, NEW d \in Seq(Byte)
  PROVE  WF(Store(b, at, d))
<1>1. \A i \in 0 .. (b.size - 1) :
        i \in at .. (at + Len(d) - 1) => d[i - at + 1] \in Byte
  OBVIOUS
<1>2. \A i \in 0 .. (b.size - 1) : b.mem[i] \in Byte
  BY DEF WF
<1>3. Store(b, at, d).mem \in [0 .. (b.size - 1) -> Byte]
  <2>1. Store(b, at, d).mem =
          [i \in 0 .. (b.size - 1) |->
             IF i \in at .. (at + Len(d) - 1) THEN d[i - at + 1] ELSE b.mem[i]]
    BY StoreMem
  <2> QED
    BY <1>1, <1>2, <2>1
<1>4. /\ DOMAIN Store(b, at, d) = Fields
      /\ Store(b, at, d).size = b.size
      /\ Store(b, at, d).reader = b.reader
      /\ Store(b, at, d).writer = b.writer
  BY StoreFields
<1> QED
  BY <1>3, <1>4 DEF WF

LEMMA ResizeWF ==
  ASSUME NEW b, WF(b), NEW n \in Nat, b.size <= n
  PROVE  /\ WF(resize(b, n))
         /\ resize(b, n).size = n
         /\ resize(b, n).reader = b.reader
         /\ resize(b, n).writer = b.writer
         /\ \A i \in 0 .. (b.size - 1) : resize(b, n).mem[i] = b.mem[i]
<1>1. /\ DOMAIN resize(b, n) = Fields
      /\ resize(b, n).size = n /\ resize(b, n).reader = b.reader /\ resize(b, n).writer = b.writer
      /\ resize(b, n).mem = [i \in 0 .. (n - 1) |-> IF i < b.size THEN b.mem[i] ELSE Nul]
  BY DEF WF, Fields, resize
<1>2. \A i \in 0 .. (n - 1) : i < b.size => b.mem[i] \in Byte
  BY DEF WF
<1>3. resize(b, n).mem \in [0 .. (n - 1) -> Byte]
  BY <1>1, <1>2, BufferAssumption
<1> QED
  BY <1>1, <1>3, BufferAssumption DEF WF

(* A new buffer is empty. *)
LEMMA NewBufferWF ==
  ASSUME NEW n \in Nat
  PROVE  /\ WF(NewBuffer(n))
         /\ toString(NewBuffer(n)) = <<>>
         /\ readableBytes(NewBuffer(n)) = 0
<1>1. /\ DOMAIN NewBuffer(n) = Fields
      /\ NewBuffer(n).size = kCheapPrepend + n
      /\ NewBuffer(n).reader = kCheapPrepend /\ NewBuffer(n).writer = kCheapPrepend
      /\ NewBuffer(n).mem = [i \in 0 .. (kCheapPrepend + n - 1) |-> Nul]
  BY DEF NewBuffer, Fields
<1>2. WF(NewBuffer(n))
  BY <1>1, BufferAssumption DEF WF
<1>3. readableBytes(NewBuffer(n)) = 0
  BY <1>1, BufferAssumption DEF readableBytes
<1>4. toString(NewBuffer(n)) = <<>>
  BY <1>3 DEF toString
<1> QED
  BY <1>2, <1>3, <1>4

(* The contents are the sequence of the bytes between the indices. *)
LEMMA TextOf ==
  ASSUME NEW b, WF(b)
  PROVE  /\ toString(b) \in Seq(Byte)
         /\ readableBytes(b) \in Nat
         /\ Len(toString(b)) = readableBytes(b)
         /\ \A i \in 1 .. readableBytes(b) : toString(b)[i] = b.mem[b.reader + i - 1]
<1>1. readableBytes(b) \in Nat
  BY DEF WF, readableBytes
<1>2. \A i \in 1 .. readableBytes(b) : b.mem[b.reader + i - 1] \in Byte
  BY SMTT(30) DEF WF, readableBytes
<1> QED
  BY <1>1, <1>2 DEF toString

(* Two buffers whose bytes agree one by one hold the same contents. *)
LEMMA SameBytes ==
  ASSUME NEW b, NEW c, WF(b), WF(c), readableBytes(c) = readableBytes(b),
         \A i \in 1 .. readableBytes(b) : c.mem[c.reader + i - 1] = b.mem[b.reader + i - 1]
  PROVE  SameText(b, c)
BY DEF toString, SameText

-----------------------------------------------------------------------------
(* makeSpace and its callers *)

(* Bytes written behind the contents, or in front of them, do not change   *)
(* what is between the indices.                                            *)
LEMMA MovedText ==
  ASSUME NEW b, WF(b), kCheapPrepend + readableBytes(b) <= b.size
  PROVE  /\ WF(movedToFront(b))
         /\ SameText(b, movedToFront(b))
         /\ movedToFront(b).size = b.size
         /\ movedToFront(b).writer = kCheapPrepend + readableBytes(b)
<1> DEFINE s == Store(b, kCheapPrepend, toString(b))
<1>1. WF(s) /\ s.size = b.size
  BY StoreWF, StoreFields, TextOf, BufferAssumption
<1>2. \A i \in 1 .. readableBytes(b) :
        s.mem[kCheapPrepend + i - 1] = b.mem[b.reader + i - 1]
  <2> SUFFICES ASSUME NEW i \in 1 .. readableBytes(b)
               PROVE  s.mem[kCheapPrepend + i - 1] = b.mem[b.reader + i - 1]
    OBVIOUS
  <2> DEFINE at == kCheapPrepend + i - 1
  <2>1. /\ Len(toString(b)) = readableBytes(b) /\ readableBytes(b) \in Nat
        /\ toString(b)[i] = b.mem[b.reader + i - 1]
    BY TextOf
  <2>2. /\ at \in 0 .. (b.size - 1)
        /\ at \in kCheapPrepend .. (kCheapPrepend + Len(toString(b)) - 1)
        /\ at - kCheapPrepend + 1 = i
    BY SMTT(30), <2>1, BufferAssumption DEF WF
  <2>3. s.mem = [j \in 0 .. (b.size - 1) |->
                   IF j \in kCheapPrepend .. (kCheapPrepend + Len(toString(b)) - 1)
                   THEN toString(b)[j - kCheapPrepend + 1] ELSE b.mem[j]]
    BY StoreMem
  <2>4. s.mem[at] = toString(b)[at - kCheapPrepend + 1]
    BY <2>2, <2>3
  <2> QED
    BY <2>1, <2>2, <2>4
<1>3. /\ DOMAIN movedToFront(b) = Fields
      /\ movedToFront(b).mem = s.mem
      /\ movedToFront(b).size = s.size
      /\ movedToFront(b).reader = kCheapPrepend
      /\ movedToFront(b).writer = kCheapPrepend + readableBytes(b)
  BY <1>1 DEF movedToFront, WF, Fields
<1>4. WF(movedToFront(b))
  BY <1>1, <1>3, TextOf, BufferAssumption DEF WF
<1>5. readableBytes(movedToFront(b)) = readableBytes(b)
  BY <1>3, TextOf, BufferAssumption DEF readableBytes, WF
<1> QED
  BY <1>1, <1>2, <1>3, <1>4, <1>5, SameBytes

(* makeSpace keeps the contents, makes the room asked for, satisfies its   *)
(* assertion, and allocates only what does not fit.                        *)
LEMMA MakeSpaceText ==
  ASSUME NEW b, WF(b), NEW len \in Nat, writableBytes(b) < len
  PROVE  /\ WF(makeSpace(b, len))
         /\ SameText(b, makeSpace(b, len))
         /\ writableBytes(makeSpace(b, len)) >= len
         /\ ~MustGrow(b, len) => kCheapPrepend < b.reader
         /\ makeSpace(b, len).size > b.size =>
              b.size < readableBytes(b) + len + kCheapPrepend
<1>1. CASE MustGrow(b, len)
  <2> DEFINE r == resize(b, b.writer + len)
  <2>1. /\ b.writer + len \in Nat /\ b.size <= b.writer + len
        /\ b.size < readableBytes(b) + len + kCheapPrepend
    BY <1>1, BufferAssumption
       DEF WF, MustGrow, writableBytes, prependableBytes, readableBytes
  <2>2. /\ WF(r) /\ r.size = b.writer + len
        /\ r.reader = b.reader /\ r.writer = b.writer
        /\ \A i \in 0 .. (b.size - 1) : r.mem[i] = b.mem[i]
    BY <2>1, ResizeWF
  <2>3. readableBytes(r) = readableBytes(b)
    BY <2>2 DEF readableBytes
  <2>4. \A i \in 1 .. readableBytes(b) : b.reader + i - 1 \in 0 .. (b.size - 1)
    BY DEF WF, readableBytes
  <2>5. SameText(b, r)
    BY <2>2, <2>3, <2>4, SameBytes
  <2>6. writableBytes(r) >= len
    BY <2>2 DEF writableBytes, WF
  <2> QED
    BY <1>1, <2>1, <2>2, <2>5, <2>6 DEF makeSpace
<1>2. CASE ~MustGrow(b, len)
  <2>1. /\ kCheapPrepend < b.reader
        /\ readableBytes(b) \in Nat
        /\ kCheapPrepend + readableBytes(b) + len <= b.size
    BY <1>2, BufferAssumption
       DEF WF, MustGrow, writableBytes, prependableBytes, readableBytes
  <2>2. kCheapPrepend + readableBytes(b) <= b.size
    BY <2>1, BufferAssumption DEF WF
  <2>3. /\ WF(movedToFront(b)) /\ SameText(b, movedToFront(b))
        /\ movedToFront(b).size = b.size
        /\ movedToFront(b).writer = kCheapPrepend + readableBytes(b)
    BY <2>2, MovedText
  <2>4. writableBytes(movedToFront(b)) >= len
    BY <2>1, <2>3, BufferAssumption DEF writableBytes, WF
  <2>5. ~(movedToFront(b).size > b.size)
    BY <2>3 DEF WF
  <2> QED
    BY <1>2, <2>1, <2>3, <2>4, <2>5 DEF makeSpace
<1> QED
  BY <1>1, <1>2

LEMMA EnsureWritableText ==
  ASSUME NEW b, WF(b), NEW len \in Nat
  PROVE  /\ WF(ensureWritableBytes(b, len))
         /\ SameText(b, ensureWritableBytes(b, len))
         /\ writableBytes(ensureWritableBytes(b, len)) >= len
         /\ ensureWritableBytes(b, len).size > b.size =>
              b.size < readableBytes(b) + len + kCheapPrepend
<1>1. CASE writableBytes(b) < len
  BY <1>1, MakeSpaceText DEF ensureWritableBytes
<1>2. CASE ~(writableBytes(b) < len)
  <2>1. writableBytes(b) >= len /\ ~(b.size > b.size)
    BY <1>2 DEF WF, writableBytes
  <2> QED
    BY <1>2, <2>1 DEF ensureWritableBytes, SameText
<1> QED
  BY <1>1, <1>2

-----------------------------------------------------------------------------
(* Bytes at either end. Here n is Len(d): the solver does not reason well  *)
(* about differences of lengths.                                           *)

LEMMA LenOf ==
  ASSUME NEW n \in Nat, NEW d \in [1 .. n -> Byte]
  PROVE  d \in Seq(Byte) /\ Len(d) = n
OBVIOUS

LEMMA Offsets ==
  ASSUME NEW at \in Nat, NEW n \in Nat, NEW size \in Nat, at + n <= size, NEW i \in 1 .. n
  PROVE  /\ at + i - 1 \in 0 .. (size - 1)
         /\ at <= at + i - 1 /\ at + i - 1 < at + n
         /\ (at + i - 1) - at + 1 = i
OBVIOUS

LEMMA StoreAt ==
  ASSUME NEW b, WF(b), NEW at \in Nat, NEW n \in Nat, NEW d \in [1 .. n -> Byte],
         NEW j \in 0 .. (b.size - 1)
  PROVE  Store(b, at, d).mem[j] =
           IF at <= j /\ j < at + n THEN d[j - at + 1] ELSE b.mem[j]
<1>1. Store(b, at, d).mem =
        [i \in 0 .. (b.size - 1) |->
           IF i \in at .. (at + Len(d) - 1) THEN d[i - at + 1] ELSE b.mem[i]]
  BY StoreMem
<1>2. j \in at .. (at + n - 1) <=> at <= j /\ j < at + n
  BY DEF WF
<1> QED
  BY <1>1, <1>2, LenOf

(* Bytes of which the first are those of s and the others those of t. *)
LEMMA JoinText ==
  ASSUME NEW c, WF(c), NEW m \in Nat, NEW n \in Nat,
         NEW s \in [1 .. m -> Byte], NEW t \in [1 .. n -> Byte],
         readableBytes(c) = m + n,
         \A i \in 1 .. m : c.mem[c.reader + i - 1] = s[i],
         \A i \in 1 .. n : c.mem[c.reader + m + i - 1] = t[i]
  PROVE  toString(c) = s \o t
<1>1. c.reader \in Nat
  BY DEF WF
<1>2. /\ s \o t \in Seq(Byte) /\ Len(s \o t) = m + n
      /\ \A i \in 1 .. (m + n) : (s \o t)[i] = IF i <= m THEN s[i] ELSE t[i - m]
  <2>1. s \in Seq(Byte) /\ t \in Seq(Byte) /\ Len(s) = m /\ Len(t) = n
    BY LenOf
  <2> QED
    BY <2>1, ConcatProperties
<1>3. ASSUME NEW i \in 1 .. (m + n)
      PROVE  toString(c)[i] = (s \o t)[i]
  <2>1. toString(c)[i] = c.mem[c.reader + i - 1]
    BY TextOf
  <2>2. CASE i <= m
    BY <1>2, <2>1, <2>2
  <2>3. CASE i > m
    <3>1. i - m \in 1 .. n /\ c.reader + m + (i - m) - 1 = c.reader + i - 1
      BY <1>1, <2>3
    <3>2. c.mem[c.reader + m + (i - m) - 1] = t[i - m]
      BY <3>1
    <3> QED
      BY <1>2, <2>1, <2>3, <3>1, <3>2
  <2> QED
    BY <2>2, <2>3
<1>4. toString(c) \in Seq(Byte) /\ Len(toString(c)) = m + n
  BY TextOf
<1> QED
  BY <1>2, <1>3, <1>4, SeqEqual

(* toString as a function of that shape. *)
LEMMA TextShape ==
  ASSUME NEW b, WF(b)
  PROVE  readableBytes(b) \in Nat /\ toString(b) \in [1 .. readableBytes(b) -> Byte]
BY TextOf

(* Bytes written behind the contents, which hasWritten then takes in. *)
LEMMA WriteShape ==
  ASSUME NEW b, WF(b), NEW n \in Nat, NEW d \in [1 .. n -> Byte], n <= writableBytes(b)
  PROVE  LET a == hasWritten(Store(b, b.writer, d), n)
         IN  /\ WF(a)
             /\ a.size = b.size
             /\ readableBytes(a) = readableBytes(b) + n
             /\ toString(a) = toString(b) \o d
<1> DEFINE s == Store(b, b.writer, d)
           a == hasWritten(s, n)
           m == readableBytes(b)
<1>1. /\ m \in Nat /\ b.reader \in Nat /\ b.size \in Nat
      /\ b.writer \in Nat /\ b.writer = b.reader + m
      /\ b.writer + n <= b.size
  BY DEF WF, readableBytes, writableBytes
<1>2. WF(s) /\ s.size = b.size /\ s.reader = b.reader /\ s.writer = b.writer
  BY <1>1, StoreWF, StoreFields, LenOf
<1>3. /\ DOMAIN a = Fields
      /\ a.mem = s.mem
      /\ a.size = b.size /\ a.reader = b.reader /\ a.writer = b.writer + n
  BY <1>2 DEF hasWritten, WF, Fields
<1>4. WF(a) /\ readableBytes(a) = m + n
  <2>1. readableBytes(a) = m + n
    BY <1>1, <1>3 DEF readableBytes
  <2>2. WF(a)
    BY SMTT(30), <1>1, <1>2, <1>3 DEF WF
  <2> QED
    BY <2>1, <2>2
<1>5. ASSUME NEW j \in 0 .. (b.size - 1)
      PROVE  a.mem[j] = IF b.writer <= j /\ j < b.writer + n
                        THEN d[j - b.writer + 1] ELSE b.mem[j]
  <2>1. s.mem[j] = IF b.writer <= j /\ j < b.writer + n
                   THEN d[j - b.writer + 1] ELSE b.mem[j]
    BY ZenonT(30), <1>1, StoreAt
  <2> QED
    BY <1>3, <2>1
<1> HIDE DEF s, a
<1>6. ASSUME NEW i \in 1 .. m
      PROVE  a.mem[a.reader + i - 1] = toString(b)[i]
  <2>1. /\ b.reader + i - 1 \in 0 .. (b.size - 1)
        /\ ~(b.writer <= b.reader + i - 1)
    BY SMTT(30), <1>1
  <2>2. a.mem[b.reader + i - 1] = b.mem[b.reader + i - 1]
    BY <1>5, <2>1
  <2> QED
    BY <1>3, <2>2, TextOf
<1>7. ASSUME NEW i \in 1 .. n
      PROVE  a.mem[a.reader + m + i - 1] = d[i]
  <2>1. /\ b.writer + i - 1 \in 0 .. (b.size - 1)
        /\ b.writer <= b.writer + i - 1 /\ b.writer + i - 1 < b.writer + n
        /\ (b.writer + i - 1) - b.writer + 1 = i
    BY <1>1, Offsets
  <2>2. a.mem[b.writer + i - 1] = d[(b.writer + i - 1) - b.writer + 1]
    BY <1>5, <2>1
  <2>3. a.reader + m + i - 1 = b.writer + i - 1
    BY <1>1, <1>3
  <2> QED
    BY <2>1, <2>2, <2>3
<1>8. toString(a) = toString(b) \o d
  <2>1. toString(b) \in [1 .. m -> Byte]
    BY TextShape
  <2> HIDE DEF m
  <2> QED
    BY ZenonT(30), <1>1, <1>4, <1>6, <1>7, <2>1, JoinText
<1> QED
  BY <1>3, <1>4, <1>8 DEF a, s

LEMMA WriteText ==
  ASSUME NEW b, WF(b), NEW d \in Seq(Byte), Len(d) <= writableBytes(b)
  PROVE  LET a == hasWritten(Store(b, b.writer, d), Len(d))
         IN  /\ WF(a)
             /\ a.size = b.size
             /\ readableBytes(a) = readableBytes(b) + Len(d)
             /\ toString(a) = toString(b) \o d
<1>1. Len(d) \in Nat /\ d \in [1 .. Len(d) -> Byte]
  OBVIOUS
<1> QED
  BY <1>1, WriteShape

LEMMA AppendText ==
  ASSUME NEW b, WF(b), NEW d \in Seq(Byte)
  PROVE  /\ WF(append(b, d))
         /\ readableBytes(append(b, d)) = readableBytes(b) + Len(d)
         /\ toString(append(b, d)) = toString(b) \o d
         /\ append(b, d).size > b.size =>
              b.size < readableBytes(b) + Len(d) + kCheapPrepend
<1> DEFINE room == ensureWritableBytes(b, Len(d))
<1>1. /\ WF(room) /\ SameText(b, room) /\ writableBytes(room) >= Len(d)
      /\ room.size > b.size => b.size < readableBytes(b) + Len(d) + kCheapPrepend
  BY EnsureWritableText
<1>2. Len(d) <= writableBytes(room)
  BY <1>1 DEF WF, writableBytes
<1> QED
  BY <1>1, <1>2, WriteText DEF append, SameText

LEMMA Regroup ==
  \A s, t, u \in Seq(Byte) : (s \o t) \o u = s \o (t \o u)
BY ConcatAssociative

(* readFd: what readv has put into the free part and into the stack buffer *)
(* comes behind the contents, in this order.                               *)
LEMMA ReadFdText ==
  ASSUME NEW b, WF(b), NEW d \in Seq(Byte)
  PROVE  /\ WF(readFd(b, d))
         /\ readableBytes(readFd(b, d)) = readableBytes(b) + Len(d)
         /\ toString(readFd(b, d)) = toString(b) \o d
         /\ readFd(b, d).size > b.size =>
              b.size < readableBytes(b) + Len(d) + kCheapPrepend
<1> DEFINE w == writableBytes(b)
<1>1. w \in Nat
  BY DEF WF, writableBytes
<1>2. CASE Len(d) <= w
  <2>1. ~(b.size > b.size)
    BY DEF WF
  <2> QED
    BY <1>2, <2>1, WriteText DEF readFd
<1>3. CASE ~(Len(d) <= w)
  <2> DEFINE front == SubSeq(d, 1, w)
             rest == SubSeq(d, w + 1, Len(d))
             s == Store(b, b.writer, front)
             full == [s EXCEPT !.writer = b.size]
             a == hasWritten(s, Len(front))
  <2>1. /\ front \in Seq(Byte) /\ Len(front) = w
        /\ rest \in Seq(Byte) /\ Len(rest) = Len(d) - w
        /\ front \o rest = d
    <3>1. /\ Len(d) \in Nat /\ w < Len(d)
          /\ \A i \in 1 .. Len(d) : d[i] \in Byte
      BY <1>1, <1>3
    <3>2. front \in Seq(Byte) /\ Len(front) = w
      BY <1>1, <3>1, SubSeqProperties
    <3>3. rest \in Seq(Byte) /\ Len(rest) = Len(d) - w
      BY <1>1, <3>1, SubSeqProperties
    <3>4. front \o rest = SubSeq(d, 1, Len(d))
      BY <1>1, <3>1, ConcatAdjacentSubSeq
    <3> QED
      BY <3>2, <3>3, <3>4, SubSeqFull
  <2>2. /\ WF(a) /\ a.size = b.size
        /\ readableBytes(a) = readableBytes(b) + w
        /\ toString(a) = toString(b) \o front
    <3>1. front \in Seq(Byte) /\ Len(front) = w /\ Len(front) <= w
      BY <1>1, <2>1
    <3> HIDE DEF front
    <3> QED
      BY <3>1, WriteText
  <2>3. full = a
    <3>1. s.writer + w = b.size
      BY StoreFields DEF WF, writableBytes
    <3> QED
      BY <2>1, <3>1 DEF hasWritten
  <2>4. /\ WF(append(a, rest))
        /\ readableBytes(append(a, rest)) = readableBytes(a) + Len(rest)
        /\ toString(append(a, rest)) = toString(a) \o rest
        /\ append(a, rest).size > b.size =>
             b.size < readableBytes(a) + Len(rest) + kCheapPrepend
    BY <2>1, <2>2, AppendText
  <2>5. readFd(b, d) = append(a, rest)
    BY <1>3, <2>3 DEF readFd
  <2>6. (toString(b) \o front) \o rest = toString(b) \o d
    <3>1. toString(b) \in Seq(Byte) /\ front \in Seq(Byte) /\ rest \in Seq(Byte)
      BY <2>1, TextOf
    <3> HIDE DEF front, rest
    <3>2. (toString(b) \o front) \o rest = toString(b) \o (front \o rest)
      BY <3>1, Regroup
    <3>3. front \o rest = d
      BY <2>1
    <3> QED
      BY <3>2, <3>3, Zenon
  <2> HIDE DEF front, rest, a
  <2>7. readableBytes(a) + Len(rest) = readableBytes(b) + Len(d)
    BY <1>1, <2>1, <2>2, TextOf
  <2> QED
    BY <2>2, <2>4, <2>5, <2>6, <2>7
<1> QED
  BY <1>2, <1>3

-----------------------------------------------------------------------------
(* The other operations *)

LEMMA PrependShape ==
  ASSUME NEW b, WF(b), NEW n \in Nat, NEW d \in [1 .. n -> Byte], n <= b.reader
  PROVE  LET p == Store([b EXCEPT !.reader = @ - n], b.reader - n, d)
         IN  WF(p) /\ toString(p) = d \o toString(b)
<1> DEFINE low == [b EXCEPT !.reader = @ - n]
           at == b.reader - n
           p == Store(low, at, d)
           m == readableBytes(b)
<1>1. /\ m \in Nat /\ b.reader \in Nat /\ b.size \in Nat /\ at \in Nat
      /\ b.writer \in Nat /\ b.writer = b.reader + m /\ b.writer <= b.size
  BY DEF WF, readableBytes
<1>2. /\ DOMAIN low = Fields
      /\ low.mem = b.mem /\ low.size = b.size /\ low.writer = b.writer
      /\ low.reader = at
  BY DEF WF, Fields
<1> HIDE DEF low
<1>3. WF(low)
  <2>1. at <= b.writer
    BY <1>1
  <2> HIDE DEF at
  <2> QED
    BY <1>1, <1>2, <2>1 DEF WF
<1>4. /\ WF(p) /\ p.size = b.size /\ p.reader = at /\ p.writer = b.writer
  <2> HIDE DEF at
  <2>1. d \in Seq(Byte)
    BY LenOf
  <2> QED
    BY SMTT(30), <1>1, <1>2, <1>3, <2>1, StoreWF, StoreFields
<1>5. ASSUME NEW j \in 0 .. (b.size - 1)
      PROVE  p.mem[j] = IF at <= j /\ j < at + n THEN d[j - at + 1] ELSE b.mem[j]
  <2> HIDE DEF at
  <2> QED
    BY SMTT(30), <1>1, <1>2, <1>3, StoreAt
<1> HIDE DEF p
<1>6. readableBytes(p) = n + m
  BY <1>1, <1>4 DEF readableBytes
<1>7. ASSUME NEW i \in 1 .. n
      PROVE  p.mem[p.reader + i - 1] = d[i]
  <2>1. /\ at + i - 1 \in 0 .. (b.size - 1)
        /\ at <= at + i - 1 /\ at + i - 1 < at + n
        /\ (at + i - 1) - at + 1 = i
    <3>1. at + n <= b.size
      BY <1>1
    <3> HIDE DEF at
    <3> QED
      BY <1>1, <3>1, Offsets
  <2> HIDE DEF at
  <2>2. p.mem[at + i - 1] = d[(at + i - 1) - at + 1]
    BY <1>5, <2>1
  <2> QED
    BY <1>4, <2>1, <2>2
<1>8. ASSUME NEW i \in 1 .. m
      PROVE  p.mem[p.reader + n + i - 1] = toString(b)[i]
  <2>1. b.reader + i - 1 \in 0 .. (b.size - 1)
    <3>1. b.reader + m <= b.size
      BY <1>1
    <3> QED
      BY <1>1, <3>1, Offsets
  <2>2. at + n = b.reader /\ ~(b.reader + i - 1 < b.reader)
    BY <1>1
  <2> HIDE DEF at
  <2>3. p.mem[b.reader + i - 1] = b.mem[b.reader + i - 1]
    BY <1>5, <2>1, <2>2
  <2> QED
    BY <1>4, <2>2, <2>3, TextOf
<1>9. toString(p) = d \o toString(b)
  <2>1. toString(b) \in [1 .. m -> Byte]
    BY TextShape
  <2>2. WF(p) /\ m \in Nat
    BY <1>1, <1>4
  <2> HIDE DEF m, at
  <2> QED
    BY <1>6, <1>7, <1>8, <2>1, <2>2, JoinText
<1> QED
  BY <1>4, <1>9 DEF p, low

LEMMA PrependText ==
  ASSUME NEW b, WF(b), NEW d \in Seq(Byte), Len(d) <= prependableBytes(b)
  PROVE  /\ WF(prepend(b, d))
         /\ toString(prepend(b, d)) = d \o toString(b)
<1>1. Len(d) \in Nat /\ d \in [1 .. Len(d) -> Byte] /\ Len(d) <= b.reader
  BY DEF prependableBytes
<1> QED
  BY <1>1, PrependShape DEF prepend

(* Whatever is retrieved, the rest of the contents stays: also when the    *)
(* indices go back to the front because nothing is left.                   *)
LEMMA RetrieveText ==
  ASSUME NEW b, WF(b), NEW len \in Nat
  PROVE  /\ WF(retrieve(b, len))
         /\ toString(retrieve(b, len)) = SubSeq(toString(b), len + 1, Len(toString(b)))
<1> DEFINE r == retrieve(b, len)
<1>1. CASE len < readableBytes(b)
  <2>1. /\ DOMAIN r = Fields
        /\ r.mem = b.mem /\ r.size = b.size /\ r.writer = b.writer
        /\ r.reader = b.reader + len
    BY <1>1 DEF retrieve, WF, Fields
  <2>2. WF(r) /\ readableBytes(r) = readableBytes(b) - len
    BY <1>1, <2>1 DEF WF, readableBytes
  <2> HIDE DEF r
  <2>3. /\ SubSeq(toString(b), len + 1, Len(toString(b))) \in Seq(Byte)
        /\ Len(SubSeq(toString(b), len + 1, Len(toString(b)))) = readableBytes(b) - len
        /\ \A i \in 1 .. (readableBytes(b) - len) :
             SubSeq(toString(b), len + 1, Len(toString(b)))[i] = toString(b)[len + i]
    <3>1. /\ readableBytes(b) \in Nat /\ Len(toString(b)) = readableBytes(b)
          /\ \A i \in (len + 1) .. readableBytes(b) : toString(b)[i] \in Byte
      BY TextOf
    <3> QED
      BY <1>1, <3>1, SubSeqProperties
  <2>4. /\ readableBytes(b) \in Nat
        /\ toString(r) \in Seq(Byte) /\ Len(toString(r)) = readableBytes(b) - len
        /\ \A i \in 1 .. (readableBytes(b) - len) :
             toString(r)[i] = b.mem[b.reader + len + i - 1]
    BY <2>1, <2>2, TextOf
  <2>5. \A i \in 1 .. (readableBytes(b) - len) :
          toString(b)[len + i] = b.mem[b.reader + len + i - 1]
    <3> SUFFICES ASSUME NEW i \in 1 .. (readableBytes(b) - len)
                 PROVE  toString(b)[len + i] = b.mem[b.reader + len + i - 1]
      OBVIOUS
    <3>1. len + i \in 1 .. readableBytes(b)
      BY <2>4
    <3>2. b.reader + (len + i) - 1 = b.reader + len + i - 1
      BY <2>4 DEF WF
    <3> QED
      BY <3>1, <3>2, TextOf
  <2>6. toString(r) = SubSeq(toString(b), len + 1, Len(toString(b)))
    BY <2>3, <2>4, <2>5, SeqEqual
  <2> QED
    BY <2>2, <2>6 DEF r
<1>2. CASE ~(len < readableBytes(b))
  <2>1. /\ DOMAIN r = Fields
        /\ r.mem = b.mem /\ r.size = b.size
        /\ r.reader = kCheapPrepend /\ r.writer = kCheapPrepend
    BY <1>2 DEF retrieve, retrieveAll, WF, Fields
  <2>2. WF(r) /\ readableBytes(r) = 0
    BY <2>1, BufferAssumption DEF WF, readableBytes
  <2>3. toString(r) = <<>>
    BY <2>2 DEF toString
  <2>4. SubSeq(toString(b), len + 1, Len(toString(b))) = <<>>
    BY <1>2, TextOf, SubSeqEmpty
  <2> QED
    BY <2>2, <2>3, <2>4
<1> QED
  BY <1>1, <1>2

LEMMA UnwriteText ==
  ASSUME NEW b, WF(b), NEW len \in Nat, len <= readableBytes(b)
  PROVE  /\ WF(unwrite(b, len))
         /\ toString(unwrite(b, len)) = SubSeq(toString(b), 1, Len(toString(b)) - len)
<1> DEFINE u == unwrite(b, len)
<1>1. /\ DOMAIN u = Fields
      /\ u.mem = b.mem /\ u.size = b.size /\ u.reader = b.reader
      /\ u.writer = b.writer - len
  BY DEF unwrite, WF, Fields
<1>2. WF(u) /\ readableBytes(u) = readableBytes(b) - len
  BY <1>1 DEF WF, readableBytes
<1> HIDE DEF u
<1>3. /\ readableBytes(b) - len \in Nat /\ readableBytes(b) \in Nat
      /\ Len(toString(b)) = readableBytes(b)
      /\ \A i \in 1 .. readableBytes(b) :
           toString(b)[i] = b.mem[b.reader + i - 1] /\ toString(b)[i] \in Byte
      /\ toString(u) \in Seq(Byte) /\ Len(toString(u)) = readableBytes(b) - len
      /\ \A i \in 1 .. (readableBytes(b) - len) : toString(u)[i] = b.mem[b.reader + i - 1]
  <2>1. /\ readableBytes(b) \in Nat /\ Len(toString(b)) = readableBytes(b)
        /\ toString(b) \in Seq(Byte)
        /\ \A i \in 1 .. readableBytes(b) : toString(b)[i] = b.mem[b.reader + i - 1]
    BY TextOf
  <2>2. /\ toString(u) \in Seq(Byte) /\ Len(toString(u)) = readableBytes(b) - len
        /\ \A i \in 1 .. (readableBytes(b) - len) : toString(u)[i] = u.mem[u.reader + i - 1]
    BY <1>2, TextOf
  <2> QED
    BY <1>1, <2>1, <2>2, ElementOfSeq
<1>4. /\ SubSeq(toString(b), 1, readableBytes(b) - len) \in Seq(Byte)
      /\ Len(SubSeq(toString(b), 1, readableBytes(b) - len)) = readableBytes(b) - len
      /\ \A i \in 1 .. (readableBytes(b) - len) :
           SubSeq(toString(b), 1, readableBytes(b) - len)[i] = toString(b)[i]
  <2>1. \A i \in 1 .. (readableBytes(b) - len) : toString(b)[i] \in Byte
    BY <1>3
  <2> QED
    BY <1>3, <2>1, SubSeqProperties
<1>5. toString(u) = SubSeq(toString(b), 1, readableBytes(b) - len)
  BY SMTT(30), <1>3, <1>4, SeqEqual
<1> QED
  BY <1>2, <1>3, <1>5 DEF u

(* shrink: the new buffer that is swapped in has the old contents. *)
LEMMA ShrinkText ==
  ASSUME NEW b, WF(b), NEW reserve \in Nat
  PROVE  /\ WF(shrink(b, reserve))
         /\ toString(shrink(b, reserve)) = toString(b)
<1> DEFINE fresh == NewBuffer(kInitialSize)
           room == ensureWritableBytes(fresh, readableBytes(b) + reserve)
<1>1. /\ toString(b) \in Seq(Byte)
      /\ readableBytes(b) + reserve \in Nat
  BY TextOf
<1>2. WF(fresh) /\ toString(fresh) = <<>>
  BY NewBufferWF, BufferAssumption
<1>3. WF(room) /\ toString(room) = <<>>
  BY <1>1, <1>2, EnsureWritableText DEF SameText
<1>4. /\ WF(append(room, toString(b)))
      /\ toString(append(room, toString(b))) = <<>> \o toString(b)
  BY <1>1, <1>3, AppendText
<1>5. <<>> \o toString(b) = toString(b)
  BY <1>1, ConcatEmptySeq
<1> QED
  BY <1>4, <1>5 DEF shrink

-----------------------------------------------------------------------------
(* What the arguments of the calls can be *)

LEMMA ChunkIsSeq == \A d \in Chunk : d \in Seq(Byte)
BY DEF Chunk

(* The digits of an integer are bytes. *)
LEMMA DigitsAreBytes ==
  ASSUME NEW w \in Widths, NEW x \in Signed(w)
  PROVE  hostToNetwork(x, w) \in Seq(Byte)
<1>1. w \in Nat /\ x \in Int
  BY IntegerAssumption DEF Signed
<1>2. ASSUME NEW i \in 1 .. w
      PROVE  (x \div Base^(w - i)) % Base \in Byte
  <2>1. w - i \in 0 .. w
    BY <1>1
  <2>2. Base^(w - i) \in Nat \ {0}
    BY <2>1, PowerAssumption
  <2>3. x \div Base^(w - i) \in Int
    BY <1>1, <2>2
  <2> QED
    BY <2>3, IntegerAssumption
<1> QED
  BY <1>1, <1>2 DEF hostToNetwork

(* What a search finds lies in the contents. *)
LEMMA FirstInIsIn == \A S : FirstIn(S) = NoPos \/ FirstIn(S) \in S
BY DEF FirstIn

LEMMA FoundInText ==
  ASSUME NEW b, WF(b)
  PROVE  /\ findCRLF(b, b.reader) # NoPos => (findCRLF(b, b.reader) + 2) - b.reader \in Nat
         /\ findEOL(b, b.reader) # NoPos => (findEOL(b, b.reader) + 1) - b.reader \in Nat
<1>1. findCRLF(b, b.reader) # NoPos => findCRLF(b, b.reader) \in b.reader .. (b.writer - 2)
  BY FirstInIsIn DEF findCRLF
<1>2. findEOL(b, b.reader) # NoPos => findEOL(b, b.reader) \in b.reader .. (b.writer - 1)
  BY FirstInIsIn DEF findEOL
<1> QED
  BY <1>1, <1>2 DEF WF

-----------------------------------------------------------------------------
(* The invariant, and what every call does *)

IInv == WF(buffer) /\ call.op \in {"new", "append", "prepend", "retrieve", "unwrite", "arrange"}

GrowStep ==
  call'.op = "append" /\ buffer'.size > buffer.size =>
    readableBytes(buffer') + kCheapPrepend > buffer.size

Good == IInv' /\ GrowStep /\ Contents!Next

LEMMA BytesAdded ==
  ASSUME IInv, NEW d \in Seq(Byte), Append_(d) \/ ReadFd(d)
  PROVE  Good
<1>1. /\ WF(buffer')
      /\ readableBytes(buffer') = readableBytes(buffer) + Len(d)
      /\ toString(buffer') = toString(buffer) \o d
      /\ buffer'.size > buffer.size => buffer.size < readableBytes(buffer) + Len(d) + kCheapPrepend
  BY AppendText, ReadFdText DEF Append_, ReadFd, IInv
<1>2. call' = [op |-> "append", data |-> d]
  BY DEF Append_, ReadFd
<1>3. GrowStep
  <2>1. readableBytes(buffer') \in Nat /\ buffer.size \in Nat
    BY <1>1, TextOf DEF IInv, WF
  <2> QED
    BY <1>1, <2>1, BufferAssumption DEF GrowStep
<1> QED
  BY <1>1, <1>2, <1>3 DEF Good, IInv, Contents!Next

LEMMA BytesPrepended ==
  ASSUME IInv, NEW d \in Seq(Byte), Prepend(d)
  PROVE  Good
<1>1. WF(buffer') /\ toString(buffer') = d \o toString(buffer)
  BY PrependText DEF Prepend, IInv
<1>2. call' = [op |-> "prepend", data |-> d]
  BY DEF Prepend
<1> QED
  BY <1>1, <1>2 DEF Good, IInv, GrowStep, Contents!Next

LEMMA BytesRetrieved ==
  ASSUME IInv, NEW len \in Nat, buffer' = retrieve(buffer, len),
         call' = [op |-> "retrieve", len |-> len]
  PROVE  Good
<1>1. /\ WF(buffer')
      /\ toString(buffer') = SubSeq(toString(buffer), len + 1, Len(toString(buffer)))
  BY RetrieveText DEF IInv
<1> QED
  BY <1>1 DEF Good, IInv, GrowStep, Contents!Next

LEMMA BytesUnwritten ==
  ASSUME IInv, NEW len \in Nat, Unwrite(len)
  PROVE  Good
<1>1. /\ WF(buffer')
      /\ toString(buffer') = SubSeq(toString(buffer), 1, Len(toString(buffer)) - len)
  BY UnwriteText DEF IInv, Unwrite
<1>2. call' = [op |-> "unwrite", len |-> len]
  BY DEF Unwrite
<1> QED
  BY <1>1, <1>2 DEF Good, IInv, GrowStep, Contents!Next

LEMMA Arranged ==
  ASSUME IInv, NEW len \in Nat, EnsureWritable(len) \/ Shrink(len)
  PROVE  Good
<1>1. WF(buffer') /\ toString(buffer') = toString(buffer)
  BY EnsureWritableText, ShrinkText DEF IInv, EnsureWritable, Shrink, SameText
<1>2. call' = [op |-> "arrange"]
  BY DEF EnsureWritable, Shrink
<1> QED
  BY <1>1, <1>2 DEF Good, IInv, GrowStep, Contents!Next

LEMMA StepIsGood ==
  ASSUME IInv, Next
  PROVE  Good
<1>1. ASSUME NEW d \in Chunk, Append_(d) \/ ReadFd(d) \/ Prepend(d)
      PROVE  Good
  BY <1>1, ChunkIsSeq, BytesAdded, BytesPrepended
<1>2. ASSUME NEW w \in Widths, NEW x \in Signed(w), AppendInt(x, w) \/ PrependInt(x, w)
      PROVE  Good
  BY <1>2, DigitsAreBytes, BytesAdded, BytesPrepended DEF AppendInt, PrependInt
<1>3. ASSUME NEW w \in Widths, ReadInt(w)
      PROVE  Good
  BY <1>3, IntegerAssumption, BytesRetrieved DEF ReadInt, Retrieve
<1>4. ASSUME NEW len \in 0 .. MaxReadable,
             Retrieve(len) \/ Unwrite(len) \/ EnsureWritable(len) \/ Shrink(len)
      PROVE  Good
  BY <1>4, BytesRetrieved, BytesUnwritten, Arranged DEF Retrieve
<1>5. CASE RetrieveAllAsString
  <2>1. readableBytes(buffer) \in Nat
    BY TextOf DEF IInv
  <2> QED
    BY <1>5, <2>1, BytesRetrieved DEF RetrieveAllAsString, Retrieve
<1>6. CASE RetrieveLine
  <2> DEFINE len == (findCRLF(buffer, buffer.reader) + 2) - buffer.reader
  <2>1. len \in Nat
    BY <1>6, FoundInText DEF RetrieveLine, IInv
  <2>2. buffer' = retrieve(buffer, len)
    BY <1>6, UntilIsRetrieve DEF RetrieveLine
  <2>3. call' = [op |-> "retrieve", len |-> len]
    BY <1>6 DEF RetrieveLine
  <2> QED
    BY <2>1, <2>2, <2>3, BytesRetrieved
<1>7. CASE RetrieveEOL
  <2> DEFINE len == (findEOL(buffer, buffer.reader) + 1) - buffer.reader
  <2>1. len \in Nat
    BY <1>7, FoundInText DEF RetrieveEOL, IInv
  <2>2. buffer' = retrieve(buffer, len)
    BY <1>7, UntilIsRetrieve DEF RetrieveEOL
  <2>3. call' = [op |-> "retrieve", len |-> len]
    BY <1>7 DEF RetrieveEOL
  <2> QED
    BY <2>1, <2>2, <2>3, BytesRetrieved
<1> QED
  BY <1>1, <1>2, <1>3, <1>4, <1>5, <1>6, <1>7 DEF Next

-----------------------------------------------------------------------------
LEMMA InitIsEmpty == Init => IInv /\ Contents!Init
BY NewBufferWF, IntegerAssumption DEF Init, IInv, Contents!Init

THEOREM Invariance == Spec => []IInv
<1>1. IInv /\ [Next]_vars => IInv'
  <2>1. IInv /\ UNCHANGED vars => IInv'
    BY DEF IInv, vars
  <2> QED
    BY <2>1, StepIsGood DEF Good
<1> QED
  BY <1>1, InitIsEmpty, PTL DEF Spec

(* After any sequence of calls, with any bytes and sizes, the indices are  *)
(* in order, so that no unsigned difference wraps, and the assertions that *)
(* makeSpace makes about itself hold for every length (Buffer.h:386-401).  *)
THEOREM BufferAsserts == Spec => []AssertionsHold
<1>1. IInv => AssertionsHold
  <2> SUFFICES ASSUME IInv
               PROVE  AssertionsHold
    OBVIOUS
  <2>1. TypeOK /\ IndicesOrdered
    BY DEF IInv, WF, Fields, TypeOK, IndicesOrdered
  <2>2. MakeSpaceAsserts
    BY MakeSpaceText DEF IInv, MakeSpaceAsserts, SameText
  <2> QED
    BY <2>1, <2>2 DEF AssertionsHold
<1> QED
  BY <1>1, Invariance, PTL

(* The vector grows only when contents, new bytes and the space in front   *)
(* do not fit in it (Buffer.h:386).                                        *)
THEOREM GrowthIsNeeded == Spec => GrowsOnlyWhenFull
<1>1. IInv /\ [Next]_vars => [GrowStep]_vars
  BY StepIsGood DEF Good
<1> QED
  BY <1>1, Invariance, PTL DEF Spec, GrowsOnlyWhenFull, GrowStep

(* Seen through toString, a buffer is a queue of bytes with two ends: the  *)
(* copies of makeSpace, the stack buffer of readFd and the swap of shrink  *)
(* lose, repeat and reorder nothing (Buffer.h:171-403, Buffer.cpp:21).     *)
THEOREM Implementation == Spec => ImplementsByteQueue
<1>1. IInv /\ [Next]_vars => [Contents!Next]_<<toString(buffer), call>>
  <2>1. UNCHANGED vars => UNCHANGED <<toString(buffer), call>>
    BY DEF vars
  <2> QED
    BY <2>1, StepIsGood DEF Good
<1> QED
  BY <1>1, InitIsEmpty, Invariance, PTL DEF Spec, ImplementsByteQueue, Contents!Spec

-----------------------------------------------------------------------------
(* The integers of Buffer.h:268-366 and base/Endian.h.                     *)

(* Division and remainder, as the provers need them.                       *)
LEMMA DivMod ==
  ASSUME NEW x \in Int, NEW b \in Nat \ {0}
  PROVE  x \div b \in Int /\ x % b \in 0 .. (b - 1) /\ x = b * (x \div b) + (x % b)
<1>1. x \div b \in Int
  OBVIOUS
<1>2. x % b \in 0 .. (b - 1)
  OBVIOUS
<1>3. x = b * (x \div b) + (x % b)
  OBVIOUS
<1> QED
  BY <1>1, <1>2, <1>3

LEMMA TimesMonotone ==
  ASSUME NEW c \in Nat, NEW p \in Int, NEW q \in Int, p <= q
  PROVE  c * p <= c * q
<1>1. q - p \in Nat
  OBVIOUS
<1>2. c * (q - p) \in Nat
  BY <1>1
<1>3. c * (q - p) = c * q - c * p
  OBVIOUS
<1> QED
  BY <1>2, <1>3

LEMMA DivIsUnique ==
  ASSUME NEW x \in Int, NEW c \in Nat \ {0}, NEW r \in Int, c * r <= x, x < c * r + c
  PROVE  x \div c = r
<1> DEFINE q == x \div c
<1>1. q \in Int /\ c * q <= x /\ x < c * q + c
  BY DivMod
<1> HIDE DEF q
<1>2. ASSUME q + 1 <= r PROVE FALSE
  <2>1. c * (q + 1) <= c * r
    BY <1>1, <1>2, TimesMonotone
  <2>2. c * (q + 1) = c * q + c
    BY <1>1
  <2>3. c * q \in Int /\ c * r \in Int
    BY <1>1
  <2> QED
    BY <1>1, <2>1, <2>2, <2>3
<1>3. ASSUME r + 1 <= q PROVE FALSE
  <2>1. c * (r + 1) <= c * q
    BY <1>1, <1>3, TimesMonotone
  <2>2. c * (r + 1) = c * r + c
    OBVIOUS
  <2>3. c * q \in Int /\ c * r \in Int
    BY <1>1
  <2> QED
    BY <1>1, <2>1, <2>2, <2>3
<1>4. q = r
  BY <1>1, <1>2, <1>3
<1> QED
  BY <1>4 DEF q

LEMMA DivOfDiv ==
  ASSUME NEW x \in Int, NEW a \in Nat \ {0}, NEW b \in Nat \ {0}
  PROVE  x \div (b * a) = (x \div a) \div b
<1> DEFINE q == x \div a
           r == q \div b
<1>1. q \in Int /\ a * q <= x /\ x < a * q + a
  BY DivMod
<1>2. r \in Int /\ b * r <= q /\ q + 1 <= b * r + b
  BY <1>1, DivMod
<1> HIDE DEF q, r
<1>3. b * r \in Int /\ b * a \in Nat \ {0}
  BY <1>2
<1>4. a * (b * r) <= a * q
  BY <1>1, <1>2, <1>3, TimesMonotone
<1>5. a * (q + 1) <= a * (b * r + b)
  BY <1>1, <1>2, <1>3, TimesMonotone
<1>6. /\ a * (b * r) = (b * a) * r /\ a * (b * r + b) = (b * a) * r + b * a
      /\ a * (q + 1) = a * q + a
      /\ a * q \in Int /\ (b * a) * r \in Int
  BY <1>1, <1>2, <1>3
<1>7. (b * a) * r <= x /\ x < (b * a) * r + b * a
  BY <1>1, <1>3, <1>4, <1>5, <1>6
<1>8. x \div (b * a) = r
  BY <1>2, <1>3, <1>7, DivIsUnique
<1> QED
  BY <1>8 DEF q, r

(* The powers of the base, and the digits of an integer x of width w: the  *)
(* leading n of them are worth x \div Base^(w - n), of which the part above *)
(* the width, x \div Base^w, is missing.                                   *)
Leading(x, w, n) == x \div Base^(w - n) - Base^n * (x \div Base^w)

LEMMA LeadingDigits ==
  ASSUME NEW w \in Widths, NEW x \in Int
  PROVE  /\ Leading(x, w, 0) = 0
         /\ \A n \in 1 .. w :
              Leading(x, w, n) = Base * Leading(x, w, n - 1) + hostToNetwork(x, w)[n]
         /\ Leading(x, w, w) = x - Base^w * (x \div Base^w)
<1>1. w \in Nat \ {0} /\ Base \in Nat \ {0}
  BY IntegerAssumption
<1>2. \A i \in 0 .. w : Base^i \in Nat \ {0} /\ Base^(i + 1) = Base * Base^i
  BY PowerAssumption
<1>3. Base^0 = 1
  BY <1>1, PowerAssumption
<1>4. x \div Base^w \in Int
  BY <1>1, <1>2, DivMod
<1>5. Leading(x, w, 0) = 0
  <2>1. w - 0 = w
    BY <1>1
  <2> QED
    BY <1>3, <1>4, <2>1 DEF Leading
<1>6. Leading(x, w, w) = x - Base^w * (x \div Base^w)
  <2>1. w - w = 0
    BY <1>1
  <2>2. x \div 1 = x
    BY DivIsUnique
  <2> QED
    BY <1>3, <2>1, <2>2 DEF Leading
<1>7. ASSUME NEW n \in 1 .. w
      PROVE  Leading(x, w, n) = Base * Leading(x, w, n - 1) + hostToNetwork(x, w)[n]
  <2> DEFINE a == Base^(w - n)
             q == x \div a
             k == x \div Base^w
             p == Base^(n - 1)
  <2>1. /\ w - n \in 0 .. w /\ n - 1 \in 0 .. w
        /\ w - (n - 1) = (w - n) + 1 /\ (n - 1) + 1 = n
    BY <1>1
  <2>2. /\ a \in Nat \ {0} /\ Base^(w - (n - 1)) = Base * a
        /\ p \in Nat \ {0} /\ Base^n = Base * p
    BY <1>2, <2>1
  <2>3. hostToNetwork(x, w)[n] = q % Base
    BY DEF hostToNetwork
  <2>4. x \div (Base * a) = q \div Base
    BY <1>1, <2>2, DivOfDiv
  <2>5. q \in Int
    BY <2>2, DivMod
  <2>6. Leading(x, w, n - 1) = (q \div Base) - p * k
    BY <2>2, <2>4 DEF Leading
  <2>7. Leading(x, w, n) = q - (Base * p) * k
    BY <2>2 DEF Leading
  <2> HIDE DEF a, q, k, p
  <2>8. q \div Base \in Int /\ q % Base \in Int /\ q = Base * (q \div Base) + (q % Base)
    BY <1>1, <2>5, DivMod
  <2>9. k \in Int /\ p \in Int /\ Base \in Int /\ p * k \in Int
    BY <1>1, <1>4, <2>2 DEF k
  <2>10. (Base * p) * k = Base * (p * k)
    BY <2>9
  <2>11. Base * ((q \div Base) - p * k) = Base * (q \div Base) - Base * (p * k)
    BY <2>8, <2>9
  <2>12. Base * (q \div Base) \in Int /\ Base * (p * k) \in Int
    BY <2>8, <2>9
  <2> QED
    BY <2>3, <2>6, <2>7, <2>8, <2>10, <2>11, <2>12
<1> QED
  BY <1>5, <1>6, <1>7

(* The loop of networkToHost has one outcome.                              *)
Folded(f, w, d) == f = [n \in 0 .. w |-> IF n = 0 THEN 0 ELSE Base * f[n - 1] + d[n]]

LEMMA FoldedOnce ==
  ASSUME NEW w \in Nat, NEW d, NEW f, NEW g, Folded(f, w, d), Folded(g, w, d)
  PROVE  f[w] = g[w]
<1>1. /\ f[0] = 0 /\ \A n \in 1 .. w : f[n] = Base * f[n - 1] + d[n]
      /\ g[0] = 0 /\ \A n \in 1 .. w : g[n] = Base * g[n - 1] + d[n]
  BY DEF Folded
<1> DEFINE S == {n \in 0 .. w : f[n] # g[n]}
<1>2. ASSUME S # {}
      PROVE  FALSE
  <2>1. S \in SUBSET Nat
    OBVIOUS
  <2>2. PICK n \in S : \A m \in S : n <= m
    BY <1>2, <2>1, LeastExists
  <2>3. n \in 1 .. w
    BY <2>2, <1>1
  <2>4. n - 1 \in 0 .. w /\ n - 1 \notin S
    BY <2>2, <2>3
  <2>5. f[n - 1] = g[n - 1]
    BY <2>4
  <2>6. f[n] = g[n]
    BY <1>1, <2>3, <2>5
  <2> QED
    BY <2>2, <2>6
<1> QED
  BY <1>2

LEMMA LoopOutcome ==
  ASSUME NEW w \in Nat, NEW d, NEW f, Folded(f, w, d)
  PROVE  LET value[n \in 0 .. w] == IF n = 0 THEN 0 ELSE Base * value[n - 1] + d[n]
         IN  value[w] = f[w]
<1> DEFINE value[n \in 0 .. w] == IF n = 0 THEN 0 ELSE Base * value[n - 1] + d[n]
<1>1. Folded(value, w, d)
  BY Zenon DEF Folded
<1> HIDE DEF value
<1>2. value[w] = f[w]
  BY <1>1, FoldedOnce
<1> QED
  BY <1>2 DEF value

LEMMA LeadingFolded ==
  ASSUME NEW w \in Widths, NEW x \in Int
  PROVE  Folded([n \in 0 .. w |-> Leading(x, w, n)], w, hostToNetwork(x, w))
<1> DEFINE f == [n \in 0 .. w |-> Leading(x, w, n)]
<1>1. w \in Nat \ {0}
  BY IntegerAssumption
<1>2. ASSUME NEW n \in 0 .. w
      PROVE  f[n] = IF n = 0 THEN 0 ELSE Base * f[n - 1] + hostToNetwork(x, w)[n]
  <2>1. CASE n = 0
    BY <1>1, <2>1, LeadingDigits
  <2>2. CASE n # 0
    <3>1. n \in 1 .. w /\ n - 1 \in 0 .. w
      BY <1>1, <2>2
    <3>2. Leading(x, w, n) = Base * Leading(x, w, n - 1) + hostToNetwork(x, w)[n]
      BY <3>1, LeadingDigits
    <3> QED
      BY <2>2, <3>1, <3>2
  <2> QED
    BY <2>1, <2>2
<1>3. f = [n \in 0 .. w |-> IF n = 0 THEN 0 ELSE Base * f[n - 1] + hostToNetwork(x, w)[n]]
  BY <1>2
<1> QED
  BY <1>3 DEF Folded

(* A signed number of w digits is read back as itself.                     *)
LEMMA ReadBack ==
  ASSUME NEW w \in Widths, NEW x \in Signed(w)
  PROVE  networkToHost(hostToNetwork(x, w)) = x
<1> DEFINE d == hostToNetwork(x, w)
           B == Base^w
           half == B \div 2
           v == x - B * (x \div B)
<1>1. w \in Nat \ {0} /\ Base \in Nat \ {0} /\ Base % 2 = 0
  BY IntegerAssumption
<1>2. B \in Nat \ {0} /\ half \in Int
  BY <1>1, PowerAssumption
<1>3. x \in Int /\ -half <= x /\ x <= half - 1
  BY <1>2 DEF Signed
<1>4. Len(d) = w
  BY <1>1 DEF hostToNetwork
<1>5. B = 2 * half
  <2>1. w - 1 \in 0 .. w /\ (w - 1) + 1 = w
    BY <1>1
  <2> DEFINE p == Base^(w - 1)
             h == Base \div 2
  <2>2. p \in Nat /\ B = Base * p
    BY <2>1, PowerAssumption
  <2>3. h \in Int /\ Base = 2 * h
    BY <1>1, DivMod
  <2> HIDE DEF p, h
  <2>4. h * p \in Int /\ (2 * h) * p = 2 * (h * p)
    BY <2>2, <2>3
  <2>5. B \div 2 = h * p
    BY <1>2, <2>2, <2>3, <2>4, DivIsUnique
  <2> QED
    BY <2>2, <2>3, <2>4, <2>5
<1>6. v = IF x < 0 THEN x + B ELSE x
  <2>1. CASE x < 0
    <3>1. x \div B = -1
      BY <1>2, <1>3, <1>5, <2>1, DivIsUnique
    <3> QED
      BY <1>2, <1>3, <2>1, <3>1
  <2>2. CASE ~ (x < 0)
    <3>1. x \div B = 0
      BY <1>2, <1>3, <1>5, <2>2, DivIsUnique
    <3> QED
      BY <1>2, <1>3, <2>2, <3>1
  <2> QED
    BY <2>1, <2>2
<1> DEFINE f == [n \in 0 .. w |-> Leading(x, w, n)]
<1>7. Folded(f, w, d) /\ f[w] = v
  BY <1>1, <1>3, LeadingFolded, LeadingDigits
<1>8. networkToHost(d) = IF v < half THEN v ELSE v - 2 * half
  <2> HIDE DEF d, f, v
  <2> DEFINE value[n \in 0 .. w] == IF n = 0 THEN 0 ELSE Base * value[n - 1] + d[n]
  <2>1. value[w] = f[w]
    BY <1>1, <1>7, LoopOutcome
  <2>2. networkToHost(d) = IF value[w] < half THEN value[w] ELSE value[w] - 2 * half
    BY <1>4 DEF networkToHost
  <2> QED
    BY <1>7, <2>1, <2>2
<1> HIDE DEF v, half
<1> QED
  BY <1>2, <1>3, <1>5, <1>6, <1>8

(* What is left of a sequence when k bytes of it have been taken.          *)
Rest(s, k) == SubSeq(s, k + 1, Len(s))

LEMMA RestIs ==
  ASSUME NEW s \in Seq(Byte), NEW k \in 0 .. Len(s)
  PROVE  /\ Rest(s, k) \in Seq(Byte) /\ Len(Rest(s, k)) = Len(s) - k
         /\ \A i \in 1 .. (Len(s) - k) : Rest(s, k)[i] = s[k + i]
<1>1. Len(s) \in Nat /\ \A i \in 1 .. Len(s) : s[i] \in Byte
  OBVIOUS
<1> QED
  BY <1>1, SubSeqProperties DEF Rest

(* The first w of the bytes that can be read are read as one integer.      *)
LEMMA PeekIsText ==
  ASSUME NEW b, WF(b), NEW w \in Widths, NEW x \in Signed(w), w <= readableBytes(b),
         \A i \in 1 .. w : toString(b)[i] = hostToNetwork(x, w)[i]
  PROVE  peekInt(b, w) = x
<1>1. w \in Nat \ {0}
  BY IntegerAssumption
<1>2. \A i \in 1 .. w : b.mem[b.reader + i - 1] = hostToNetwork(x, w)[i]
  BY <1>1, TextOf
<1>3. [i \in 1 .. w |-> b.mem[b.reader + i - 1]] = hostToNetwork(x, w)
  BY <1>2 DEF hostToNetwork
<1> QED
  BY <1>3, ReadBack DEF peekInt

LEMMA AppendedIsRead ==
  ASSUME NEW b, WF(b), NEW w \in Widths, NEW x \in Signed(w)
  PROVE  peekInt(retrieve(append(b, hostToNetwork(x, w)), readableBytes(b)), w) = x
<1> DEFINE d == hostToNetwork(x, w)
           n == readableBytes(b)
           s == toString(b)
           a == append(b, d)
           c == retrieve(a, n)
<1>1. w \in Nat \ {0} /\ n \in Nat /\ s \in Seq(Byte) /\ Len(s) = n
  BY IntegerAssumption, TextOf
<1>2. d \in Seq(Byte) /\ Len(d) = w
  <2>1. d \in Seq(Byte)
    BY DigitsAreBytes
  <2>2. Len(d) = w
    BY <1>1 DEF hostToNetwork
  <2> QED
    BY <2>1, <2>2
<1>3. WF(a) /\ toString(a) = s \o d
  BY <1>2, AppendText
<1>4. WF(c) /\ toString(c) = Rest(s \o d, n)
  BY <1>1, <1>3, RetrieveText DEF Rest
<1> HIDE DEF d, n, s, a, c
<1>5. /\ s \o d \in Seq(Byte) /\ Len(s \o d) = n + w
      /\ \A i \in 1 .. w : (s \o d)[n + i] = d[i]
  <2>1. /\ s \o d \in Seq(Byte) /\ Len(s \o d) = n + w
        /\ \A i \in 1 .. n + w : (s \o d)[i] = IF i <= n THEN s[i] ELSE d[i - n]
    BY <1>1, <1>2, ConcatProperties
  <2>2. ASSUME NEW i \in 1 .. w
        PROVE  (s \o d)[n + i] = d[i]
    <3>1. n + i \in 1 .. n + w /\ ~ (n + i <= n) /\ (n + i) - n = i
      BY <1>1
    <3> QED
      BY <2>1, <3>1
  <2> QED
    BY <2>1, <2>2
<1>6. /\ Len(toString(c)) = w
      /\ \A i \in 1 .. w : toString(c)[i] = (s \o d)[n + i]
  <2>1. n \in 0 .. Len(s \o d) /\ Len(s \o d) - n = w
    BY <1>1, <1>5
  <2> QED
    BY <1>4, <1>5, <2>1, RestIs
<1>7. w <= readableBytes(c)
  BY <1>1, <1>4, <1>6, TextOf
<1>8. \A i \in 1 .. w : toString(c)[i] = d[i]
  BY <1>5, <1>6
<1> QED
  BY <1>4, <1>7, <1>8, PeekIsText DEF d, n, a, c

LEMMA PrependedIsRead ==
  ASSUME NEW b, WF(b), NEW w \in Widths, NEW x \in Signed(w), w <= prependableBytes(b)
  PROVE  peekInt(prepend(b, hostToNetwork(x, w)), w) = x
<1> DEFINE d == hostToNetwork(x, w)
           a == prepend(b, d)
           s == toString(b)
<1>1. w \in Nat \ {0} /\ s \in Seq(Byte) /\ Len(s) \in Nat
  BY IntegerAssumption, TextOf
<1>2. d \in Seq(Byte) /\ Len(d) = w
  <2>1. d \in Seq(Byte)
    BY DigitsAreBytes
  <2>2. Len(d) = w
    BY <1>1 DEF hostToNetwork
  <2> QED
    BY <2>1, <2>2
<1>3. WF(a) /\ toString(a) = d \o s
  BY <1>2, PrependText
<1> HIDE DEF d, a, s
<1>4. /\ Len(d \o s) = w + Len(s)
      /\ \A i \in 1 .. w : (d \o s)[i] = d[i]
  BY <1>1, <1>2, ConcatProperties
<1>5. w <= readableBytes(a)
  BY <1>1, <1>3, <1>4, TextOf
<1> QED
  BY <1>3, <1>4, <1>5, PeekIsText DEF d, a

(* After any sequence of calls an integer of any width that is appended,   *)
(* or prepended where there is room, is read back as the same number, its  *)
(* sign included (Buffer.h:268-366).                                       *)
THEOREM IntegersReadBack == Spec => []IntegersSurvive
<1>1. IInv => IntegersSurvive
  BY AppendedIsRead, PrependedIsRead DEF IInv, IntegersSurvive
<1> QED
  BY <1>1, Invariance, PTL

-----------------------------------------------------------------------------
(* base/Mutex.h.  The invariants of the run are inductive together: where  *)
(* a thread stands determines both the owner of the pthread mutex and      *)
(* holder_.                                                                *)
LockInv == MutexTypeOK /\ OwnerIsOwning /\ AssertLockedExact

(* LockInv holds when the Mutex has been constructed. *)
LEMMA LockInitInv == MutexInit => LockInv
BY NoThreadAssumption
   DEF MutexInit, LockInv, MutexTypeOK, OwnerIsOwning, AssertLockedExact, Where, Owning

(* Every step of lock(), unlock(), wait(), notify() and notifyAll()        *)
(* preserves LockInv.                                                      *)
LEMMA LockNextInv == LockInv /\ [MutexNext]_MutexVars => LockInv'
<1> USE NoThreadAssumption
        DEF LockInv, MutexTypeOK, OwnerIsOwning, AssertLockedExact, Where, Owning
<1> SUFFICES ASSUME LockInv, [MutexNext]_MutexVars
             PROVE  LockInv'
  OBVIOUS
<1>1. CASE UNCHANGED MutexVars
  BY <1>1 DEF MutexVars
<1>2. ASSUME NEW t \in Threads, Step(t)
      PROVE  LockInv'
  <2>1. CASE Lock(t)
    BY <2>1 DEF Lock
  <2>2. CASE AssignHolder(t)
    BY <2>2 DEF AssignHolder
  <2>3. CASE UnassignHolder(t)
    BY <2>3 DEF UnassignHolder
  <2>4. CASE Unlock(t)
    BY <2>4 DEF Unlock
  <2>5. CASE CondWait(t)
    BY <2>5 DEF CondWait
  <2>6. CASE WakeUp(t)
    BY <2>6 DEF WakeUp
  <2>7. ASSUME NEW c \in Conds, BeginWait(t, c)
        PROVE  LockInv'
    BY <2>7 DEF BeginWait
  <2>8. ASSUME NEW c \in Conds, Notify(t, c)
        PROVE  LockInv'
    BY <2>8 DEF Notify, Sleepers
  <2>9. ASSUME NEW c \in Conds, NotifyAll(t, c)
        PROVE  LockInv'
    BY <2>9 DEF NotifyAll, Sleepers
  <2> QED
    BY <1>2, <2>1, <2>2, <2>3, <2>4, <2>5, <2>6, <2>7, <2>8, <2>9 DEF Step
<1> QED
  BY <1>1, <1>2 DEF MutexNext

(* LockInv is an invariant of the lock. *)
THEOREM LockInvHolds == MutexSpec => []LockInv
BY LockInitInv, LockNextInv, PTL DEF MutexSpec

(* Mutex::isLockedByThisThread answers true exactly for the thread inside  *)
(* a critical section, and the pthread mutex has the owner that the        *)
(* threads' positions say, for any number of threads and Conditions.       *)
THEOREM OwnershipIsExact == MutexSpec => []OwnershipExact
<1>1. LockInv => OwnershipExact
  BY DEF LockInv, OwnershipExact
<1> QED
  BY <1>1, LockInvHolds, PTL

(* Mutex.h:25: the assertion of ~Mutex holds whenever nobody owns the      *)
(* pthread mutex.                                                          *)
THEOREM DestructorAssertHolds == MutexSpec => []DestructorAssert
<1>1. LockInv => DestructorAssert
  BY DEF LockInv, MutexTypeOK, OwnerIsOwning, AssertLockedExact,
         DestructorAssert, Owning
<1> QED
  BY LockInvHolds, <1>1, PTL

-----------------------------------------------------------------------------
(* holder_ is NoThread whenever a thread is about to write its tid in it,  *)
(* so every step of the code is a Take, a Give or a stutter of the         *)
(* abstract lock.                                                          *)
LEMMA LockNextImplements == LockInv /\ [MutexNext]_MutexVars => [Abs!Next]_holder
<1> SUFFICES ASSUME LockInv, [MutexNext]_MutexVars
             PROVE  [Abs!Next]_holder
  OBVIOUS
<1>1. CASE UNCHANGED MutexVars
  BY <1>1 DEF MutexVars
<1>2. ASSUME NEW t \in Threads, Step(t)
      PROVE  [Abs!Next]_holder
  <2>1. CASE AssignHolder(t)
    <3>1. holder = NoThread
      BY <2>1 DEF LockInv, MutexTypeOK, OwnerIsOwning, AssertLockedExact,
                  AssignHolder, Owning
    <3> QED
      BY <2>1, <3>1 DEF AssignHolder, Abs!Next, Abs!Take
  <2>2. CASE UnassignHolder(t)
    BY <2>2 DEF LockInv, AssertLockedExact, UnassignHolder, Abs!Next, Abs!Give
  <2>3. ASSUME NEW c \in Conds, BeginWait(t, c)
        PROVE  [Abs!Next]_holder
    BY <2>3 DEF LockInv, AssertLockedExact, BeginWait, Abs!Next, Abs!Give
  <2>4. CASE UNCHANGED holder
    BY <2>4
  <2> QED
    BY <1>2, <2>1, <2>2, <2>3, <2>4
       DEF Step, Lock, Unlock, CondWait, WakeUp, Notify, NotifyAll
<1> QED
  BY <1>1, <1>2 DEF MutexNext

(* Mutex.h implements the abstract lock: seen through holder_, the lock    *)
(* passes from a thread to another only by being given up in between, with *)
(* any number of threads waiting on any of the Conditions.                 *)
THEOREM LockImplementation == MutexSpec => ImplementsLock
<1>1. MutexInit => Abs!Init
  BY DEF MutexInit, Abs!Init
<1> QED
  BY LockInvHolds, <1>1, LockNextImplements, PTL
     DEF MutexSpec, ImplementsLock, Abs!Spec

-----------------------------------------------------------------------------
(* http/, over a Buffer.                                                   *)
(* What is left when k bytes are taken, and m of what is left, is what is  *)
(* left when k + m are taken.                                              *)
LEMMA RestOfRest ==
  ASSUME NEW s \in Seq(Byte), NEW k \in 0 .. Len(s), NEW m \in 0 .. Len(Rest(s, k))
  PROVE  /\ Rest(s, k) \in Seq(Byte) /\ Len(Rest(s, k)) = Len(s) - k
         /\ \A i \in 1 .. Len(Rest(s, k)) : Rest(s, k)[i] = s[k + i]
         /\ Len(Rest(Rest(s, k), m)) = Len(Rest(s, k)) - m
         /\ Rest(Rest(s, k), m) = Rest(s, k + m)
<1> DEFINE t == Rest(s, k)
           u == Rest(t, m)
           v == Rest(s, k + m)
<1>1. Len(s) \in Nat
  OBVIOUS
<1>2. /\ t \in Seq(Byte) /\ Len(t) = Len(s) - k
      /\ \A i \in 1 .. (Len(s) - k) : t[i] = s[k + i]
  BY RestIs
<1>3. m \in 0 .. Len(t)
  OBVIOUS
<1> HIDE DEF t
<1>4. /\ u \in Seq(Byte) /\ Len(u) = Len(t) - m
      /\ \A i \in 1 .. (Len(t) - m) : u[i] = t[m + i]
  BY <1>2, <1>3, RestIs
<1>5. /\ v \in Seq(Byte) /\ Len(v) = Len(s) - (k + m)
      /\ \A i \in 1 .. (Len(s) - (k + m)) : v[i] = s[k + m + i]
  <2>1. k + m \in 0 .. Len(s)
    BY <1>1, <1>2, <1>3
  <2> QED
    BY <2>1, RestIs
<1> HIDE DEF u, v
<1>6. \A i \in 1 .. Len(u) : u[i] = v[i]
  <2> SUFFICES ASSUME NEW i \in 1 .. Len(u)
               PROVE  u[i] = v[i]
    OBVIOUS
  <2>1. /\ i \in 1 .. (Len(t) - m) /\ i \in 1 .. (Len(s) - (k + m))
        /\ m + i \in 1 .. (Len(s) - k) /\ k + (m + i) = k + m + i
    BY <1>1, <1>2, <1>3, <1>4
  <2> QED
    BY <1>2, <1>4, <1>5, <2>1
<1>7. Len(u) = Len(v)
  BY <1>1, <1>2, <1>3, <1>4, <1>5
<1>8. u = v
  BY <1>4, <1>5, <1>6, <1>7, SeqEqual
<1> QED
  BY <1>2, <1>4, <1>8 DEF t, u, v

(* What findCRLF finds is a CR and an LF in the contents. *)
LEMMA CRLFInText ==
  ASSUME NEW b, WF(b), NEW p, p = findCRLF(b, b.reader), p # NoPos
  PROVE  /\ (p + 2) - b.reader \in 2 .. readableBytes(b)
         /\ toString(b)[(p + 2) - b.reader - 1] = CR
         /\ toString(b)[(p + 2) - b.reader] = LF
<1>1. /\ p \in b.reader .. (b.writer - 2)
      /\ b.mem[p] = CR /\ b.mem[p + 1] = LF
  BY FirstInIsIn DEF findCRLF
<1>2. b.reader \in Nat /\ b.writer \in Nat
  BY DEF WF
<1> DEFINE len == (p + 2) - b.reader
<1>3. /\ len \in 2 .. readableBytes(b)
      /\ len \in 1 .. readableBytes(b) /\ len - 1 \in 1 .. readableBytes(b)
      /\ b.reader + len - 1 = p + 1 /\ b.reader + (len - 1) - 1 = p
  BY <1>1, <1>2 DEF readableBytes
<1> QED
  BY <1>1, <1>3, TextOf

(* The buffer holds the end of the image, from the start of a line on.     *)
Taken(b, image) == Len(image) - Len(toString(b))

LineStart(b, image) ==
  /\ Taken(b, image) >= 0
  /\ toString(b) = Rest(image, Taken(b, image))
  /\ Taken(b, image) > 0 => image[Taken(b, image) - 1] = CR /\ image[Taken(b, image)] = LF

(* It still does when a line has been retrieved. *)
LEMMA LineTaken ==
  ASSUME NEW b, WF(b), NEW image \in Seq(Byte), LineStart(b, image),
         findCRLF(b, b.reader) # NoPos
  PROVE  /\ WF(retrieveUntil(b, findCRLF(b, b.reader) + 2))
         /\ LineStart(retrieveUntil(b, findCRLF(b, b.reader) + 2), image)
         /\ Taken(retrieveUntil(b, findCRLF(b, b.reader) + 2), image) =
              Taken(b, image) + ((findCRLF(b, b.reader) + 2) - b.reader)
<1> DEFINE len == (findCRLF(b, b.reader) + 2) - b.reader
           c == retrieve(b, len)
           rest == toString(b)
           k == Taken(b, image)
<1>1. retrieveUntil(b, findCRLF(b, b.reader) + 2) = c
  BY UntilIsRetrieve
<1>2. /\ len \in 2 .. readableBytes(b)
      /\ rest[len - 1] = CR /\ rest[len] = LF
  BY CRLFInText
<1>3. rest \in Seq(Byte) /\ Len(rest) = readableBytes(b) /\ readableBytes(b) \in Nat
  BY TextOf
<1>4. len \in Nat
  BY <1>2, <1>3
<1>5. WF(c) /\ toString(c) = Rest(rest, len)
  BY <1>4, RetrieveText DEF Rest
<1>6. k >= 0 /\ rest = Rest(image, k)
  BY DEF LineStart
<1>7. k = Len(image) - Len(rest)
  BY DEF Taken
<1> HIDE DEF len, c, rest, k
<1>8. k \in 0 .. Len(image) /\ len \in 0 .. Len(rest)
  <2>1. Len(image) \in Nat /\ Len(rest) \in Nat
    BY <1>3
  <2>2. k \in Nat
    BY <2>1, <1>6, <1>7
  <2>3. k \in 0 .. Len(image)
    BY <2>1, <2>2, <1>7
  <2>4. len \in 0 .. Len(rest)
    BY <2>1, <1>2, <1>3
  <2> QED
    BY <2>3, <2>4
<1>9. /\ \A i \in 1 .. Len(rest) : rest[i] = image[k + i]
      /\ Len(Rest(rest, len)) = Len(rest) - len
      /\ Rest(rest, len) = Rest(image, k + len)
  BY <1>6, <1>8, RestOfRest
<1>10. image[k + len - 1] = CR /\ image[k + len] = LF
  <2>1. len - 1 \in 1 .. Len(rest) /\ len \in 1 .. Len(rest)
    BY <1>2, <1>3
  <2>2. k + (len - 1) = k + len - 1
    BY <1>4, <1>8
  <2> QED
    BY <1>2, <1>9, <2>1, <2>2
<1>11. Taken(c, image) = k + len
  BY <1>3, <1>4, <1>5, <1>7, <1>8, <1>9 DEF Taken
<1>12. k + len >= 0
  BY <1>4, <1>8
<1>13. LineStart(c, image)
  <2>1. toString(c) = Rest(image, Taken(c, image))
    BY <1>5, <1>9, <1>11
  <2>2. /\ Taken(c, image) >= 0
        /\ image[Taken(c, image) - 1] = CR /\ image[Taken(c, image)] = LF
    BY <1>4, <1>8, <1>10, <1>11, <1>12
  <2> QED
    BY <2>1, <2>2 DEF LineStart
<1> QED
  BY <1>1, <1>5, <1>11, <1>13 DEF len, c, k

-----------------------------------------------------------------------------
(* The invariant of the parser: the input and its chains, the local buffer *)
(* and the local context, and where the one stands in the other.           *)
InputOK ==
  /\ stream \in Streams
  /\ arrived \in 0 .. Len(stream)
  /\ drained \in 0 .. arrived
  /\ cuts \subseteq (drained + 1) .. (arrived - 1)

RequestOK(r) ==
  /\ DOMAIN r = {"method", "version", "headers"}
  /\ r.method \in Methods \cup {kInvalid}

ContextOK ==
  /\ DOMAIN context = {"state", "request"}
  /\ context.state \in {"kExpectRequestLine", "kExpectHeaders", "kGotAll"}
  /\ RequestOK(context.request)

ParserOK ==
  /\ stage \in {"idle", "recv", "loop", "parsed", "drain"}
  /\ ok \in BOOLEAN
  /\ WF(buf)
  /\ ContextOK
  /\ MethodAssert

InPlace == stage \in {"loop", "parsed"} => LineStart(buf, Image)

HttpInv == InputOK /\ ParserOK /\ InPlace

LEMMA HttpInvIsEnough == HttpInv => ParserSound
<1> SUFFICES ASSUME HttpInv
             PROVE  ParserSound
  OBVIOUS
<1>1. HttpTypeOK
  <2>1. \A i \in DOMAIN buf.mem : buf.mem[i] \in Byte
    BY DEF HttpInv, ParserOK, WF
  <2> QED
    BY <2>1 DEF HttpInv, InputOK, ParserOK, ContextOK, RequestOK, HttpTypeOK
<1>2. AtLineStart
  BY DEF HttpInv, InPlace, LineStart, Taken, Rest, AtLineStart
<1> QED
  BY <1>1, <1>2 DEF HttpInv, ParserOK, ParserSound

(* The image ends in the input, at the first of the ends of chains.        *)
LEMMA ImageInInput ==
  ASSUME InputOK
  PROVE  /\ arrived \in Nat /\ drained \in Nat
         /\ ImageEnd \in drained .. arrived
         /\ \A q \in cuts : ImageEnd <= q
         /\ Image \in Seq(Byte)
<1>1. /\ Len(stream) \in Nat /\ stream \in Seq(Byte)
      /\ arrived \in 0 .. Len(stream) /\ arrived \in Nat /\ drained \in Nat
  BY HttpAssumption DEF InputOK
<1>2. ASSUME cuts # {}
      PROVE  ImageEnd \in cuts /\ \A q \in cuts : ImageEnd <= q
  <2>1. cuts \in SUBSET Nat
    BY <1>1 DEF InputOK
  <2>2. \E x \in cuts : \A y \in cuts : x <= y
    BY <1>2, <2>1, LeastExists
  <2>3. /\ FirstIn(cuts) \in cuts
        /\ \A q \in cuts : FirstIn(cuts) <= q
    BY <2>2 DEF FirstIn
  <2> QED
    BY <1>2, <2>3 DEF ImageEnd
<1>3. ImageEnd \in drained .. arrived
  <2>1. cuts = {} => ImageEnd = arrived
    BY DEF ImageEnd
  <2>2. drained \in 0 .. arrived /\ cuts \subseteq (drained + 1) .. (arrived - 1)
    BY DEF InputOK
  <2>3. drained \in drained .. arrived /\ arrived \in drained .. arrived
    BY <1>1, <2>2
  <2>4. CASE cuts # {}
    <3>1. ImageEnd \in (drained + 1) .. (arrived - 1)
      BY <1>2, <2>2, <2>4
    <3> QED
      BY <1>1, <3>1
  <2> QED
    BY <2>1, <2>3, <2>4
<1>4. \A i \in (drained + 1) .. ImageEnd : stream[i] \in Byte
  BY <1>1, <1>3
<1>5. Image \in Seq(Byte)
  BY <1>1, <1>3, <1>4, SubSeqProperties DEF Image
<1> QED
  BY <1>1, <1>2, <1>3, <1>5

(* The line and the header that parseRequest takes leave a request well    *)
(* formed, with a method that setMethod knows or none.                     *)
LEMMA RequestsStayOK ==
  ASSUME NEW r, RequestOK(r), NEW a, NEW b, NEW c
  PROVE  /\ RequestOK(processRequestLine(r, a, b).request)
         /\ RequestOK(addHeader(r, a, c, b))
<1>1. \A x, y : setMethod(x, y) \in Methods \cup {kInvalid}
  BY DEF setMethod
<1>2. RequestOK(addHeader(r, a, c, b))
  BY DEF addHeader, RequestOK
<1>3. ASSUME NEW m \in Methods \cup {kInvalid}, NEW v
      PROVE  RequestOK([r EXCEPT !.method = m, !.version = v])
  BY DEF RequestOK
<1>4. \E m \in Methods \cup {kInvalid} : \E v :
        processRequestLine(r, a, b).request = [r EXCEPT !.method = m, !.version = v]
  BY <1>1 DEF processRequestLine, RequestOK
<1> QED
  BY <1>2, <1>3, <1>4

LEMMA HttpInitInv == HttpInit => HttpInv
<1> SUFFICES ASSUME HttpInit
             PROVE  HttpInv
  OBVIOUS
<1>1. InputOK
  BY HttpAssumption DEF HttpInit, InputOK
<1>2. ParserOK
  BY NewBufferWF, BufferAssumption
     DEF HttpInit, ParserOK, ContextOK, RequestOK, NewContext, NewRequest, MethodAssert
<1>3. InPlace
  BY DEF HttpInit, InPlace
<1> QED
  BY <1>1, <1>2, <1>3 DEF HttpInv

LEMMA SameInput ==
  ASSUME UNCHANGED <<stream, arrived, drained, cuts>>
  PROVE  Image' = Image /\ (InputOK => InputOK')
BY DEF Image, ImageEnd, InputOK

(* What reaches and what leaves the input keeps its chains in order.       *)
LEMMA InputChanges ==
  ASSUME HttpInv
  PROVE  /\ \A n \in 1 .. Len(stream), newChain \in BOOLEAN :
               Arrive(n, newChain) => HttpInv'
         /\ Drain => HttpInv'
<1>1. InputOK /\ ParserOK
  BY DEF HttpInv
<1>2. ASSUME NEW n \in 1 .. Len(stream), NEW newChain \in BOOLEAN,
             Arrive(n, newChain)
      PROVE  HttpInv'
  <2>1. /\ stream' = stream /\ drained' = drained /\ arrived' = arrived + n
        /\ arrived + n <= Len(stream)
        /\ cuts' \subseteq cuts \cup {arrived}
        /\ cuts' # cuts => arrived > drained
    BY <1>2 DEF Arrive
  <2>2. /\ arrived \in Nat /\ drained \in Nat /\ drained <= arrived /\ n \in Nat /\ n >= 1
        /\ stream \in Streams /\ Len(stream) \in Nat
        /\ cuts \subseteq (drained + 1) .. (arrived - 1)
    BY <1>1, HttpAssumption DEF InputOK
  <2>3. arrived' \in 0 .. Len(stream') /\ drained' \in 0 .. arrived'
    BY <2>1, <2>2
  <2>4. ASSUME NEW q \in cuts'
        PROVE  q \in (drained' + 1) .. (arrived' - 1)
    <3>1. CASE q \in cuts
      <4>1. q \in (drained + 1) .. (arrived - 1)
        BY <2>2, <3>1
      <4> QED
        BY <2>1, <2>2, <4>1
    <3>2. CASE q = arrived /\ cuts' # cuts
      BY <2>1, <2>2, <3>2
    <3> QED
      BY <2>1, <3>1, <3>2
  <2>5. InputOK'
    BY <2>1, <2>2, <2>3, <2>4 DEF InputOK
  <2>6. ParserOK' /\ InPlace'
    BY <1>1, <1>2 DEF Arrive, ParserOK, ContextOK, MethodAssert, InPlace
  <2> QED
    BY <2>5, <2>6 DEF HttpInv
<1>3. ASSUME Drain
      PROVE  HttpInv'
  <2>1. /\ stream' = stream /\ arrived' = arrived /\ drained' = ImageEnd
        /\ cuts' = cuts \ {ImageEnd} /\ stage' = "idle" /\ ok' = TRUE
        /\ buf' = NewBuffer(kInitialSize) /\ context' = NewContext
    BY <1>3 DEF Drain
  <2>2. /\ arrived \in Nat /\ drained \in Nat
        /\ ImageEnd \in drained .. arrived
        /\ \A q \in cuts : ImageEnd <= q
    BY <1>1, ImageInInput
  <2>3. ASSUME NEW q \in cuts'
        PROVE  q \in (drained' + 1) .. (arrived' - 1)
    <3>1. q \in (drained + 1) .. (arrived - 1) /\ ImageEnd <= q /\ q # ImageEnd
      BY <1>1, <2>1, <2>2 DEF InputOK
    <3> QED
      BY <2>1, <2>2, <3>1
  <2>4. InputOK'
    <3>1. drained' \in 0 .. arrived'
      BY <2>1, <2>2
    <3> QED
      BY <1>1, <2>1, <2>3, <3>1 DEF InputOK
  <2>5. ParserOK' /\ InPlace'
    BY <2>1, NewBufferWF, BufferAssumption
       DEF ParserOK, ContextOK, RequestOK, NewContext, NewRequest, MethodAssert, InPlace
  <2> QED
    BY <2>4, <2>5 DEF HttpInv
<1> QED
  BY <1>2, <1>3

(* What is copied to the buffer is the image, from its start on.           *)
LEMMA ImageCopied ==
  ASSUME HttpInv, OnMessage
  PROVE  HttpInv' /\ Taken(buf', Image') = 0
<1>1. InputOK /\ InputOK' /\ Image' = Image /\ Image \in Seq(Byte)
  BY SameInput, ImageInInput DEF HttpInv, OnMessage
<1>2. /\ buf' = append(NewBuffer(kInitialSize), Image)
      /\ context' = NewContext /\ ok' = TRUE /\ stage' = "loop"
  BY DEF OnMessage
<1>3. WF(buf') /\ toString(buf') = <<>> \o Image
  BY <1>1, <1>2, NewBufferWF, AppendText, BufferAssumption
<1>4. toString(buf') = Image
  BY <1>1, <1>3, ConcatEmptySeq
<1>5. Taken(buf', Image) = 0 /\ Rest(Image, 0) = Image
  BY <1>1, <1>4 DEF Taken, Rest
<1>6. LineStart(buf', Image')
  BY <1>1, <1>4, <1>5 DEF LineStart
<1>7. ParserOK' /\ InPlace'
  BY <1>2, <1>3, <1>6
     DEF ParserOK, ContextOK, RequestOK, NewContext, NewRequest, MethodAssert, InPlace
<1> QED
  BY <1>1, <1>4, <1>5, <1>7 DEF HttpInv

(* A turn that takes a line leaves the parser at the start of the next.    *)
LEMMA LineRetrieved ==
  ASSUME HttpInv, NEW state, Turn(state), buf' = retrieveUntil(buf, crlf + 2)
  PROVE  InputOK' /\ WF(buf') /\ InPlace'
<1>1. InputOK /\ InputOK' /\ Image' = Image /\ Image \in Seq(Byte)
  BY SameInput, ImageInInput DEF HttpInv, Turn
<1>2. WF(buf) /\ LineStart(buf, Image) /\ findCRLF(buf, buf.reader) # NoPos
  BY DEF HttpInv, ParserOK, InPlace, Turn, crlf
<1>3. WF(buf') /\ LineStart(buf', Image')
  BY <1>1, <1>2, LineTaken DEF crlf
<1> QED
  BY <1>1, <1>3 DEF InPlace

LEMMA HttpNextInv == HttpInv /\ [HttpNext]_HttpVars => HttpInv'
<1> SUFFICES ASSUME HttpInv, [HttpNext]_HttpVars
             PROVE  HttpInv'
  OBVIOUS
<1>1. CASE UNCHANGED HttpVars
  <2>1. InputOK' /\ Image' = Image
    BY <1>1, SameInput DEF HttpVars, HttpInv
  <2> QED
    BY <1>1, <2>1
       DEF HttpVars, HttpInv, ParserOK, ContextOK, MethodAssert, InPlace
<1>2. CASE \E n \in 1 .. Len(stream), newChain \in BOOLEAN : Arrive(n, newChain)
  BY <1>2, InputChanges
<1>3. CASE RecvTooShort \/ LineIncomplete \/ NoRequest
  <2>1. InputOK' /\ Image' = Image
    BY <1>3, SameInput DEF HttpInv, RecvTooShort, LineIncomplete, NoRequest
  <2> QED
    BY <1>3, <2>1 DEF HttpInv, ParserOK, ContextOK, MethodAssert, InPlace,
                      RecvTooShort, LineIncomplete, NoRequest
<1>4. CASE OnMessage
  BY <1>4, ImageCopied
<1>5. CASE RequestLine
  <2>1. InputOK' /\ WF(buf') /\ InPlace'
    BY <1>5, LineRetrieved DEF RequestLine
  <2>2. RequestOK(Line.request)
    BY RequestsStayOK DEF HttpInv, ParserOK, ContextOK, Line
  <2>3. /\ context' = [state |-> "kExpectHeaders", request |-> Line.request]
        /\ ok' = ok /\ stage' = stage
    BY <1>5 DEF RequestLine
  <2>4. ContextOK' /\ MethodAssert'
    BY <2>2, <2>3 DEF ContextOK, MethodAssert
  <2> QED
    BY <2>1, <2>3, <2>4 DEF HttpInv, ParserOK
<1>6. CASE RequestLineRefused
  <2>1. InputOK' /\ Image' = Image
    BY <1>6, SameInput DEF HttpInv, RequestLineRefused, Turn
  <2>2. RequestOK(Line.request)
    BY RequestsStayOK DEF HttpInv, ParserOK, ContextOK, Line
  <2>3. /\ context' = [context EXCEPT !.request = Line.request]
        /\ ok' = FALSE /\ stage = "loop" /\ stage' = "parsed" /\ buf' = buf
    BY <1>6 DEF RequestLineRefused, Turn
  <2>4. ContextOK' /\ MethodAssert'
    BY <2>2, <2>3 DEF HttpInv, ParserOK, ContextOK, MethodAssert
  <2>5. InPlace'
    BY <2>1, <2>3 DEF HttpInv, InPlace
  <2> QED
    BY <2>1, <2>3, <2>4, <2>5 DEF HttpInv, ParserOK
<1>7. CASE Header
  <2>1. InputOK' /\ WF(buf') /\ InPlace'
    BY <1>7, LineRetrieved DEF Header
  <2>2. RequestOK(addHeader(context.request, buf.reader, colon, crlf))
    BY RequestsStayOK DEF HttpInv, ParserOK, ContextOK
  <2>3. /\ context' = [context EXCEPT
               !.request = addHeader(context.request, buf.reader, colon, crlf)]
        /\ context.state = "kExpectHeaders" /\ ok' = ok /\ stage' = stage
    BY <1>7 DEF Header, Turn
  <2>4. ContextOK' /\ MethodAssert'
    BY <2>2, <2>3 DEF HttpInv, ParserOK, ContextOK, MethodAssert
  <2> QED
    BY <2>1, <2>3, <2>4 DEF HttpInv, ParserOK
<1>8. CASE EndOfHeaders
  <2>1. InputOK' /\ WF(buf') /\ InPlace'
    BY <1>8, LineRetrieved DEF EndOfHeaders
  <2>2. /\ context' = [context EXCEPT !.state = "kGotAll"]
        /\ ok' = ok /\ stage' = "parsed"
    BY <1>8 DEF EndOfHeaders
  <2>3. ContextOK' /\ MethodAssert'
    BY <2>2 DEF HttpInv, ParserOK, ContextOK, MethodAssert
  <2> QED
    BY <2>1, <2>2, <2>3 DEF HttpInv, ParserOK
<1>9. CASE OnRequest
  <2>1. InputOK'
    BY <1>9, SameInput DEF HttpInv, OnRequest
  <2> QED
    BY <1>9, <2>1 DEF HttpInv, ParserOK, ContextOK, RequestOK, NewContext, NewRequest,
                      MethodAssert, InPlace, OnRequest
<1>10. CASE Drain
  BY <1>10, InputChanges
<1> QED
  BY <1>1, <1>2, <1>3, <1>4, <1>5, <1>6, <1>7, <1>8, <1>9, <1>10
     DEF HttpNext, Callback

(* However a client's bytes are cut into reads, the parser stands at the   *)
(* start of a line of the image and parses no request into the remains of  *)
(* another (httpContext.cpp:63-115, httpRequest.h:50).                     *)
THEOREM LinesParsedWhole == HttpSpec => []ParserSound
BY HttpInitInv, HttpNextInv, HttpInvIsEnough, PTL DEF HttpSpec

-----------------------------------------------------------------------------
(* What the searches of the parser find, and its line as the image has it. *)

(* The first of a set of positions, when there is one. *)
LEMMA FirstInLeast ==
  ASSUME NEW S \in SUBSET Nat
  PROVE  /\ FirstIn(S) = NoPos <=> S = {}
         /\ S # {} => FirstIn(S) \in S /\ \A q \in S : FirstIn(S) <= q
<1>1. CASE S = {}
  BY <1>1 DEF FirstIn
<1>2. CASE S # {}
  <2>1. \E x \in S : \A y \in S : x <= y
    BY <1>2, LeastExists
  <2>2. FirstIn(S) \in S /\ \A q \in S : FirstIn(S) <= q
    BY <2>1 DEF FirstIn
  <2>3. FirstIn(S) # NoPos
    BY <2>2 DEF NoPos
  <2> QED
    BY <1>2, <2>2, <2>3
<1> QED
  BY <1>1, <1>2

(* The last of a set of positions below a bound. *)
LEMMA GreatestExists ==
  ASSUME NEW n \in Nat, NEW S \in SUBSET (0 .. n), S # {}
  PROVE  \E x \in S : \A y \in S : y <= x
<1> DEFINE R == {n - x : x \in S}
<1>1. R \in SUBSET Nat /\ R # {}
  <2>1. \A x \in 0 .. n : n - x \in Nat
    OBVIOUS
  <2>2. \A x \in S : x \in 0 .. n
    OBVIOUS
  <2>3. \A x \in S : n - x \in Nat
    BY <2>1, <2>2
  <2> QED
    BY <2>3
<1>2. PICK r \in R : \A q \in R : r <= q
  BY <1>1, LeastExists
<1>3. PICK x \in S : r = n - x
  BY <1>2
<1>4. ASSUME NEW y \in S
      PROVE  y <= x
  <2>1. n - x <= n - y
    BY <1>2, <1>3
  <2>2. x \in 0 .. n /\ y \in 0 .. n
    OBVIOUS
  <2> QED
    BY <2>1, <2>2
<1> QED
  BY <1>3, <1>4

(* std::find *)
LEMMA FindIs ==
  ASSUME NEW c, NEW from \in Nat, NEW to \in Nat, from <= to
  PROVE  /\ find(c, from, to) \in from .. to
         /\ find(c, from, to) # to => buf.mem[find(c, from, to)] = c
         /\ \A q \in from .. (find(c, from, to) - 1) : buf.mem[q] # c
<1> DEFINE S == {q \in from .. (to - 1) : buf.mem[q] = c}
<1>1. S \in SUBSET Nat
  OBVIOUS
<1>2. /\ FirstIn(S) = NoPos <=> S = {}
      /\ S # {} => FirstIn(S) \in S /\ \A q \in S : FirstIn(S) <= q
  <2> HIDE DEF S
  <2> QED
    BY <1>1, FirstInLeast
<1>3. find(c, from, to) = IF S = {} THEN to ELSE FirstIn(S)
  BY <1>2 DEF find
<1>4. CASE S = {}
  BY <1>3, <1>4
<1>5. CASE S # {}
  <2> DEFINE f == FirstIn(S)
  <2>1. f \in S /\ \A q \in S : f <= q
    BY <1>2, <1>5
  <2>2. f \in from .. (to - 1) /\ buf.mem[f] = c
    BY <2>1
  <2>3. ASSUME NEW q \in from .. (f - 1)
        PROVE  buf.mem[q] # c
    <3>1. q \in from .. (to - 1) /\ ~ (f <= q)
      BY <2>2
    <3> QED
      BY <2>1, <3>1
  <2> QED
    BY <1>3, <1>5, <2>2, <2>3
<1> QED
  BY <1>4, <1>5

(* What lies between two positions, as a text. *)
LEMMA TextIs ==
  ASSUME NEW from, NEW to
  PROVE  Text(from, to) = [i \in 1 .. (to - from) |-> buf.mem[from + i - 1]]
BY Zenon DEF Text

LEMMA OneLong ==
  ASSUME NEW from \in Nat, NEW to \in Nat, from <= to, NEW w
  PROVE  Text(from, to) = <<w>> <=> to = from + 1 /\ buf.mem[from] = w
<1> DEFINE t == Text(from, to)
<1>1. DOMAIN t = 1 .. (to - from)
  BY TextIs, Zenon
<1>2. ASSUME from < to
      PROVE  to - from \in 1 .. (to - from) /\ t[1] = buf.mem[from]
  <2>1. 1 \in 1 .. (to - from) /\ to - from \in 1 .. (to - from) /\ from + 1 - 1 = from
    BY <1>2
  <2>2. \A i \in 1 .. (to - from) : t[i] = buf.mem[from + i - 1]
    BY TextIs, Zenon
  <2> QED
    BY <2>1, <2>2, Zenon
<1> HIDE DEF t
<1>4. ASSUME t = <<w>>
      PROVE  to = from + 1 /\ buf.mem[from] = w
  <2>1. DOMAIN t = 1 .. 1 /\ t[1] = w
    BY <1>4
  <2>2. from < to
    <3>1. 1 \in 1 .. (to - from)
      BY <1>1, <2>1
    <3> QED
      BY <3>1
  <2>3. to - from \in 1 .. 1
    BY <1>1, <1>2, <2>1, <2>2, Zenon
  <2> QED
    BY <1>2, <2>1, <2>2, <2>3
<1>5. ASSUME to = from + 1, buf.mem[from] = w
      PROVE  t = <<w>>
  <2>1. to - from = 1
    BY <1>5
  <2>2. t = [i \in 1 .. 1 |-> t[i]]
    <3>1. t = [i \in DOMAIN t |-> t[i]]
      BY TextIs, Zenon DEF t
    <3> QED
      BY <1>1, <2>1, <3>1, Zenon
  <2>3. \A i \in 1 .. 1 : t[i] = w
    BY <1>2, <1>5
  <2>4. [i \in 1 .. 1 |-> t[i]] = <<w>>
    BY <2>3
  <2> QED
    BY <2>2, <2>4, Zenon
<1> QED
  BY <1>4, <1>5 DEF t

(* A value is one word when all around it are spaces. *)
LoneWord(from, to, w) ==
  \E i \in from .. (to - 1) :
     /\ buf.mem[i] = w
     /\ \A j \in from .. (to - 1) : j # i => buf.mem[j] \in Space

LEMMA TrimmedIs ==
  ASSUME NEW from \in Nat, NEW to \in Nat, from <= to, NEW w, w \notin Space
  PROVE  Trimmed(from, to) = <<w>> <=> LoneWord(from, to, w)
<1> DEFINE word == {q \in from .. (to - 1) : buf.mem[q] \notin Space}
           One == \E i \in from .. (to - 1) :
                    /\ buf.mem[i] = w
                    /\ \A j \in from .. (to - 1) : j # i => buf.mem[j] \in Space
<1>1. LoneWord(from, to, w) <=> One
  BY Zenon DEF LoneWord
<1>2. CASE word = {}
  <2>1. Trimmed(from, to) = <<>>
    BY <1>2 DEF Trimmed
  <2>2. ~ One
    BY <1>2
  <2>3. <<>> # <<w>>
    OBVIOUS
  <2> QED
    BY <1>1, <2>1, <2>2, <2>3, Zenon
<1>3. CASE word # {}
  <2> DEFINE first == FirstIn(word)
             last == CHOOSE q \in word : \A r \in word : r <= q
  <2>1. first \in word /\ \A q \in word : first <= q
    <3>1. word \in SUBSET Nat
      OBVIOUS
    <3> HIDE DEF word
    <3> QED
      BY <1>3, <3>1, FirstInLeast
  <2>2. last \in word /\ \A q \in word : q <= last
    <3>1. word \in SUBSET (0 .. to)
      OBVIOUS
    <3> HIDE DEF word
    <3>2. \E x \in word : \A y \in word : y <= x
      BY <1>3, <3>1, GreatestExists
    <3> QED
      BY <3>2
  <2>3. Trimmed(from, to) = Text(first, 1 + last)
    BY <1>3 DEF Trimmed
  <2> HIDE DEF first, last
  <2>4. first \in Nat /\ last \in Nat /\ first <= last
    BY <2>1, <2>2
  <2>5. first < 1 + last /\ 1 + last \in Nat /\ (1 + last = first + 1 <=> first = last)
    BY <2>4
  <2>6. Trimmed(from, to) = <<w>> <=> first = last /\ buf.mem[first] = w
    BY <2>3, <2>4, <2>5, OneLong
  <2>7. (first = last /\ buf.mem[first] = w) <=> One
    <3>1. ASSUME first = last, buf.mem[first] = w
          PROVE  One
      <4>1. \A j \in word : j = first
        BY <2>1, <2>2, <3>1
      <4> QED
        BY <2>1, <3>1, <4>1
    <3>2. ASSUME One
          PROVE  first = last /\ buf.mem[first] = w
      BY <2>1, <2>2, <3>2
    <3> QED
      BY <3>1, <3>2
  <2> QED
    BY <1>1, <2>6, <2>7, Zenon
<1> QED
  BY <1>2, <1>3, Zenon

-----------------------------------------------------------------------------
(* The buffer shows the end of s, with the position q of the one at the    *)
(* position q + d of the other.                                            *)
Shown(s, d) ==
  /\ s \in Seq(Byte) /\ WF(buf)
  /\ d \in Int /\ buf.reader + d >= 1 /\ buf.writer + d = Len(s) + 1
  /\ \A q \in buf.reader .. (buf.writer - 1) : buf.mem[q] = s[q + d]

LEMMA ShownIs ==
  ASSUME NEW s \in Seq(Byte), WF(buf), LineStart(buf, s)
  PROVE  Shown(s, Taken(buf, s) + 1 - buf.reader)
<1> DEFINE k == Taken(buf, s)
           d == k + 1 - buf.reader
<1>1. /\ toString(buf) = Rest(s, k) /\ k >= 0 /\ k = Len(s) - Len(toString(buf))
  BY DEF LineStart, Taken
<1>2. /\ Len(toString(buf)) = readableBytes(buf) /\ readableBytes(buf) \in Nat
      /\ \A i \in 1 .. readableBytes(buf) : toString(buf)[i] = buf.mem[buf.reader + i - 1]
  BY TextOf
<1>3. buf.reader \in Nat /\ buf.writer \in Nat /\ readableBytes(buf) = buf.writer - buf.reader
  BY DEF WF, readableBytes
<1> HIDE DEF k
<1>4. k \in 0 .. Len(s)
  <2>1. Len(s) \in Nat
    OBVIOUS
  <2> QED
    BY <1>1, <1>2, <2>1
<1>5. \A i \in 1 .. (Len(s) - k) : Rest(s, k)[i] = s[k + i]
  BY <1>4, RestIs
<1>6. ASSUME NEW q \in buf.reader .. (buf.writer - 1)
      PROVE  buf.mem[q] = s[q + d]
  <2>1. PICK r \in Nat, n \in Nat : r = buf.reader /\ n = readableBytes(buf)
    BY <1>2, <1>3
  <2>2. q \in r .. (r + n - 1) /\ Len(s) - k = n /\ k \in Nat /\ d = k + 1 - r
    <3>1. buf.writer = r + n
      BY <1>3, <2>1
    <3>2. Len(s) \in Nat /\ k \in Nat
      BY <1>4
    <3>3. Len(s) - k = n
      BY <1>1, <1>2, <2>1, <3>2
    <3> QED
      BY <2>1, <3>1, <3>2, <3>3
  <2> HIDE DEF d
  <2>3. PICK i \in Int : i = q - r + 1
    BY <2>2
  <2>4. i \in 1 .. n /\ r + i - 1 = q /\ k + i = q + d
    BY <2>2, <2>3
  <2>5. toString(buf)[i] = buf.mem[q]
    BY <1>2, <2>1, <2>4
  <2>6. Rest(s, k)[i] = s[q + d]
    BY <1>5, <2>2, <2>4
  <2> QED
    BY <1>1, <2>5, <2>6
<1>7. buf.reader + d >= 1 /\ buf.writer + d = Len(s) + 1 /\ d \in Int
  <2>1. Len(s) \in Nat /\ readableBytes(buf) = Len(s) - k
    BY <1>1, <1>2, <1>4
  <2>2. d \in Int /\ buf.reader + d = k + 1
    BY <1>3, <1>4
  <2>3. buf.writer + d = k + 1 + readableBytes(buf)
    BY <1>3, <1>4
  <2> QED
    BY <1>4, <2>1, <2>2, <2>3
<1> QED
  BY <1>6, <1>7 DEF Shown, k

LEMMA Places ==
  ASSUME NEW r \in Nat, NEW w \in Nat, NEW n \in Nat, NEW d \in Int, r <= w,
         r + d >= 1, w + d = n + 1
  PROVE  /\ r + d - 1 \in 0 .. n
         /\ \A p \in r .. (w - 2) :
               /\ p \in r .. (w - 1) /\ p + 1 \in r .. (w - 1)
               /\ p + d + 1 - 1 = p + d /\ (p + 1) + d = p + d + 1
               /\ p + d + 1 \in 2 .. n /\ p + d + 1 > r + d - 1
         /\ \A e \in 2 .. n : e > r + d =>
               /\ e - d - 1 \in r .. (w - 2) /\ e - d - 1 \in r .. (w - 1)
               /\ e - d - 1 + 1 \in r .. (w - 1)
               /\ (e - d - 1) + d = e - 1 /\ (e - d - 1) + 1 + d = e
OBVIOUS

(* What findCRLF finds is the end of the line that the parser stands at.   *)
LEMMA NextLine ==
  ASSUME NEW s \in Seq(Byte), NEW d \in Int, Shown(s, d), NEW k \in Nat, k = buf.reader + d - 1,
         k = 0 \/ s[k] = LF
  PROVE  /\ k \in 0 .. Len(s)
         /\ crlf = NoPos => \A e \in Nat : EndsLine(s, e) => e <= k
         /\ crlf # NoPos => /\ crlf \in buf.reader .. (buf.writer - 2)
                            /\ IsLine(s, k, crlf + d + 1)
<1>1. PICK r \in Nat, w \in Nat, n \in Nat : r = buf.reader /\ w = buf.writer /\ n = Len(s)
  <2>1. Len(s) \in Nat
    BY DEF Shown
  <2> QED
    BY <2>1 DEF Shown, WF
<1> DEFINE S == {p \in r .. (w - 2) : buf.mem[p] = CR /\ buf.mem[p + 1] = LF}
<1>2. /\ r \in Nat /\ w \in Nat /\ d \in Int /\ r <= w /\ n \in Nat
      /\ r + d >= 1 /\ w + d = n + 1 /\ k = r + d - 1
      /\ \A q \in r .. (w - 1) : buf.mem[q] = s[q + d]
  BY <1>1 DEF Shown, WF
<1>3. k \in 0 .. n
  BY <1>2
<1>4. \A p \in r .. (w - 2) :
          /\ p \in r .. (w - 1) /\ p + 1 \in r .. (w - 1)
          /\ p + d + 1 - 1 = p + d /\ (p + 1) + d = p + d + 1
          /\ p + d + 1 \in 2 .. n /\ p + d + 1 > k
  <2> HIDE DEF S
  <2> QED
    BY <1>2, Places
<1>5. \A e \in 2 .. n : e > r + d =>
          /\ e - d - 1 \in r .. (w - 2) /\ e - d - 1 \in r .. (w - 1)
          /\ e - d - 1 + 1 \in r .. (w - 1)
          /\ (e - d - 1) + d = e - 1 /\ (e - d - 1) + 1 + d = e
  <2> HIDE DEF S
  <2> QED
    BY <1>2, Places
<1>6. k \in 0 .. Len(s)
  BY <1>1, <1>3
<1>7. ASSUME NEW p \in S
      PROVE  EndsLine(s, p + d + 1) /\ p + d + 1 > k
  <2>1. p \in r .. (w - 2) /\ buf.mem[p] = CR /\ buf.mem[p + 1] = LF
    OBVIOUS
  <2> HIDE DEF S
  <2>2. PICK e \in Int : e = p + d + 1
    BY <2>1
  <2>3. /\ p \in r .. (w - 1) /\ p + 1 \in r .. (w - 1)
        /\ e - 1 = p + d /\ (p + 1) + d = e /\ e \in 2 .. n /\ e > k
    BY <1>4, <2>1, <2>2
  <2>4. s[e - 1] = CR /\ s[e] = LF
    BY <1>2, <2>1, <2>3
  <2>5. EndsLine(s, e)
    BY <1>1, <2>3, <2>4 DEF EndsLine
  <2> QED
    BY <2>2, <2>3, <2>5
<1>8. ASSUME NEW e \in Nat, EndsLine(s, e), e > k
      PROVE  e - d - 1 \in S
  <2>1. e \in 2 .. n /\ s[e - 1] = CR /\ s[e] = LF
    BY <1>1, <1>8 DEF EndsLine
  <2>2. e # k + 1
    <3> SUFFICES ASSUME e = k + 1
                 PROVE  FALSE
      OBVIOUS
    <3>1. e - 1 = k /\ k # 0
      BY <1>3, <2>1
    <3> QED
      BY <2>1, <3>1, HttpAssumption
  <2>3. e - 1 \in k + 1 .. n
    BY <1>3, <1>8, <2>1, <2>2
  <2> DEFINE p == e - d - 1
  <2>4. /\ p \in r .. (w - 2)
        /\ p \in r .. (w - 1) /\ p + 1 \in r .. (w - 1)
        /\ p + d = e - 1 /\ p + 1 + d = e
    <3>1. e > r + d
      BY <1>2, <2>1, <2>3
    <3> QED
      BY <1>5, <2>1, <3>1, Zenon
  <2> HIDE DEF p
  <2>5. buf.mem[p] = CR /\ buf.mem[p + 1] = LF
    BY <1>2, <2>1, <2>4
  <2> QED
    BY <2>4, <2>5 DEF p
<1>9. S \in SUBSET Nat
  BY <1>2
<1>10. crlf = FirstIn(S)
  BY <1>1 DEF crlf, findCRLF
<1>11. S \subseteq r .. (w - 2)
  OBVIOUS
<1> HIDE DEF S
<1>12. CASE S = {}
  <2>1. crlf = NoPos
    BY <1>9, <1>10, <1>12, FirstInLeast
  <2>2. ASSUME NEW e \in Nat, EndsLine(s, e)
        PROVE  e <= k
    <3>1. ~ (e > k)
      BY <1>8, <1>12, <2>2
    <3>2. e \in Int
      BY <1>1, <1>2, <2>2 DEF EndsLine
    <3> QED
      BY <1>3, <3>1, <3>2
  <2> QED
    BY <1>6, <2>1, <2>2, Zenon
<1>13. CASE S # {}
  <2>1. crlf # NoPos /\ crlf \in S /\ \A q \in S : crlf <= q
    BY <1>9, <1>10, <1>13, FirstInLeast
  <2>2. EndsLine(s, crlf + d + 1) /\ crlf + d + 1 > k
    BY <1>7, <2>1
  <2>3. ASSUME NEW q \in (k + 1) .. (crlf + d), EndsLine(s, q)
        PROVE  FALSE
    <3>1. q \in Int /\ q > k
      BY <1>3, <2>3
    <3>2. q - d - 1 \in S
      BY <1>8, <2>3, <3>1
    <3>3. crlf <= q - d - 1
      BY <2>1, <3>2
    <3>4. crlf \in Int
      BY <1>2, <1>11, <2>1
    <3> QED
      BY <1>2, <2>3, <3>1, <3>3, <3>4
  <2>4. crlf \in Int /\ (crlf + d + 1) - 1 = crlf + d
    BY <1>2, <1>11, <2>1
  <2>5. IsLine(s, k, crlf + d + 1)
    BY <2>2, <2>3, <2>4 DEF IsLine
  <2>6. crlf \in buf.reader .. (buf.writer - 2)
    BY <1>1, <1>11, <2>1
  <2> QED
    BY <1>6, <2>1, <2>5, <2>6, Zenon
<1> QED
  BY <1>1, <1>12, <1>13

(* A line has one end. *)
LEMMA LineUnique ==
  ASSUME NEW s, NEW p \in Nat, NEW e \in Nat, NEW f \in Nat, IsLine(s, p, e), IsLine(s, p, f)
  PROVE  e = f
<1>1. ASSUME NEW x \in Nat, NEW y \in Nat, IsLine(s, p, x), IsLine(s, p, y), x < y
      PROVE  FALSE
  <2>1. x \in (p + 1) .. (y - 1) /\ EndsLine(s, x)
    BY <1>1 DEF IsLine
  <2> QED
    BY <1>1, <2>1 DEF IsLine
<1>2. ~ (e < f) /\ ~ (f < e)
  BY <1>1
<1> QED
  BY <1>2

(* The first line of s, as the buffer shows it from r to p - 1. *)
TopLine(s, r, p, e) ==
  /\ r <= p /\ e = p + 2 - r /\ IsLine(s, 0, e)
  /\ \A q \in r .. (p - 1) : buf.mem[q] = s[q - r + 1]

(* The request line that the parser takes is a request line. *)
AsMeant(s, e, t, line) ==
  /\ line.succeed <=> IsRequestLine(s, e)
  /\ IsRequestLine(s, e) =>
       line.request.version = s[e - 2] /\ line.request.headers = t.headers

LEMMA RequestLineIs ==
  ASSUME NEW s, NEW r \in Nat, NEW p \in Nat, NEW e \in Nat, TopLine(s, r, p, e),
         NEW t, RequestOK(t), t.method = kInvalid
  PROVE  AsMeant(s, e, t, processRequestLine(t, r, p))
<1>1. /\ r <= p /\ e = p + 2 - r /\ IsLine(s, 0, e)
      /\ \A q \in r .. (p - 1) : buf.mem[q] = s[q - r + 1]
  BY DEF TopLine
<1>2. PICK f \in r .. p : f = find(SP, r, p)
  BY <1>1, FindIs
<1>3. /\ f # p => buf.mem[f] = SP
      /\ \A q \in r .. (f - 1) : buf.mem[q] # SP
  BY <1>1, <1>2, FindIs
<1>4. PICK g : g = find(SP, f + 1, p)
  OBVIOUS
<1>5. ASSUME f # p
      PROVE  /\ g \in (f + 1) .. p
             /\ g # p => buf.mem[g] = SP
             /\ \A q \in (f + 1) .. (g - 1) : buf.mem[q] # SP
  <2>1. f + 1 \in Nat /\ f + 1 <= p
    BY <1>5
  <2> QED
    BY <1>4, <2>1, FindIs
<1> DEFINE Accepted == /\ f # p /\ f = r + 1 /\ buf.mem[r] \in Methods
                       /\ g # p /\ p = g + 2 /\ buf.mem[g + 1] \in Versions
<1>6. processRequestLine(t, r, p).succeed <=> Accepted
  <2> DEFINE m == IF f = p THEN t.method ELSE setMethod(r, f)
  <2>1. processRequestLine(t, r, p).succeed <=>
          f # p /\ m # kInvalid /\ g # p /\ p = g + 2 /\ buf.mem[g + 1] \in Versions
    BY <1>2, <1>4, Zenon DEF processRequestLine
  <2>2. f # p => (m # kInvalid <=> f = r + 1 /\ buf.mem[r] \in Methods)
    BY HttpAssumption, Zenon DEF setMethod
  <2> QED
    BY <2>1, <2>2, Zenon
<1>7. Accepted =>
              /\ processRequestLine(t, r, p).request.version = buf.mem[g + 1]
              /\ processRequestLine(t, r, p).request.headers = t.headers
  <2> DEFINE m == IF f = p THEN t.method ELSE setMethod(r, f)
             v == buf.mem[g + 1]
             ok_ == f # p /\ m # kInvalid /\ g # p /\ p = g + 2 /\ v \in Versions
             after == [t EXCEPT !.method = m, !.version = IF ok_ THEN v ELSE @]
  <2>1. processRequestLine(t, r, p).request = after /\ processRequestLine(t, r, p).succeed = ok_
    BY <1>2, <1>4, Zenon DEF processRequestLine
  <2> HIDE DEF m, v, ok_
  <2>2. ok_ => after.version = v /\ after.headers = t.headers
    BY DEF RequestOK
  <2> HIDE DEF after
  <2>3. Accepted => ok_
    BY <1>6, <2>1, Zenon
  <2> QED
    BY <2>1, <2>2, <2>3, Zenon DEF v
<1>8. ASSUME Accepted
      PROVE  IsRequestLine(s, e) /\ buf.mem[g + 1] = s[e - 2]
  <2>1. f = r + 1 /\ g \in (r + 2) .. p /\ p = g + 2 /\ g # p
    BY <1>5, <1>8
  <2>2. /\ g \in Nat /\ e >= 6 /\ g - r + 1 = e - 3 /\ (g + 1) - r + 1 = e - 2
        /\ r - r + 1 = 1 /\ (r + 1) - r + 1 = 2
        /\ {r, r + 1, g, g + 1} \subseteq r .. (p - 1)
    BY <1>1, <2>1
  <2>3. s[1] = buf.mem[r] /\ s[2] = buf.mem[r + 1] /\ s[e - 3] = buf.mem[g] /\ s[e - 2] = buf.mem[g + 1]
    BY <1>1, <2>2
  <2>4. s[1] \in Methods /\ s[2] = SP /\ s[e - 3] = SP /\ s[e - 2] \in Versions
    BY <1>3, <1>5, <1>8, <2>1, <2>3
  <2>5. ASSUME NEW i \in 3 .. (e - 4)
        PROVE  s[i] # SP
    <3>1. PICK q \in Int : q = i + r - 1
      OBVIOUS
    <3>2. q \in (f + 1) .. (g - 1) /\ q \in r .. (p - 1) /\ q - r + 1 = i
      BY <1>1, <2>1, <2>2, <3>1
    <3> QED
      BY <1>1, <1>5, <1>8, <3>2
  <2> QED
    BY <1>1, <2>2, <2>3, <2>4, <2>5 DEF IsRequestLine
<1>9. ASSUME IsRequestLine(s, e)
      PROVE  Accepted
  <2>1. /\ e >= 6 /\ s[1] \in Methods /\ s[2] = SP
        /\ s[e - 3] = SP /\ s[e - 2] \in Versions
        /\ \A i \in 3 .. (e - 4) : s[i] # SP
    BY <1>9 DEF IsRequestLine
  <2>2. /\ r + 4 <= p /\ r - r + 1 = 1 /\ (r + 1) - r + 1 = 2
        /\ (p - 2) - r + 1 = e - 3 /\ (p - 1) - r + 1 = e - 2
        /\ {r, r + 1, p - 2, p - 1} \subseteq r .. (p - 1)
    BY <1>1, <2>1
  <2>3. /\ buf.mem[r] \in Methods /\ buf.mem[r + 1] = SP
        /\ buf.mem[p - 2] = SP /\ buf.mem[p - 1] \in Versions
    BY <1>1, <2>1, <2>2
  <2>4. f = r + 1
    <3>1. ~ (r + 1 \in r .. (f - 1))
      BY <1>3, <2>3
    <3>2. f # r
      BY <1>3, <2>2, <2>3, HttpAssumption DEF Space
    <3> QED
      BY <2>2, <3>1, <3>2
  <2>5. f # p
    BY <2>2, <2>4
  <2>6. g = p - 2
    <3>1. g \in (r + 2) .. p
      BY <1>5, <2>4, <2>5
    <3>2. ~ (p - 2 \in (f + 1) .. (g - 1))
      BY <1>5, <2>3, <2>5
    <3>3. ~ (g < p - 2)
      <4> SUFFICES ASSUME g < p - 2
                   PROVE  FALSE
        OBVIOUS
      <4>1. buf.mem[g] = SP
        BY <1>5, <2>5, <3>1
      <4>2. PICK i \in Int : i = g - r + 1
        BY <3>1
      <4>3. i \in 3 .. (e - 4) /\ g \in r .. (p - 1)
        BY <1>1, <2>2, <3>1, <4>2
      <4> QED
        BY <1>1, <2>1, <4>1, <4>2, <4>3
    <3> QED
      BY <2>2, <2>4, <3>1, <3>2, <3>3
  <2> QED
    BY <2>2, <2>3, <2>4, <2>5, <2>6
<1> QED
  BY <1>6, <1>7, <1>8, <1>9, Zenon DEF AsMeant

(* A line of fields, as the buffer shows it from r to p - 1, and as it     *)
(* stands in s.                                                            *)
FieldLine(s, d, r, p, k, e) ==
  /\ r \in Nat /\ p \in Nat /\ r <= p /\ d \in Int
  /\ k \in Nat /\ e \in Nat /\ k = r + d - 1 /\ e = p + d + 1
  /\ EndsLine(s, k) /\ IsLine(s, k, e)
  /\ \A q \in r .. (p - 1) : buf.mem[q] = s[q + d]

HasColon(s, k, e) == \E i \in (k + 1) .. (e - 2) : s[i] = Colon

LEMMA ColonIs ==
  ASSUME NEW s \in Seq(Byte), NEW d \in Int, NEW r \in Nat, NEW p \in Nat, NEW k \in Nat, NEW e \in Nat,
         FieldLine(s, d, r, p, k, e)
  PROVE  find(Colon, r, p) # p <=> HasColon(s, k, e)
<1>1. r <= p /\ k = r + d - 1 /\ e = p + d + 1
  BY DEF FieldLine
<1>2. \A q \in r .. (p - 1) : buf.mem[q] = s[q + d]
  BY DEF FieldLine
<1>3. PICK c \in r .. p : c = find(Colon, r, p)
  BY <1>1, FindIs
<1>4. /\ c # p => buf.mem[c] = Colon
      /\ \A q \in r .. (c - 1) : buf.mem[q] # Colon
  BY <1>1, <1>3, FindIs
<1>5. ASSUME c # p
      PROVE  HasColon(s, k, e)
  <2>1. c + d \in (k + 1) .. (e - 2) /\ c \in r .. (p - 1)
    BY <1>1, <1>5
  <2>2. s[c + d] = Colon
    BY <1>4, <1>5, <1>2, <2>1
  <2> QED
    BY <2>1, <2>2 DEF HasColon
<1>6. ASSUME NEW i \in (k + 1) .. (e - 2), s[i] = Colon
      PROVE  c # p
  <2>1. PICK q \in Int : q = i - d
    OBVIOUS
  <2>2. q \in r .. (p - 1) /\ q + d = i
    BY <1>1, <2>1
  <2>3. buf.mem[q] = Colon
    BY <1>6, <1>2, <2>2
  <2>4. ~ (q \in r .. (c - 1))
    BY <1>4, <2>3
  <2> QED
    BY <2>2, <2>4
<1> QED
  BY <1>3, <1>5, <1>6 DEF HasColon

(* The field that the parser finds in a line is Connection when it is      *)
(* that, and one word when it is that.                                     *)
LEMMA FieldIs ==
  ASSUME NEW s, NEW d \in Int, NEW r \in Nat, NEW p \in Nat, NEW k \in Nat, NEW e \in Nat,
         FieldLine(s, d, r, p, k, e), NEW c, c = find(Colon, r, p), c # p
  PROVE  /\ Text(r, c) = <<Connection>> <=> IsConnection(s, k)
         /\ IsConnection(s, k) => c + 1 \in Nat /\ c + 1 = r + 2 /\ c + 1 <= p
<1>1. /\ r <= p /\ k = r + d - 1 /\ e = p + d + 1
      /\ EndsLine(s, k) /\ IsLine(s, k, e)
      /\ \A q \in r .. (p - 1) : buf.mem[q] = s[q + d]
  BY DEF FieldLine
<1>2. /\ c \in r .. p /\ buf.mem[c] = Colon
      /\ \A q \in r .. (c - 1) : buf.mem[q] # Colon
  BY <1>1, FindIs
<1>3. Text(r, c) = <<Connection>> <=> c = r + 1 /\ buf.mem[r] = Connection
  <2>1. c \in Nat /\ r <= c
    BY <1>2
  <2>2. PICK w : w = Connection
    OBVIOUS
  <2>3. Text(r, c) = <<w>> <=> c = r + 1 /\ buf.mem[r] = w
    BY <2>1, OneLong
  <2> QED
    BY <2>2, <2>3, Zenon
<1>4. ASSUME c = r + 1, buf.mem[r] = Connection
      PROVE  IsConnection(s, k)
  <2>1. r \in r .. (p - 1) /\ r + 1 \in r .. (p - 1) /\ r + d = k + 1 /\ (r + 1) + d = k + 2
    BY <1>1, <1>2, <1>4
  <2>2. s[k + 1] = Connection /\ s[k + 2] = Colon
    BY <1>1, <1>2, <1>4, <2>1
  <2> QED
    BY <1>1, <2>2 DEF IsConnection
<1>5. ASSUME IsConnection(s, k)
      PROVE  c = r + 1 /\ buf.mem[r] = Connection /\ c + 1 <= p
  <2>1. s[k + 1] = Connection /\ s[k + 2] = Colon
    BY <1>5 DEF IsConnection
  <2>2. e > k /\ s[e - 1] = CR /\ s[e] = LF
    BY <1>1 DEF IsLine, EndsLine
  <2>3. e # k + 1 /\ e # k + 2
    BY <2>1, <2>2, HttpAssumption DEF Space
  <2>4. e # k + 3
    <3> SUFFICES ASSUME e = k + 3
                 PROVE  FALSE
      OBVIOUS
    <3>1. e - 1 = k + 2
      OBVIOUS
    <3> QED
      BY <2>1, <2>2, <3>1, HttpAssumption DEF Space
  <2>5. e >= k + 4
    BY <2>2, <2>3, <2>4
  <2>6. /\ r \in r .. (p - 1) /\ r + 1 \in r .. (p - 1)
        /\ r + d = k + 1 /\ (r + 1) + d = k + 2 /\ r + 2 <= p
    BY <1>1, <2>5
  <2>7. buf.mem[r] = Connection /\ buf.mem[r + 1] = Colon
    BY <1>1, <2>1, <2>6
  <2>8. ~ (r + 1 \in r .. (c - 1)) /\ c # r
    BY <1>2, <2>7, HttpAssumption
  <2> QED
    BY <1>2, <2>6, <2>7, <2>8
<1>6. IsConnection(s, k) => c + 1 \in Nat /\ c + 1 = r + 2 /\ c + 1 <= p
  BY <1>5
<1> QED
  BY <1>3, <1>4, <1>5, <1>6

LEMMA ValueIs ==
  ASSUME NEW s \in Seq(Byte), NEW d \in Int, NEW r \in Nat, NEW p \in Nat, NEW k \in Nat, NEW e \in Nat,
         FieldLine(s, d, r, p, k, e), r + 2 <= p, NEW w, w \notin Space
  PROVE  Trimmed(r + 2, p) = <<w>> <=> OneWord(s, k, w)
<1>1. /\ k = r + d - 1 /\ e = p + d + 1 /\ IsLine(s, k, e)
      /\ \A q \in r .. (p - 1) : buf.mem[q] = s[q + d]
  BY DEF FieldLine
<1> DEFINE In(i, j) == s[i] = w /\ \A x \in (k + 3) .. j : x # i => s[x] \in Space
           Here(i) == /\ buf.mem[i] = w
                      /\ \A j \in (r + 2) .. (p - 1) : j # i => buf.mem[j] \in Space
<1>2. Trimmed(r + 2, p) = <<w>> <=> \E i \in (r + 2) .. (p - 1) : Here(i)
  <2>1. PICK from \in Nat : from = r + 2 /\ from <= p
    OBVIOUS
  <2>2. Trimmed(from, p) = <<w>> <=> LoneWord(from, p, w)
    BY <2>1, TrimmedIs
  <2> QED
    BY <2>1, <2>2, Zenon DEF LoneWord
<1>3. OneWord(s, k, w) <=> \E i \in (k + 3) .. (e - 2) : In(i, e - 2)
  <2>1. e \in DOMAIN s
    BY <1>1 DEF IsLine, EndsLine
  <2>2. \A f \in DOMAIN s : IsLine(s, k, f) => f = e
    <3> SUFFICES ASSUME NEW f \in DOMAIN s, IsLine(s, k, f)
                 PROVE  f = e
      OBVIOUS
    <3>1. f \in Nat
      BY DEF IsLine, EndsLine
    <3> QED
      BY <1>1, <3>1, LineUnique
  <2> QED
    BY <1>1, <2>1, <2>2, Zenon DEF OneWord
<1>4. \A q \in Int : q \in (r + 2) .. (p - 1) <=> q + d \in (k + 3) .. (e - 2)
  BY <1>1
<1>5. \A q \in (r + 2) .. (p - 1) : buf.mem[q] = s[q + d]
  BY <1>1
<1>6. \A i \in (k + 3) .. (e - 2) : i - d \in (r + 2) .. (p - 1) /\ (i - d) + d = i
  BY <1>1
<1>7. ASSUME NEW i \in (r + 2) .. (p - 1), Here(i)
      PROVE  i + d \in (k + 3) .. (e - 2) /\ In(i + d, e - 2)
  <2>1. i + d \in (k + 3) .. (e - 2) /\ s[i + d] = w
    <3>1. i + d \in (k + 3) .. (e - 2)
      <4>1. i \in Int
        OBVIOUS
      <4> QED
        BY <1>4, <4>1, Zenon
    <3>2. buf.mem[i] = s[i + d]
      BY <1>5
    <3>3. buf.mem[i] = w
      BY <1>7, Zenon
    <3> QED
      BY <3>1, <3>2, <3>3, Zenon
  <2>2. ASSUME NEW x \in (k + 3) .. (e - 2), x # i + d
        PROVE  s[x] \in Space
    <3>1. x - d \in (r + 2) .. (p - 1) /\ (x - d) + d = x
      BY <1>6
    <3>2. x - d # i
      BY <2>2, <3>1
    <3>3. buf.mem[x - d] \in Space
      BY <1>7, <3>1, <3>2
    <3> QED
      BY <1>5, <3>1, <3>3
  <2> QED
    BY <2>1, <2>2
<1>8. ASSUME NEW i \in (k + 3) .. (e - 2), In(i, e - 2)
      PROVE  i - d \in (r + 2) .. (p - 1) /\ Here(i - d)
  <2>1. i - d \in (r + 2) .. (p - 1) /\ (i - d) + d = i
    BY <1>6
  <2>2. buf.mem[i - d] = w
    BY <1>5, <1>8, <2>1
  <2>3. ASSUME NEW j \in (r + 2) .. (p - 1), j # i - d
        PROVE  buf.mem[j] \in Space
    <3>1. j + d \in (k + 3) .. (e - 2)
      <4>1. j \in Int
        OBVIOUS
      <4> QED
        BY <1>4, <4>1, Zenon
    <3>2. j + d # i
      BY <2>3
    <3>3. s[j + d] \in Space
      BY <1>8, <3>1, <3>2, Zenon
    <3> QED
      BY <1>5, <3>3
  <2> QED
    BY <2>1, <2>2, <2>3
<1> QED
  BY <1>2, <1>3, <1>7, <1>8, Zenon

LEMMA HeaderAdded ==
  ASSUME NEW t, RequestOK(t), NEW r, NEW c, NEW p
  PROVE  /\ addHeader(t, r, c, p).version = t.version
         /\ getHeader(addHeader(t, r, c, p), <<Connection>>) =
              IF Text(r, c) = <<Connection>> THEN Trimmed(c + 1, p)
              ELSE getHeader(t, <<Connection>>)
<1> DEFINE name == Text(r, c)
           value == Trimmed(c + 1, p)
           h == [f \in DOMAIN t.headers \cup {name} |->
                    IF f = name THEN value ELSE t.headers[f]]
           a == [t EXCEPT !.headers = h]
<1>1. addHeader(t, r, c, p) = a
  BY DEF addHeader
<1> HIDE DEF name, value
<1>2. a.version = t.version /\ a.headers = h
  BY DEF RequestOK
<1>3. \A f : getHeader(a, f) = IF f = name THEN value ELSE getHeader(t, f)
  <2>1. /\ DOMAIN h = DOMAIN t.headers \cup {name}
        /\ \A f \in DOMAIN h : h[f] = IF f = name THEN value ELSE t.headers[f]
    BY Zenon
  <2> HIDE DEF a, h
  <2> QED
    BY <1>2, <2>1 DEF getHeader
<1> QED
  BY <1>1, <1>2, <1>3, Zenon DEF name, value

(* What is said before the end of a field's line is what the field says,   *)
(* or what is said before it.                                              *)
LEMMA SaysNext ==
  ASSUME NEW s \in Seq(Byte), NEW k \in Nat, NEW e \in Nat, EndsLine(s, k), IsLine(s, k, e), NEW w
  PROVE  Says(s, e, w) <=> IF IsConnection(s, k) THEN OneWord(s, k, w) ELSE Says(s, k, w)
<1>1. k \in 1 .. (e - 1)
  BY DEF EndsLine, IsLine
<1>2. \A q \in (k + 1) .. (e - 1) : ~ IsConnection(s, q)
  BY DEF IsLine, IsConnection
<1>3. /\ \A q \in 1 .. (e - 1) : q \in 1 .. (k - 1) \/ q = k \/ q \in (k + 1) .. (e - 1)
      /\ \A q \in 1 .. (k - 1) : q \in 1 .. (e - 1) /\ k \in (q + 1) .. (e - 1)
  BY <1>1
<1>4. CASE IsConnection(s, k)
  <2>1. \A p \in 1 .. (e - 1) :
          (\A q \in (p + 1) .. (e - 1) : ~ IsConnection(s, q)) /\ IsConnection(s, p) => p = k
    BY <1>2, <1>3, <1>4
  <2>2. Says(s, e, w) <=> OneWord(s, k, w)
    BY <1>1, <1>2, <1>4, <2>1, Zenon DEF Says
  <2> QED
    BY <1>4, <2>2
<1>5. CASE ~ IsConnection(s, k)
  <2>1. ASSUME NEW p \in 1 .. (k - 1)
        PROVE  (\A q \in (p + 1) .. (e - 1) : ~ IsConnection(s, q)) <=>
                 (\A q \in (p + 1) .. (k - 1) : ~ IsConnection(s, q))
    <3>1. \A q \in (p + 1) .. (e - 1) :
            q \in (p + 1) .. (k - 1) \/ q = k \/ q \in (k + 1) .. (e - 1)
      BY <1>1
    <3>2. \A q \in (p + 1) .. (k - 1) : q \in (p + 1) .. (e - 1)
      BY <1>1
    <3> QED
      BY <1>2, <1>5, <3>1, <3>2
  <2>2. \A p \in 1 .. (e - 1) : IsConnection(s, p) => p \in 1 .. (k - 1)
    BY <1>2, <1>3, <1>5
  <2>3. Says(s, e, w) <=> Says(s, k, w)
    BY <1>3, <2>1, <2>2, Zenon DEF Says
  <2> QED
    BY <1>5, <2>3
<1> QED
  BY <1>4, <1>5

LEMMA NothingSaid ==
  ASSUME NEW s \in Seq(Byte), NEW f \in Nat, IsRequestLine(s, f), NEW w
  PROVE  ~ Says(s, f, w)
<1>1. \A p \in 1 .. (f - 1) : ~ EndsLine(s, p)
  BY DEF IsRequestLine, IsLine
<1> QED
  BY <1>1 DEF Says, IsConnection

(* A request line that ends at f, and behind it nothing but fields, up to  *)
(* the line that ends at k.                                                *)
FieldsTo(s, f, k) ==
  /\ IsRequestLine(s, f) /\ f <= k /\ EndsLine(s, k)
  /\ \A p, e \in Nat :
        f <= p /\ e <= k /\ EndsLine(s, p) /\ IsLine(s, p, e) => HasColon(s, p, e)

(* There is no empty line among them. *)
LEMMA NoneBlank ==
  ASSUME NEW s \in Seq(Byte), NEW f \in Nat, NEW k \in Nat, FieldsTo(s, f, k),
         NEW m \in Nat, Blank(s, m)
  PROVE  m >= k + 2
<1>1. /\ m - 2 \in Nat /\ EndsLine(s, m - 2) /\ EndsLine(s, m) /\ m - 2 >= 2
  BY DEF Blank, EndsLine
<1>2. ~ EndsLine(s, m - 1)
  <2>1. m - 1 \in Nat /\ s[m - 1] = CR
    BY <1>1 DEF EndsLine
  <2> QED
    BY <2>1, HttpAssumption DEF EndsLine
<1>3. IsLine(s, m - 2, m)
  <2>1. \A q \in (m - 2 + 1) .. (m - 1) : q = m - 1
    BY <1>1
  <2> QED
    BY <1>1, <1>2, <2>1 DEF IsLine
<1>4. f <= m - 2
  <2>1. \A q \in 1 .. (f - 1) : ~ EndsLine(s, q)
    BY DEF FieldsTo, IsRequestLine, IsLine
  <2>2. ~ (m - 2 \in 1 .. (f - 1))
    BY <1>1, <2>1
  <2> QED
    BY <1>1, <2>2
<1>5. ~ (m <= k)
  <2> SUFFICES ASSUME m <= k
               PROVE  FALSE
    OBVIOUS
  <2>1. HasColon(s, m - 2, m)
    BY <1>1, <1>3, <1>4 DEF FieldsTo
  <2> QED
    BY <1>1, <2>1 DEF HasColon
<1>6. m # k + 1
  <2> SUFFICES ASSUME m = k + 1
               PROVE  FALSE
    OBVIOUS
  <2>1. s[m - 1] = CR /\ m - 1 = k
    BY <1>1 DEF EndsLine
  <2>2. s[k] = LF
    BY DEF FieldsTo, EndsLine
  <2> QED
    BY <2>1, <2>2, HttpAssumption
<1> QED
  BY <1>5, <1>6

(* What the parser has understood of s when it has taken k bytes: the      *)
(* version, and what the last field Connection says.                       *)
Understood(s, k, t) ==
  \E f \in Nat :
     /\ FieldsTo(s, f, k)
     /\ t.version = s[f - 2]
     /\ \A w \in {Close, KeepAlive} : getHeader(t, <<Connection>>) = <<w>> <=> Says(s, k, w)

HasHead(s) == \E n \in DOMAIN s : IsHead(s, n)

HeadFound(s, t) == \E n \in DOMAIN s : IsHead(s, n) /\ (Closes(s, n) <=> WantsClose(t))

LEMMA HeadIsOne ==
  ASSUME NEW s, NEW n \in Nat, NEW m \in Nat, IsHead(s, n), IsHead(s, m)
  PROVE  n = m
<1>1. n \in 2 .. Len(s) /\ m \in 2 .. Len(s) /\ Blank(s, n) /\ Blank(s, m)
  BY DEF IsHead, Blank, EndsLine
<1>2. ~ (n \in 1 .. (m - 1)) /\ ~ (m \in 1 .. (n - 1))
  BY <1>1 DEF IsHead
<1> QED
  BY <1>1, <1>2

LEMMA RequestLineIsOne ==
  ASSUME NEW s, NEW f, NEW g, IsRequestLine(s, f), IsRequestLine(s, g)
  PROVE  f = g
<1>1. f \in Nat /\ g \in Nat /\ IsLine(s, 0, f) /\ IsLine(s, 0, g)
  BY DEF IsRequestLine, IsLine, EndsLine
<1> QED
  BY <1>1, LineUnique

(* The line that the parser takes for the end is the empty one, and what   *)
(* it has understood is what the client says, unless a colon is missing.   *)
LEMMA EndUnderstood ==
  ASSUME NEW s \in Seq(Byte), NEW k \in Nat, NEW t, Understood(s, k, t), NEW e \in Nat, IsLine(s, k, e),
         \A i \in (k + 1) .. (e - 2) : s[i] # Colon
  PROVE  ColonMissing(s) \/ HeadFound(s, t)
<1>1. PICK f \in Nat :
        /\ FieldsTo(s, f, k) /\ t.version = s[f - 2]
        /\ \A w \in {Close, KeepAlive} :
              getHeader(t, <<Connection>>) = <<w>> <=> Says(s, k, w)
  BY DEF Understood
<1>2. /\ IsRequestLine(s, f) /\ f \in 1 .. k /\ EndsLine(s, k)
      /\ k \in DOMAIN s /\ e \in DOMAIN s /\ EndsLine(s, e) /\ e > k
  <2>1. IsRequestLine(s, f) /\ f <= k /\ EndsLine(s, k) /\ EndsLine(s, e) /\ e > k
    BY <1>1 DEF FieldsTo, IsLine
  <2>2. f >= 6
    BY <2>1 DEF IsRequestLine
  <2>3. k \in DOMAIN s /\ e \in DOMAIN s
    BY <2>1 DEF EndsLine
  <2> QED
    BY <2>1, <2>2, <2>3
<1>3. \A m \in 1 .. (k + 1) : ~ Blank(s, m)
  BY <1>1, NoneBlank
<1>4. CASE e # k + 2
  <2>1. \A m \in 1 .. k : ~ Blank(s, m)
    BY <1>3
  <2> QED
    BY <1>2, <1>4, <2>1, Zenon DEF ColonMissing
<1>5. CASE e = k + 2
  <2>1. e - 2 = k /\ e - 1 = k + 1 /\ f \in 1 .. e
    BY <1>2, <1>5
  <2>2. IsHead(s, e)
    <3>1. Blank(s, e)
      BY <1>2, <2>1 DEF Blank
    <3>2. \A m \in 1 .. (e - 1) : ~ Blank(s, m)
      BY <1>3, <2>1
    <3> QED
      BY <1>2, <2>1, <3>1, <3>2, Zenon DEF IsHead
  <2>3. (\E g \in 1 .. e : IsRequestLine(s, g) /\ s[g - 2] = Http10) <=> t.version = Http10
    BY <1>1, <1>2, <2>1, RequestLineIsOne
  <2>4. Closes(s, e) <=> WantsClose(t)
    <3>1. /\ Says(s, e - 2, Close) <=> getHeader(t, <<Connection>>) = <<Close>>
          /\ Says(s, e - 2, KeepAlive) <=> getHeader(t, <<Connection>>) = <<KeepAlive>>
      BY <1>1, <2>1
    <3> QED
      BY <2>3, <3>1, Zenon DEF Closes, WantsClose
  <2> QED
    BY <1>2, <2>2, <2>4 DEF HeadFound
<1> QED
  BY <1>4, <1>5

(* Without a further line there is no head. *)
LEMMA NoLineNoHead ==
  ASSUME NEW s \in Seq(Byte), NEW k \in Nat, \A e \in Nat : EndsLine(s, e) => e <= k,
         k = 0 \/ \E t : Understood(s, k, t)
  PROVE  ~ HasHead(s)
<1> SUFFICES ASSUME NEW n \in DOMAIN s, IsHead(s, n)
             PROVE  FALSE
  BY DEF HasHead
<1>1. n \in Nat /\ n >= 2 /\ EndsLine(s, n) /\ Blank(s, n) /\ n <= k
  BY DEF IsHead, Blank, EndsLine
<1>2. PICK t : Understood(s, k, t)
  BY <1>1
<1>3. PICK f \in Nat : FieldsTo(s, f, k)
  BY <1>2 DEF Understood
<1>4. n >= k + 2
  BY <1>1, <1>3, NoneBlank
<1> QED
  BY <1>1, <1>4

LEMMA RefusedNoHead ==
  ASSUME NEW s, NEW e \in Nat, IsLine(s, 0, e), ~ IsRequestLine(s, e)
  PROVE  ~ HasHead(s)
<1> SUFFICES ASSUME NEW n \in DOMAIN s, IsHead(s, n)
             PROVE  FALSE
  BY DEF HasHead
<1>1. PICK f \in 1 .. n : IsRequestLine(s, f)
  BY DEF IsHead
<1>2. f \in Nat /\ IsLine(s, 0, f)
  BY <1>1 DEF IsRequestLine, IsLine, EndsLine
<1>3. f = e
  BY <1>2, LineUnique
<1> QED
  BY <1>1, <1>3

(* A field more is understood as it is meant. *)
LEMMA FieldUnderstood ==
  ASSUME NEW s \in Seq(Byte), NEW d \in Int, NEW r \in Nat, NEW p \in Nat, NEW k \in Nat, NEW e \in Nat,
         FieldLine(s, d, r, p, k, e), NEW c \in Nat, c = find(Colon, r, p), c # p,
         NEW t, RequestOK(t), Understood(s, k, t)
  PROVE  Understood(s, e, addHeader(t, r, c, p))
<1> DEFINE a == addHeader(t, r, c, p)
<1>1. PICK f \in Nat :
        /\ FieldsTo(s, f, k) /\ t.version = s[f - 2]
        /\ \A w \in {Close, KeepAlive} :
              getHeader(t, <<Connection>>) = <<w>> <=> Says(s, k, w)
  BY DEF Understood
<1>2. EndsLine(s, k) /\ IsLine(s, k, e) /\ EndsLine(s, e) /\ e > k
  BY DEF FieldLine, IsLine
<1>3. HasColon(s, k, e)
  <2>1. find(Colon, r, p) # p
    OBVIOUS
  <2> QED
    BY <2>1, ColonIs
<1>4. FieldsTo(s, f, e)
  <2>1. IsRequestLine(s, f) /\ f <= e /\ EndsLine(s, e)
    BY <1>1, <1>2 DEF FieldsTo
  <2>2. ASSUME NEW p1 \in Nat, NEW e1 \in Nat, f <= p1, e1 <= e, EndsLine(s, p1), IsLine(s, p1, e1)
        PROVE  HasColon(s, p1, e1)
    <3>1. EndsLine(s, e1) /\ e1 > p1
      BY <2>2 DEF IsLine
    <3>2. CASE e1 <= k
      BY <1>1, <2>2, <3>2 DEF FieldsTo
    <3>3. CASE ~ (e1 <= k)
      <4>1. e1 = e
        <5>1. ~ (e1 \in (k + 1) .. (e - 1))
          BY <1>2, <3>1 DEF IsLine
        <5> QED
          BY <2>2, <3>3, <5>1
      <4>2. p1 = k
        <5>1. ~ (p1 \in (k + 1) .. (e - 1))
          BY <1>2, <2>2 DEF IsLine
        <5>2. ~ (k \in (p1 + 1) .. (e1 - 1))
          BY <1>2, <2>2 DEF IsLine
        <5> QED
          BY <1>2, <3>1, <4>1, <5>1, <5>2
      <4> QED
        BY <1>3, <4>1, <4>2
    <3> QED
      BY <3>2, <3>3
  <2> QED
    BY <2>1, <2>2 DEF FieldsTo
<1>5. a.version = s[f - 2]
  BY <1>1, HeaderAdded
<1>6. ASSUME NEW w \in {Close, KeepAlive}
      PROVE  getHeader(a, <<Connection>>) = <<w>> <=> Says(s, e, w)
  <2>1. getHeader(a, <<Connection>>) = IF Text(r, c) = <<Connection>> THEN Trimmed(c + 1, p)
                                       ELSE getHeader(t, <<Connection>>)
    BY HeaderAdded
  <2>2. Says(s, e, w) <=> IF IsConnection(s, k) THEN OneWord(s, k, w) ELSE Says(s, k, w)
    BY <1>2, SaysNext
  <2>3. /\ Text(r, c) = <<Connection>> <=> IsConnection(s, k)
        /\ IsConnection(s, k) => c + 1 = r + 2 /\ c + 1 <= p
    BY FieldIs
  <2>4. w \notin Space
    BY HttpAssumption
  <2>5. ASSUME IsConnection(s, k)
        PROVE  Trimmed(c + 1, p) = <<w>> <=> OneWord(s, k, w)
    <3>1. c + 1 = r + 2 /\ r + 2 <= p
      BY <2>3, <2>5
    <3>2. Trimmed(r + 2, p) = <<w>> <=> OneWord(s, k, w)
      BY <2>4, <3>1, ValueIs
    <3> QED
      BY <3>1, <3>2, Zenon
  <2> QED
    BY <1>1, <2>1, <2>2, <2>3, <2>5, Zenon
<1> QED
  BY <1>4, <1>5, <1>6 DEF Understood

-----------------------------------------------------------------------------
(* The invariant of the answer: in its loop the parser has understood what *)
(* it has taken, and its verdict is that of the grammar.                   *)
LoopOK ==
  stage = "loop" =>
    /\ ok
    /\ \/ /\ context.state = "kExpectRequestLine"
          /\ Taken(buf, Image) = 0 /\ context.request.headers = <<>>
       \/ /\ context.state = "kExpectHeaders"
          /\ Understood(Image, Taken(buf, Image), context.request)

VerdictOK ==
  stage = "parsed" =>
    IF ok /\ context.state = "kGotAll"
    THEN ColonMissing(Image) \/ HeadFound(Image, context.request)
    ELSE ~ HasHead(Image)

AnswerInv ==
  /\ HttpInv /\ LoopOK /\ VerdictOK /\ AnswersWholeRequests
  /\ stage # "drain" => answer = <<>>

(* Where the parser stands, in the loop. *)
LEMMA Standing ==
  ASSUME HttpInv, stage = "loop"
  PROVE  /\ Image \in Seq(Byte)
         /\ WF(buf) /\ buf.reader \in Nat
         /\ Taken(buf, Image) \in Nat
         /\ Taken(buf, Image) = 0 \/ Image[Taken(buf, Image)] = LF
         /\ Shown(Image, Taken(buf, Image) + 1 - buf.reader)
         /\ Taken(buf, Image) + 1 - buf.reader \in Int
         /\ Taken(buf, Image) = buf.reader + (Taken(buf, Image) + 1 - buf.reader) - 1
<1>1. Image \in Seq(Byte) /\ WF(buf) /\ LineStart(buf, Image)
  BY ImageInInput DEF HttpInv, ParserOK, InPlace
<1>2. Shown(Image, Taken(buf, Image) + 1 - buf.reader)
  BY <1>1, ShownIs
<1>3. buf.reader \in Nat
  BY <1>1 DEF WF
<1>4. Taken(buf, Image) \in Nat
  <2>1. Len(Image) \in Nat /\ Len(toString(buf)) \in Nat
    BY <1>1, TextOf
  <2>2. Taken(buf, Image) \in Int /\ Taken(buf, Image) >= 0
    BY <1>1, <2>1 DEF Taken, LineStart
  <2> QED
    BY <2>2
<1>5. Taken(buf, Image) = 0 \/ Image[Taken(buf, Image)] = LF
  BY <1>1, <1>4 DEF LineStart
<1> QED
  BY <1>1, <1>2, <1>3, <1>4, <1>5

(* A turn takes the line that the parser stands at: that of the image      *)
(* behind k, up to e, which the buffer shows from r on.                    *)
Taking(d, r, p, k, e) ==
  /\ r = buf.reader /\ p = crlf /\ k = Taken(buf, Image)
  /\ r <= p /\ k = r + d - 1 /\ e = p + d + 1
  /\ IsLine(Image, k, e)
  /\ \A q \in r .. (p - 1) : buf.mem[q] = Image[q + d]
  /\ EndsLine(Image, k) => FieldLine(Image, d, r, p, k, e)
  /\ Image' = Image /\ Image \in Seq(Byte)
  /\ buf' = retrieveUntil(buf, crlf + 2) => Taken(buf', Image') = e

LEMMA TurnLine ==
  ASSUME HttpInv, NEW state, Turn(state)
  PROVE  \E d \in Int, r \in Nat, p \in Nat, k \in Nat, e \in Nat : Taking(d, r, p, k, e)
<1>1. stage = "loop" /\ crlf # NoPos /\ Image' = Image
  BY SameInput DEF Turn
<1>2. PICK k \in Nat : k = Taken(buf, Image)
  BY <1>1, Standing
<1>3. PICK r \in Nat : r = buf.reader
  BY <1>1, Standing
<1>4. PICK d \in Int : d = k + 1 - r
  OBVIOUS
<1>5. /\ Image \in Seq(Byte) /\ WF(buf) /\ Shown(Image, d)
      /\ k = r + d - 1 /\ (k = 0 \/ Image[k] = LF)
  BY <1>1, <1>2, <1>3, <1>4, Standing
<1>6. /\ crlf \in r .. (buf.writer - 2) /\ IsLine(Image, k, crlf + d + 1)
  BY <1>1, <1>3, <1>5, NextLine
<1>7. PICK p \in Nat : p = crlf
  BY <1>5, <1>6 DEF WF
<1>8. /\ r <= p /\ \A q \in r .. (p - 1) : q \in r .. (buf.writer - 1)
  <2>1. buf.writer \in Nat
    BY <1>5 DEF WF
  <2> QED
    BY <1>6, <1>7, <2>1
<1>9. PICK e \in Nat : e = p + d + 1
  BY <1>4, <1>8
<1>10. IsLine(Image, k, e)
  BY <1>6, <1>7, <1>9
<1>11. \A q \in r .. (p - 1) : buf.mem[q] = Image[q + d]
  BY <1>3, <1>5, <1>8 DEF Shown
<1>12. EndsLine(Image, k) => FieldLine(Image, d, r, p, k, e)
  BY <1>5, <1>8, <1>9, <1>10, <1>11 DEF FieldLine
<1>13. ASSUME buf' = retrieveUntil(buf, crlf + 2)
       PROVE  Taken(buf', Image') = e
  <2>1. Taken(buf', Image') = k + ((p + 2) - r)
    BY <1>1, <1>2, <1>3, <1>5, <1>7, <1>13, LineTaken DEF HttpInv, InPlace, crlf
  <2> QED
    BY <1>4, <1>9, <2>1
<1> QED
  <2>1. Taking(d, r, p, k, e)
    BY <1>1, <1>2, <1>3, <1>5, <1>7, <1>8, <1>9, <1>10, <1>11, <1>12, <1>13, Zenon DEF Taking
  <2> QED
    BY <2>1, Zenon

LEMMA AnswerInit == HttpInit => AnswerInv
<1> SUFFICES ASSUME HttpInit
             PROVE  AnswerInv
  OBVIOUS
<1>1. HttpInv
  BY HttpInitInv
<1>2. stage = "idle" /\ answer = <<>>
  BY DEF HttpInit
<1> QED
  BY <1>1, <1>2 DEF AnswerInv, LoopOK, VerdictOK, AnswersWholeRequests

(* The first line of the image, as the parser and as the grammar find it.  *)
LEMMA FirstLine ==
  ASSUME AnswerInv, Turn("kExpectRequestLine")
  PROVE  \E e \in Nat :
           /\ Image' = Image /\ Image \in Seq(Byte) /\ IsLine(Image, 0, e)
           /\ Line.succeed <=> IsRequestLine(Image, e)
           /\ IsRequestLine(Image, e) =>
                Line.request.version = Image[e - 2] /\ Line.request.headers = <<>>
           /\ buf' = retrieveUntil(buf, crlf + 2) => Taken(buf', Image') = e
<1>1. HttpInv /\ stage = "loop" /\ context.state = "kExpectRequestLine"
  BY DEF AnswerInv, Turn
<1>2. Taken(buf, Image) = 0 /\ context.request.headers = <<>>
  BY <1>1 DEF AnswerInv, LoopOK
<1>3. context.request.method = kInvalid /\ RequestOK(context.request)
  BY <1>1 DEF HttpInv, ParserOK, ContextOK, MethodAssert
<1>4. PICK d \in Int, r \in Nat, p \in Nat, k \in Nat, e \in Nat : Taking(d, r, p, k, e)
  BY <1>1, TurnLine
<1>5. /\ r <= p /\ e = p + 2 - r /\ IsLine(Image, 0, e)
      /\ \A q \in r .. (p - 1) : q + d = q - r + 1
  BY <1>2, <1>4 DEF Taking
<1>6. \A q \in r .. (p - 1) : buf.mem[q] = Image[q - r + 1]
  BY <1>4, <1>5, Zenon DEF Taking
<1> DEFINE t == context.request
           s == Image
<1>7. Line = processRequestLine(t, r, p)
  BY <1>4 DEF Line, Taking
<1>8. RequestOK(t) /\ t.method = kInvalid
  BY <1>3
<1>9. TopLine(s, r, p, e)
  BY <1>5, <1>6 DEF TopLine
<1> HIDE DEF t, s
<1>10. AsMeant(s, e, t, processRequestLine(t, r, p))
  BY <1>8, <1>9, RequestLineIs
<1> QED
  BY <1>2, <1>4, <1>5, <1>7, <1>10, Zenon DEF s, t, AsMeant, Taking

LEMMA RequestLineUnderstood ==
  ASSUME AnswerInv, RequestLine, HttpInv'
  PROVE  AnswerInv'
<1>1. /\ stage' = "loop" /\ ok /\ ok' = ok /\ answer' = <<>>
      /\ Turn("kExpectRequestLine") /\ Line.succeed
      /\ context' = [state |-> "kExpectHeaders", request |-> Line.request]
      /\ buf' = retrieveUntil(buf, crlf + 2)
  BY DEF AnswerInv, LoopOK, RequestLine, Turn
<1> DEFINE t == Line.request
<1>2. PICK e \in Nat :
        /\ Image' = Image /\ Image \in Seq(Byte) /\ IsLine(Image, 0, e)
        /\ IsRequestLine(Image, e) /\ t.version = Image[e - 2] /\ t.headers = <<>>
        /\ Taken(buf', Image') = e
  BY <1>1, FirstLine
<1> HIDE DEF t
<1>3. FieldsTo(Image, e, e)
  BY <1>2 DEF FieldsTo, IsLine, IsRequestLine
<1>4. ASSUME NEW w \in {Close, KeepAlive}
      PROVE  getHeader(t, <<Connection>>) = <<w>> <=> Says(Image, e, w)
  <2>1. getHeader(t, <<Connection>>) = <<>>
    BY <1>2 DEF getHeader
  <2>2. ~ Says(Image, e, w)
    BY <1>2, NothingSaid
  <2> QED
    BY <2>1, <2>2
<1>5. Understood(Image, e, t)
  BY <1>2, <1>3, <1>4 DEF Understood
<1>6. context'.state = "kExpectHeaders" /\ context'.request = t
  BY <1>1 DEF t
<1>7. LoopOK'
  BY <1>1, <1>2, <1>5, <1>6 DEF LoopOK
<1> QED
  BY <1>1, <1>7 DEF AnswerInv, VerdictOK, AnswersWholeRequests

LEMMA RefusalUnderstood ==
  ASSUME AnswerInv, RequestLineRefused, HttpInv'
  PROVE  AnswerInv'
<1>1. /\ stage' = "parsed" /\ ok' = FALSE /\ answer' = <<>>
      /\ Turn("kExpectRequestLine") /\ ~ Line.succeed
  BY DEF AnswerInv, RequestLineRefused, Turn
<1>2. PICK e \in Nat :
        Image' = Image /\ IsLine(Image, 0, e) /\ ~ IsRequestLine(Image, e)
  BY <1>1, FirstLine
<1>3. ~ HasHead(Image)
  BY <1>2, RefusedNoHead
<1>4. VerdictOK'
  BY <1>1, <1>2, <1>3 DEF VerdictOK
<1> QED
  BY <1>1, <1>4 DEF AnswerInv, LoopOK, AnswersWholeRequests

LEMMA HeaderUnderstood ==
  ASSUME AnswerInv, Header, HttpInv'
  PROVE  AnswerInv'
<1>1. /\ HttpInv /\ stage = "loop" /\ stage' = "loop" /\ ok /\ ok' = ok /\ answer = <<>> /\ answer' = answer
      /\ context.state = "kExpectHeaders" /\ Turn("kExpectHeaders") /\ colon # crlf
      /\ context' = [context EXCEPT
               !.request = addHeader(context.request, buf.reader, colon, crlf)]
      /\ buf' = retrieveUntil(buf, crlf + 2)
  BY DEF AnswerInv, LoopOK, Header, Turn
<1>2. Understood(Image, Taken(buf, Image), context.request)
  BY <1>1 DEF AnswerInv, LoopOK
<1>3. RequestOK(context.request) /\ DOMAIN context = {"state", "request"}
  BY <1>1 DEF HttpInv, ParserOK, ContextOK
<1>4. PICK d \in Int, r \in Nat, p \in Nat, k \in Nat, e \in Nat : Taking(d, r, p, k, e)
  BY <1>1, TurnLine
<1>5. FieldLine(Image, d, r, p, k, e)
  BY <1>2, <1>4 DEF Understood, FieldsTo, Taking
<1>6. colon = find(Colon, r, p) /\ colon # p /\ colon \in Nat
  <2>1. colon = find(Colon, r, p) /\ colon # p
    BY <1>1, <1>4 DEF colon, Taking
  <2> QED
    BY <1>4, <2>1, FindIs DEF Taking
<1> DEFINE t == addHeader(context.request, r, colon, p)
<1>7. Understood(Image, e, t)
  <2> DEFINE u == context.request
             s == Image
             c == colon
  <2>1. RequestOK(u) /\ Understood(s, k, u) /\ FieldLine(s, d, r, p, k, e) /\ s \in Seq(Byte)
    BY <1>2, <1>3, <1>4, <1>5 DEF Taking
  <2>2. c = find(Colon, r, p) /\ c # p /\ c \in Nat
    BY <1>6
  <2> HIDE DEF u, s, c
  <2>3. Understood(s, e, addHeader(u, r, c, p))
    BY <2>1, <2>2, FieldUnderstood
  <2> QED
    BY <2>3 DEF u, s, c
<1>8. Taken(buf', Image') = e /\ Image' = Image
  BY <1>1, <1>4 DEF Taking
<1>9. context'.state = "kExpectHeaders" /\ context'.request = t
  BY <1>1, <1>3, <1>4 DEF Taking
<1>10. LoopOK'
  BY <1>1, <1>7, <1>8, <1>9 DEF LoopOK
<1> QED
  BY <1>1, <1>10 DEF AnswerInv, VerdictOK, AnswersWholeRequests

LEMMA EndOfHeadersUnderstood ==
  ASSUME AnswerInv, EndOfHeaders, HttpInv'
  PROVE  AnswerInv'
<1>1. /\ HttpInv /\ stage = "loop" /\ stage' = "parsed" /\ ok /\ ok' = ok /\ answer = <<>> /\ answer' = answer
      /\ context.state = "kExpectHeaders" /\ Turn("kExpectHeaders") /\ colon = crlf
      /\ context' = [context EXCEPT !.state = "kGotAll"]
  BY DEF AnswerInv, LoopOK, EndOfHeaders, Turn
<1>2. Understood(Image, Taken(buf, Image), context.request)
  BY <1>1 DEF AnswerInv, LoopOK
<1>3. DOMAIN context = {"state", "request"}
  BY <1>1 DEF HttpInv, ParserOK, ContextOK
<1>4. PICK d \in Int, r \in Nat, p \in Nat, k \in Nat, e \in Nat : Taking(d, r, p, k, e)
  BY <1>1, TurnLine
<1>5. FieldLine(Image, d, r, p, k, e)
  BY <1>2, <1>4 DEF Understood, FieldsTo, Taking
<1>6. find(Colon, r, p) = p
  BY <1>1, <1>4 DEF colon, Taking
<1>7. ColonMissing(Image) \/ HeadFound(Image, context.request)
  <2> DEFINE u == context.request
             s == Image
  <2>1. Understood(s, k, u) /\ FieldLine(s, d, r, p, k, e) /\ IsLine(s, k, e) /\ s \in Seq(Byte)
    BY <1>2, <1>4, <1>5 DEF Taking
  <2> HIDE DEF u, s
  <2>2. \A i \in (k + 1) .. (e - 2) : s[i] # Colon
    BY <1>6, <2>1, ColonIs DEF HasColon
  <2>3. ColonMissing(s) \/ HeadFound(s, u)
    BY <2>1, <2>2, EndUnderstood
  <2> QED
    BY <2>3 DEF u, s
<1>8. context'.state = "kGotAll" /\ context'.request = context.request
  BY <1>1, <1>3
<1>9. VerdictOK'
  BY <1>1, <1>4, <1>7, <1>8 DEF VerdictOK, Taking
<1> QED
  BY <1>1, <1>9 DEF AnswerInv, LoopOK, AnswersWholeRequests

LEMMA NoLineUnderstood ==
  ASSUME AnswerInv, LineIncomplete, HttpInv'
  PROVE  AnswerInv'
<1>1. /\ HttpInv /\ stage = "loop" /\ stage' = "parsed" /\ ok' = ok /\ answer = <<>> /\ answer' = answer
      /\ crlf = NoPos /\ context' = context /\ Image' = Image
  BY SameInput DEF AnswerInv, LineIncomplete
<1>2. /\ Taken(buf, Image) = 0 \/ Understood(Image, Taken(buf, Image), context.request)
      /\ context.state # "kGotAll"
  BY <1>1 DEF AnswerInv, LoopOK
<1>3. ~ HasHead(Image)
  <2>1. PICK k \in Nat : k = Taken(buf, Image)
    BY <1>1, Standing
  <2>2. PICK d \in Int : d = k + 1 - buf.reader
    BY <1>1, <2>1, Standing
  <2>3. Shown(Image, d) /\ k = buf.reader + d - 1 /\ (k = 0 \/ Image[k] = LF) /\ Image \in Seq(Byte)
    BY <1>1, <2>1, <2>2, Standing
  <2>4. \A e \in Nat : EndsLine(Image, e) => e <= k
    BY <1>1, <2>3, NextLine
  <2> DEFINE s == Image
  <2>5. s \in Seq(Byte) /\ (\A e \in Nat : EndsLine(s, e) => e <= k)
        /\ (k = 0 \/ Understood(s, k, context.request))
    BY <1>2, <2>1, <2>3, <2>4
  <2> HIDE DEF s
  <2>6. ~ HasHead(s)
    BY <2>5, NoLineNoHead
  <2> QED
    BY <2>6 DEF s
<1>4. VerdictOK'
  BY <1>1, <1>2, <1>3 DEF VerdictOK
<1> QED
  BY <1>1, <1>4 DEF AnswerInv, LoopOK, AnswersWholeRequests

(* The response is the one that the client asked for. *)
LEMMA AnswerGiven ==
  ASSUME AnswerInv, OnRequest \/ NoRequest, HttpInv'
  PROVE  AnswerInv'
<1>1. /\ HttpInv /\ stage = "parsed" /\ stage' = "drain" /\ answer = <<>> /\ Image' = Image
  BY SameInput DEF AnswerInv, OnRequest, NoRequest
<1> DEFINE s == Image
           Asked == \E n \in DOMAIN s : IsHead(s, n) /\ Closes(s, n)
<1>2. CASE OnRequest
  <2>1. answer' = response(WantsClose(context.request))
    BY <1>2 DEF OnRequest
  <2>2. ColonMissing(s) \/ HeadFound(s, context.request)
    BY <1>1, <1>2 DEF AnswerInv, VerdictOK, OnRequest
  <2>3. ASSUME HeadFound(s, context.request)
        PROVE  (\E n \in DOMAIN s : IsHead(s, n)) /\ (Asked <=> WantsClose(context.request))
    <3> HIDE DEF s
    <3>1. PICK n \in DOMAIN s : IsHead(s, n) /\ (Closes(s, n) <=> WantsClose(context.request))
      BY <2>3 DEF HeadFound
    <3>2. \A m \in DOMAIN s : IsHead(s, m) => m = n
      <4>1. \A m : IsHead(s, m) => m \in Nat
        BY DEF IsHead, Blank, EndsLine
      <4> QED
        BY <3>1, <4>1, HeadIsOne
    <3> QED
      BY <3>1, <3>2
  <2>4. ~ ColonMissing(s) => (\E n \in DOMAIN s : IsHead(s, n)) /\ answer' = response(Asked)
    <3> HIDE DEF s
    <3>1. (Asked <=> WantsClose(context.request)) => response(Asked) = response(WantsClose(context.request))
      BY DEF response
    <3> HIDE DEF Asked
    <3> QED
      BY <2>1, <2>2, <2>3, <3>1, Zenon
  <2>5. AnswersWholeRequests'
    BY <1>1, <2>4 DEF AnswersWholeRequests
  <2> QED
    BY <1>1, <2>5 DEF AnswerInv, LoopOK, VerdictOK
<1>3. CASE NoRequest
  <2>1. ~ HasHead(Image) /\ answer' = <<>>
    BY <1>1, <1>3 DEF AnswerInv, VerdictOK, NoRequest
  <2>2. AnswersWholeRequests'
    BY <1>1, <2>1 DEF AnswersWholeRequests, HasHead
  <2> QED
    BY <1>1, <2>2 DEF AnswerInv, LoopOK, VerdictOK
<1> QED
  BY <1>2, <1>3

LEMMA AnswerNextInv == AnswerInv /\ [HttpNext]_HttpVars => AnswerInv'
<1> SUFFICES ASSUME AnswerInv, [HttpNext]_HttpVars
             PROVE  AnswerInv'
  OBVIOUS
<1>1. HttpInv'
  BY HttpNextInv DEF AnswerInv
<1>2. CASE UNCHANGED HttpVars
  <2>1. Image' = Image
    BY <1>2, SameInput DEF HttpVars
  <2> QED
    BY <1>1, <1>2, <2>1 DEF HttpVars, AnswerInv, LoopOK, VerdictOK, AnswersWholeRequests
<1>3. CASE \/ \E n \in 1 .. Len(stream), newChain \in BOOLEAN : Arrive(n, newChain)
           \/ RecvTooShort \/ Drain
  <2>1. stage' \in {"idle", "recv"} /\ answer' = <<>>
    BY <1>3 DEF AnswerInv, Arrive, RecvTooShort, Drain
  <2> QED
    BY <1>1, <2>1 DEF AnswerInv, LoopOK, VerdictOK, AnswersWholeRequests
<1>4. CASE OnMessage
  <2>1. /\ stage' = "loop" /\ ok' /\ answer' = <<>>
        /\ context'.state = "kExpectRequestLine" /\ context'.request.headers = <<>>
    BY <1>4 DEF OnMessage, NewContext, NewRequest, AnswerInv
  <2>2. Taken(buf', Image') = 0
    BY <1>4, ImageCopied DEF AnswerInv
  <2>3. LoopOK'
    BY <2>1, <2>2 DEF LoopOK
  <2> QED
    BY <1>1, <2>1, <2>3 DEF AnswerInv, VerdictOK, AnswersWholeRequests
<1> QED
  BY <1>1, <1>2, <1>3, <1>4, RequestLineUnderstood, RefusalUnderstood, HeaderUnderstood,
     EndOfHeadersUnderstood, NoLineUnderstood, AnswerGiven DEF HttpNext, Callback

(* For every stream of tokens and however it is cut into reads: a read is  *)
(* answered exactly when a whole head starts it, and as that head asks,    *)
(* unless a field has no colon (httpContext.cpp:63-115,                    *)
(* httpServer.cpp:46-68).                                                  *)
THEOREM RequestsAnswered == HttpSpec => []AnswersWholeRequests
<1>1. AnswerInv => AnswersWholeRequests
  BY DEF AnswerInv
<1> QED
  BY <1>1, AnswerInit, AnswerNextInv, PTL DEF HttpSpec
=============================================================================
