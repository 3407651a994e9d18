----------------------------- MODULE BufferOps -----------------------------
(***************************************************************************)
(* The byte buffer of base/Buffer.h as operators on a record: the vector   *)
(* buffer_ is the function mem on 0 .. size - 1, and the bytes from        *)
(* readerIndex_ (included) to writerIndex_ (excluded) are its contents.    *)
(* Byte positions stand for the code's char pointers.                      *)
(***************************************************************************)
EXTENDS Integers, Sequences

CONSTANTS
    Byte,           \* the values of a char
    Nul,            \* the char that vector::resize fills in
    CR, LF,         \* the two chars of kCRLF
    kCheapPrepend,  \* bytes kept free in front
    kInitialSize,   \* the default size of a buffer
    kExtra          \* sizeof extrabuf, the stack buffer of readFd

ASSUME BufferAssumption ==
    /\ {Nul, CR, LF} \subseteq Byte
    /\ kCheapPrepend \in Nat
    /\ kInitialSize \in Nat
    /\ kExtra \in Nat

NoPos == -1         \* the pointer NULL

(* Buffer(initialSize) *)
NewBuffer(initialSize) ==
    [mem    |-> [i \in 0 .. (kCheapPrepend + initialSize - 1) |-> Nul],
     size   |-> kCheapPrepend + initialSize,
     reader |-> kCheapPrepend,
     writer |-> kCheapPrepend]

readableBytes(b) == b.writer - b.reader
writableBytes(b) == b.size - b.writer
prependableBytes(b) == b.reader

toString(b) == [i \in 1 .. readableBytes(b) |-> b.mem[b.reader + i - 1]]

(* std::copy of d into the vector, from position at on *)
Store(b, at, d) ==
    [b EXCEPT !.mem = [i \in 0 .. (b.size - 1) |->
        IF i \in at .. (at + Len(d) - 1) THEN d[i - at + 1] ELSE b.mem[i]]]

(* buffer_.resize(n), n above the size *)
resize(b, n) ==
    [b EXCEPT !.size = n,
              !.mem = [i \in 0 .. (n - 1) |->
                          IF i < b.size THEN b.mem[i] ELSE Nul]]

(* Mutant: the space kept free in front is forgotten. *)
MustGrow_NoReserve(b, len) ==
    writableBytes(b) + prependableBytes(b) < len

MustGrow(b, len) ==
    writableBytes(b) + prependableBytes(b) < len + kCheapPrepend

(* Mutant: the space in front of the contents is never used again. *)
makeSpace_AlwaysGrow(b, len) == resize(b, b.writer + len)

(* The copy goes to lower addresses, front to back, so overlap is harmless. *)
movedToFront(b) ==
    [Store(b, kCheapPrepend, toString(b))
        EXCEPT !.reader = kCheapPrepend,
               !.writer = kCheapPrepend + readableBytes(b)]

makeSpace(b, len) ==
    IF MustGrow(b, len) THEN resize(b, b.writer + len) ELSE movedToFront(b)

ensureWritableBytes(b, len) ==
    IF writableBytes(b) < len THEN makeSpace(b, len) ELSE b

hasWritten(b, len) == [b EXCEPT !.writer = @ + len]

append(b, d) ==
    LET room == ensureWritableBytes(b, Len(d))
    IN  hasWritten(Store(room, room.writer, d), Len(d))

prepend(b, d) ==
    Store([b EXCEPT !.reader = @ - Len(d)], b.reader - Len(d), d)

unwrite(b, len) == [b EXCEPT !.writer = @ - len]

retrieveAll(b) ==
    [b EXCEPT !.reader = kCheapPrepend, !.writer = kCheapPrepend]

retrieve(b, len) ==
    IF len < readableBytes(b) THEN [b EXCEPT !.reader = @ + len]
                              ELSE retrieveAll(b)

retrieveUntil(b, end) == retrieve(b, end - b.reader)

(* A new buffer takes the contents over and is swapped with the old one. *)
shrink(b, reserve) ==
    append(ensureWritableBytes(NewBuffer(kInitialSize),
                               readableBytes(b) + reserve),
           toString(b))

(* The most that readv can return: the second vector is offered only when  *)
(* the free part of the buffer is smaller than it.                         *)
ReadLimit(b) ==
    writableBytes(b) + (IF writableBytes(b) < kExtra THEN kExtra ELSE 0)

(* Mutant: what overflowed is appended before the writer index has moved. *)
readFd_LateIndex(b, d) ==
    LET w == writableBytes(b) IN
    IF Len(d) <= w
    THEN hasWritten(Store(b, b.writer, d), Len(d))
    ELSE append(Store(b, b.writer, SubSeq(d, 1, w)), SubSeq(d, w + 1, Len(d)))

(* readFd, when readv returns the bytes d; an error changes nothing. *)
readFd(b, d) ==
    LET w == writableBytes(b) IN
    IF Len(d) <= w
    THEN hasWritten(Store(b, b.writer, d), Len(d))
    ELSE append([Store(b, b.writer, SubSeq(d, 1, w)) EXCEPT !.writer = b.size],
                SubSeq(d, w + 1, Len(d)))

(* The first position in S, or NULL. *)
FirstIn(S) ==
    IF \E p \in S : \A q \in S : p <= q
    THEN CHOOSE p \in S : \A q \in S : p <= q
    ELSE NoPos

findCRLF(b, start) ==
    FirstIn({p \in start .. (b.writer - 2) :
                b.mem[p] = CR /\ b.mem[p + 1] = LF})

findEOL(b, start) == FirstIn({p \in start .. (b.writer - 1) : b.mem[p] = LF})
=============================================================================
