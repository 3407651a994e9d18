------------------------------- MODULE Buffer -------------------------------
(***************************************************************************)
(* A buffer under any sequence of calls that keep to the assertions at the *)
(* head of each method (base/Buffer.h, base/Buffer.cpp). The integers of   *)
(* appendInt64 ... peekInt8 are w digits of base Base: a byte is a digit.  *)
(***************************************************************************)
EXTENDS BufferOps

CONSTANTS
    Base,           \* the number of values of a char, 256 in the code
    Widths,         \* the sizes of the integers, {1, 2, 4, 8} in the code
    InitialSizes,   \* the sizes a caller may ask for
    MaxReadable     \* bound: the most bytes a caller puts in

ASSUME IntegerAssumption ==
    /\ Base \in Nat \ {0, 1}
    /\ Base % 2 = 0
    /\ Byte = 0 .. (Base - 1)
    /\ Widths \subseteq Nat \ {0}
    /\ InitialSizes \subseteq Nat
    /\ MaxReadable \in Nat

(* What the powers of the base are (the provers know no exponents). *)
ASSUME PowerAssumption ==
    \A w \in Widths : \A i \in 0 .. w :
        /\ Base^i \in Nat \ {0}
        /\ Base^0 = 1 /\ Base^(i + 1) = Base * Base^i

VARIABLES
    buffer,    \* the buffer
    call    \* the last call: its kind, and its argument

vars == <<buffer, call>>

Chunk == UNION {[1 .. n -> Byte] : n \in 0 .. MaxReadable}

----------------------------------------------------------------------------
(* Integers in network order *)

Signed(w) == (-(Base^w \div 2)) .. (Base^w \div 2 - 1)

(* Mutant: host order, the low byte first. *)
hostToNetwork_Little(x, w) == [i \in 1 .. w |-> (x \div Base^(i - 1)) % Base]

hostToNetwork(x, w) == [i \in 1 .. w |-> (x \div Base^(w - i)) % Base]

(* The unsigned value of the digits d[1] .. d[n], then its conversion to a *)
(* signed type of that width.                                              *)
networkToHost(d) ==
    LET value[n \in 0 .. Len(d)] ==
            IF n = 0 THEN 0 ELSE Base * value[n - 1] + d[n]
        half == Base^Len(d) \div 2
    IN  IF value[Len(d)] < half THEN value[Len(d)]
                                ELSE value[Len(d)] - 2 * half

peekInt(b, w) == networkToHost([i \in 1 .. w |-> b.mem[b.reader + i - 1]])

----------------------------------------------------------------------------
(* The calls *)

Init ==
    /\ \E n \in InitialSizes : buffer = NewBuffer(n)
    /\ call = [op |-> "new"]

Fits(len) == readableBytes(buffer) + len <= MaxReadable

Append_(d) ==
    /\ Fits(Len(d))
    /\ buffer' = append(buffer, d)
    /\ call' = [op |-> "append", data |-> d]

AppendInt(x, w) == Append_(hostToNetwork(x, w))

ReadFd(d) ==
    /\ Fits(Len(d))
    /\ Len(d) <= ReadLimit(buffer)
    /\ buffer' = readFd(buffer, d)
    /\ call' = [op |-> "append", data |-> d]

Prepend(d) ==
    /\ Fits(Len(d))
    /\ Len(d) <= prependableBytes(buffer)
    /\ buffer' = prepend(buffer, d)
    /\ call' = [op |-> "prepend", data |-> d]

PrependInt(x, w) == Prepend(hostToNetwork(x, w))

Retrieve(len) ==
    /\ len <= readableBytes(buffer)
    /\ buffer' = retrieve(buffer, len)
    /\ call' = [op |-> "retrieve", len |-> len]

ReadInt(w) == Retrieve(w)

RetrieveAllAsString == Retrieve(readableBytes(buffer))

(* The use that HttpContext makes of the search: a line and its end. *)
RetrieveLine ==
    LET crlf == findCRLF(buffer, buffer.reader) IN
    /\ crlf # NoPos
    /\ buffer' = retrieveUntil(buffer, crlf + 2)
    /\ call' = [op |-> "retrieve", len |-> (crlf + 2) - buffer.reader]

(* The same with findEOL. *)
RetrieveEOL ==
    LET eol == findEOL(buffer, buffer.reader) IN
    /\ eol # NoPos
    /\ buffer' = retrieveUntil(buffer, eol + 1)
    /\ call' = [op |-> "retrieve", len |-> (eol + 1) - buffer.reader]

Unwrite(len) ==
    /\ len <= readableBytes(buffer)
    /\ buffer' = unwrite(buffer, len)
    /\ call' = [op |-> "unwrite", len |-> len]

EnsureWritable(len) ==
    /\ Fits(len)
    /\ buffer' = ensureWritableBytes(buffer, len)
    /\ call' = [op |-> "arrange"]

Shrink(reserve) ==
    /\ Fits(reserve)
    /\ buffer' = shrink(buffer, reserve)
    /\ call' = [op |-> "arrange"]

Next ==
    \/ \E d \in Chunk : Append_(d) \/ ReadFd(d) \/ Prepend(d)
    \/ \E w \in Widths : \/ ReadInt(w)
                         \/ \E x \in Signed(w) : AppendInt(x, w) \/ PrependInt(x, w)
    \/ \E len \in 0 .. MaxReadable :
          Retrieve(len) \/ Unwrite(len) \/ EnsureWritable(len) \/ Shrink(len)
    \/ RetrieveAllAsString
    \/ RetrieveLine
    \/ RetrieveEOL

Spec == Init /\ [][Next]_vars

----------------------------------------------------------------------------
(* Properties *)

TypeOK ==
    /\ buffer.size \in Nat
    /\ buffer.mem \in [0 .. (buffer.size - 1) -> Byte]
    /\ buffer.reader \in Nat
    /\ buffer.writer \in Nat
    /\ DOMAIN buffer = {"mem", "size", "reader", "writer"}
    /\ call.op \in {"new", "append", "prepend", "retrieve", "unwrite", "arrange"}

(* 0 <= readerIndex <= writerIndex <= size, as the picture at Buffer.h:28  *)
(* draws it; the unsigned differences of the code never wrap around.       *)
IndicesOrdered == buffer.reader <= buffer.writer /\ buffer.writer <= buffer.size

(* The assertions inside makeSpace and behind its call (Buffer.h:194, 394, *)
(* 401) hold whenever a caller asks for more room than there is: bytes are *)
(* moved only towards the front, and there is room afterwards.             *)
MakeSpaceAsserts ==
    \A len \in 0 .. MaxReadable : writableBytes(buffer) < len =>
        /\ ~ MustGrow(buffer, len) => kCheapPrepend < buffer.reader
        /\ readableBytes(makeSpace(buffer, len)) = readableBytes(buffer)
        /\ writableBytes(makeSpace(buffer, len)) >= len

(* The assertions of Buffer hold after any sequence of legal calls.        *)
AssertionsHold == TypeOK /\ IndicesOrdered /\ MakeSpaceAsserts

(* After any sequence of calls an integer that is appended, and one that   *)
(* is prepended, is read back as the same signed number.                   *)
IntegersSurvive ==
    \A w \in Widths : \A x \in Signed(w) :
        /\ peekInt(retrieve(append(buffer, hostToNetwork(x, w)),
                            readableBytes(buffer)), w) = x
        /\ w <= prependableBytes(buffer) =>
              peekInt(prepend(buffer, hostToNetwork(x, w)), w) = x

(* The vector grows only when the contents, the new bytes and the space    *)
(* kept free in front do not fit in it: space behind the reader index is   *)
(* used again before memory is allocated (makeSpace, Buffer.h:386).        *)
GrowsOnlyWhenFull ==
    [][call'.op = "append" /\ buffer'.size > buffer.size =>
          readableBytes(buffer') + kCheapPrepend > buffer.size]_vars

(* A buffer is a queue of bytes: moving, growing, shrinking and reading    *)
(* through the stack buffer lose, repeat and reorder nothing.              *)
Contents == INSTANCE ByteQueue WITH content <- toString(buffer)
ImplementsByteQueue == Contents!Spec
=============================================================================
