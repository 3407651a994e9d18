----------------------------- MODULE ChatFrame ------------------------------
(***************************************************************************)
(* A chat frame as the bytes that Package/ChatPackage.cpp puts together    *)
(* and takes for a frame: a header of seven bytes, the data, and a tail of *)
(* three. (Framing.tla has the frames of a stream without their bytes.)    *)
(***************************************************************************)
EXTENDS Crc

CHAT_HEADER == 7
CHAT_TAIL == 3
CHAT_LENGTH == CHAT_HEADER + CHAT_TAIL

DATA_STRING == 1
CRYPT_UNKNOW == 0

(* identify, length in network order, version, type, crypt, retain *)
Header(length, type, crypt) ==
    <<122, (length \div 256) % 256, length % 256, 1, type, crypt, 0>>

(* The checksum is stored low byte first. *)
Tail_(m) == LET crc == crc16(m) IN <<crc[2], crc[1], 123>>

(* ChatPackage(crypt, type, payload, length) *)
Compose(crypt, type, payload) ==
    LET head == Header(Len(payload) + CHAT_LENGTH, type, crypt) \o payload
    IN  head \o Tail_(head)

(* Mutant: the tail byte is enough. *)
isOneChatPackage_TailOnly(f) ==
    LET datasize == 256 * f[2] + f[3]
        here == f[1] = 122 /\ datasize > CHAT_LENGTH
    IN  IF here /\ Len(f) < datasize
        THEN [is |-> TRUE, frame |-> datasize, want |-> datasize - Len(f)]
        ELSE [is |-> here /\ f[datasize] = 123, frame |-> datasize, want |-> 0]

(* ChatPackage::isOnePackage on the bytes f: whether they are or may       *)
(* become a frame, its size, and how much of it is missing.                *)
isOneChatPackage(f) ==
    LET datasize == 256 * f[2] + f[3]
        size == datasize - CHAT_TAIL
        here == f[1] = 122 /\ datasize > CHAT_LENGTH
        whole == /\ f[datasize] = 123
                 /\ SubSeq(f, size + 1, size + 2) =
                        SubSeq(Tail_(SubSeq(f, 1, size)), 1, 2)
    IN  IF here /\ Len(f) < datasize
        THEN [is |-> TRUE, frame |-> datasize, want |-> datasize - Len(f)]
        ELSE [is |-> here /\ whole, frame |-> IF here /\ whole THEN datasize ELSE 0,
              want |-> 0]
=============================================================================
