---------------------------- MODULE SignInFrames ----------------------------
(***************************************************************************)
(* SignIn with the bytes of its answers: the frames that ChatSignIn        *)
(* composes and transMessage writes, and what a client makes of them.      *)
(* A JSON text is two bytes here, one for its form and one for the id; the *)
(* frame around it is the real one.                                        *)
(***************************************************************************)
EXTENDS SignIn, ChatFrame

(* {"cmd":"signin","id":"..."} and {"cmd":"signin","id":null} *)
Json(id) == IF id = NoId THEN <<110, 0>> ELSE <<34, id>>

(* The frame of each answer, put together once, and the one of a thread. *)
Packed == [id \in Texts \cup {NoId} |->
              Compose(CRYPT_UNKNOW, DATA_STRING, Json(id))]
Sent(t) == Packed[response[t]]

-----------------------------------------------------------------------------
Whole(frame) == [is |-> TRUE, frame |-> Len(frame), want |-> 0]

(* What is sent is a frame that isOnePackage takes for one, and whole,     *)
(* whatever the id text is. (ChatPackage's two constructors agree)         *)
ResponseIsWhole ==
    \A t \in Threads :
        stage[t] = "send" => isOneChatPackage(Sent(t)) = Whole(Sent(t))

Frames == {Packed[id] : id \in DOMAIN Packed}

(* The frames that differ from a frame in one byte. *)
Damaged(frame) ==
    UNION {{[frame EXCEPT ![i] = b] : b \in (0 .. 255) \ {frame[i]}} :
           i \in 1 .. Len(frame)}

Accepted == {frame \in Frames :
                \E bad \in Damaged(frame) :
                    isOneChatPackage(bad).is /\ isOneChatPackage(bad).want = 0}

(* A response of which one byte is changed on its way is not taken for a   *)
(* whole frame: it is passed over, or more bytes are waited for. (The tail *)
(* byte and the checksum in ChatPackage::isOnePackage)                     *)
DamageIsSeen ==
    \A t \in Threads : stage[t] = "send" => Sent(t) \notin Accepted

Messages == {<<b>> : b \in 0 .. 255} \cup {<<a, b>> : a \in {1, 128}, b \in 0 .. 255}

Register(crc) == 256 * crc[1] + crc[2]

(* The tables compute the CRC-16 of Modbus: every entry of both is right.  *)
TablesAgree == \A m \in Messages \cup Frames : Register(crc16(m)) = Modbus(m)

(* The checksum that a response carries is the one that a client with any  *)
(* other implementation of CRC-16/Modbus expects. (CRC.cpp, crc16)         *)
CrcIsModbus ==
    \A t \in Threads : stage[t] = "send" =>
        /\ TablesAgree
        /\ LET frame == Sent(t)
               n == Len(frame)
           IN  frame[n - 2] + 256 * frame[n - 1] = Modbus(SubSeq(frame, 1, n - 3))

(* What is sent is whole, protected against damage, and understood by any  *)
(* client that computes the checksum as Modbus defines it.                 *)
ResponsesSound == ResponseIsWhole /\ DamageIsSeen /\ CrcIsModbus
=============================================================================
