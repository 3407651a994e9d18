--------------------------- MODULE RequestProofs ----------------------------
(***************************************************************************)
(* Proofs about a request on its way: as a frame of its stream (Framing),  *)
(* in a worker that signs a client in (SignIn), and as the bytes of the    *)
(* frame that answers it (SignInFrames).                                   *)
(*                                                                         *)
(* Framing, for every stream, every watermark and every number of stale    *)
(* pointers: the types, that packages leave the stream in order and whole, *)
(* and that none of an orderly stream is passed over.                      *)
(*                                                                         *)
(* SignIn, for any number of workers and any size of the MySQL pool: its   *)
(* connections are accounted for, and no id is made up.                    *)
(*                                                                         *)
(* SignInFrames, for every message: crc16 is the CRC-16 of Modbus, and no  *)
(* change of one byte leaves it as it was. For every payload that fits:    *)
(* what is composed is recognised, and a changed byte is noticed wherever  *)
(* it does not change the length.                                          *)
(***************************************************************************)
EXTENDS Framing, SignInFrames, QueueLemmas, SequenceTheorems, TLAPS

(* A package that has been delivered starts before the drained position.   *)
(* Without it nothing keeps the next package behind the last one.          *)
Consumed ==
  /\ \A p \in Delivered : p.at < drained
  /\ DeliveredInOrder

IInv == TypeOK /\ Consumed

(* Frames of a script, and where they end. *)
LEMMA FramesAreFrames ==
  ASSUME TypeOK, NEW f \in frames
  PROVE  /\ f \in Frame
         /\ f.kind \in {"chat", "bad", "echo"} /\ f.at \in 0..Length /\ f.size \in 1..Length
         /\ f.at + f.size <= Length
BY FramingAssumption DEF TypeOK, Frame, End

(* What evbuffer_peek shows is part of what is there. *)
LEMMA PeekedIsThere ==
  ASSUME TypeOK, NEW len \in Peeked
  PROVE  len \in Nat /\ 1 <= len /\ drained + len <= arrived
BY FramingAssumption DEF TypeOK, Peeked

(* evbuffer_drain removes at least what is asked for, or everything. *)
LEMMA DrainForward ==
  ASSUME TypeOK, NEW n \in Nat
  PROVE  /\ AfterDrain(n) \in 0..arrived
         /\ drained <= AfterDrain(n)
         /\ \A k \in Nat : k <= n /\ drained + k <= arrived => drained + k <= AfterDrain(n)
BY FramingAssumption DEF TypeOK, AfterDrain, Available

(* The size in an echo header, as far as it has arrived. *)
LEMMA EchoSizes ==
  ASSUME TypeOK, NEW f \in frames, NEW len \in Nat, NEW s \in EchoSize(f, len)
  PROVE  s \in 1..(EchoHeader + Length)
<1>1. f.size \in 1..Length
  BY FramesAreFrames
<1> QED BY <1>1, FramingAssumption DEF EchoSize

(* The results of the protocols' parseOnePackage. *)
LEMMA ParseType ==
  ASSUME TypeOK, NEW len \in Peeked, NEW r \in Parse(len)
  PROVE  /\ r.size \in 0..(EchoHeader + Length)
         /\ r.want \in 0..Length
         /\ r.pos \in Nat
<1>1. len \in Nat /\ 1 <= len
  BY PeekedIsThere
<1>2. CASE r \in EchoParse(len)
  BY <1>1, <1>2, EchoSizes, FramingAssumption DEF EchoParse, Starting, Result
<1>3. CASE r = ChatParse(len)
  <2>1. ChatLength \in Nat /\ EchoHeader \in Nat /\ Length \in Nat
    BY FramingAssumption
  <2>2. CASE len < ChatLength
    BY <1>3, <2>1, <2>2 DEF ChatParse, Result
  <2>3. CASE ~(len < ChatLength) /\ Starting({"chat", "bad"}) = {}
    BY <1>1, <1>3, <2>1, <2>3 DEF ChatParse, Result
  <2>4. CASE ~(len < ChatLength) /\ Starting({"chat", "bad"}) # {}
    <3>1. FrontFrame \in Starting({"chat", "bad"})
      BY <2>4 DEF FrontFrame
    <3>2. FrontFrame.size \in 1..Length
      BY <3>1, FramesAreFrames DEF Starting
    <3>3. r = isOnePackage(FrontFrame, len)
      BY <1>3, <2>4 DEF ChatParse
    <3> QED BY <1>1, <2>1, <3>2, <3>3 DEF isOnePackage, Result
  <2> QED BY <2>2, <2>3, <2>4
<1> QED BY <1>2, <1>3 DEF Parse

(* getOnePackage yields nothing, or a package that starts where the buffer *)
(* starts; one that is not broken is a frame that is there to its end.     *)
LEMMA GetType ==
  ASSUME TypeOK, NEW len \in Peeked, NEW P \in getOnePackage(len)
  PROVE  \/ P = <<>>
         \/ \E p \in Package :
              /\ P = <<p>>
              /\ p.at = drained
              /\ 1 <= p.size /\ p.size <= frameSize
              /\ p.kind # "broken" => p \in frames /\ drained + p.size <= arrived
<1>1. len \in Nat /\ 1 <= len /\ drained + len <= arrived
  BY PeekedIsThere
<1>2. drained \in Nat /\ arrived \in Nat /\ frameSize \in Nat
  BY FramingAssumption DEF TypeOK
<1>3. CASE P \in ChatGet(len)
  <2>1. PICK f \in frames : /\ P = <<f>> /\ f.kind = "chat" /\ f.at = drained
                            /\ f.size <= frameSize /\ f.size <= len
    BY <1>3 DEF ChatGet, Starting
  <2>2. f \in Package /\ f.size \in Nat /\ 1 <= f.size
    BY <2>1, FramesAreFrames, FramingAssumption DEF Frame, Package
  <2> QED BY <2>1, <2>2, <1>1, <1>2
<1>4. CASE P \in EchoGet(len)
  <2>1. PICK f \in Starting({"echo"}) :
          P \in {<<[kind |-> IF s = f.size /\ s <= len THEN "echo" ELSE "broken",
                    at |-> f.at, size |-> s]>> : s \in {n \in EchoSize(f, len) : n <= frameSize}}
                \cup {<<>> : s \in {n \in EchoSize(f, len) : n > frameSize}}
    BY <1>4 DEF EchoGet
  <2>2. f \in frames /\ f.kind = "echo" /\ f.at = drained
    BY <2>1 DEF Starting
  <2>3. ASSUME P # <<>>
        PROVE  \E p \in Package :
                 /\ P = <<p>>
                 /\ p.at = drained
                 /\ 1 <= p.size /\ p.size <= frameSize
                 /\ p.kind # "broken" => p \in frames /\ drained + p.size <= arrived
    <3>1. PICK s \in EchoSize(f, len) :
            /\ s <= frameSize
            /\ P = <<[kind |-> IF s = f.size /\ s <= len THEN "echo" ELSE "broken",
                      at |-> f.at, size |-> s]>>
      BY <2>1, <2>3
    <3> DEFINE p == [kind |-> IF s = f.size /\ s <= len THEN "echo" ELSE "broken",
                     at |-> f.at, size |-> s]
    <3>2. s \in 1..(EchoHeader + Length)
      BY <2>2, <1>1, EchoSizes
    <3>3. f \in Frame /\ f.at \in 0..Length
      BY <2>2, FramesAreFrames
    <3>4. p \in Package
      BY <3>2, <3>3, FramingAssumption DEF Package
    <3>5. p.kind # "broken" => p = f
      BY <2>2, <3>3 DEF Frame
    <3>6. p.kind # "broken" => s <= len
      OBVIOUS
    <3>7. s \in Nat /\ 1 <= s
      BY <3>2, FramingAssumption
    <3> QED BY <3>1, <3>4, <3>5, <3>6, <3>7, <2>2, <1>1, <1>2
  <2> QED BY <2>3
<1> QED BY <1>3, <1>4 DEF getOnePackage

-----------------------------------------------------------------------------
(* What a delivery appends is a package in order, whole or broken, and its *)
(* bytes are among those that read_request drains next.                    *)
LEMMA DeliverStep ==
  ASSUME IInv, Deliver
  PROVE  /\ delivered' \in Seq(Package)
         /\ \A i, j \in DOMAIN delivered' : i < j => delivered'[i].at < delivered'[j].at
         /\ \A i \in DOMAIN delivered' :
              LET p == delivered'[i]
              IN /\ p.at < AfterDrain(frameSize)
                 /\ p.kind # "broken" => p \in frames /\ End(p) <= AfterDrain(frameSize)
<1>1. /\ delivered \in Seq(Package) /\ drained \in Nat /\ arrived \in Nat
      /\ frameSize \in Nat /\ Length \in Nat /\ TypeOK
      /\ drained <= arrived
  BY FramingAssumption DEF IInv, TypeOK
<1>2. \A i \in DOMAIN delivered :
        /\ delivered[i].at < drained
        /\ delivered[i].kind # "broken" => delivered[i] \in frames /\ End(delivered[i]) <= drained
  BY DEF IInv, Consumed, DeliveredInOrder, Delivered
<1>3. \A i, j \in DOMAIN delivered : i < j => delivered[i].at < delivered[j].at
  BY DEF IInv, Consumed, DeliveredInOrder
<1>4. drained <= AfterDrain(frameSize) /\ AfterDrain(frameSize) \in Nat
  BY <1>1 DEF AfterDrain, Available
<1>5. \A q \in Package : q.at \in Nat /\ q.size \in Nat /\ End(q) \in Nat
  BY <1>1, FramingAssumption DEF Package, End
<1>6. \A i \in DOMAIN delivered : delivered[i] \in Package
  BY <1>1
<1>7. CASE delivered' = delivered
  BY <1>1, <1>2, <1>3, <1>4, <1>5, <1>6, <1>7
<1>8. CASE delivered' # delivered
  <2>0. PICK len \in Peeked : \E P \in getOnePackage(len) : delivered' = delivered \o P
    BY <1>8 DEF Deliver
  <2>1. PICK P \in getOnePackage(len) : delivered' = delivered \o P
    BY <2>0
  <2>2. P # <<>>
    BY <1>1, <1>8, <2>1
  <2>3. PICK p \in Package :
          /\ P = <<p>> /\ p.at = drained
          /\ 1 <= p.size /\ p.size <= frameSize
          /\ p.kind # "broken" => p \in frames /\ drained + p.size <= arrived
    BY <1>1, <2>2, GetType
  <2>4. /\ delivered' \in Seq(Package)
        /\ DOMAIN delivered' = 1..(Len(delivered) + 1)
        /\ \A i \in DOMAIN delivered : delivered'[i] = delivered[i]
        /\ delivered'[Len(delivered) + 1] = p
        /\ DOMAIN delivered = 1..Len(delivered) /\ Len(delivered) \in Nat
    BY <1>1, <2>1, <2>3
  <2>5. drained + 1 <= arrived
    BY <1>1, PeekedIsThere
  <2>6. drained < AfterDrain(frameSize)
    BY <1>1, <2>3, <2>5, <1>5 DEF AfterDrain, Available
  <2>7. p.kind # "broken" => End(p) <= AfterDrain(frameSize)
    BY <1>1, <1>5, <2>3 DEF AfterDrain, Available, End
  <2>8. \A i \in DOMAIN delivered' : i \in DOMAIN delivered \/ i = Len(delivered) + 1
    BY <2>4
  <2>9. ASSUME NEW i \in DOMAIN delivered', NEW j \in DOMAIN delivered', i < j
        PROVE  delivered'[i].at < delivered'[j].at
    <3>1. i \in DOMAIN delivered
      BY <2>4, <2>9
    <3>2. CASE j \in DOMAIN delivered
      BY <3>1, <3>2, <1>3, <2>4, <2>9
    <3>3. CASE j = Len(delivered) + 1
      BY <3>1, <3>3, <1>2, <2>3, <2>4
    <3> QED BY <2>8, <3>2, <3>3
  <2>10. ASSUME NEW i \in DOMAIN delivered'
         PROVE  /\ delivered'[i].at < AfterDrain(frameSize)
                /\ delivered'[i].kind # "broken" =>
                     delivered'[i] \in frames /\ End(delivered'[i]) <= AfterDrain(frameSize)
    <3>1. CASE i \in DOMAIN delivered
      BY SMTT(30), <3>1, <1>1, <1>2, <1>4, <1>5, <1>6, <2>4
    <3>2. CASE i = Len(delivered) + 1
      BY <3>2, <2>3, <2>4, <2>6, <2>7
    <3> QED BY <2>8, <3>1, <3>2
  <2> QED BY <2>4, <2>9, <2>10
<1> QED BY <1>7, <1>8

AppState == {"APP_INIT", "APP_READ_FRAME_SIZE", "APP_READ_REQUEST", "APP_CLOSE_CONNECTION"}
SocketState == {"SOCKET_RECV_FRAMING", "SOCKET_RECV"}
PcState == {"idle", "recv", "transition", "closed"}

LEMMA InitInv == Init => IInv
<1> SUFFICES ASSUME Init PROVE IInv
  OBVIOUS
<1>1. TypeOK
  <2>1. Length \in Nat /\ EchoHeader \in Nat /\ Stale \in Nat
    BY FramingAssumption
  <2>2. <<>> \in Seq(Package)
    OBVIOUS
  <2>3. delivered \in Seq(Package) /\ stale \in 0..Stale
    BY <2>1, <2>2 DEF Init
  <2>4. /\ frames \in Scripts /\ arrived \in 0..Length /\ cuts \subseteq 0..arrived
        /\ drained \in 0..arrived
    BY <2>1 DEF Init
  <2>5. frameSize \in 0..(EchoHeader + Length) /\ readWant \in 0..Length
    BY <2>1 DEF Init
  <2>6. /\ disturbed \in BOOLEAN /\ beaten \in BOOLEAN
        /\ appstate \in AppState /\ socketState \in SocketState /\ pc \in PcState
    BY DEF Init, AppState, SocketState, PcState
  <2> QED BY <2>3, <2>4, <2>5, <2>6 DEF TypeOK, AppState, SocketState, PcState
<1>2. DOMAIN delivered = {}
  BY DEF Init
<1>3. Consumed
  BY <1>2 DEF Consumed, DeliveredInOrder, Delivered
<1> QED BY <1>1, <1>3 DEF IInv

(* A step that delivers nothing and drains forward keeps the order. *)
LEMMA QuietStep ==
  ASSUME IInv, delivered' = delivered, frames' = frames,
         drained' \in Nat, drained <= drained'
  PROVE  Consumed'
<1>1. drained \in Nat /\ Delivered' = Delivered
  BY FramingAssumption DEF IInv, TypeOK, Delivered
<1>2. \A p \in Delivered : p.at \in Nat /\ End(p) \in Nat
  <2>1. \A p \in Package : p.at \in Nat /\ p.size \in Nat
    BY FramingAssumption DEF Package
  <2>2. Delivered \subseteq Package
    BY DEF IInv, TypeOK, Delivered
  <2> QED BY <2>1, <2>2 DEF End
<1>3. \A p \in Delivered : p.at < drained'
  BY <1>1, <1>2 DEF IInv, Consumed
<1>4. \A p \in Delivered : p.kind # "broken" => p \in frames' /\ End(p) <= drained'
  BY <1>1, <1>2 DEF IInv, Consumed, DeliveredInOrder
<1>5. \A i, j \in DOMAIN delivered' : i < j => delivered'[i].at < delivered'[j].at
  BY DEF IInv, Consumed, DeliveredInOrder
<1>6. DeliveredInOrder'
  BY <1>1, <1>4, <1>5 DEF DeliveredInOrder
<1> QED BY <1>1, <1>3, <1>6 DEF Consumed

LEMMA StepInv == IInv /\ [Next]_vars => IInv'
<1> SUFFICES ASSUME IInv, [Next]_vars PROVE IInv'
  OBVIOUS
<1> USE FramingAssumption
<1>0. TypeOK /\ drained \in Nat /\ arrived \in Nat
  BY DEF IInv, TypeOK
<1>1. CASE UNCHANGED vars
  <2>1. TypeOK'
    BY <1>0, <1>1 DEF TypeOK, vars, inputVars, stateVars
  <2> QED BY <1>0, <1>1, <2>1, QuietStep DEF vars, inputVars, IInv
<1>2. ASSUME NEW n \in 1..MaxBuffer, NEW C, Arrive(n, C),
             C = {} \/ \E c \in arrived..(arrived + n - 1) : C = {c}
      PROVE  IInv'
  <2>1. TypeOK'
    <3> DEFINE later == arrived'
    <3>1. later = arrived + n /\ later <= Length /\ later \in Nat /\ arrived <= later
      BY <1>0, <1>2 DEF Arrive
    <3>2. C \subseteq 0..later
      BY <1>0, <1>2, <3>1
    <3>3. cuts \subseteq 0..arrived /\ drained \in 0..arrived
      BY <1>0 DEF TypeOK
    <3>4. 0..arrived \subseteq 0..later
      BY <1>0, <3>1
    <3>5. arrived' \in 0..Length /\ cuts' \subseteq 0..arrived' /\ drained' \in 0..arrived'
      BY <1>2, <3>1, <3>2, <3>3, <3>4 DEF Arrive
    <3>6. pc' \in {"idle", "recv", "transition", "closed"} /\ disturbed' \in BOOLEAN
      BY <1>0, <1>2 DEF TypeOK, Arrive
    <3> QED BY <1>0, <1>2, <3>5, <3>6 DEF TypeOK, Arrive, stateVars
  <2>2. Consumed'
    BY <1>0, <1>2, QuietStep DEF Arrive
  <2> QED BY <2>1, <2>2 DEF IInv
<1>3. CASE RecvNothing
  <2>1. TypeOK'
    BY <1>0, <1>3 DEF TypeOK, RecvNothing, inputVars, stateVars
  <2> QED BY <1>0, <1>3, <2>1, QuietStep DEF RecvNothing, inputVars, IInv
<1>4. CASE RecvFrame
  <2>1. frameSize' \in 0..(EchoHeader + Length) /\ readWant' \in 0..Length
    BY <1>0, <1>4, ParseType DEF RecvFrame
  <2>2. TypeOK'
    BY <1>0, <1>4, <2>1 DEF TypeOK, RecvFrame, inputVars, stateVars
  <2> QED BY <1>0, <1>4, <2>2, QuietStep DEF RecvFrame, inputVars, IInv
<1>5. CASE RecvIncomplete
  <2>1. frameSize' \in 0..(EchoHeader + Length) /\ readWant' \in 0..Length
    BY <1>0, <1>5, ParseType DEF RecvIncomplete
  <2>2. TypeOK'
    BY <1>0, <1>5, <2>1 DEF TypeOK, RecvIncomplete, inputVars, stateVars
  <2> QED BY <1>0, <1>5, <2>2, QuietStep DEF RecvIncomplete, inputVars, IInv
<1>6. CASE RecvJunk
  <2>1. frameSize' \in 0..(EchoHeader + Length) /\ readWant' \in 0..Length
    BY <1>0, <1>6, ParseType DEF RecvJunk
  <2>2. drained' \in 0..arrived /\ drained <= drained'
    BY <1>0, <1>6, ParseType, DrainForward DEF RecvJunk
  <2>3. TypeOK'
    BY <1>0, <1>6, <2>1, <2>2 DEF TypeOK, RecvJunk, inputVars, stateVars
  <2> QED BY <1>0, <1>6, <2>2, <2>3, QuietStep DEF RecvJunk, inputVars, IInv
<1>7. CASE ReadRequest
  <2>1. frameSize \in Nat
    BY <1>0 DEF TypeOK
  <2>2. drained' = AfterDrain(frameSize) /\ drained' \in 0..arrived
    BY <1>0, <1>7, <2>1, DrainForward DEF ReadRequest
  <2>3. /\ delivered' \in Seq(Package)
        /\ \A i, j \in DOMAIN delivered' : i < j => delivered'[i].at < delivered'[j].at
        /\ \A i \in DOMAIN delivered' :
             /\ delivered'[i].at < drained'
             /\ delivered'[i].kind # "broken" =>
                  delivered'[i] \in frames' /\ End(delivered'[i]) <= drained'
    BY <1>7, <2>2, DeliverStep DEF ReadRequest, inputVars
  <2>4. TypeOK'
    BY <1>0, <1>7, <2>2, <2>3 DEF TypeOK, ReadRequest, InState, inputVars
  <2>5. Consumed'
    BY <2>3 DEF Consumed, DeliveredInOrder, Delivered
  <2> QED BY <2>4, <2>5 DEF IInv
<1>8. CASE Renotify
  <2>1. TypeOK'
    BY <1>0, <1>8 DEF TypeOK, Renotify, stateVars
  <2> QED BY <1>0, <1>8, <2>1, QuietStep DEF Renotify, IInv
<1>9. CASE Receive
  BY <1>2, <1>9 DEF Receive
<1>10. CASE AppInit \/ FrameSize \/ CloseConnection \/ HeartBeat
  <2>1. /\ UNCHANGED <<inputVars, drained, frameSize, readWant, delivered>>
        /\ appstate' \in AppState /\ socketState' \in SocketState
        /\ pc' \in PcState /\ beaten' \in BOOLEAN
    BY <1>0, <1>10 DEF TypeOK, AppInit, FrameSize, CloseConnection, HeartBeat, stateVars,
                       AppState, SocketState, PcState
  <2>2. TypeOK'
    BY <1>0, <2>1 DEF TypeOK, inputVars, AppState, SocketState, PcState
  <2> QED BY <1>0, <2>1, <2>2, QuietStep DEF inputVars, IInv
<1> QED
  BY <1>1, <1>3, <1>4, <1>5, <1>6, <1>7, <1>8, <1>9, <1>10 DEF Next, Callback

THEOREM Invariance == Spec => []IInv
<1>1. Init => IInv
  BY InitInv
<1>2. IInv /\ [Next]_vars => IInv'
  BY StepInv
<1> QED
  BY <1>1, <1>2, PTL DEF Spec

(* Whatever the peer sends, however it is split over reads and chains, and *)
(* whenever stale pointers call transition(), the packages that reach the  *)
(* pool unbroken are frames of the stream, once each and in order, and no  *)
(* more is drained than has arrived (TConnection.cpp:188-209).             *)
THEOREM FramesInOrder == Spec => []FramesSound
<1>1. IInv => FramesSound
  BY DEF IInv, Consumed, FramesSound
<1> QED
  BY <1>1, Invariance, PTL
-----------------------------------------------------------------------------
(* Nothing is lost: as long as nothing has disturbed the framing, a frame  *)
(* that has begun to be read is at the front as a whole, so that what      *)
(* read_request drains is what it has delivered.                           *)

(* The frame f can be read: it is at the front, it has the size that was   *)
(* parsed, and the first chain holds it to its end.                        *)
Ready(f) ==
  /\ f.kind \in {"chat", "echo"} /\ f.at = drained /\ f.size = frameSize
  /\ \A len \in Peeked : f.size <= len

(* No chain ends inside a frame; there is no echo frame of which only a    *)
(* part has arrived.                                                       *)
CutsFit ==
  /\ \A c \in cuts : ~Inside(c, {"chat", "bad", "echo"})
  /\ ~Inside(arrived, {"echo"})

(* transition() goes on to read_request with a frame, or with nothing to   *)
(* drain, and never waits for the rest of one.                             *)
Orderly ==
  /\ CutsFit
  /\ socketState = "SOCKET_RECV_FRAMING"
  /\ pc = "idle" => Available = 0 \/ readWant # 0 \/ frameSize = 0
  /\ pc = "transition" /\ appstate = "APP_READ_FRAME_SIZE" => readWant = 0
  /\ pc = "transition" /\ appstate \in {"APP_READ_FRAME_SIZE", "APP_READ_REQUEST"} =>
       Available = 0 \/ frameSize = 0 \/ \E f \in frames : Ready(f)

(* The drained position is never inside a frame of an orderly stream.      *)
Served ==
  \A f \in frames : f.kind # "bad" /\ CleanBefore(f) =>
    drained <= f.at \/ (End(f) <= drained /\ f \in Delivered)

Undisturbed == ~disturbed => Orderly /\ Served

(* Two frames of a stream do not start at the same byte. *)
LEMMA OneFront ==
  ASSUME TypeOK, NEW f \in frames, NEW g \in frames, f.at = g.at
  PROVE  f = g
<1>1. /\ f.at \in Nat /\ f.size \in Nat /\ f.size >= 1
      /\ g.at \in Nat /\ g.size \in Nat /\ g.size >= 1
  BY FramesAreFrames, FramingAssumption
<1>2. f # g => f.at + f.size <= g.at \/ g.at + g.size <= f.at
  BY FramingAssumption DEF TypeOK, End
<1> QED BY <1>1, <1>2

(* evbuffer_peek shows one chain. *)
LEMMA OneChain ==
  ASSUME TypeOK, NEW m \in Peeked, NEW n \in Peeked
  PROVE  m = n
BY FramingAssumption DEF TypeOK, Peeked

(* An echo frame at the front has arrived to its end, in one chain. *)
LEMMA EchoIsWhole ==
  ASSUME TypeOK, CutsFit, NEW f \in frames, f.kind = "echo", f.at = drained,
         NEW len \in Peeked
  PROVE  f.size <= len
<1>1. PICK e \in cuts \cup {arrived} : len = e - drained /\ e > drained
  BY DEF Peeked
<1>2. ~Inside(e, {"echo"})
  BY DEF CutsFit, Inside
<1>3. ~(e < f.at + f.size)
  BY <1>1, <1>2 DEF Inside, End
<1>4. e \in Nat /\ drained \in Nat /\ f.size \in Nat
  BY FramesAreFrames, FramingAssumption DEF TypeOK
<1> QED BY <1>1, <1>3, <1>4

(* parseOnePackage says yes to a frame that is there to its end. *)
LEMMA ParseYes ==
  ASSUME TypeOK, CutsFit, NEW len \in Peeked, NEW r \in Parse(len), r.ok
  PROVE  \E f \in frames : /\ f.kind \in {"chat", "echo"} /\ f.at = drained
                           /\ f.size = r.size /\ f.size <= len
<1>1. len \in Nat
  BY PeekedIsThere
<1>2. CASE r \in EchoParse(len) /\ Starting({"echo"}) # {}
  <2>1. PICK f \in Starting({"echo"}) : r \in {Result(TRUE, 0, s, 0) : s \in EchoSize(f, len)}
    BY <1>2 DEF EchoParse
  <2>2. f \in frames /\ f.kind = "echo" /\ f.at = drained
    BY <2>1 DEF Starting
  <2>3. f.size <= len /\ f.size \in Nat /\ EchoHeader <= f.size /\ EchoHeader \in Nat
    <3>1. EchoHeader <= f.size
      BY <2>2, FramesAreFrames, FramingAssumption DEF TypeOK
    <3> QED BY <2>2, <3>1, EchoIsWhole, FramesAreFrames, FramingAssumption
  <2>4. EchoSize(f, len) = {f.size}
    BY <1>1, <2>3 DEF EchoSize
  <2>5. r.size = f.size
    BY <2>1, <2>4 DEF Result
  <2> QED BY <2>2, <2>3, <2>5
<1>3. CASE r = ChatParse(len)
  <2>1. ~(len < ChatLength) /\ Starting({"chat", "bad"}) # {}
    BY <1>3 DEF ChatParse, Result
  <2>2. FrontFrame \in Starting({"chat", "bad"})
    BY <2>1 DEF FrontFrame
  <2>3. FrontFrame \in frames /\ FrontFrame.at = drained /\ FrontFrame.size \in Nat
    BY <2>2, FramesAreFrames, FramingAssumption DEF Starting
  <2>4. r = isOnePackage(FrontFrame, len)
    BY <1>3, <2>1 DEF ChatParse
  <2>5. ~(len < FrontFrame.size) /\ FrontFrame.kind = "chat" /\ r.size = FrontFrame.size
    BY <2>4 DEF isOnePackage, Result
  <2> QED BY <1>1, <2>3, <2>5
<1> QED BY <1>2, <1>3 DEF Parse

(* What it says yes to waits for nothing more. *)
LEMMA YesIsWhole ==
  ASSUME NEW len, NEW r \in Parse(len), r.ok
  PROVE  r.want = 0
<1>1. CASE r \in EchoParse(len)
  BY <1>1 DEF EchoParse, Result
<1>2. CASE r = ChatParse(len)
  BY <1>2 DEF ChatParse, isOnePackage, Result
<1> QED BY <1>1, <1>2 DEF Parse

(* When it says no, read_request will not drain on its account before it   *)
(* has been asked again; and what is junk starts with no good frame.       *)
LEMMA ParseNo ==
  ASSUME TypeOK, NEW len \in Peeked, NEW r \in Parse(len), ~r.ok
  PROVE  /\ r.size = 0 \/ r.want # 0
         /\ r.pos > 0 => /\ r.size = 0
                         /\ \A f \in frames : f.at = drained => f.kind = "bad"
<1>1. len \in Nat
  BY PeekedIsThere
<1>2. r = ChatParse(len) /\ Starting({"echo"}) = {}
  <2>1. r \notin EchoParse(len)
    BY DEF EchoParse, Result
  <2>2. r = ChatParse(len)
    BY <2>1 DEF Parse
  <2> QED BY <2>1, <2>2 DEF Parse
<1>3. CASE len < ChatLength
  BY <1>2, <1>3 DEF ChatParse, Result
<1>4. CASE ~(len < ChatLength) /\ Starting({"chat", "bad"}) = {}
  <2>1. r.size = 0
    BY <1>2, <1>4 DEF ChatParse, Result
  <2>2. \A f \in frames : f.at # drained
    BY <1>2, <1>4, FramesAreFrames DEF Starting
  <2> QED BY <2>1, <2>2
<1>5. CASE ~(len < ChatLength) /\ Starting({"chat", "bad"}) # {}
  <2>1. FrontFrame \in Starting({"chat", "bad"})
    BY <1>5 DEF FrontFrame
  <2>2. FrontFrame \in frames /\ FrontFrame.at = drained /\ FrontFrame.size \in Nat
    BY <2>1, FramesAreFrames, FramingAssumption DEF Starting
  <2>3. r = isOnePackage(FrontFrame, len)
    BY <1>2, <1>5 DEF ChatParse
  <2>4. CASE len < FrontFrame.size
    BY <1>1, <2>2, <2>3, <2>4 DEF isOnePackage, Result
  <2>5. CASE ~(len < FrontFrame.size)
    <3>1. FrontFrame.kind # "chat" /\ r.size = 0
      BY <2>3, <2>5 DEF isOnePackage, Result
    <3>2. FrontFrame.kind = "bad"
      BY <2>1, <3>1 DEF Starting
    <3> QED BY <2>2, <3>1, <3>2, OneFront
  <2> QED BY <2>4, <2>5
<1> QED BY <1>3, <1>4, <1>5

(* A frame that is ready is what getOnePackage makes of the input. *)
LEMMA ReadyIsGot ==
  ASSUME TypeOK, NEW f \in frames, Ready(f),
         NEW len \in Peeked, NEW P \in getOnePackage(len)
  PROVE  P = <<f>>
<1>1. /\ f.at = drained /\ f.size = frameSize /\ f.size <= len /\ f.size \in Nat
      /\ len \in Nat /\ f \in Frame
  BY FramesAreFrames, PeekedIsThere, FramingAssumption DEF Ready
<1>2. \A K : \A g \in Starting(K) : g = f
  BY <1>1, OneFront DEF Starting
<1>3. CASE f.kind = "chat"
  <2>1. f \in Starting({"chat"})
    BY <1>1, <1>3 DEF Starting
  <2>2. ChatGet(len) = {<<f>>}
    BY <1>1, <1>2, <2>1 DEF ChatGet
  <2> QED BY <2>2 DEF getOnePackage
<1>4. CASE f.kind = "echo"
  <2>1. f \in Starting({"echo"}) /\ Starting({"chat"}) = {}
    BY <1>1, <1>2, <1>4 DEF Starting
  <2>2. P \in EchoGet(len)
    BY <2>1 DEF getOnePackage, ChatGet
  <2>3. EchoSize(f, len) = {f.size}
    <3>1. EchoHeader <= f.size /\ EchoHeader \in Nat
      BY <1>4, FramingAssumption DEF TypeOK
    <3> QED BY <1>1, <3>1 DEF EchoSize
  <2>4. P = <<[kind |-> "echo", at |-> f.at, size |-> f.size]>>
    BY <1>1, <1>2, <2>1, <2>2, <2>3 DEF EchoGet
  <2>5. [kind |-> "echo", at |-> f.at, size |-> f.size] = f
    BY <1>1, <1>4 DEF Frame
  <2> QED BY <2>4, <2>5
<1> QED BY <1>3, <1>4 DEF Ready

(* Where an orderly stream is being read there is a good frame. *)
LEMMA CleanFront ==
  ASSUME TypeOK, Served, NEW f \in frames, f.kind # "bad", CleanBefore(f), drained <= f.at
  PROVE  \E g \in frames : g.at = drained /\ g.kind # "bad"
<1>1. drained \in Nat /\ f.at \in Nat
  BY FramesAreFrames, FramingAssumption DEF TypeOK
<1>2. CASE drained = f.at
  BY <1>2
<1>3. CASE drained < f.at
  <2>1. drained \in 0..(f.at - 1)
    BY <1>1, <1>3
  <2>2. PICK g \in frames : g.at <= drained /\ drained < End(g)
    BY <2>1 DEF CleanBefore
  <2>3. g.at \in Nat /\ End(g) \in Nat
    BY FramesAreFrames, FramingAssumption DEF End
  <2>4. g.kind # "bad"
    BY <1>1, <1>3, <2>2, <2>3 DEF CleanBefore
  <2>5. CleanBefore(g)
    <3>1. ASSUME NEW h \in frames, h.at < g.at PROVE h.kind # "bad"
      <4>1. h.at \in Nat
        BY FramesAreFrames, FramingAssumption
      <4>2. h.at < f.at
        BY <1>1, <1>3, <2>2, <2>3, <3>1, <4>1
      <4> QED BY <4>2 DEF CleanBefore
    <3>2. 0..(g.at - 1) \subseteq 0..(f.at - 1)
      BY <1>1, <1>3, <2>2, <2>3
    <3> QED BY <3>1, <3>2 DEF CleanBefore
  <2>6. g.at = drained
    BY <1>1, <2>2, <2>3, <2>4, <2>5 DEF Served
  <2> QED BY <2>4, <2>6
<1> QED BY <1>1, <1>2, <1>3

(* A step that drains and delivers nothing. *)
LEMMA ServedStays ==
  ASSUME Served, UNCHANGED <<frames, drained, delivered>>
  PROVE  Served'
BY DEF Served, CleanBefore, Delivered

LEMMA UndisturbedInit == Init => Undisturbed
<1> SUFFICES ASSUME Init PROVE Orderly /\ Served
  BY DEF Undisturbed
<1>1. TypeOK
  BY InitInv DEF IInv
<1>2. \A f \in frames : f.at \in Nat
  BY <1>1, FramesAreFrames, FramingAssumption
<1>3. CutsFit
  BY <1>2 DEF Init, CutsFit, Inside
<1> QED BY <1>2, <1>3 DEF Init, Orderly, Served

(* The events that can happen between two callbacks. *)
LEMMA UndisturbedArrive ==
  ASSUME IInv, Undisturbed, NEW n \in Nat, NEW C, Arrive(n, C)
  PROVE  Undisturbed'
<1> SUFFICES ASSUME ~disturbed' PROVE Orderly' /\ Served'
  BY DEF Undisturbed
<1>1. Orderly /\ Served /\ TypeOK
  BY DEF Arrive, Undisturbed, IInv
<1>2. CutsFit'
  BY <1>1 DEF Arrive, CutsFit, Inside, Orderly
<1>3. Low = 0 /\ Available \in Nat
  BY <1>1, FramingAssumption DEF Orderly, Low, Available, TypeOK
<1>4. pc' = "recv" /\ socketState' = "SOCKET_RECV_FRAMING"
  BY <1>1, <1>3 DEF Arrive, Orderly, stateVars
<1>5. Served'
  BY <1>1, ServedStays DEF Arrive
<1> QED BY <1>2, <1>4, <1>5 DEF Orderly

LEMMA UndisturbedRenotify ==
  ASSUME IInv, Undisturbed, Renotify
  PROVE  Undisturbed'
<1> SUFFICES ASSUME ~disturbed' PROVE Orderly' /\ Served'
  BY DEF Undisturbed
<1>1. Orderly /\ Served /\ readWant = 0
  BY DEF Renotify, Undisturbed
<1>2. /\ pc = "idle" /\ pc' = "transition"
      /\ UNCHANGED <<frames, socketState, frameSize, readWant>>
  BY <1>1 DEF Renotify, stateVars
<1>3. CutsFit' /\ Available' = Available
  BY <1>1 DEF Renotify, CutsFit, Inside, Orderly, Available
<1>4. Served'
  BY <1>1, ServedStays DEF Renotify
<1> QED BY <1>1, <1>2, <1>3, <1>4 DEF Orderly

(* The cases of transition() that touch no byte, and a mark. *)
LEMMA UndisturbedState ==
  ASSUME IInv, Undisturbed, AppInit \/ FrameSize \/ CloseConnection \/ HeartBeat
  PROVE  Undisturbed'
<1> SUFFICES ASSUME ~disturbed' PROVE Orderly' /\ Served'
  BY DEF Undisturbed
<1>1. UNCHANGED <<frames, arrived, cuts, disturbed, drained, frameSize, readWant, delivered>>
  BY DEF AppInit, FrameSize, CloseConnection, HeartBeat, inputVars
<1>2. Orderly /\ Served
  BY <1>1 DEF Undisturbed
<1>3. /\ CutsFit' /\ Available' = Available
      /\ \A f \in frames : Ready(f)' <=> Ready(f)
  BY <1>1, <1>2 DEF CutsFit, Inside, Orderly, Available, Ready, Peeked
<1>4. socketState' = "SOCKET_RECV_FRAMING"
  BY <1>2 DEF Orderly, AppInit, FrameSize, CloseConnection, HeartBeat, InState, stateVars
<1>5. Served'
  BY <1>1, <1>2, ServedStays
<1>6. /\ pc' = "idle" => Available = 0 \/ readWant # 0 \/ frameSize = 0
      /\ pc' = "transition" /\ appstate' = "APP_READ_FRAME_SIZE" => readWant = 0
      /\ pc' = "transition" /\ appstate' \in {"APP_READ_FRAME_SIZE", "APP_READ_REQUEST"} =>
           Available = 0 \/ frameSize = 0 \/ \E f \in frames : Ready(f)
  BY <1>2 DEF Orderly, AppInit, FrameSize, CloseConnection, HeartBeat, InState, stateVars
<1> QED BY <1>1, <1>3, <1>4, <1>5, <1>6 DEF Orderly

(* recv_framing *)
LEMMA UndisturbedRecv ==
  ASSUME IInv, Undisturbed, RecvNothing \/ RecvFrame \/ RecvIncomplete \/ RecvJunk
  PROVE  Undisturbed'
<1> SUFFICES ASSUME ~disturbed' PROVE Orderly' /\ Served'
  BY DEF Undisturbed
<1>1. /\ disturbed' = disturbed /\ frames' = frames /\ arrived' = arrived /\ cuts' = cuts
      /\ socketState' = socketState /\ delivered' = delivered
  BY DEF RecvNothing, RecvFrame, RecvIncomplete, RecvJunk, inputVars, stateVars
<1>2. Orderly /\ Served /\ TypeOK /\ CutsFit
  BY <1>1 DEF Undisturbed, Orderly, IInv
<1>3. CutsFit' /\ socketState' = "SOCKET_RECV_FRAMING"
  BY <1>1, <1>2 DEF CutsFit, Inside, Orderly
<1>4. CASE RecvNothing
  <2>1. Served'
    BY <1>1, <1>2, <1>4, ServedStays DEF RecvNothing
  <2> QED BY <1>1, <1>3, <1>4, <2>1 DEF RecvNothing, Orderly, Available
<1>5. CASE RecvFrame
  <2>0. PICK len \in Peeked :
           \E r \in Parse(len) : r.ok /\ frameSize' = r.size /\ readWant' = r.want
    BY <1>5 DEF RecvFrame
  <2>1. PICK r \in Parse(len) : r.ok /\ frameSize' = r.size /\ readWant' = r.want
    BY <2>0
  <2>7. readWant' = 0
    BY <1>2, <2>1, YesIsWhole
  <2>2. PICK f \in frames : /\ f.kind \in {"chat", "echo"} /\ f.at = drained
                            /\ f.size = r.size /\ f.size <= len
    BY <1>2, <2>1, ParseYes
  <2>3. drained' = drained /\ Peeked' = Peeked
    BY <1>1, <1>5 DEF RecvFrame, Peeked
  <2>4. \A m \in Peeked : m = len
    BY <1>2, OneChain
  <2>5. Ready(f)' /\ f \in frames'
    BY <1>1, <2>1, <2>2, <2>3, <2>4 DEF Ready
  <2>6. Served'
    BY <1>1, <1>2, <2>3, ServedStays
  <2> QED BY <1>3, <1>5, <2>5, <2>6, <2>7 DEF RecvFrame, Orderly
<1>6. CASE RecvIncomplete
  <2>0. PICK len \in Peeked :
           \E r \in Parse(len) : ~r.ok /\ frameSize' = r.size /\ readWant' = r.want
    BY <1>6 DEF RecvIncomplete
  <2>1. PICK r \in Parse(len) : ~r.ok /\ frameSize' = r.size /\ readWant' = r.want
    BY <2>0
  <2>2. frameSize' = 0 \/ readWant' # 0
    BY <1>2, <2>1, ParseNo
  <2>3. Served'
    BY <1>1, <1>2, <1>6, ServedStays DEF RecvIncomplete
  <2> QED BY <1>3, <1>6, <2>2, <2>3 DEF RecvIncomplete, Orderly
<1>7. CASE RecvJunk
  <2>0. PICK len \in Peeked : \E r \in Parse(len) :
           /\ ~r.ok /\ r.pos > 0 /\ frameSize' = r.size
           /\ drained' = AfterDrain(r.pos)
    BY <1>7 DEF RecvJunk
  <2>1. PICK r \in Parse(len) :
           /\ ~r.ok /\ r.pos > 0 /\ frameSize' = r.size
           /\ drained' = AfterDrain(r.pos)
    BY <2>0
  <2>2. frameSize' = 0 /\ \A f \in frames : f.at = drained => f.kind = "bad"
    BY <1>2, <2>1, ParseNo
  <2>3. drained \in Nat /\ drained' \in Nat /\ drained <= drained'
    <3>1. r.pos \in Nat
      BY <1>2, ParseType
    <3>2. AfterDrain(r.pos) \in 0..arrived /\ drained <= AfterDrain(r.pos)
      BY <1>2, <3>1, DrainForward
    <3> QED BY <1>2, <2>1, <3>2, FramingAssumption DEF TypeOK
  <2>4. ASSUME NEW f \in frames', f.kind # "bad", CleanBefore(f)'
        PROVE  End(f) <= drained' /\ f \in Delivered'
    <3>1. f \in frames /\ CleanBefore(f)
      BY <1>1, <2>4 DEF CleanBefore
    <3>2. ~(drained <= f.at)
      BY <1>2, <2>2, <2>4, <3>1, CleanFront
    <3>3. End(f) <= drained /\ f \in Delivered
      BY <1>2, <2>4, <3>1, <3>2 DEF Served
    <3>4. End(f) \in Nat
      BY <1>2, <3>1, FramesAreFrames, FramingAssumption DEF End
    <3> QED BY <1>1, <2>3, <3>3, <3>4 DEF Delivered
  <2>5. Served'
    BY <2>4 DEF Served
  <2> QED BY <1>3, <1>7, <2>2, <2>5 DEF RecvJunk, Orderly
<1> QED BY <1>4, <1>5, <1>6, <1>7

(* What read_request delivers and drains: nothing, or the frame at the     *)
(* front.                                                                  *)
LEMMA ReadsFront ==
  ASSUME IInv, Orderly, ReadRequest
  PROVE  \/ delivered' = delivered /\ drained' = drained
         \/ \E f \in frames : /\ f.at = drained /\ drained' = End(f)
                              /\ delivered' = Append(delivered, f)
<1>1. /\ TypeOK /\ drained \in Nat /\ arrived \in Nat /\ drained <= arrived
      /\ frameSize \in Nat /\ delivered \in Seq(Package)
  BY FramingAssumption DEF IInv, TypeOK
<1>2. /\ pc = "transition" /\ appstate = "APP_READ_REQUEST"
      /\ Deliver /\ drained' = AfterDrain(frameSize)
  BY DEF ReadRequest, InState
<1>3. CASE Available = 0
  BY <1>1, <1>2, <1>3 DEF Deliver, AfterDrain, Available
<1>4. CASE Available # 0
  <2>1. PICK len \in Peeked : \E P \in getOnePackage(len) : delivered' = delivered \o P
    BY <1>2, <1>4 DEF Deliver
  <2>2. PICK P \in getOnePackage(len) : delivered' = delivered \o P
    BY <2>1
  <2>3. CASE frameSize = 0
    <3>1. P = <<>>
      <4> SUFFICES ASSUME P # <<>> PROVE FALSE
        OBVIOUS
      <4>1. PICK p \in Package : 1 <= p.size /\ p.size <= frameSize
        BY <1>1, GetType
      <4>2. p.size \in Nat
        BY FramingAssumption DEF Package
      <4> QED BY <2>3, <4>1, <4>2
    <3>2. delivered' = delivered
      BY <1>1, <2>2, <3>1
    <3> QED BY <1>1, <1>2, <2>3, <3>2 DEF AfterDrain, Available
  <2>4. ASSUME NEW f \in frames, Ready(f)
        PROVE  \E g \in frames : /\ g.at = drained /\ drained' = End(g)
                                 /\ delivered' = Append(delivered, g)
    <3>1. P = <<f>>
      BY <1>1, <2>4, ReadyIsGot
    <3>2. f.at = drained /\ f.size = frameSize /\ f.size <= len
      BY <2>4 DEF Ready
    <3>3. len \in Nat /\ drained + len <= arrived
      BY <1>1, PeekedIsThere
    <3>4. drained' = End(f)
      BY <1>1, <1>2, <3>2, <3>3 DEF AfterDrain, Available, End
    <3>5. delivered' = Append(delivered, f)
      BY <1>1, <2>2, <3>1
    <3> QED BY <3>2, <3>4, <3>5
  <2> QED BY <1>2, <1>4, <2>3, <2>4 DEF Orderly
<1> QED BY <1>3, <1>4

LEMMA UndisturbedRequest ==
  ASSUME IInv, Undisturbed, ReadRequest
  PROVE  Undisturbed'
<1> SUFFICES ASSUME ~disturbed' PROVE Orderly' /\ Served'
  BY DEF Undisturbed
<1>1. /\ disturbed' = disturbed /\ frames' = frames /\ arrived' = arrived /\ cuts' = cuts
      /\ appstate' = "APP_INIT" /\ pc' = "transition" /\ socketState' = socketState
  BY DEF ReadRequest, InState, inputVars
<1>2. Orderly /\ Served /\ TypeOK /\ CutsFit /\ delivered \in Seq(Package)
  BY <1>1 DEF Undisturbed, Orderly, IInv, TypeOK
<1>3. Orderly'
  BY <1>1, <1>2 DEF CutsFit, Inside, Orderly
<1>4. CASE delivered' = delivered /\ drained' = drained
  BY <1>1, <1>2, <1>3, <1>4, ServedStays
<1>5. ASSUME NEW f \in frames, f.at = drained, drained' = End(f),
             delivered' = Append(delivered, f)
      PROVE  Served'
  <2>1. f.at \in Nat /\ f.size \in Nat /\ f.size >= 1 /\ End(f) = f.at + f.size
    BY <1>2, FramesAreFrames, FramingAssumption DEF End
  <2>2. Delivered \subseteq Delivered' /\ f \in Delivered'
    <3>1. /\ DOMAIN delivered' = 1..(Len(delivered) + 1) /\ Len(delivered) \in Nat
          /\ DOMAIN delivered = 1..Len(delivered)
          /\ \A i \in DOMAIN delivered : i \in DOMAIN delivered' /\ delivered'[i] = delivered[i]
          /\ delivered'[Len(delivered) + 1] = f
      BY <1>2, <1>5
    <3>2. Len(delivered) + 1 \in DOMAIN delivered'
      BY <3>1
    <3> QED BY <3>1, <3>2 DEF Delivered
  <2>3. ASSUME NEW g \in frames', g.kind # "bad", CleanBefore(g)'
        PROVE  drained' <= g.at \/ (End(g) <= drained' /\ g \in Delivered')
    <3>1. g \in frames /\ CleanBefore(g)
      BY <1>1, <2>3 DEF CleanBefore
    <3>2. g.at \in Nat /\ g.size \in Nat /\ g.size >= 1 /\ End(g) = g.at + g.size
      BY <1>2, <3>1, FramesAreFrames, FramingAssumption DEF End
    <3>3. CASE g = f
      BY <1>5, <2>1, <2>2, <3>2, <3>3
    <3>4. CASE g # f /\ drained <= g.at
      <4>1. End(f) <= g.at \/ End(g) <= f.at
        BY <1>2, <3>1, <3>4, FramingAssumption DEF TypeOK
      <4> QED BY <1>5, <2>1, <3>2, <3>4, <4>1
    <3>5. CASE End(g) <= drained /\ g \in Delivered
      BY <1>5, <2>1, <2>2, <3>2, <3>5
    <3> QED BY <1>2, <2>3, <3>1, <3>3, <3>4, <3>5 DEF Served
  <2> QED BY <2>3 DEF Served
<1> QED BY <1>2, <1>3, <1>4, <1>5, ReadsFront

LEMMA UndisturbedStep == IInv /\ Undisturbed /\ [Next]_vars => Undisturbed'
<1> SUFFICES ASSUME IInv, Undisturbed, [Next]_vars PROVE Undisturbed'
  OBVIOUS
<1>1. CASE Receive
  <2>1. \A n \in 1..MaxBuffer : n \in Nat
    BY FramingAssumption
  <2> QED BY <1>1, <2>1, UndisturbedArrive DEF Receive
<1>2. CASE Callback
  BY <1>2, UndisturbedRecv, UndisturbedRequest, UndisturbedState DEF Callback
<1>3. CASE Renotify
  BY <1>3, UndisturbedRenotify
<1>5. CASE HeartBeat
  BY <1>5, UndisturbedState
<1>4. CASE UNCHANGED vars
  BY <1>4, ServedStays
     DEF vars, inputVars, stateVars, Undisturbed, Orderly, CutsFit, Inside, Available, Ready, Peeked
<1> QED BY <1>1, <1>2, <1>3, <1>4, <1>5 DEF Next

(* TConnection::recv_framing and read_request drop no frame of an orderly  *)
(* stream without delivering it, whatever the stream, its chains, the      *)
(* watermarks and the callbacks' order, until a chain ends inside a frame, *)
(* half an echo frame arrives or transition() is called in mid-frame.      *)
THEOREM NothingIsLost == Spec => []NoSilentLoss
<1>1. IInv /\ Undisturbed => NoSilentLoss
  <2> SUFFICES ASSUME IInv, Undisturbed, ~disturbed,
                      NEW f \in frames, f.kind # "bad", CleanBefore(f), f.at < drained
               PROVE  f \in Delivered
    BY DEF NoSilentLoss
  <2>1. f.at \in Nat /\ drained \in Nat
    BY FramesAreFrames, FramingAssumption DEF IInv, TypeOK
  <2> QED BY <2>1 DEF Undisturbed, Served
<1>2. Spec => []Undisturbed
  BY Invariance, UndisturbedInit, UndisturbedStep, PTL DEF Spec
<1> QED
  BY <1>1, <1>2, Invariance, PTL

-----------------------------------------------------------------------------
(* The worker (SignIn.tla).  A thread holds a connection, or NULL, from    *)
(* grab() to the destructor of its wrapper, and nothing else does.         *)
Hands ==
  \A t \in Threads :
    /\ stage[t] \in {"idle", "grab", "connect", "respond", "send"} => conn[t] = NoConn
    /\ stage[t] = "insert" => conn[t] # NoConn
    /\ stage[t] \in {"select", "release"} => conn[t] \notin {NULL, NoConn}

(* Whoever connects under mutex_ has found the stack empty, and nobody     *)
(* releases meanwhile: there is an address that no connection has.         *)
EmptyWhileConnecting == holder # NoThread => stack = <<>>

(* A NULL that can still be handed out comes from a connect that failed.   *)
NullOnStack == (\E i \in 1 .. Len(stack) : stack[i] = NULL) => refused

(* Only who has inserted asks for an id. *)
Asking == \A t \in Threads : stage[t] = "select" => inserted[t]

SignInInv ==
  /\ PoolAccounted /\ AccountBeforeId
  /\ Hands /\ EmptyWhileConnecting /\ NullOnStack /\ Asking

(* Where a connection is, place by place. *)
OnePlace ==
  /\ \A i \in 1 .. Len(stack) : stack[i] \in live \cup {NULL}
  /\ \A t \in Threads : conn[t] \in live \cup {NULL, NoConn}
  /\ \A c \in live : \/ \E i \in 1 .. Len(stack) : stack[i] = c
                     \/ \E t \in Threads : conn[t] = c
  /\ \A i \in 1 .. Len(stack), t \in Threads : stack[i] = conn[t] => stack[i] = NULL
  /\ \A i, j \in 1 .. Len(stack) : stack[i] = stack[j] /\ stack[i] # NULL => i = j
  /\ \A t, u \in Threads : conn[t] = conn[u] /\ conn[t] \in live => t = u

(* A connection is a number, and NULL and the wrapper without one are none *)
(* of these.                                                               *)
LEMMA ConnNumbers ==
  /\ Conns \in SUBSET Nat /\ IsFiniteSet(Conns)
  /\ Cardinality(Conns) = Preload + Cardinality(Threads)
  /\ NULL \notin Conns /\ NoConn \notin Conns /\ NULL # NoConn
<1>1. Cardinality(Threads) \in Nat
  BY SignInAssumption, FS_CardinalityType
<1>2. Preload + Cardinality(Threads) \in Nat
  BY <1>1, SignInAssumption
<1> DEFINE n == Preload + Cardinality(Threads)
<1>3. n \in Nat
  BY <1>2
<1> HIDE DEF n
<1>4. IsFiniteSet(1 .. n) /\ Cardinality(1 .. n) = n
  BY <1>3, FS_Interval
<1>5. 1 .. n \in SUBSET Nat /\ NULL \notin 1 .. n /\ NoConn \notin 1 .. n /\ NULL # NoConn
  BY <1>3 DEF NULL, NoConn
<1> QED
  BY <1>4, <1>5 DEF Conns, n

(* The two ways to say where connections are agree. *)
LEMMA PlacesAgree ==
  ASSUME live \subseteq Conns
  PROVE  ConnInOnePlace <=> OnePlace
<1>1. \A c \in live : c # NULL /\ c # NoConn
  BY ConnNumbers
<1>2. ASSUME ConnInOnePlace
      PROVE  OnePlace
  <2>1. \A i \in 1 .. Len(stack) : stack[i] = NULL \/ stack[i] \in Stacked
    BY DEF Stacked
  <2>2. \A t \in Threads : conn[t] \in {NULL, NoConn} \/ conn[t] \in InUse
    BY DEF InUse
  <2>3. live = Stacked \cup InUse /\ Stacked \cap InUse = {}
    BY <1>2 DEF ConnInOnePlace
  <2>4. \A i \in 1 .. Len(stack) : stack[i] \in live \cup {NULL}
    BY <2>1, <2>3
  <2>5. \A t \in Threads : conn[t] \in live \cup {NULL, NoConn}
    BY <2>2, <2>3
  <2>6. ASSUME NEW c \in live
        PROVE  \/ \E i \in 1 .. Len(stack) : stack[i] = c
               \/ \E t \in Threads : conn[t] = c
    BY <2>3 DEF Stacked, InUse
  <2>7. ASSUME NEW i \in 1 .. Len(stack), NEW t \in Threads, stack[i] = conn[t]
        PROVE  stack[i] = NULL
    <3>1. SUFFICES ASSUME stack[i] # NULL
                   PROVE  FALSE
      OBVIOUS
    <3>2. stack[i] \in Stacked /\ stack[i] # NoConn
      BY <3>1, <2>1, <2>3, <1>1
    <3>3. stack[i] \in InUse
      BY <3>1, <3>2, <2>2, <2>7
    <3> QED
      BY <3>2, <3>3, <2>3
  <2>8. ASSUME NEW t \in Threads, NEW u \in Threads, conn[t] = conn[u], conn[t] \in live
        PROVE  t = u
    BY <2>2, <2>8, <1>1, <1>2 DEF ConnInOnePlace
  <2> QED
    BY <2>4, <2>5, <2>6, <2>7, <2>8, <1>2 DEF OnePlace, ConnInOnePlace
<1>3. ASSUME OnePlace
      PROVE  ConnInOnePlace
  <2>1. Stacked \subseteq live
    BY <1>3 DEF OnePlace, Stacked
  <2>2. InUse \subseteq live
    BY <1>3 DEF OnePlace, InUse
  <2>3. live \subseteq Stacked \cup InUse
    BY <1>1, <1>3 DEF OnePlace, Stacked, InUse
  <2>4. Stacked \cap InUse = {}
    BY <1>3 DEF OnePlace, Stacked, InUse
  <2> QED
    BY <2>1, <2>2, <2>3, <2>4, <1>3 DEF OnePlace, ConnInOnePlace
<1> QED
  BY <1>2, <1>3

(* PlacesAgree of the next state. *)
LEMMA PlacesAgreeNext ==
  ASSUME (live \subseteq Conns)'
  PROVE  (ConnInOnePlace <=> OnePlace)'
BY PlacesAgree, PTL

(* A thread that connects finds an address for its MysqlConn: the stack is *)
(* empty, it holds none itself, and each other thread holds at most one.   *)
LEMMA FreshIsNew ==
  ASSUME SignInInv, NEW t \in Threads, stage[t] = "connect"
  PROVE  Fresh \in Conns \ live
<1>1. holder = t /\ stack = <<>> /\ conn[t] = NoConn
  <2>1. holder = t
    BY DEF SignInInv, PoolAccounted, SignInTypeOK
  <2> QED
    BY <2>1, SignInAssumption DEF SignInInv, EmptyWhileConnecting, Hands
<1>2. live \subseteq Conns /\ OnePlace
  BY PlacesAgree DEF SignInInv, PoolAccounted, SignInTypeOK
<1> DEFINE T == Threads \ {t}
           f == [c \in Conns |-> CHOOSE u \in Threads : conn[u] = c]
<1>3. IsFiniteSet(T) /\ Cardinality(T) = Cardinality(Threads) - 1
  BY SignInAssumption, FS_RemoveElement
<1>4. Cardinality(T) < Cardinality(Conns)
  <2>1. Cardinality(Threads) \in Nat
    BY SignInAssumption, FS_CardinalityType
  <2> HIDE DEF T
  <2> QED
    BY <1>3, <2>1, ConnNumbers, SignInAssumption
<1>5. Conns \ live # {}
  <2>1. SUFFICES ASSUME live = Conns
                 PROVE  FALSE
    BY <1>2
  <2>2. \A c \in Conns : \E u \in Threads : conn[u] = c
    BY <2>1, <1>1, <1>2 DEF OnePlace
  <2>3. \A c \in Conns : f[c] \in Threads /\ conn[f[c]] = c
    BY <2>2
  <2>4. \A c \in Conns : f[c] # t
    BY <2>3, <1>1, ConnNumbers
  <2>5. f \in [Conns -> T]
    BY <2>3, <2>4
  <2>6. \E x, y \in Conns : x # y /\ f[x] = f[y]
    <3> HIDE DEF f, T
    <3> QED
      BY <2>5, <1>3, <1>4, ConnNumbers, FS_PigeonHole
  <2> QED
    BY <2>3, <2>6
<1>6. \E c \in Conns \ live : \A d \in Conns \ live : c <= d
  <2>1. Conns \ live \in SUBSET Nat
    BY ConnNumbers
  <2> QED
    BY <2>1, <1>5, LeastExists
<1> QED
  BY <1>6 DEF Fresh

(* The constructor's setParameter: a connection, or NULL, for each place. *)
LEMMA SignInInitInv == SignInInit => SignInInv
<1> SUFFICES ASSUME SignInInit
             PROVE  SignInInv
  OBVIOUS
<1> USE DEF SignInInit
<1>1. 1 .. Preload \subseteq Conns /\ live \subseteq Conns
  <2>1. Cardinality(Threads) \in Nat
    BY SignInAssumption, FS_CardinalityType
  <2> QED
    BY <2>1, SignInAssumption DEF Conns
<1>2. Len(stack) = Preload /\ \A i \in 1 .. Preload : stack[i] = IF i \in live THEN i ELSE NULL
  BY SignInAssumption
<1>3. SignInTypeOK
  <2>1. stack \in [1 .. Preload -> Conns \cup {NULL}]
    BY <1>1
  <2>2. stack \in Seq(Conns \cup {NULL})
    BY <2>1, SignInAssumption
  <2>3. count \in Int
    <3>1. IsFiniteSet(live)
      BY <1>1, ConnNumbers, FS_Subset
    <3> QED
      BY <3>1, FS_CardinalityType
  <2>4. response \in [Threads -> Texts \cup {NoId, NoFrame}]
    OBVIOUS
  <2>5. \A t \in Threads : holder = t <=> stage[t] = "connect"
    BY SignInAssumption
  <2>6. {up, refused, down} \subseteq BOOLEAN
    OBVIOUS
  <2>7. conn \in [Threads -> Conns \cup {NULL, NoConn}]
    OBVIOUS
  <2> QED
    BY <1>1, <2>2, <2>3, <2>4, <2>5, <2>6, <2>7 DEF SignInTypeOK
<1>4. ConnInOnePlace
  <2>1. \A c \in live : c # NULL /\ c \in 1 .. Preload
    BY <1>1, ConnNumbers
  <2>2. \A i \in 1 .. Len(stack) : /\ stack[i] # NoConn
                                   /\ stack[i] # NULL => stack[i] = i /\ i \in live
    <3>1. \A i \in 1 .. Len(stack) : stack[i] = IF i \in live THEN i ELSE NULL
      BY <1>2
    <3>2. \A i \in live : i # NoConn
      BY <1>1, ConnNumbers
    <3> HIDE DEF SignInInit
    <3> QED
      BY <3>1, <3>2, ConnNumbers
  <2>3. \A c \in live : c \in 1 .. Len(stack) /\ stack[c] = c
    BY <1>2, <2>1
  <2>4. \A t \in Threads : conn[t] = NoConn
    OBVIOUS
  <2>5. NoConn \notin live
    BY <2>1, <1>1, ConnNumbers
  <2> HIDE DEF SignInInit
  <2>6. OnePlace
    BY <2>2, <2>3, <2>4, <2>5, ConnNumbers DEF OnePlace
  <2> QED
    BY <2>6, <1>1, PlacesAgree
<1>5. NullOnStack
  <2>1. SUFFICES ASSUME NEW i \in 1 .. Len(stack), stack[i] = NULL
                 PROVE  refused
    BY DEF NullOnStack
  <2>2. i \in 1 .. Preload /\ i \in Conns
    BY <1>1, <1>2
  <2>3. live # 1 .. Preload
    BY <1>2, <2>1, <2>2, ConnNumbers
  <2> QED
    BY <2>3
<1>6. StackBound
  BY <1>2, SignInAssumption DEF StackBound
<1>7. NullHasCause
  BY ConnNumbers DEF NullHasCause
<1>8. Hands /\ EmptyWhileConnecting /\ Asking /\ AccountBeforeId
  BY DEF Hands, EmptyWhileConnecting, Asking, AccountBeforeId
<1> QED
  BY <1>3, <1>4, <1>5, <1>6, <1>7, <1>8 DEF SignInInv, PoolAccounted, CountMatches

(* What a step that does not reach the pool leaves as it is. *)
LEMMA AwayFromThePool ==
  ASSUME SignInInv, UNCHANGED <<conn, stack, live, count, refused>>
  PROVE  /\ ConnInOnePlace' /\ CountMatches' /\ StackBound' /\ NullHasCause'
         /\ NullOnStack'
<1>1. ConnInOnePlace'
  <2>1. Stacked' = Stacked
    BY DEF Stacked
  <2>2. InUse' = InUse
    BY DEF InUse
  <2>3. ConnInOnePlace
    BY DEF SignInInv, PoolAccounted
  <2> QED
    BY <2>1, <2>2, <2>3 DEF ConnInOnePlace
<1>2. CountMatches' /\ StackBound'
  BY DEF SignInInv, PoolAccounted, CountMatches, StackBound
<1>3. NullHasCause' /\ NullOnStack'
  BY DEF SignInInv, PoolAccounted, NullHasCause, NullOnStack
<1> QED
  BY <1>1, <1>2, <1>3

(* Steps of a thread and of the server beside the pool: what they do to    *)
(* the thread, and to the answer.                                          *)
LEMMA BesideThePool ==
  ASSUME SignInInv, NEW t \in Threads,
         Dispatch(t) \/ UseOfNull(t) \/ Insert(t) \/ Select(t) \/ Respond(t) \/ Send(t)
  PROVE  SignInInv'
<1>1. UNCHANGED <<conn, stack, live, count, refused, holder, up, sessions>>
  BY DEF Dispatch, UseOfNull, Insert, Select, Respond, Send, pool, server
<1> USE DEF At, Goto
<1>2. SignInTypeOK
  BY DEF SignInInv, PoolAccounted
<1>3. \A id \in Texts \cup {NoId} : id # NoFrame
  BY DEF Texts, NoId, NoFrame
<1>4. Hands /\ Asking /\ AccountBeforeId /\ EmptyWhileConnecting
  BY DEF SignInInv
<1>5. SignInTypeOK' /\ Hands' /\ Asking' /\ AccountBeforeId'
  <2>1. CASE Dispatch(t)
    <3>1. stage[t] = "idle"
      BY <2>1 DEF Dispatch
    <3>2. stage' = [stage EXCEPT ![t] = "grab"] \/ stage' = [stage EXCEPT ![t] = "idle"]
      BY <2>1 DEF Dispatch
    <3>3. UNCHANGED <<inserted, answer, response, down>>
      BY <2>1 DEF Dispatch
    <3>4. SignInTypeOK'
      BY <1>1, <1>2, <3>1, <3>2, <3>3 DEF SignInTypeOK
    <3>5. Hands' /\ Asking' /\ AccountBeforeId'
      BY <1>1, <1>2, <1>4, <3>1, <3>2, <3>3 DEF SignInTypeOK, Hands, Asking, AccountBeforeId
    <3> QED
      BY <3>4, <3>5
  <2>2. CASE UseOfNull(t)
    BY <2>2, <1>1, <1>2, <1>4 DEF UseOfNull, SignInTypeOK, Hands, Asking, AccountBeforeId
  <2>3. CASE Insert(t)
    <3>1. stage[t] = "insert" /\ conn[t] # NULL
      BY <2>3 DEF Insert
    <3>2. UNCHANGED <<response, down>>
      BY <2>3 DEF Insert
    <3>3. \/ /\ inserted' = [inserted EXCEPT ![t] = TRUE] /\ UNCHANGED answer
             /\ stage' = [stage EXCEPT ![t] = "select"]
          \/ /\ answer' = [answer EXCEPT ![t] = NoId] /\ UNCHANGED inserted
             /\ stage' = [stage EXCEPT ![t] = "release"]
      BY <2>3 DEF Insert
    <3>4. SignInTypeOK'
      BY <1>1, <1>2, <3>1, <3>2, <3>3 DEF SignInTypeOK
    <3>5. Hands' /\ Asking' /\ AccountBeforeId'
      BY <1>1, <1>2, <1>4, <3>1, <3>2, <3>3 DEF SignInTypeOK, Hands, Asking, AccountBeforeId
    <3> QED
      BY <3>4, <3>5
  <2>4. CASE Select(t)
    <3>1. stage[t] = "select"
      BY <2>4 DEF Select
    <3>2. UNCHANGED <<inserted, response>>
      BY <2>4 DEF Select
    <3>3. \/ /\ \E id \in Texts \cup {NoId} : answer' = [answer EXCEPT ![t] = id]
             /\ stage' = [stage EXCEPT ![t] = "release"]
             /\ UNCHANGED down
          \/ down' = TRUE /\ UNCHANGED <<answer, stage>>
      BY <2>4 DEF Select
    <3>4. SignInTypeOK'
      BY <1>1, <1>2, <3>1, <3>2, <3>3 DEF SignInTypeOK
    <3>5. Hands' /\ Asking' /\ AccountBeforeId'
      BY <1>1, <1>2, <1>4, <3>1, <3>2, <3>3 DEF SignInTypeOK, Hands, Asking, AccountBeforeId
    <3> QED
      BY <3>4, <3>5
  <2>5. CASE Respond(t)
    <3>1. stage[t] = "respond" /\ stage' = [stage EXCEPT ![t] = "send"]
          /\ response' = [response EXCEPT ![t] = answer[t]]
          /\ UNCHANGED <<inserted, answer, down>>
      BY <2>5 DEF Respond
    <3>2. answer[t] # NoFrame
      BY <1>2, <1>3 DEF SignInTypeOK
    <3>3. SignInTypeOK'
      BY <1>1, <1>2, <3>1, <3>2 DEF SignInTypeOK
    <3>4. Hands' /\ Asking' /\ AccountBeforeId'
      BY <1>1, <1>2, <1>4, <3>1 DEF SignInTypeOK, Hands, Asking, AccountBeforeId
    <3> QED
      BY <3>3, <3>4
  <2>6. CASE Send(t)
    <3>1. stage[t] = "send" /\ stage' = [stage EXCEPT ![t] = "idle"]
          /\ response' = [response EXCEPT ![t] = NoFrame]
          /\ answer' = [answer EXCEPT ![t] = NoId]
          /\ inserted' = [inserted EXCEPT ![t] = FALSE]
          /\ UNCHANGED down
      BY <2>6 DEF Send
    <3>2. SignInTypeOK'
      BY <1>1, <1>2, <3>1 DEF SignInTypeOK
    <3>3. Hands' /\ Asking' /\ AccountBeforeId'
      BY <1>1, <1>2, <1>4, <3>1 DEF SignInTypeOK, Hands, Asking, AccountBeforeId
    <3> QED
      BY <3>2, <3>3
  <2> QED
    BY <2>1, <2>2, <2>3, <2>4, <2>5, <2>6
<1>6. EmptyWhileConnecting'
  BY <1>1, <1>4 DEF EmptyWhileConnecting
<1> QED
  BY <1>1, <1>5, <1>6, AwayFromThePool DEF SignInInv, PoolAccounted

(* The top of a stack that is not empty, and what remains under it. *)
LEMMA PopTheStack ==
  ASSUME SignInTypeOK, stack # <<>>
  PROVE  /\ TopOfStack = stack[Len(stack)] /\ Len(stack) \in 1 .. Len(stack)
         /\ Popped \in Seq(Conns \cup {NULL})
         /\ Len(Popped) = Len(stack) - 1
         /\ \A i \in 1 .. Len(Popped) : i \in 1 .. (Len(stack) - 1) /\ Popped[i] = stack[i]
<1>1. stack \in Seq(Conns \cup {NULL})
  BY DEF SignInTypeOK
<1>2. Len(stack) \in Nat \ {0}
  BY <1>1, EmptySeq
<1> DEFINE n == Len(stack) - 1
<1>3. n \in Nat
  BY <1>2
<1>4. Popped = [i \in 1 .. n |-> stack[i]]
  BY <1>1, <1>2 DEF Popped
<1>5. \A i \in 1 .. n : stack[i] \in Conns \cup {NULL}
  BY <1>1, <1>2
<1> HIDE DEF n
<1>6. Popped \in Seq(Conns \cup {NULL}) /\ Len(Popped) = n
  BY <1>3, <1>4, <1>5
<1> QED
  BY <1>2, <1>4, <1>6 DEF TopOfStack, n

(* grab(): the connection goes from the stack to the thread, which had     *)
(* none; a NULL from the stack was put there for a reason.                 *)
LEMMA GrabInv ==
  ASSUME SignInInv, NEW t \in Threads, Grab(t)
  PROVE  SignInInv'
<1> USE DEF At, Goto
<1>1. SignInTypeOK /\ OnePlace
  BY PlacesAgree DEF SignInInv, PoolAccounted, SignInTypeOK
<1>2. /\ stage[t] = "grab" /\ holder = NoThread /\ stack # <<>>
      /\ conn' = [conn EXCEPT ![t] = TopOfStack] /\ stack' = Popped
      /\ stage' = [stage EXCEPT ![t] = "insert"]
      /\ UNCHANGED <<inserted, answer, response, live, count, holder, refused, up,
                     sessions, down>>
  BY DEF Grab, server
<1>3. /\ TopOfStack = stack[Len(stack)] /\ Len(stack) \in 1 .. Len(stack)
      /\ Popped \in Seq(Conns \cup {NULL})
      /\ Len(Popped) = Len(stack) - 1
      /\ \A i \in 1 .. Len(Popped) : i \in 1 .. (Len(stack) - 1) /\ Popped[i] = stack[i]
  BY <1>1, <1>2, PopTheStack
<1>4. \A i \in 1 .. Len(stack') :
         i \in 1 .. Len(stack) /\ i # Len(stack) /\ stack'[i] = stack[i]
  BY <1>2, <1>3
<1>5. /\ conn'[t] = stack[Len(stack)] /\ conn'[t] \in Conns \cup {NULL}
      /\ \A u \in Threads \ {t} : conn'[u] = conn[u]
  BY <1>1, <1>2, <1>3 DEF SignInTypeOK
<1>6. conn[t] = NoConn
  BY <1>2 DEF SignInInv, Hands
<1>7. SignInTypeOK'
  BY <1>1, <1>2, <1>3, <1>5 DEF SignInTypeOK
<1>8. \A c \in live : c # NULL /\ c # NoConn
  BY <1>1, ConnNumbers DEF SignInTypeOK
<1>9. OnePlace'
  <2>1. \A i \in 1 .. Len(stack') : stack'[i] \in live' \cup {NULL}
    BY <1>1, <1>2, <1>4 DEF OnePlace
  <2>2. \A u \in Threads : conn'[u] \in live' \cup {NULL, NoConn}
    BY <1>1, <1>2, <1>3, <1>5 DEF OnePlace
  <2>3. ASSUME NEW c \in live'
        PROVE  \/ \E i \in 1 .. Len(stack') : stack'[i] = c
               \/ \E u \in Threads : conn'[u] = c
    <3>1. CASE \E u \in Threads : conn[u] = c
      BY <3>1, <1>2, <1>5, <1>6, <1>8
    <3>2. CASE \E i \in 1 .. Len(stack) : stack[i] = c
      <4>1. PICK i \in 1 .. Len(stack) : stack[i] = c
        BY <3>2
      <4>2. CASE i = Len(stack)
        BY <4>1, <4>2, <1>5
      <4>3. CASE i # Len(stack)
        BY <4>1, <4>3, <1>2, <1>3
      <4> QED
        BY <4>2, <4>3
    <3> QED
      BY <3>1, <3>2, <1>1, <1>2 DEF OnePlace
  <2>4. \A i \in 1 .. Len(stack'), u \in Threads : stack'[i] = conn'[u] => stack'[i] = NULL
    BY <1>1, <1>3, <1>4, <1>5 DEF OnePlace
  <2>5. \A i, j \in 1 .. Len(stack') : stack'[i] = stack'[j] /\ stack'[i] # NULL => i = j
    BY <1>1, <1>4 DEF OnePlace
  <2>6. \A v, u \in Threads : conn'[v] = conn'[u] /\ conn'[v] \in live' => v = u
    BY <1>1, <1>2, <1>3, <1>5, <1>8 DEF OnePlace
  <2> QED
    BY <2>1, <2>2, <2>3, <2>4, <2>5, <2>6 DEF OnePlace
<1>10. ConnInOnePlace'
  <2>1. (live \subseteq Conns)'
    BY <1>7 DEF SignInTypeOK
  <2> QED
    BY <2>1, <1>9, PlacesAgreeNext
<1>11. CountMatches' /\ StackBound'
  <2>1. CountMatches'
    BY <1>2 DEF SignInInv, PoolAccounted, CountMatches
  <2>2. StackBound'
    BY <1>2, <1>3, SignInAssumption DEF SignInInv, PoolAccounted, StackBound
  <2> QED
    BY <2>1, <2>2
<1>12. NullHasCause' /\ NullOnStack'
  <2>1. NullHasCause /\ NullOnStack
    BY DEF SignInInv, PoolAccounted
  <2>2. NullOnStack'
    BY <2>1, <1>2, <1>4 DEF NullOnStack
  <2>3. NullHasCause'
    BY <2>1, <1>2, <1>3, <1>5 DEF NullHasCause, NullOnStack
  <2> QED
    BY <2>2, <2>3
<1>13. Hands' /\ Asking' /\ AccountBeforeId' /\ EmptyWhileConnecting'
  <2>1. conn'[t] # NoConn
    BY <1>5, ConnNumbers
  <2>2. Hands'
    BY <2>1, <1>1, <1>2, <1>5 DEF SignInInv, Hands, SignInTypeOK
  <2>3. Asking' /\ AccountBeforeId' /\ EmptyWhileConnecting'
    BY <1>1, <1>2 DEF SignInInv, SignInTypeOK, Asking, AccountBeforeId, EmptyWhileConnecting
  <2> QED
    BY <2>2, <2>3
<1> QED
  BY <1>7, <1>10, <1>11, <1>12, <1>13 DEF SignInInv, PoolAccounted

(* grab() on an empty stack takes mutex_ and goes to connect.              *)
LEMMA GrabEmptyInv ==
  ASSUME SignInInv, NEW t \in Threads, GrabEmpty(t)
  PROVE  SignInInv'
<1>1. /\ stage[t] = "grab" /\ holder = NoThread /\ stack = <<>> /\ holder' = t
      /\ stage' = [stage EXCEPT ![t] = "connect"]
      /\ UNCHANGED <<conn, inserted, answer, response, stack, live, count, refused, up,
                     sessions, down>>
  BY DEF GrabEmpty, server, At, Goto
<1>2. SignInTypeOK
  BY DEF SignInInv, PoolAccounted
<1>3. SignInTypeOK'
  BY <1>1, <1>2, SignInAssumption DEF SignInTypeOK
<1>4. Hands'
  BY <1>1, <1>2 DEF SignInInv, Hands, SignInTypeOK
<1>5. Asking' /\ AccountBeforeId' /\ EmptyWhileConnecting'
  BY <1>1, <1>2 DEF SignInInv, SignInTypeOK, Asking, AccountBeforeId, EmptyWhileConnecting
<1> QED
  BY <1>1, <1>3, <1>4, <1>5, AwayFromThePool DEF SignInInv, PoolAccounted

(* createOneConnect: a new connection for the thread, or NULL and a reason *)
(* for it; mutex_ is given back.                                           *)
LEMMA ConnectInv ==
  ASSUME SignInInv, NEW t \in Threads, createOneConnect(t)
  PROVE  SignInInv'
<1>1. SignInTypeOK /\ OnePlace
  BY PlacesAgree DEF SignInInv, PoolAccounted, SignInTypeOK
<1>2. /\ stage[t] = "connect" /\ holder' = NoThread
      /\ stage' = [stage EXCEPT ![t] = "insert"]
      /\ UNCHANGED <<inserted, answer, response, stack, up, down>>
  BY DEF createOneConnect, At, Goto
<1>3. holder = t /\ stack = <<>> /\ conn[t] = NoConn
  <2>1. holder = t
    BY <1>1, <1>2 DEF SignInTypeOK
  <2> QED
    BY <2>1, <1>2, SignInAssumption DEF SignInInv, EmptyWhileConnecting, Hands
<1>4. PICK e \in (Conns \ live) \cup {NULL} :
        /\ conn' = [conn EXCEPT ![t] = e]
        /\ IF e = NULL
           THEN refused' = TRUE /\ UNCHANGED <<live, sessions, count>>
           ELSE /\ live' = live \cup {e} /\ sessions' = sessions \cup {e}
                /\ count' = count + 1 /\ UNCHANGED refused
  <2>1. Fresh \in Conns \ live /\ Fresh # NULL
    BY <1>2, FreshIsNew, ConnNumbers
  <2> QED
    BY <2>1 DEF createOneConnect
<1>5. e # NoConn /\ live \subseteq Conns /\ sessions \subseteq live
  BY <1>1, ConnNumbers DEF SignInTypeOK
<1>6. live' = live \cup ({e} \ {NULL})
  BY <1>4
<1>7. conn'[t] = e /\ \A u \in Threads \ {t} : conn'[u] = conn[u]
  BY <1>1, <1>4 DEF SignInTypeOK
<1>8. SignInTypeOK'
  <2>1. conn' \in [Threads -> Conns \cup {NULL, NoConn}]
    BY <1>1, <1>4 DEF SignInTypeOK
  <2>2. live' \subseteq Conns /\ sessions' \subseteq live' /\ count' \in Int
    BY <1>1, <1>4, <1>5 DEF SignInTypeOK
  <2>3. stage' \in [Threads -> {"idle", "grab", "connect", "insert", "select",
                           "release", "respond", "send"}]
    BY <1>1, <1>2 DEF SignInTypeOK
  <2>4. \A u \in Threads : holder' = u <=> stage'[u] = "connect"
    BY <1>1, <1>2, <1>3, SignInAssumption DEF SignInTypeOK
  <2>5. {up, refused, down}' \subseteq BOOLEAN
    <3>1. refused' \in BOOLEAN
      BY <1>1, <1>4 DEF SignInTypeOK
    <3> QED
      BY <3>1, <1>1, <1>2 DEF SignInTypeOK
  <2>6. \A u \in Threads : response'[u] = NoFrame <=> stage'[u] # "send"
    BY <1>1, <1>2 DEF SignInTypeOK
  <2> QED
    BY <2>1, <2>2, <2>3, <2>4, <2>5, <2>6, <1>1, <1>2 DEF SignInTypeOK
<1>9. OnePlace'
  <2>1. Len(stack') = 0
    BY <1>2, <1>3
  <2>2. \A u \in Threads : conn'[u] \in live' \cup {NULL, NoConn}
    BY <1>1, <1>6, <1>7 DEF OnePlace
  <2>3. ASSUME NEW c \in live'
        PROVE  \E u \in Threads : conn'[u] = c
    <3>1. CASE c = e
      BY <3>1, <1>7
    <3>2. CASE c \in live
      <4>1. PICK u \in Threads : conn[u] = c
        BY <3>2, <1>1, <1>3 DEF OnePlace
      <4>2. u # t
        BY <4>1, <3>2, <1>3, <1>5, ConnNumbers
      <4> QED
        BY <4>1, <4>2, <1>7
    <3> QED
      BY <3>1, <3>2, <1>6
  <2>4. ASSUME NEW v \in Threads, NEW u \in Threads, conn'[v] = conn'[u], conn'[v] \in live'
        PROVE  v = u
    <3>1. \A w \in Threads : w # t => conn'[w] # e \/ e = NULL
      BY <1>1, <1>5, <1>7 DEF OnePlace
    <3>2. NULL \notin live'
      BY <1>5, <1>6, ConnNumbers
    <3>3. CASE v # t /\ u # t
      <4>1. conn[v] \in live \cup {NULL, NoConn} /\ conn[v] = conn[u]
        BY <3>3, <2>4, <1>1, <1>7 DEF OnePlace
      <4>2. NoConn \notin live'
        BY <1>5, <1>6, ConnNumbers
      <4> QED
        BY <4>1, <4>2, <3>2, <3>3, <2>4, <1>1, <1>7 DEF OnePlace
    <3>4. CASE v = t \/ u = t
      BY <3>1, <3>2, <3>4, <2>4, <1>7
    <3> QED
      BY <3>3, <3>4
  <2> QED
    BY <2>1, <2>2, <2>3, <2>4 DEF OnePlace
<1>10. ConnInOnePlace'
  <2>1. (live \subseteq Conns)'
    BY <1>8 DEF SignInTypeOK
  <2> QED
    BY <2>1, <1>9, PlacesAgreeNext
<1>11. CountMatches' /\ StackBound'
  <2>1. count = Cardinality(live) /\ IsFiniteSet(live)
    BY <1>5, ConnNumbers, FS_Subset DEF SignInInv, PoolAccounted, CountMatches
  <2>2. CountMatches'
    <3>1. CASE e = NULL
      <4>1. live' = live /\ count' = count
        BY <3>1, <1>4
      <4> QED
        BY <4>1, <2>1 DEF CountMatches
    <3>2. CASE e # NULL
      <4>1. Cardinality(live \cup {e}) = Cardinality(live) + 1
        BY <2>1, <3>2, <1>4, FS_AddElement
      <4>2. live' = live \cup {e} /\ count' = count + 1
        BY <3>2, <1>4
      <4>3. Cardinality(live') = Cardinality(live) + 1
        BY <4>1, <4>2
      <4> QED
        BY <4>2, <4>3, <2>1 DEF CountMatches
    <3> QED
      BY <3>1, <3>2
  <2>3. StackBound'
    BY <1>2 DEF SignInInv, PoolAccounted, StackBound
  <2> QED
    BY <2>2, <2>3
<1>12. NullHasCause' /\ NullOnStack'
  <2>1. NullHasCause /\ NullOnStack
    BY DEF SignInInv, PoolAccounted
  <2>2. NullOnStack'
    BY <1>2, <1>3 DEF NullOnStack
  <2>3. CASE e = NULL
    BY <2>2, <2>3, <1>4 DEF NullHasCause
  <2>4. CASE e # NULL
    BY <2>1, <2>2, <2>4, <1>4, <1>7 DEF NullHasCause
  <2> QED
    BY <2>3, <2>4, <2>2
<1>13. Hands'
  BY <1>1, <1>2, <1>5, <1>7 DEF SignInInv, Hands, SignInTypeOK
<1>14. Asking' /\ AccountBeforeId' /\ EmptyWhileConnecting'
  BY <1>1, <1>2 DEF SignInInv, SignInTypeOK, Asking, AccountBeforeId, EmptyWhileConnecting
<1> QED
  BY <1>8, <1>10, <1>11, <1>12, <1>13, <1>14 DEF SignInInv, PoolAccounted

(* The destructor of the wrapper gives the connection back: to the stack,  *)
(* or, when that is full, to delete.                                       *)
LEMMA ReleaseInv ==
  ASSUME SignInInv, NEW t \in Threads, Release(t)
  PROVE  SignInInv'
<1>1. SignInTypeOK /\ OnePlace
  BY PlacesAgree DEF SignInInv, PoolAccounted, SignInTypeOK
<1>2. /\ stage[t] = "release" /\ holder = NoThread
      /\ conn' = [conn EXCEPT ![t] = NoConn]
      /\ stage' = [stage EXCEPT ![t] = "respond"]
      /\ UNCHANGED <<inserted, answer, response, holder, refused, up, down>>
  BY DEF Release, At, Goto
<1>3. PICK c \in live : c = conn[t]
  <2>1. conn[t] \notin {NULL, NoConn}
    BY <1>2 DEF SignInInv, Hands
  <2> QED
    BY <2>1, <1>1 DEF OnePlace
<1>4. \A d \in live : d # NULL /\ d # NoConn /\ d \in Conns
  BY <1>1, ConnNumbers DEF SignInTypeOK
<1>5. conn'[t] = NoConn /\ \A u \in Threads \ {t} : conn'[u] = conn[u]
  BY <1>1, <1>2 DEF SignInTypeOK
<1>6. \A u \in Threads \ {t} : conn[u] # c
  BY <1>1, <1>3 DEF OnePlace
<1>7. \A i \in 1 .. Len(stack) : stack[i] # c
  BY <1>1, <1>3, <1>4 DEF OnePlace
<1>8. Hands'
  BY <1>1, <1>2, <1>5 DEF SignInInv, Hands, SignInTypeOK
<1>9. Asking' /\ AccountBeforeId'
  BY <1>1, <1>2 DEF SignInInv, SignInTypeOK, Asking, AccountBeforeId
<1>10. EmptyWhileConnecting'
  BY <1>2 DEF EmptyWhileConnecting
<1>11. NullHasCause'
  <2>1. NullHasCause
    BY DEF SignInInv, PoolAccounted
  <2>2. \A u \in Threads : conn'[u] = NULL => conn[u] = NULL
    BY <1>5, ConnNumbers
  <2> QED
    BY <2>1, <2>2, <1>2 DEF NullHasCause
<1>12. ASSUME stack' \in Seq(Conns \cup {NULL}), live' \subseteq live,
              sessions' \subseteq live', count' \in Int
       PROVE  SignInTypeOK'
  <2>1. conn' \in [Threads -> Conns \cup {NULL, NoConn}]
    BY <1>1, <1>2 DEF SignInTypeOK
  <2> QED
    BY <2>1, <1>1, <1>2, <1>12 DEF SignInTypeOK
<1>13. CASE Len(stack) > MaxConnect
  <2>1. /\ count' = count - 1 /\ live' = live \ {c} /\ sessions' = sessions \ {c}
        /\ stack' = stack
    BY <1>3, <1>13 DEF Release
  <2>2. SignInTypeOK'
    BY <2>1, <1>1, <1>12 DEF SignInTypeOK
  <2>3. OnePlace'
    <3>1. \A i \in 1 .. Len(stack') : stack'[i] \in live' \cup {NULL}
      BY <2>1, <1>1, <1>7 DEF OnePlace
    <3>2. \A u \in Threads : conn'[u] \in live' \cup {NULL, NoConn}
      BY <2>1, <1>1, <1>5, <1>6 DEF OnePlace
    <3>3. ASSUME NEW d \in live'
          PROVE  \/ \E i \in 1 .. Len(stack') : stack'[i] = d
                 \/ \E u \in Threads : conn'[u] = d
      BY <2>1, <1>1, <1>3, <1>5 DEF OnePlace
    <3>4. \A i \in 1 .. Len(stack'), u \in Threads : stack'[i] = conn'[u] => stack'[i] = NULL
      <4>1. \A i \in 1 .. Len(stack') : stack'[i] # NoConn
        BY <3>1, <2>1, <1>4, ConnNumbers
      <4> QED
        BY <4>1, <2>1, <1>1, <1>5 DEF OnePlace
    <3>5. \A i, j \in 1 .. Len(stack') : stack'[i] = stack'[j] /\ stack'[i] # NULL => i = j
      BY <2>1, <1>1 DEF OnePlace
    <3>6. \A v, u \in Threads : conn'[v] = conn'[u] /\ conn'[v] \in live' => v = u
      BY <2>1, <1>1, <1>4, <1>5 DEF OnePlace
    <3> QED
      BY <3>1, <3>2, <3>3, <3>4, <3>5, <3>6 DEF OnePlace
  <2>4. ConnInOnePlace'
    <3>1. (live \subseteq Conns)'
      BY <2>2 DEF SignInTypeOK
    <3> QED
      BY <3>1, <2>3, PlacesAgreeNext
  <2>5. CountMatches'
    <3>1. count = Cardinality(live) /\ IsFiniteSet(live)
      BY <1>1, ConnNumbers, FS_Subset
         DEF SignInInv, PoolAccounted, CountMatches, SignInTypeOK
    <3>2. Cardinality(live \ {c}) = Cardinality(live) - 1
      BY <3>1, FS_RemoveElement
    <3>3. Cardinality(live') = Cardinality(live) - 1
      BY <2>1, <3>2
    <3> QED
      BY <2>1, <3>1, <3>3 DEF CountMatches
  <2>6. StackBound' /\ NullOnStack'
    BY <2>1, <1>2 DEF SignInInv, PoolAccounted, StackBound, NullOnStack
  <2> QED
    BY <2>2, <2>4, <2>5, <2>6, <1>8, <1>9, <1>10, <1>11 DEF SignInInv, PoolAccounted
<1>14. CASE ~(Len(stack) > MaxConnect)
  <2>1. stack' = Append(stack, c) /\ UNCHANGED <<count, live, sessions>>
    BY <1>3, <1>14 DEF Release
  <2>2. /\ stack' \in Seq(Conns \cup {NULL}) /\ Len(stack') = Len(stack) + 1
        /\ Len(stack) \in Nat
        /\ \A i \in 1 .. Len(stack) : stack'[i] = stack[i]
        /\ stack'[Len(stack) + 1] = c
    BY <2>1, <1>1, <1>4 DEF SignInTypeOK
  <2>3. \A i \in 1 .. Len(stack') : \/ i \in 1 .. Len(stack) /\ stack'[i] = stack[i]
                                    \/ i = Len(stack) + 1 /\ stack'[i] = c
    BY <2>2
  <2>4. SignInTypeOK'
    BY <2>1, <2>2, <1>1, <1>12 DEF SignInTypeOK
  <2>5. OnePlace'
    <3>1. \A i \in 1 .. Len(stack') : stack'[i] \in live' \cup {NULL}
      BY <2>1, <2>3, <1>1 DEF OnePlace
    <3>2. \A u \in Threads : conn'[u] \in live' \cup {NULL, NoConn}
      BY <2>1, <1>1, <1>5 DEF OnePlace
    <3>3. ASSUME NEW d \in live'
          PROVE  \/ \E i \in 1 .. Len(stack') : stack'[i] = d
                 \/ \E u \in Threads : conn'[u] = d
      <4>1. CASE d = c
        BY <4>1, <2>2
      <4>2. CASE \E i \in 1 .. Len(stack) : stack[i] = d
        BY <4>2, <2>2
      <4>3. CASE d # c /\ \E u \in Threads : conn[u] = d
        BY <4>3, <1>3, <1>5
      <4> QED
        BY <4>1, <4>2, <4>3, <2>1, <1>1 DEF OnePlace
    <3>4. ASSUME NEW i \in 1 .. Len(stack'), NEW u \in Threads, stack'[i] = conn'[u]
          PROVE  stack'[i] = NULL
      <4>1. stack'[i] # NoConn
        BY <3>1, <2>1, <1>4, ConnNumbers
      <4>2. u # t /\ conn'[u] = conn[u] /\ conn[u] # c
        BY <4>1, <3>4, <1>5, <1>6
      <4>3. i \in 1 .. Len(stack) /\ stack'[i] = stack[i]
        BY <4>2, <3>4, <2>3
      <4> QED
        BY <4>2, <4>3, <3>4, <1>1 DEF OnePlace
    <3>5. ASSUME NEW i \in 1 .. Len(stack'), NEW j \in 1 .. Len(stack'),
                 stack'[i] = stack'[j], stack'[i] # NULL
          PROVE  i = j
      BY <3>5, <2>3, <1>1, <1>7 DEF OnePlace
    <3>6. \A v, u \in Threads : conn'[v] = conn'[u] /\ conn'[v] \in live' => v = u
      BY <2>1, <1>1, <1>4, <1>5 DEF OnePlace
    <3> QED
      BY <3>1, <3>2, <3>3, <3>4, <3>5, <3>6 DEF OnePlace
  <2>6. ConnInOnePlace'
    <3>1. (live \subseteq Conns)'
      BY <2>4 DEF SignInTypeOK
    <3> QED
      BY <3>1, <2>5, PlacesAgreeNext
  <2>7. CountMatches'
    BY <2>1 DEF SignInInv, PoolAccounted, CountMatches
  <2>8. StackBound'
    BY <2>2, <1>14, SignInAssumption DEF StackBound
  <2>9. NullOnStack'
    BY <2>3, <1>2, <1>4 DEF SignInInv, NullOnStack
  <2> QED
    BY <2>4, <2>6, <2>7, <2>8, <2>9, <1>8, <1>9, <1>10, <1>11 DEF SignInInv, PoolAccounted
<1> QED
  BY <1>13, <1>14

(* The MySQL server ends the sessions and starts again. *)
LEMMA ServerInv ==
  ASSUME SignInInv, ServerStops \/ ServerStarts
  PROVE  SignInInv'
<1>1. UNCHANGED <<stage, conn, inserted, answer, response, stack, live, count, holder,
                  refused, down>>
  BY DEF ServerStops, ServerStarts, pool
<1>2. sessions' \subseteq live' /\ up' \in BOOLEAN
  BY <1>1 DEF SignInInv, PoolAccounted, SignInTypeOK, ServerStops, ServerStarts
<1>3. SignInTypeOK'
  BY <1>1, <1>2 DEF SignInInv, PoolAccounted, SignInTypeOK
<1>4. Hands' /\ Asking' /\ AccountBeforeId' /\ EmptyWhileConnecting'
  BY <1>1 DEF SignInInv, Hands, Asking, AccountBeforeId, EmptyWhileConnecting
<1> QED
  BY <1>1, <1>3, <1>4, AwayFromThePool DEF SignInInv, PoolAccounted

(* SignInInv is inductive. *)
LEMMA SignInNextInv == SignInInv /\ [SignInNext]_SignInVars => SignInInv'
<1> SUFFICES ASSUME SignInInv, [SignInNext]_SignInVars
             PROVE  SignInInv'
  OBVIOUS
<1>1. ASSUME NEW t \in Threads, Dispatch(t) \/ Step(t)
      PROVE  SignInInv'
  BY <1>1, BesideThePool, GrabInv, GrabEmptyInv, ConnectInv, ReleaseInv DEF Step
<1>2. CASE ServerStops \/ ServerStarts
  BY <1>2, ServerInv
<1>3. CASE UNCHANGED SignInVars
  <2>1. SignInTypeOK'
    BY <1>3 DEF SignInInv, PoolAccounted, SignInTypeOK, SignInVars
  <2>2. Hands' /\ Asking' /\ AccountBeforeId' /\ EmptyWhileConnecting'
    BY <1>3 DEF SignInInv, SignInVars, Hands, Asking, AccountBeforeId, EmptyWhileConnecting
  <2> QED
    BY <1>3, <2>1, <2>2, AwayFromThePool DEF SignInInv, PoolAccounted, SignInVars
<1> QED
  BY <1>1, <1>2, <1>3 DEF SignInNext

(* SignInInv is an invariant of the workers and their pool. *)
THEOREM SignInInvHolds == SignInSpec => []SignInInv
BY SignInInitInv, SignInNextInv, PTL DEF SignInSpec

(* MysqlPool.cpp: however many threads sign clients in while the server    *)
(* stops, starts and refuses, each connection is in one place and spoken   *)
(* over by one thread, connect_count is right, the stack has its bound,    *)
(* and a NULL is handed out only after a connect has failed.               *)
THEOREM ConnectionsAreAccounted == SignInSpec => []PoolAccounted
<1>1. SignInInv => PoolAccounted
  BY DEF SignInInv
<1> QED
  BY <1>1, SignInInvHolds, PTL

(* MysqlWrapper::createAccount: an id is answered only for an account that *)
(* this request has inserted.                                              *)
THEOREM IdsHaveAccounts == SignInSpec => []AccountBeforeId
<1>1. SignInInv => AccountBeforeId
  BY DEF SignInInv
<1> QED
  BY <1>1, SignInInvHolds, PTL

-----------------------------------------------------------------------------
(* xor on words *)

Word == {n \in Nat : n <= 65535}
HalfWord == {n \in Nat : n <= 32767}

(* What \div and % leave.                                                  *)
LEMMA DivMod ==
  ASSUME NEW x \in Int, NEW b \in Nat \ {0}
  PROVE  x \div b \in Int /\ x % b \in 0 .. (b - 1) /\ x = b * (x \div b) + (x % b)
<1>1. x \div b \in Int
  OBVIOUS
<1>2. x % b \in 0 .. (b - 1)
  OBVIOUS
<1>3. x = b * (x \div b) + (x % b)
  OBVIOUS
<1> QED
  BY <1>1, <1>2, <1>3

(* A number and its half.                                                  *)
LEMMA Half ==
  ASSUME NEW a \in Nat
  PROVE  /\ a \div 2 \in Nat
         /\ a = 2 * (a \div 2) + (a % 2)
         /\ a % 2 \in 0 .. 1
<1>1. a \div 2 \in Nat
  OBVIOUS
<1>2. a \in Int /\ 2 \in Nat \ {0}
  OBVIOUS
<1>3. a % 2 \in 0 .. (2 - 1) /\ a = 2 * (a \div 2) + (a % 2)
  BY <1>2, DivMod
<1>4. a % 2 \in 0 .. 1
  BY <1>3
<1> QED
  BY <1>1, <1>3, <1>4

(* The bits of a half are those of the number, one place down.             *)
LEMMA Halving ==
  ASSUME NEW a \in Nat
  PROVE  /\ a \div 1 = a
         /\ a \div 2 = (a \div 2) \div 1
         /\ a \div 4 = (a \div 2) \div 2
         /\ a \div 8 = (a \div 2) \div 4
         /\ a \div 16 = (a \div 2) \div 8
         /\ a \div 32 = (a \div 2) \div 16
         /\ a \div 64 = (a \div 2) \div 32
         /\ a \div 128 = (a \div 2) \div 64
         /\ a \div 256 = (a \div 2) \div 128
         /\ a \div 512 = (a \div 2) \div 256
         /\ a \div 1024 = (a \div 2) \div 512
         /\ a \div 2048 = (a \div 2) \div 1024
         /\ a \div 4096 = (a \div 2) \div 2048
         /\ a \div 8192 = (a \div 2) \div 4096
         /\ a \div 16384 = (a \div 2) \div 8192
         /\ a \div 32768 = (a \div 2) \div 16384
<1>1. a \div 1 = a
  OBVIOUS
<1>2. a \div 2 = (a \div 2) \div 1
  OBVIOUS
<1>3. a \div 4 = (a \div 2) \div 2
  OBVIOUS
<1>4. a \div 8 = (a \div 2) \div 4
  OBVIOUS
<1>5. a \div 16 = (a \div 2) \div 8
  OBVIOUS
<1>6. a \div 32 = (a \div 2) \div 16
  OBVIOUS
<1>7. a \div 64 = (a \div 2) \div 32
  OBVIOUS
<1>8. a \div 128 = (a \div 2) \div 64
  OBVIOUS
<1>9. a \div 256 = (a \div 2) \div 128
  OBVIOUS
<1>10. a \div 512 = (a \div 2) \div 256
  OBVIOUS
<1>11. a \div 1024 = (a \div 2) \div 512
  OBVIOUS
<1>12. a \div 2048 = (a \div 2) \div 1024
  OBVIOUS
<1>13. a \div 4096 = (a \div 2) \div 2048
  OBVIOUS
<1>14. a \div 8192 = (a \div 2) \div 4096
  OBVIOUS
<1>15. a \div 16384 = (a \div 2) \div 8192
  OBVIOUS
<1>16. a \div 32768 = (a \div 2) \div 16384
  OBVIOUS
<1> QED
  BY <1>1, <1>2, <1>3, <1>4, <1>5, <1>6, <1>7, <1>8, <1>9, <1>10, <1>11, <1>12, <1>13, <1>14, <1>15, <1>16

(* The lowest bit of xor, and the others.                                  *)
LEMMA XorHalves ==
  ASSUME NEW a \in Word, NEW b \in Word
  PROVE  xor(a, b) = ((a + b) % 2) + 2 * xor(a \div 2, b \div 2)
<1> DEFINE u == a \div 2
           v == b \div 2
           d0 == (a + b) % 2
           d1 == (u \div 1 + v \div 1) % 2
           d2 == (u \div 2 + v \div 2) % 2
           d3 == (u \div 4 + v \div 4) % 2
           d4 == (u \div 8 + v \div 8) % 2
           d5 == (u \div 16 + v \div 16) % 2
           d6 == (u \div 32 + v \div 32) % 2
           d7 == (u \div 64 + v \div 64) % 2
           d8 == (u \div 128 + v \div 128) % 2
           d9 == (u \div 256 + v \div 256) % 2
           d10 == (u \div 512 + v \div 512) % 2
           d11 == (u \div 1024 + v \div 1024) % 2
           d12 == (u \div 2048 + v \div 2048) % 2
           d13 == (u \div 4096 + v \div 4096) % 2
           d14 == (u \div 8192 + v \div 8192) % 2
           d15 == (u \div 16384 + v \div 16384) % 2
           d16 == (u \div 32768 + v \div 32768) % 2
<1>0. a \in Nat /\ b \in Nat /\ a <= 65535 /\ b <= 65535
  BY DEF Word
<1>1. u \in Nat /\ v \in Nat
  BY <1>0, Half
<1>2. u \div 32768 = 0 /\ v \div 32768 = 0
  <2>1. u \div 32768 = 0
    BY <1>0
  <2>2. v \div 32768 = 0
    BY <1>0
  <2> QED
    BY <2>1, <2>2
<1>3. d16 = 0
  BY <1>2
<1>4. \A p \in Nat \ {0} : (u \div p + v \div p) % 2 \in Nat
  <2>1. \A p \in Nat \ {0} : u \div p \in Nat /\ v \div p \in Nat
    BY <1>1
  <2> QED
    BY <2>1
<1>5. d0 \in Nat
  BY <1>0
<1> HIDE DEF u, v, d0
<1>6. /\ d1 \in Nat /\ d2 \in Nat /\ d3 \in Nat /\ d4 \in Nat /\ d5 \in Nat
      /\ d6 \in Nat /\ d7 \in Nat /\ d8 \in Nat /\ d9 \in Nat /\ d10 \in Nat
      /\ d11 \in Nat /\ d12 \in Nat /\ d13 \in Nat /\ d14 \in Nat /\ d15 \in Nat
  BY <1>4
<1>7. xor(u, v) =
        1 * d1 + 2 * d2 + 4 * d3 + 8 * d4 + 16 * d5 + 32 * d6 + 64 * d7
        + 128 * d8 + 256 * d9 + 512 * d10 + 1024 * d11 + 2048 * d12
        + 4096 * d13 + 8192 * d14 + 16384 * d15 + 32768 * d16
  BY DEF xor
<1>8. xor(a, b) =
        1 * d0 + 2 * d1 + 4 * d2 + 8 * d3 + 16 * d4 + 32 * d5 + 64 * d6
        + 128 * d7 + 256 * d8 + 512 * d9 + 1024 * d10 + 2048 * d11
        + 4096 * d12 + 8192 * d13 + 16384 * d14 + 32768 * d15
  BY <1>0, Halving DEF xor, u, v, d0
<1> HIDE DEF d1, d2, d3, d4, d5, d6, d7, d8, d9, d10, d11, d12, d13, d14, d15, d16
<1>9. xor(a, b) = d0 + 2 * xor(u, v)
  BY <1>3, <1>5, <1>6, <1>7, <1>8
<1> QED
  BY <1>9 DEF u, v, d0

(* xor of nothing.                                                         *)
LEMMA XorOfZero == xor(0, 0) = 0
<1>1. \A p \in Nat \ {0} : 0 \div p = 0
  OBVIOUS
<1> QED
  BY <1>1 DEF xor

(* xor stays below the next power of two.                                  *)
LEMMA XorDoubles ==
  ASSUME NEW m \in Nat, NEW a \in Nat, NEW b \in Nat,
         2 * m + 1 \in Word, a <= 2 * m + 1, b <= 2 * m + 1,
         \A p, q \in Nat : p <= m /\ q <= m => xor(p, q) \in Nat /\ xor(p, q) <= m
  PROVE  xor(a, b) \in Nat /\ xor(a, b) <= 2 * m + 1
<1>1. a \in Word /\ b \in Word
  BY DEF Word
<1> DEFINE u == a \div 2
           v == b \div 2
           d == (a + b) % 2
<1>2. xor(a, b) = d + 2 * xor(u, v)
  BY <1>1, XorHalves, Zenon
<1>3. u \in Nat /\ v \in Nat /\ u <= m /\ v <= m
  <2>1. u \in Nat /\ a = 2 * u + (a % 2) /\ a % 2 \in 0 .. 1
    BY Half
  <2>2. v \in Nat /\ b = 2 * v + (b % 2) /\ b % 2 \in 0 .. 1
    BY Half
  <2> HIDE DEF u, v
  <2> QED
    BY <2>1, <2>2
<1>4. d \in 0 .. 1
  <2>1. a + b \in Nat
    OBVIOUS
  <2> QED
    BY <2>1, Half
<1> HIDE DEF u, v, d
<1>5. xor(u, v) \in Nat /\ xor(u, v) <= m
  BY <1>3, Zenon
<1> DEFINE y == xor(u, v)
<1> HIDE DEF y
<1>6. xor(a, b) = d + 2 * y /\ y \in Nat /\ y <= m
  BY <1>2, <1>5 DEF y
<1> QED
  BY <1>4, <1>6

(* What a byte is, so that the provers need not see the range.             *)
LEMMA ByteIs ==
  ASSUME NEW n
  PROVE  n \in Byte <=> n \in Nat /\ n <= 255
BY DEF Byte

(* xor of two bytes is a byte, and of two words a word.                    *)
LEMMA XorBelow ==
  /\ \A a, b \in Byte : xor(a, b) \in Byte
  /\ \A a, b \in HalfWord : xor(a, b) \in HalfWord
  /\ \A a, b \in Word : xor(a, b) \in Word
<1> DEFINE Closed(m) ==
             \A p, q \in Nat : p <= m /\ q <= m => xor(p, q) \in Nat /\ xor(p, q) <= m
<1>1. Closed(0)
  <2>1. xor(0, 0) = 0
    BY XorOfZero
  <2> QED
    BY <2>1
<1>2. ASSUME NEW m \in Nat, NEW n \in Nat, n = 2 * m + 1, n \in Word, Closed(m)
      PROVE  Closed(n)
  <2>1. ASSUME NEW a \in Nat, NEW b \in Nat, a <= n, b <= n
        PROVE  xor(a, b) \in Nat /\ xor(a, b) <= n
    <3>1. 2 * m + 1 \in Word /\ a <= 2 * m + 1 /\ b <= 2 * m + 1
      BY <1>2, <2>1
    <3>2. xor(a, b) \in Nat /\ xor(a, b) <= 2 * m + 1
      BY <1>2, <3>1, XorDoubles, Zenon
    <3> QED
      BY <1>2, <3>2
  <2> QED
    BY <2>1
<1> HIDE DEF Closed
<1>3. Closed(1)
  BY <1>1, <1>2 DEF Word
<1>4. Closed(3)
  BY <1>3, <1>2 DEF Word
<1>5. Closed(7)
  BY <1>4, <1>2 DEF Word
<1>6. Closed(15)
  BY <1>5, <1>2 DEF Word
<1>7. Closed(31)
  BY <1>6, <1>2 DEF Word
<1>8. Closed(63)
  BY <1>7, <1>2 DEF Word
<1>9. Closed(127)
  BY <1>8, <1>2 DEF Word
<1>10. Closed(255)
  BY <1>9, <1>2 DEF Word
<1>11. Closed(511)
  BY <1>10, <1>2 DEF Word
<1>12. Closed(1023)
  BY <1>11, <1>2 DEF Word
<1>13. Closed(2047)
  BY <1>12, <1>2 DEF Word
<1>14. Closed(4095)
  BY <1>13, <1>2 DEF Word
<1>15. Closed(8191)
  BY <1>14, <1>2 DEF Word
<1>16. Closed(16383)
  BY <1>15, <1>2 DEF Word
<1>17. Closed(32767)
  BY <1>16, <1>2 DEF Word
<1>18. Closed(65535)
  BY <1>17, <1>2 DEF Word
<1> QED
  <2>1. \A a, b \in Byte : xor(a, b) \in Byte
    BY <1>10, ByteIs DEF Closed
  <2>2. \A a, b \in Word : xor(a, b) \in Word
    BY <1>18 DEF Closed, Word
  <2>3. \A a, b \in HalfWord : xor(a, b) \in HalfWord
    BY <1>17 DEF Closed, HalfWord
  <2> QED
    BY <2>1, <2>2, <2>3

(* The lowest bit and the half of xor are those of its arguments.          *)
LEMMA XorParts ==
  ASSUME NEW a \in Word, NEW b \in Word
  PROVE  /\ a \div 2 \in Word /\ b \div 2 \in Word
         /\ xor(a, b) \in Word
         /\ xor(a, b) % 2 = (a + b) % 2
         /\ xor(a, b) \div 2 = xor(a \div 2, b \div 2)
<1>1. a \in Nat /\ b \in Nat /\ a <= 65535 /\ b <= 65535
  BY DEF Word
<1>2. a \div 2 \in Word /\ b \div 2 \in Word
  <2>1. a \div 2 \in Word
    BY <1>1, Half DEF Word
  <2>2. b \div 2 \in Word
    BY <1>1, Half DEF Word
  <2> QED
    BY <2>1, <2>2
<1> DEFINE x == xor(a, b)
           y == xor(a \div 2, b \div 2)
<1>3. x \in Word /\ y \in Word
  BY <1>2, XorBelow
<1>4. x = ((a + b) % 2) + 2 * y
  BY <1>1, XorHalves
<1>5. (a + b) % 2 \in 0 .. 1
  <2>1. a + b \in Nat
    BY <1>1
  <2> QED
    BY <2>1, Half
<1> HIDE DEF x, y
<1>6. x \in Nat /\ y \in Nat
  BY <1>3 DEF Word
<1>7. x % 2 = (a + b) % 2 /\ x \div 2 = y
  <2>1. x \div 2 \in Nat /\ x = 2 * (x \div 2) + (x % 2) /\ x % 2 \in 0 .. 1
    BY <1>6, Half
  <2> DEFINE e == (a + b) % 2
             q == x \div 2
             r == x % 2
  <2>2. e \in 0 .. 1 /\ x = e + 2 * y /\ x = 2 * q + r /\ r \in 0 .. 1 /\ q \in Nat
    BY <1>4, <1>5, <2>1
  <2> HIDE DEF e, q, r
  <2>3. e = r /\ q = y
    BY <1>6, <2>2
  <2> QED
    BY <2>3 DEF e, q, r
<1> QED
  BY <1>2, <1>3, <1>5, <1>7 DEF x, y

(* A set of numbers without a least one is empty.                          *)
LEMMA NoLeast ==
  ASSUME NEW S \in SUBSET Nat, \A n \in S : \E k \in S : k < n
  PROVE  S = {}
<1>1. ASSUME S # {}
      PROVE  FALSE
  <2>1. PICK n \in S : \A k \in S : n <= k
    BY <1>1, LeastExists
  <2>2. PICK k \in S : k < n
    BY <2>1
  <2> QED
    BY <2>1, <2>2
<1> QED
  BY <1>1

(* Two words with the same half and the same lowest bit are the same.      *)
LEMMA SameHalves ==
  ASSUME NEW a \in Word, NEW b \in Word, a % 2 = b % 2, a \div 2 = b \div 2
  PROVE  a = b
<1>1. a \in Nat /\ b \in Nat
  BY DEF Word
<1>2. a = 2 * (a \div 2) + (a % 2) /\ b = 2 * (b \div 2) + (b % 2)
  BY <1>1, Half
<1> QED
  BY <1>2

(* A word halved is smaller, until it is 0.                                *)
LEMMA Smaller ==
  ASSUME NEW a \in Word
  PROVE  a \in Nat /\ a \div 2 \in Word /\ a \div 2 \in Nat /\ a \div 2 <= a /\ (a # 0 => a \div 2 < a)
<1>1. a \in Nat
  BY DEF Word
<1>2. a \div 2 \in Nat /\ a = 2 * (a \div 2) + (a % 2) /\ a % 2 \in 0 .. 1
  BY <1>1, Half
<1>3. a \div 2 <= a /\ (a # 0 => a \div 2 < a)
  BY <1>1, <1>2
<1> QED
  BY <1>1, <1>2, <1>3 DEF Word

(* 0 is a word.                                                            *)
LEMMA ZeroWord == 0 \in Word
BY DEF Word

(* Nothing changes when 0 is added.                                        *)
LEMMA XorZero ==
  ASSUME NEW a \in Word
  PROVE  xor(a, 0) = a
<1> DEFINE S == {n \in Word : xor(n, 0) # n}
<1>1. ASSUME NEW n \in S
      PROVE  \E k \in S : k < n
  <2>1. n \in Word /\ 0 \in Word /\ xor(n, 0) # n
    BY ZeroWord
  <2>2. n # 0
    <3>1. xor(0, 0) = 0
      BY XorOfZero
    <3> QED
      BY <2>1, <3>1
  <2>3. 0 \div 2 = 0 /\ n + 0 = n
    BY <2>1, Smaller
  <2>4. /\ xor(n, 0) \in Word /\ xor(n, 0) % 2 = n % 2
        /\ xor(n, 0) \div 2 = xor(n \div 2, 0)
    BY <2>1, <2>3, XorParts
  <2>5. xor(n \div 2, 0) # n \div 2
    BY <2>1, <2>4, SameHalves
  <2>6. n \div 2 \in Word /\ n \div 2 < n
    BY <2>1, <2>2, Smaller
  <2> QED
    BY <2>5, <2>6
<1>2. S \in SUBSET Nat
  BY DEF Word
<1>3. S = {}
  BY <1>1, <1>2, NoLeast
<1> QED
  BY <1>3

(* The order does not matter.                                              *)
LEMMA XorCommutes ==
  ASSUME NEW a \in Nat, NEW b \in Nat
  PROVE  xor(a, b) = xor(b, a)
<1>1. \A p \in Nat \ {0} : a \div p + b \div p = b \div p + a \div p
  OBVIOUS
<1> QED
  BY <1>1 DEF xor

(* Nor does it with three words.                                           *)
LEMMA XorAssociates ==
  ASSUME NEW a \in Word, NEW b \in Word, NEW c \in Word
  PROVE  xor(xor(a, b), c) = xor(a, xor(b, c))
<1> DEFINE Bad(p, q, r) == xor(xor(p, q), r) # xor(p, xor(q, r))
           S == {n \in Nat : \E p, q, r \in Word : n = p + q + r /\ Bad(p, q, r)}
<1>1. ASSUME NEW n \in S
      PROVE  \E k \in S : k < n
  <2>1. PICK p \in Word, q \in Word, r \in Word : n = p + q + r /\ Bad(p, q, r)
    OBVIOUS
  <2>2. ~ (p = 0 /\ q = 0 /\ r = 0)
    <3>1. xor(0, 0) = 0
      BY XorOfZero
    <3> QED
      BY <2>1, <3>1
  <2> DEFINE s == p \div 2
             t == q \div 2
             u == r \div 2
  <2>3. s \in Word /\ t \in Word /\ u \in Word
    BY Smaller
  <2>4. /\ xor(p, q) \in Word /\ xor(p, q) % 2 = (p + q) % 2 /\ xor(p, q) \div 2 = xor(s, t)
        /\ xor(q, r) \in Word /\ xor(q, r) % 2 = (q + r) % 2 /\ xor(q, r) \div 2 = xor(t, u)
    BY XorParts
  <2> DEFINE x == xor(p, q)
             y == xor(q, r)
  <2>5. /\ xor(x, r) \in Word /\ xor(x, r) % 2 = (x + r) % 2 /\ xor(x, r) \div 2 = xor(xor(s, t), u)
        /\ xor(p, y) \in Word /\ xor(p, y) % 2 = (p + y) % 2 /\ xor(p, y) \div 2 = xor(s, xor(t, u))
    BY <2>4, XorParts
  <2>6. (x + r) % 2 = (p + y) % 2
    <3>1. p \in Nat /\ q \in Nat /\ r \in Nat /\ x \in Nat /\ y \in Nat
      BY <2>4, Smaller
    <3>2. x % 2 = (p + q) % 2 /\ y % 2 = (q + r) % 2
      BY <2>4
    <3> HIDE DEF x, y
    <3> QED
      BY <3>1, <3>2
  <2>7. Bad(s, t, u)
    BY <2>1, <2>5, <2>6, SameHalves
  <2>8. s + t + u \in Nat /\ s + t + u < n
    <3>1. /\ p \in Nat /\ s \in Nat /\ s <= p /\ (p # 0 => s < p)
          /\ q \in Nat /\ t \in Nat /\ t <= q /\ (q # 0 => t < q)
          /\ r \in Nat /\ u \in Nat /\ u <= r /\ (r # 0 => u < r)
      BY Smaller
    <3> HIDE DEF s, t, u
    <3> QED
      BY <2>1, <2>2, <3>1
  <2> QED
    BY <2>3, <2>7, <2>8
<1>2. S = {}
  <2>1. S \in SUBSET Nat
    OBVIOUS
  <2> HIDE DEF S
  <2> QED
    BY <1>1, <2>1, NoLeast
<1>3. Bad(a, b, c) => a + b + c \in S
  <2>1. a + b + c \in Nat
    <3>1. a \in Nat /\ b \in Nat /\ c \in Nat
      BY DEF Word
    <3> QED
      BY <3>1
  <2>2. ASSUME Bad(a, b, c)
        PROVE  \E p, q, r \in Word : a + b + c = p + q + r /\ Bad(p, q, r)
    <3> WITNESS a \in Word, b \in Word, c \in Word
    <3> QED
      BY <2>2
  <2> HIDE DEF Bad
  <2> QED
    BY <2>1, <2>2
<1> QED
  BY <1>2, <1>3

(* A word is its own inverse.                                              *)
LEMMA XorSelf ==
  ASSUME NEW a \in Word
  PROVE  xor(a, a) = 0
<1> DEFINE S == {n \in Word : xor(n, n) # 0}
<1>1. ASSUME NEW n \in S
      PROVE  \E k \in S : k < n
  <2>1. n \in Word /\ 0 \in Word /\ xor(n, n) # 0
    BY ZeroWord
  <2>2. n # 0
    <3>1. xor(0, 0) = 0
      BY XorOfZero
    <3> QED
      BY <2>1, <3>1
  <2>3. 0 \div 2 = 0 /\ 0 % 2 = 0 /\ (n + n) % 2 = 0
    BY <2>1, Smaller
  <2>4. /\ xor(n, n) \in Word /\ xor(n, n) % 2 = 0
        /\ xor(n, n) \div 2 = xor(n \div 2, n \div 2)
    BY <2>1, <2>3, XorParts
  <2>5. xor(n \div 2, n \div 2) # 0
    BY <2>1, <2>3, <2>4, SameHalves
  <2>6. n \div 2 \in Word /\ n \div 2 < n
    BY <2>1, <2>2, Smaller
  <2> QED
    BY <2>5, <2>6
<1>2. S \in SUBSET Nat
  BY DEF Word
<1>3. S = {}
  BY <1>1, <1>2, NoLeast
<1> QED
  BY <1>3

(* So what is added on both sides can be left out.                         *)
LEMMA XorCancels ==
  ASSUME NEW a \in Word, NEW b \in Word, NEW c \in Word, xor(a, c) = xor(b, c)
  PROVE  a = b
<1>1. xor(xor(a, c), c) = xor(a, xor(c, c)) /\ xor(xor(b, c), c) = xor(b, xor(c, c))
  BY XorAssociates
<1>2. xor(a, xor(c, c)) = a /\ xor(b, xor(c, c)) = b
  BY XorSelf, XorZero
<1> QED
  BY <1>1, <1>2

(* An even word added leaves the lowest bit alone.                         *)
LEMMA XorDoubled ==
  ASSUME NEW u \in Word, NEW v \in Word, 2 * u \in Word
  PROVE  /\ xor(2 * u, v) \in Word
         /\ xor(2 * u, v) % 2 = v % 2
         /\ xor(2 * u, v) \div 2 = xor(u, v \div 2)
<1>1. u \in Nat /\ v \in Nat
  BY DEF Word
<1>2. (2 * u + v) % 2 = v % 2
  BY <1>1
<1>3. (2 * u) \div 2 = u
  BY <1>1
<1> QED
  BY <1>2, <1>3, XorParts

(* A register stays one.                                                   *)
LEMMA ShiftedWord ==
  ASSUME NEW v \in Word
  PROVE  Shifted(v) \in Word
<1>1. v \div 2 \in Word
  BY Smaller
<1>2. 40961 \in Word
  BY DEF Word
<1> QED
  BY <1>1, <1>2, XorBelow DEF Shifted

(* A register is shifted with an even number added.                        *)
LEMMA ShiftedEven ==
  ASSUME NEW u \in Word, NEW v \in Word, NEW w \in Word, w = 2 * u
  PROVE  Shifted(xor(w, v)) = xor(u, Shifted(v))
<1>1. xor(w, v) % 2 = v % 2 /\ xor(w, v) \div 2 = xor(u, v \div 2)
  BY XorDoubled
<1>2. v \div 2 \in Word /\ 40961 \in Word
  BY Smaller DEF Word
<1>3. xor(xor(u, v \div 2), 40961) = xor(u, xor(v \div 2, 40961))
  BY <1>2, XorAssociates
<1> QED
  BY <1>1, <1>3 DEF Shifted

(* A byte is a word wherever it stands in one.                             *)
LEMMA Multiples ==
  ASSUME NEW h \in Byte
  PROVE  /\ h \in Word /\ 2 * h \in Word /\ 4 * h \in Word /\ 8 * h \in Word
         /\ 16 * h \in Word /\ 32 * h \in Word /\ 64 * h \in Word
         /\ 128 * h \in Word /\ 256 * h \in Word
BY ByteIs DEF Word

(* What the high byte adds to the eight shifts, it adds unchanged.         *)
LEMMA ShiftedOutEven ==
  ASSUME NEW h \in Byte, NEW v \in Word
  PROVE  /\ ShiftedOut(v) \in Word
         /\ ShiftedOut(xor(256 * h, v)) = xor(h, ShiftedOut(v))
<1> DEFINE v1 == Shifted(v)
           v2 == Shifted(v1)
           v3 == Shifted(v2)
           v4 == Shifted(v3)
           v5 == Shifted(v4)
           v6 == Shifted(v5)
           v7 == Shifted(v6)
           v8 == Shifted(v7)
<1>1. v8 = ShiftedOut(v)
  BY DEF ShiftedOut
<1>2. /\ v1 \in Word /\ v2 \in Word /\ v3 \in Word /\ v4 \in Word
      /\ v5 \in Word /\ v6 \in Word /\ v7 \in Word /\ v8 \in Word
  BY ShiftedWord
<1> HIDE DEF v1, v2, v3, v4, v5, v6, v7, v8
<1>3. /\ 256 * h = 2 * (128 * h) /\ 128 * h = 2 * (64 * h) /\ 64 * h = 2 * (32 * h)
      /\ 32 * h = 2 * (16 * h) /\ 16 * h = 2 * (8 * h) /\ 8 * h = 2 * (4 * h)
      /\ 4 * h = 2 * (2 * h)
  BY ByteIs
<1>4. Shifted(xor(256 * h, v)) = xor(128 * h, v1)
  BY <1>3, ShiftedEven, Multiples DEF v1
<1>5. Shifted(xor(128 * h, v1)) = xor(64 * h, v2)
  BY <1>2, <1>3, ShiftedEven, Multiples DEF v2
<1>6. Shifted(xor(64 * h, v2)) = xor(32 * h, v3)
  BY <1>2, <1>3, ShiftedEven, Multiples DEF v3
<1>7. Shifted(xor(32 * h, v3)) = xor(16 * h, v4)
  BY <1>2, <1>3, ShiftedEven, Multiples DEF v4
<1>8. Shifted(xor(16 * h, v4)) = xor(8 * h, v5)
  BY <1>2, <1>3, ShiftedEven, Multiples DEF v5
<1>9. Shifted(xor(8 * h, v5)) = xor(4 * h, v6)
  BY <1>2, <1>3, ShiftedEven, Multiples DEF v6
<1>10. Shifted(xor(4 * h, v6)) = xor(2 * h, v7)
  BY <1>2, <1>3, ShiftedEven, Multiples DEF v7
<1>11. Shifted(xor(2 * h, v7)) = xor(h, v8)
  BY <1>2, <1>3, ShiftedEven, Multiples DEF v8
<1> QED
  BY <1>1, <1>2, <1>4, <1>5, <1>6, <1>7, <1>8, <1>9, <1>10, <1>11 DEF ShiftedOut

(* Where no bit of one meets a bit of the other, xor is the sum.           *)
LEMMA XorDoubledSum ==
  ASSUME NEW u \in Word, NEW v \in Word, NEW w \in Word, w = 2 * u,
         xor(u, v \div 2) = u + v \div 2
  PROVE  xor(w, v) = w + v
<1>1. /\ xor(w, v) \in Word
      /\ xor(w, v) % 2 = v % 2
      /\ xor(w, v) \div 2 = u + v \div 2
  BY XorDoubled
<1> DEFINE x == xor(w, v)
           q == v \div 2
<1>2. v \in Nat /\ u \in Nat /\ x \in Nat
  BY <1>1 DEF Word
<1>3. v = 2 * q + (v % 2) /\ x = 2 * (x \div 2) + (x % 2) /\ q \in Nat /\ v % 2 \in 0 .. 1
  BY <1>2, Half
<1>4. x \div 2 = u + q /\ x % 2 = v % 2
  BY <1>1
<1> HIDE DEF x, q
<1>5. x = 2 * u + v
  BY <1>2, <1>3, <1>4
<1> QED
  BY <1>5 DEF x

(* Two bytes side by side.                                                 *)
LEMMA XorApart ==
  ASSUME NEW h \in Byte, NEW l \in Byte
  PROVE  xor(256 * h, l) = 256 * h + l
<1> DEFINE Fits(m, u) == \A v \in Nat : v <= m => xor(u, v) = u + v
<1>1. Fits(0, h)
  <2>1. h \in Word /\ h \in Nat
    BY ByteIs, Multiples
  <2>2. xor(h, 0) = h
    BY <2>1, XorZero
  <2> QED
    BY <2>1, <2>2
<1>2. ASSUME NEW m \in Byte, NEW n \in Byte, n = 2 * m + 1,
             NEW u \in Word, NEW w \in Word, w = 2 * u, Fits(m, u)
      PROVE  Fits(n, w)
  <2>1. ASSUME NEW v \in Nat, v <= n
        PROVE  xor(w, v) = w + v
    <3>1. v \in Word /\ m \in Nat
      BY <1>2, <2>1, ByteIs DEF Word
    <3>2. v \div 2 \in Nat /\ v = 2 * (v \div 2) + (v % 2) /\ v % 2 \in 0 .. 1
      BY Half
    <3>3. v \div 2 <= m
      BY <1>2, <2>1, <3>1, <3>2
    <3>4. xor(u, v \div 2) = u + v \div 2
      BY <1>2, <3>2, <3>3
    <3> QED
      BY <1>2, <3>1, <3>4, XorDoubledSum
  <2> QED
    BY <2>1
<1> HIDE DEF Fits
<1>3. /\ 256 * h = 2 * (128 * h) /\ 128 * h = 2 * (64 * h) /\ 64 * h = 2 * (32 * h)
      /\ 32 * h = 2 * (16 * h) /\ 16 * h = 2 * (8 * h) /\ 8 * h = 2 * (4 * h)
      /\ 4 * h = 2 * (2 * h)
  BY ByteIs
<1>4. /\ 0 \in Byte /\ 1 \in Byte /\ 3 \in Byte /\ 7 \in Byte /\ 15 \in Byte
      /\ 31 \in Byte /\ 63 \in Byte /\ 127 \in Byte /\ 255 \in Byte
  BY ByteIs
<1>5. Fits(1, 2 * h)
  BY <1>1, <1>2, <1>4, Multiples
<1>6. Fits(3, 4 * h)
  BY <1>2, <1>3, <1>4, <1>5, Multiples
<1>7. Fits(7, 8 * h)
  BY <1>2, <1>3, <1>4, <1>6, Multiples
<1>8. Fits(15, 16 * h)
  BY <1>2, <1>3, <1>4, <1>7, Multiples
<1>9. Fits(31, 32 * h)
  BY <1>2, <1>3, <1>4, <1>8, Multiples
<1>10. Fits(63, 64 * h)
  BY <1>2, <1>3, <1>4, <1>9, Multiples
<1>11. Fits(127, 128 * h)
  BY <1>2, <1>3, <1>4, <1>10, Multiples
<1>12. Fits(255, 256 * h)
  BY <1>2, <1>3, <1>4, <1>11, Multiples
<1> QED
  BY <1>12, ByteIs DEF Fits

(* One turn of the loop does to the register what eight shifts do.         *)
LEMMA StepAgrees ==
  ASSUME NEW h \in Byte, NEW l \in Byte, NEW b \in Byte
  PROVE  /\ CrcStep(<<h, l>>, b) \in Byte \X Byte
         /\ Register(CrcStep(<<h, l>>, b)) = ModbusStep(256 * h + l, b)
<1> DEFINE i == xor(l, b)
           hi == auchCRCHi[i + 1]
           lo == auchCRCLo[i + 1]
<1>1. i \in Byte /\ i + 1 \in 1 .. 256
  <2>1. i \in Byte
    BY XorBelow
  <2> QED
    BY <2>1, ByteIs
<1>2. hi \in Byte /\ lo \in Byte /\ 256 * hi + lo = ShiftedOut(i)
  <2>1. /\ auchCRCHi \in [1 .. 256 -> Byte]
        /\ auchCRCLo \in [1 .. 256 -> Byte]
    BY TableAssumption
  <2>2. hi \in Byte /\ lo \in Byte
    BY <1>1, <2>1
  <2>3. 256 * hi + lo = ShiftedOut(i)
    BY <1>1, TableAssumption
  <2> QED
    BY <2>2, <2>3
<1>3. CrcStep(<<h, l>>, b) = <<hi, xor(h, lo)>>
  BY DEF CrcStep
<1> HIDE DEF i, hi, lo
<1>4. xor(h, lo) \in Byte
  BY <1>2, XorBelow
<1>5. /\ h \in Word /\ l \in Word /\ b \in Word /\ lo \in Word /\ i \in Word
      /\ 256 * h \in Word /\ 256 * hi \in Word
  BY <1>1, <1>2, Multiples
<1>6. xor(256 * h + l, b) = xor(256 * h, i)
  BY <1>5, XorApart, XorAssociates DEF i
<1>7. ModbusStep(256 * h + l, b) = xor(h, 256 * hi + lo)
  BY <1>2, <1>5, <1>6, ShiftedOutEven DEF ModbusStep
<1>8. 256 * hi + lo = xor(256 * hi, lo)
  BY <1>2, XorApart
<1>9. xor(h, xor(256 * hi, lo)) = xor(256 * hi, xor(h, lo))
  <2>1. h \in Nat /\ 256 * hi \in Nat
    BY <1>5, Smaller
  <2>2. xor(h, xor(256 * hi, lo)) = xor(xor(h, 256 * hi), lo)
    BY <1>5, XorAssociates
  <2>3. xor(h, 256 * hi) = xor(256 * hi, h)
    BY <2>1, XorCommutes
  <2>4. xor(xor(256 * hi, h), lo) = xor(256 * hi, xor(h, lo))
    BY <1>5, XorAssociates
  <2> QED
    BY <2>2, <2>3, <2>4
<1>10. xor(256 * hi, xor(h, lo)) = 256 * hi + xor(h, lo)
  BY <1>2, <1>4, XorApart
<1> QED
  BY <1>2, <1>3, <1>4, <1>7, <1>8, <1>9, <1>10 DEF Register

-----------------------------------------------------------------------------
(* The checksum *)

(* The values that the register takes while the message is read.           *)
CrcRun(f, m, w) ==
  f = [n \in 0 .. w |-> IF n = 0 THEN <<255, 255>> ELSE CrcStep(f[n - 1], m[n])]

(* There are such values.                                                  *)
LEMMA CrcRunExists ==
  ASSUME NEW m, NEW w \in Nat
  PROVE  \E f : CrcRun(f, m, w)
<1> DEFINE S == {n \in Nat : ~ \E f : CrcRun(f, m, n)}
<1>1. ASSUME NEW n \in S
      PROVE  \E k \in S : k < n
  <2>1. n # 0
    <3>1. CASE n = 0
      <4> DEFINE f == [k \in 0 .. 0 |-> <<255, 255>>]
      <4>1. f = [k \in 0 .. 0 |-> IF k = 0 THEN <<255, 255>> ELSE CrcStep(f[k - 1], m[k])]
        OBVIOUS
      <4> QED
        BY <3>1, <4>1 DEF CrcRun
    <3> QED
      BY <3>1
  <2>2. n \in Nat /\ n - 1 \in Nat /\ n - 1 < n
    BY <2>1
  <2>3. ASSUME NEW f, CrcRun(f, m, n - 1)
        PROVE  FALSE
    <3> DEFINE g == [k \in 0 .. n |-> IF k = n THEN CrcStep(f[n - 1], m[n]) ELSE f[k]]
    <3>1. ASSUME NEW k \in 0 .. n
          PROVE  g[k] = IF k = 0 THEN <<255, 255>> ELSE CrcStep(g[k - 1], m[k])
      <4>1. CASE k = n
        <5>1. n - 1 \in 0 .. n /\ n - 1 # n
          BY <2>2
        <5>2. g[n - 1] = f[n - 1]
          BY <5>1
        <5> QED
          BY <2>1, <4>1, <5>2
      <4>2. CASE k # n
        <5>1. k \in 0 .. (n - 1)
          BY <2>2, <4>2
        <5>2. f[k] = IF k = 0 THEN <<255, 255>> ELSE CrcStep(f[k - 1], m[k])
          BY <2>3, <5>1, Zenon DEF CrcRun
        <5>3. k # 0 => k - 1 \in 0 .. n /\ k - 1 # n
          BY <2>2, <5>1
        <5>4. g[k] = f[k] /\ (k # 0 => g[k - 1] = f[k - 1])
          BY <4>2, <5>3
        <5> HIDE DEF g
        <5> QED
          BY <5>2, <5>4
      <4> QED
        BY <4>1, <4>2
    <3>2. g = [k \in 0 .. n |-> g[k]]
      OBVIOUS
    <3> HIDE DEF g
    <3>3. CrcRun(g, m, n)
      BY <3>1, <3>2 DEF CrcRun
    <3> QED
      BY <3>3
  <2> QED
    BY <2>2, <2>3
<1>2. S = {}
  <2>1. S \in SUBSET Nat
    OBVIOUS
  <2> HIDE DEF S
  <2> QED
    BY <1>1, <2>1, NoLeast
<1> QED
  BY <1>2

(* crc16 is the last of them.                                              *)
LEMMA CrcOutcome ==
  ASSUME NEW m \in Seq(Byte)
  PROVE  \E f : CrcRun(f, m, Len(m)) /\ crc16(m) = f[Len(m)]
<1> DEFINE crc[n \in 0 .. Len(m)] ==
             IF n = 0 THEN <<255, 255>> ELSE CrcStep(crc[n - 1], m[n])
<1>1. \E f : CrcRun(f, m, Len(m))
  BY CrcRunExists
<1>2. CrcRun(crc, m, Len(m))
  BY <1>1, Zenon DEF CrcRun
<1>3. crc16(m) = crc[Len(m)]
  BY Zenon DEF crc16
<1> HIDE DEF crc
<1> QED
  BY <1>2, <1>3

(* The first of them, and the next.                                        *)
LEMMA CrcRunValues ==
  ASSUME NEW m, NEW w \in Nat, NEW f, CrcRun(f, m, w)
  PROVE  /\ f[0] = <<255, 255>>
         /\ \A n \in 1 .. w : f[n] = CrcStep(f[n - 1], m[n])
<1>1. \A n \in 0 .. w : f[n] = IF n = 0 THEN <<255, 255>> ELSE CrcStep(f[n - 1], m[n])
  BY Zenon DEF CrcRun
<1> QED
  BY <1>1

(* The register always holds two bytes.                                    *)
LEMMA CrcRunType ==
  ASSUME NEW m \in Seq(Byte), NEW f, CrcRun(f, m, Len(m))
  PROVE  \A n \in 0 .. Len(m) : f[n] \in Byte \X Byte
<1>1. /\ f[0] = <<255, 255>>
      /\ \A n \in 1 .. Len(m) : f[n] = CrcStep(f[n - 1], m[n])
  <2>1. Len(m) \in Nat
    OBVIOUS
  <2> QED
    BY <2>1, CrcRunValues
<1> DEFINE S == {n \in 0 .. Len(m) : f[n] \notin Byte \X Byte}
<1>2. ASSUME NEW n \in S
      PROVE  \E k \in S : k < n
  <2>1. n \in 1 .. Len(m)
    <3>1. <<255, 255>> \in Byte \X Byte
      BY ByteIs
    <3> QED
      BY <1>1, <3>1
  <2>2. n - 1 \in 0 .. Len(m) /\ n - 1 < n
    BY <2>1
  <2>3. ASSUME f[n - 1] \in Byte \X Byte
        PROVE  FALSE
    <3>1. PICK h \in Byte, l \in Byte : f[n - 1] = <<h, l>>
      BY <2>3
    <3>2. m[n] \in Byte
      BY <2>1
    <3>3. f[n] = CrcStep(<<h, l>>, m[n])
      BY <1>1, <2>1, <3>1
    <3>4. CrcStep(<<h, l>>, m[n]) \in Byte \X Byte
      BY <3>2, StepAgrees
    <3> QED
      BY <3>3, <3>4
  <2> QED
    BY <2>2, <2>3
<1>3. S = {}
  <2>1. S \in SUBSET Nat
    OBVIOUS
  <2> HIDE DEF S
  <2> QED
    BY <1>2, <2>1, NoLeast
<1> QED
  BY <1>3

(* crc16 computes the CRC-16 of Modbus, for every message.                 *)
THEOREM ChecksumIsModbus ==
  ASSUME NEW m \in Seq(Byte)
  PROVE  crc16(m) \in Byte \X Byte /\ Register(crc16(m)) = Modbus(m)
<1>1. PICK f : CrcRun(f, m, Len(m)) /\ crc16(m) = f[Len(m)]
  BY CrcOutcome
<1>2. \A n \in 0 .. Len(m) : f[n] \in Byte \X Byte
  BY <1>1, CrcRunType
<1>3. /\ f[0] = <<255, 255>>
      /\ \A n \in 1 .. Len(m) : f[n] = CrcStep(f[n - 1], m[n])
  BY <1>1, CrcRunValues
<1> DEFINE ModbusRun(g) ==
             g = [n \in 0 .. Len(m) |-> IF n = 0 THEN AllOnes ELSE ModbusStep(g[n - 1], m[n])]
           g == [n \in 0 .. Len(m) |-> Register(f[n])]
<1>4. ModbusRun(g)
  <2>1. ASSUME NEW n \in 0 .. Len(m)
        PROVE  g[n] = IF n = 0 THEN AllOnes ELSE ModbusStep(g[n - 1], m[n])
    <3>1. CASE n = 0
      BY <1>3, <3>1 DEF Register, AllOnes
    <3>2. CASE n # 0
      <4>1. n \in 1 .. Len(m) /\ n - 1 \in 0 .. Len(m)
        BY <3>2
      <4>2. PICK h \in Byte, l \in Byte : f[n - 1] = <<h, l>>
        BY <1>2, <4>1
      <4>3. m[n] \in Byte
        BY <4>1
      <4>4. g[n - 1] = 256 * h + l
        BY <4>1, <4>2 DEF Register
      <4>5. g[n] = Register(CrcStep(<<h, l>>, m[n]))
        BY <1>3, <4>1, <4>2
      <4> HIDE DEF g
      <4> QED
        BY <3>2, <4>3, <4>4, <4>5, StepAgrees
    <3> QED
      BY <3>1, <3>2
  <2>2. g = [n \in 0 .. Len(m) |-> g[n]]
    OBVIOUS
  <2> HIDE DEF g
  <2> QED
    BY <2>1, <2>2
<1> DEFINE register[n \in 0 .. Len(m)] ==
             IF n = 0 THEN AllOnes ELSE ModbusStep(register[n - 1], m[n])
<1>5. ModbusRun(register)
  <2> HIDE DEF g
  <2> QED
    BY <1>4, Zenon
<1>6. Modbus(m) = register[Len(m)]
  BY Zenon DEF Modbus
<1> HIDE DEF register
<1>7. \A n \in 0 .. Len(m) : register[n] = g[n]
  <2> DEFINE S == {n \in 0 .. Len(m) : register[n] # g[n]}
  <2>1. \A n \in 0 .. Len(m) :
          /\ register[n] = IF n = 0 THEN AllOnes ELSE ModbusStep(register[n - 1], m[n])
          /\ g[n] = IF n = 0 THEN AllOnes ELSE ModbusStep(g[n - 1], m[n])
    <3> HIDE DEF g
    <3> QED
      BY <1>4, <1>5, Zenon
  <2> HIDE DEF g
  <2>2. ASSUME NEW n \in S
        PROVE  \E k \in S : k < n
    <3>1. n # 0
      BY <2>1
    <3>2. n - 1 \in 0 .. Len(m) /\ n - 1 < n
      BY <3>1
    <3>3. register[n - 1] # g[n - 1]
      BY <2>1, <3>1
    <3> QED
      BY <3>2, <3>3
  <2>3. S = {}
    <3>1. S \in SUBSET Nat
      OBVIOUS
    <3> HIDE DEF S
    <3> QED
      BY <2>2, <3>1, NoLeast
  <2> QED
    BY <2>3
<1>8. Len(m) \in 0 .. Len(m)
  OBVIOUS
<1> QED
  BY <1>1, <1>2, <1>6, <1>7, <1>8

(* The polynomial sets the highest bit.                                    *)
LEMMA XorPolynomial ==
  ASSUME NEW q \in HalfWord
  PROVE  xor(q, 40961) \notin HalfWord
<1> DEFINE c == 40961
<1>1. q \in Word /\ c \in Word /\ c \notin HalfWord
  BY DEF Word, HalfWord
<1> HIDE DEF c
<1>2. xor(q, xor(q, c)) = c
  <2>1. xor(q, xor(q, c)) = xor(xor(q, q), c)
    BY <1>1, XorAssociates
  <2>2. xor(q, q) = 0
    BY <1>1, XorSelf
  <2>3. xor(0, c) = xor(c, 0)
    <3>1. 0 \in Nat /\ c \in Nat
      BY <1>1 DEF Word
    <3> QED
      BY <3>1, XorCommutes
  <2>4. xor(c, 0) = c
    BY <1>1, XorZero
  <2> QED
    BY <2>1, <2>2, <2>3, <2>4
<1>3. xor(q, c) \notin HalfWord
  BY <1>1, <1>2, XorBelow
<1> QED
  BY <1>3 DEF c

(* Nothing is lost when the register is shifted.                           *)
LEMMA ShiftedOnce ==
  ASSUME NEW v \in Word, NEW w \in Word, Shifted(v) = Shifted(w)
  PROVE  v = w
<1> DEFINE p == v \div 2
           q == w \div 2
           c == 40961
<1>1. /\ p \in HalfWord /\ v % 2 \in {0, 1}
      /\ q \in HalfWord /\ w % 2 \in {0, 1}
  <2>1. \A n \in Word : n \div 2 \in HalfWord /\ n % 2 \in {0, 1}
    <3>1. ASSUME NEW n \in Word
          PROVE  n \div 2 \in HalfWord /\ n % 2 \in {0, 1}
      <4>1. n \in Nat /\ n <= 65535
        BY DEF Word
      <4>2. n \div 2 \in Nat /\ n = 2 * (n \div 2) + (n % 2) /\ n % 2 \in 0 .. 1
        BY <4>1, Half
      <4> QED
        BY <4>1, <4>2 DEF HalfWord
    <3> QED
      BY <3>1
  <2> QED
    BY <2>1
<1>2. p \in Word /\ q \in Word /\ c \in Word
  BY Smaller DEF Word
<1>3. /\ Shifted(v) = IF v % 2 = 1 THEN xor(p, c) ELSE p
      /\ Shifted(w) = IF w % 2 = 1 THEN xor(q, c) ELSE q
  BY DEF Shifted
<1>4. xor(p, c) \notin HalfWord /\ xor(q, c) \notin HalfWord
  BY <1>1, XorPolynomial
<1>5. xor(p, c) = xor(q, c) => p = q
  BY <1>2, XorCancels
<1> HIDE DEF p, q, c
<1>6. v % 2 = w % 2 /\ p = q
  BY <1>1, <1>3, <1>4, <1>5
<1> QED
  BY <1>6, SameHalves DEF p, q

(* Nor by eight shifts.                                                    *)
LEMMA ShiftedOutOnce ==
  ASSUME NEW v \in Word, NEW w \in Word, ShiftedOut(v) = ShiftedOut(w)
  PROVE  v = w
<1> DEFINE v1 == Shifted(v)
           v2 == Shifted(v1)
           v3 == Shifted(v2)
           v4 == Shifted(v3)
           v5 == Shifted(v4)
           v6 == Shifted(v5)
           v7 == Shifted(v6)
           w1 == Shifted(w)
           w2 == Shifted(w1)
           w3 == Shifted(w2)
           w4 == Shifted(w3)
           w5 == Shifted(w4)
           w6 == Shifted(w5)
           w7 == Shifted(w6)
<1>1. Shifted(v7) = Shifted(w7)
  BY DEF ShiftedOut
<1>2. /\ v1 \in Word /\ v2 \in Word /\ v3 \in Word /\ v4 \in Word
      /\ v5 \in Word /\ v6 \in Word /\ v7 \in Word
      /\ w1 \in Word /\ w2 \in Word /\ w3 \in Word /\ w4 \in Word
      /\ w5 \in Word /\ w6 \in Word /\ w7 \in Word
  BY ShiftedWord
<1> HIDE DEF v1, v2, v3, v4, v5, v6, v7, w1, w2, w3, w4, w5, w6, w7
<1>3. v7 = w7
  BY <1>1, <1>2, ShiftedOnce
<1>4. v6 = w6
  BY <1>2, <1>3, ShiftedOnce DEF v7, w7
<1>5. v5 = w5
  BY <1>2, <1>4, ShiftedOnce DEF v6, w6
<1>6. v4 = w4
  BY <1>2, <1>5, ShiftedOnce DEF v5, w5
<1>7. v3 = w3
  BY <1>2, <1>6, ShiftedOnce DEF v4, w4
<1>8. v2 = w2
  BY <1>2, <1>7, ShiftedOnce DEF v3, w3
<1>9. v1 = w1
  BY <1>2, <1>8, ShiftedOnce DEF v2, w2
<1> QED
  BY <1>9, ShiftedOnce DEF v1, w1

(* The next value of the register tells the last one from the byte, and    *)
(* the byte from the last one.                                             *)
LEMMA CrcStepTells ==
  ASSUME NEW c \in Byte \X Byte, NEW d \in Byte \X Byte, NEW a \in Byte, NEW b \in Byte,
         CrcStep(c, a) = CrcStep(d, b)
  PROVE  c = d <=> a = b
<1>1. PICK h \in Byte, l \in Byte : c = <<h, l>>
  OBVIOUS
<1>2. PICK i \in Byte, k \in Byte : d = <<i, k>>
  OBVIOUS
<1> DEFINE v == 256 * h + l
           w == 256 * i + k
<1>3. v \in Word /\ w \in Word /\ a \in Word /\ b \in Word
  BY ByteIs DEF Word
<1>4. v = w => c = d
  <2>1. h \in Nat /\ l \in Nat /\ i \in Nat /\ k \in Nat /\ l <= 255 /\ k <= 255
    BY ByteIs
  <2>2. v = w => h = i /\ l = k
    BY <2>1
  <2> QED
    BY <1>1, <1>2, <2>2
<1>5. ModbusStep(v, a) = ModbusStep(w, b)
  <2>1. Register(CrcStep(c, a)) = ModbusStep(v, a)
    BY <1>1, StepAgrees
  <2>2. Register(CrcStep(d, b)) = ModbusStep(w, b)
    BY <1>2, StepAgrees
  <2> QED
    BY <2>1, <2>2
<1>6. c = d => v = w
  <2>1. c = d => h = i /\ l = k
    BY <1>1, <1>2
  <2> QED
    BY <2>1
<1> HIDE DEF v, w
<1>7. xor(v, a) = xor(w, b)
  <2>1. xor(v, a) \in Word /\ xor(w, b) \in Word
    BY <1>3, XorBelow
  <2> QED
    BY <1>5, <2>1, ShiftedOutOnce DEF ModbusStep
<1>8. a = b => v = w
  BY <1>3, <1>7, XorCancels
<1>9. v = w => a = b
  <2>1. v \in Nat /\ w \in Nat /\ a \in Nat /\ b \in Nat
    BY <1>3 DEF Word
  <2>2. xor(v, a) = xor(a, v) /\ xor(w, b) = xor(b, w)
    BY <2>1, XorCommutes
  <2> QED
    BY <1>3, <1>7, <2>2, XorCancels
<1> QED
  BY <1>4, <1>6, <1>8, <1>9

(* Messages of one length that differ in one byte differ in the checksum.  *)
THEOREM OneByteTells ==
  ASSUME NEW m \in Seq(Byte), NEW n \in Seq(Byte), Len(m) = Len(n),
         NEW i \in 1 .. Len(m), m[i] # n[i],
         \A k \in 1 .. Len(m) : k # i => m[k] = n[k]
  PROVE  crc16(m) # crc16(n)
<1> DEFINE w == Len(m)
<1>0. w \in Nat
  OBVIOUS
<1>1. PICK f : CrcRun(f, m, w) /\ crc16(m) = f[w]
  BY CrcOutcome
<1>2. PICK g : CrcRun(g, n, w) /\ crc16(n) = g[w]
  BY CrcOutcome
<1>3. \A k \in 0 .. w : f[k] \in Byte \X Byte /\ g[k] \in Byte \X Byte
  <2>1. \A k \in 0 .. w : f[k] \in Byte \X Byte
    BY <1>1, CrcRunType
  <2>2. \A k \in 0 .. w : g[k] \in Byte \X Byte
    BY <1>2, CrcRunType
  <2> QED
    BY <2>1, <2>2
<1>4. f[0] = g[0]
  <2>1. f[0] = <<255, 255>>
    BY <1>0, <1>1, CrcRunValues
  <2>2. g[0] = <<255, 255>>
    BY <1>0, <1>2, CrcRunValues
  <2> QED
    BY <2>1, <2>2
<1>5. \A k \in 1 .. w : f[k] = CrcStep(f[k - 1], m[k]) /\ g[k] = CrcStep(g[k - 1], n[k])
  BY <1>0, <1>1, <1>2, CrcRunValues
<1>6. \A k \in 1 .. w : m[k] \in Byte /\ n[k] \in Byte /\ k - 1 \in 0 .. w
  OBVIOUS
<1>7. \A k \in 1 .. w : f[k] = g[k] => (f[k - 1] = g[k - 1] <=> m[k] = n[k])
  BY <1>3, <1>5, <1>6, CrcStepTells
<1> HIDE DEF w
<1>8. i \in 1 .. w /\ m[i] # n[i] /\ \A k \in 1 .. w : k # i => m[k] = n[k]
  BY DEF w
<1>9. \A k \in 0 .. w : k < i => f[k] = g[k]
  <2> DEFINE S == {k \in 0 .. w : k < i /\ f[k] # g[k]}
  <2>1. ASSUME NEW k \in S
        PROVE  \E j \in S : j < k
    <3>1. k \in 1 .. w /\ k < i /\ f[k] # g[k]
      BY <1>4, <1>0
    <3>2. m[k] = n[k]
      BY <1>8, <3>1
    <3>3. f[k - 1] # g[k - 1]
      BY <1>5, <3>1, <3>2
    <3>4. k - 1 \in 0 .. w /\ k - 1 < i /\ k - 1 < k
      BY <1>0, <1>8, <3>1
    <3> QED
      BY <3>3, <3>4
  <2>2. S = {}
    <3>1. S \in SUBSET Nat
      OBVIOUS
    <3> HIDE DEF S
    <3> QED
      BY <2>1, <3>1, NoLeast
  <2> QED
    BY <2>2
<1>10. f[i] # g[i]
  <2>1. i - 1 \in 0 .. w /\ i - 1 < i
    BY <1>0, <1>8
  <2>2. f[i - 1] = g[i - 1]
    BY <1>9, <2>1
  <2> QED
    BY <1>7, <1>8, <2>2
<1>11. \A k \in i .. w : f[k] # g[k]
  <2> DEFINE S == {k \in i .. w : f[k] = g[k]}
  <2>1. ASSUME NEW k \in S
        PROVE  \E j \in S : j < k
    <3>1. k \in 1 .. w /\ k # i /\ f[k] = g[k]
      BY <1>0, <1>8, <1>10
    <3>2. m[k] = n[k]
      BY <1>8, <3>1
    <3>3. f[k - 1] = g[k - 1]
      BY <1>7, <3>1, <3>2
    <3>4. k - 1 \in i .. w /\ k - 1 < k
      BY <1>0, <1>8, <3>1
    <3> QED
      BY <3>3, <3>4
  <2>2. S = {}
    <3>1. S \in SUBSET Nat
      BY <1>8
    <3> HIDE DEF S
    <3> QED
      BY <2>1, <3>1, NoLeast
  <2> QED
    BY <2>2
<1>12. w \in i .. w
  BY <1>0, <1>8
<1> QED
  BY <1>1, <1>2, <1>11, <1>12

-----------------------------------------------------------------------------
(* Frames *)

(* The bytes of the header and the tail.                                   *)
LEMMA Literals == 0 \in Byte /\ 1 \in Byte /\ 122 \in Byte /\ 123 \in Byte
BY DEF Byte

(* Two bytes of a frame.                                                   *)
LEMMA TwoAre ==
  ASSUME NEW s \in Seq(Byte), Len(s) = 2, NEW a, NEW b
  PROVE  s = <<a, b>> <=> s[1] = a /\ s[2] = b
OBVIOUS

(* Two neighbours as a sequence.                                           *)
LEMMA TwoOf ==
  ASSUME NEW s \in Seq(Byte), NEW k \in Nat, k >= 1, k + 1 <= Len(s)
  PROVE  SubSeq(s, k, k + 1) = <<s[k], s[k + 1]>>
<1>1. k \in Int /\ k + 1 \in Int /\ (k + 1) - k + 1 = 2 /\ k <= k + 1
      /\ \A i \in k .. (k + 1) : s[i] \in Byte
  OBVIOUS
<1>2. /\ SubSeq(s, k, k + 1) \in Seq(Byte)
      /\ Len(SubSeq(s, k, k + 1)) = 2
      /\ \A i \in 1 .. (k + 1) - k + 1 : SubSeq(s, k, k + 1)[i] = s[k + i - 1]
  BY <1>1, SubSeqProperties
<1>3. SubSeq(s, k, k + 1)[1] = s[k] /\ SubSeq(s, k, k + 1)[2] = s[k + 1]
  <2>1. 1 \in 1 .. (k + 1) - k + 1 /\ 2 \in 1 .. (k + 1) - k + 1
        /\ k + 1 - 1 = k /\ k + 2 - 1 = k + 1
    OBVIOUS
  <2> QED
    BY <1>2, <2>1
<1> DEFINE r == SubSeq(s, k, k + 1)
<1>4. r \in Seq(Byte) /\ Len(r) = 2 /\ r[1] = s[k] /\ r[2] = s[k + 1]
  BY <1>2, <1>3
<1> HIDE DEF r
<1>5. r = <<s[k], s[k + 1]>>
  BY <1>4, TwoAre
<1> QED
  BY <1>5 DEF r

(* The first and the last byte are right, and the checksum is.             *)
Proper(g, n) ==
  /\ g[1] = 122 /\ g[n] = 123
  /\ g[n - 2] = crc16(SubSeq(g, 1, n - 3))[2]
  /\ g[n - 1] = crc16(SubSeq(g, 1, n - 3))[1]

(* A frame of n bytes whose header promises n.                             *)
Sealed(f, n) ==
  /\ n \in Nat /\ n > 10
  /\ f \in Seq(Byte) /\ Len(f) = n
  /\ 256 * f[2] + f[3] = n /\ Proper(f, n)

(* What the checksum is computed of.                                       *)
Headed(f, n, m) == SubSeq(f, 1, n - 3) = m

(* The verdict of isOneChatPackage, once all of the frame that the header      *)
(* promises is there.                                                      *)
LEMMA VerdictIs ==
  ASSUME NEW g \in Seq(Byte), NEW n \in Nat, n > 10, n = 256 * g[2] + g[3], Len(g) >= n
  PROVE  /\ isOneChatPackage(g).is <=> Proper(g, n)
         /\ isOneChatPackage(g).is => isOneChatPackage(g) = Whole(SubSeq(g, 1, n))
         /\ isOneChatPackage(g).want = 0
<1> DEFINE m == SubSeq(g, 1, n - 3)
           crc == crc16(m)
           d == 256 * g[2] + g[3]
           size == d - CHAT_TAIL
           here == g[1] = 122 /\ d > CHAT_LENGTH
           whole == /\ g[d] = 123
                    /\ SubSeq(g, size + 1, size + 2) =
                           SubSeq(Tail_(SubSeq(g, 1, size)), 1, 2)
<1>1. CHAT_LENGTH = 10 /\ CHAT_TAIL = 3
  BY DEF CHAT_LENGTH, CHAT_HEADER, CHAT_TAIL
<1>2. isOneChatPackage(g) =
        IF here /\ Len(g) < d
        THEN [is |-> TRUE, frame |-> d, want |-> d - Len(g)]
        ELSE [is |-> here /\ whole, frame |-> IF here /\ whole THEN d ELSE 0, want |-> 0]
  BY Zenon DEF isOneChatPackage
<1>3. d = n /\ size = n - 3 /\ ~ (Len(g) < d)
  BY <1>1
<1>4. m \in Seq(Byte)
  <2>1. n - 3 \in Int /\ \A i \in 1 .. n - 3 : g[i] \in Byte
    OBVIOUS
  <2> QED
    BY <2>1, SubSeqProperties
<1>5. crc[1] \in Byte /\ crc[2] \in Byte /\ 123 \in Byte
  <2>1. crc \in Byte \X Byte
    BY <1>4, ChecksumIsModbus
  <2> HIDE DEF crc
  <2>2. crc[1] \in Byte /\ crc[2] \in Byte
    BY <2>1
  <2>3. 123 \in Byte
    BY Literals
  <2> QED
    BY <2>2, <2>3
<1>6. SubSeq(Tail_(m), 1, 2) = <<crc[2], crc[1]>>
  <2> DEFINE t == <<crc[2], crc[1], 123>>
  <2>1. Tail_(m) = t
    BY DEF Tail_
  <2> HIDE DEF crc
  <2>2. t \in Seq(Byte) /\ Len(t) = 3 /\ t[1] = crc[2] /\ t[2] = crc[1]
    BY <1>5
  <2> HIDE DEF t
  <2>3. SubSeq(t, 1, 1 + 1) = <<t[1], t[1 + 1]>>
    BY <2>2, TwoOf
  <2> QED
    BY <2>1, <2>2, <2>3
<1>7. SubSeq(g, size + 1, size + 2) = <<g[n - 2], g[n - 1]>>
  <2> DEFINE k == n - 2
  <2>1. k \in Nat /\ k >= 1 /\ k + 1 <= Len(g) /\ k + 1 = n - 1
        /\ size + 1 = k /\ size + 2 = k + 1
    BY <1>3
  <2> HIDE DEF size, k
  <2>2. SubSeq(g, k, k + 1) = <<g[k], g[k + 1]>>
    BY <2>1, TwoOf
  <2>3. SubSeq(g, size + 1, size + 2) = SubSeq(g, k, k + 1)
    BY <2>1
  <2>4. SubSeq(g, size + 1, size + 2) = <<g[k], g[n - 1]>>
    BY <2>1, <2>2, <2>3
  <2> QED
    BY <2>4 DEF k
<1>8. SubSeq(g, 1, size) = m
  BY <1>3
<1>9. here <=> g[1] = 122
  <2>1. d > CHAT_LENGTH
    BY <1>1, <1>3
  <2> QED
    BY <2>1, Zenon
<1>10. whole <=> g[n] = 123 /\ g[n - 2] = crc[2] /\ g[n - 1] = crc[1]
  <2> HIDE DEF crc, m, size, d
  <2>1. SubSeq(g, size + 1, size + 2) = SubSeq(Tail_(SubSeq(g, 1, size)), 1, 2)
          <=> <<g[n - 2], g[n - 1]>> = <<crc[2], crc[1]>>
    <3>1. SubSeq(g, size + 1, size + 2) = <<g[n - 2], g[n - 1]>>
      BY <1>7
    <3>2. SubSeq(Tail_(SubSeq(g, 1, size)), 1, 2) = <<crc[2], crc[1]>>
      BY <1>6, <1>8
    <3> QED
      BY <3>1, <3>2
  <2>2. <<g[n - 2], g[n - 1]>> = <<crc[2], crc[1]>> <=> g[n - 2] = crc[2] /\ g[n - 1] = crc[1]
    OBVIOUS
  <2> QED
    BY <1>3, <2>1, <2>2
<1> HIDE DEF here, whole, size
<1>11. isOneChatPackage(g) =
         [is |-> here /\ whole, frame |-> IF here /\ whole THEN n ELSE 0, want |-> 0]
  <2>1. here /\ Len(g) < d <=> FALSE
    BY <1>3, Zenon
  <2>2. d = n
    BY <1>3
  <2> HIDE DEF d
  <2> QED
    BY <1>2, <2>1, <2>2, Zenon
<1>12. isOneChatPackage(g).is = (here /\ whole) /\ isOneChatPackage(g).want = 0
  <2> DEFINE b == here /\ whole
             r == [is |-> b, frame |-> IF b THEN n ELSE 0, want |-> 0]
  <2>1. isOneChatPackage(g) = r
    BY <1>11, Zenon
  <2>2. r.is = b
    BY Zenon
  <2>3. r.want = 0
    BY Zenon
  <2> HIDE DEF r
  <2>4. isOneChatPackage(g).want = 0
    BY <2>1, <2>3, Zenon
  <2>5. isOneChatPackage(g).is = b
    BY <2>1, <2>2, Zenon
  <2> QED
    BY <2>4, <2>5, Zenon
<1>13. here /\ whole => isOneChatPackage(g) = [is |-> TRUE, frame |-> n, want |-> 0]
  <2>1. ASSUME here, whole
        PROVE  (here /\ whole) = TRUE
    BY <2>1, Zenon
  <2>2. ASSUME here, whole
        PROVE  (IF here /\ whole THEN n ELSE 0) = n
    BY <2>2, Zenon
  <2> QED
    BY <1>11, <2>1, <2>2, Zenon
<1>14. Len(SubSeq(g, 1, n)) = n
  <2>1. n \in Int /\ 1 <= n /\ n - 1 + 1 = n /\ \A i \in 1 .. n : g[i] \in Byte
    OBVIOUS
  <2> QED
    BY <2>1, SubSeqProperties
<1> HIDE DEF crc, m
<1>15. isOneChatPackage(g).is <=> Proper(g, n)
  <2>1. here /\ whole <=> Proper(g, n)
    BY <1>9, <1>10 DEF Proper, crc, m
  <2> QED
    BY <1>12, <2>1, Zenon
<1>16. isOneChatPackage(g).is => isOneChatPackage(g) = Whole(SubSeq(g, 1, n))
  <2>1. Whole(SubSeq(g, 1, n)) = [is |-> TRUE, frame |-> n, want |-> 0]
    BY <1>14, Zenon DEF Whole
  <2> QED
    <3>1. ASSUME isOneChatPackage(g).is
          PROVE  here /\ whole
      BY <3>1, <1>12, Zenon
    <3> QED
      BY <3>1, <1>13, <2>1, Zenon
<1> QED
  BY <1>12, <1>15, <1>16, Zenon

(* What the constructor puts together.                                     *)
LEMMA Composed ==
  ASSUME NEW crypt \in Byte, NEW type \in Byte, NEW p \in Seq(Byte),
         Len(p) > 0, Len(p) + CHAT_LENGTH \in Word,
         NEW f, f = Compose(crypt, type, p), NEW n, n = Len(p) + CHAT_LENGTH
  PROVE  Sealed(f, n) /\ Headed(f, n, Header(n, type, crypt) \o p)
<1> DEFINE h == Header(n, type, crypt)
           m == h \o p
           crc == crc16(m)
<1>1. CHAT_LENGTH = 10
  BY DEF CHAT_LENGTH, CHAT_HEADER, CHAT_TAIL
<1>2. n \in Nat /\ n > 10 /\ n = Len(p) + 10 /\ n <= 65535 /\ Len(p) \in Nat
  BY <1>1 DEF Word
<1>3. (n \div 256) % 256 \in Byte /\ n % 256 \in Byte
      /\ 256 * ((n \div 256) % 256) + (n % 256) = n
  <2>1. n \div 256 \in Nat /\ n \div 256 <= 255
    BY <1>2
  <2>2. (n \div 256) % 256 = n \div 256
    BY <2>1
  <2>3. n = 256 * (n \div 256) + (n % 256)
    BY <1>2
  <2>4. n % 256 \in Nat /\ n % 256 <= 255
    BY <1>2
  <2> QED
    BY <2>1, <2>2, <2>3, <2>4, ByteIs
<1>4. h = <<122, (n \div 256) % 256, n % 256, 1, type, crypt, 0>>
  BY DEF Header
<1>5. 122 \in Byte /\ 123 \in Byte /\ 0 \in Byte /\ 1 \in Byte
  BY Literals
<1> DEFINE hi == (n \div 256) % 256
           lo == n % 256
<1>6. h \in Seq(Byte) /\ Len(h) = 7 /\ h[1] = 122 /\ h[2] = hi /\ h[3] = lo
  <2> HIDE DEF hi, lo, h
  <2>1. h = <<122, hi, lo, 1, type, crypt, 0>> /\ hi \in Byte /\ lo \in Byte
    BY <1>3, <1>4 DEF hi, lo
  <2> QED
    BY <1>5, <2>1
<1> HIDE DEF h
<1>7. m \in Seq(Byte) /\ Len(m) = n - 3 /\ m[1] = 122 /\ m[2] = hi /\ m[3] = lo
  <2> HIDE DEF hi, lo
  <2>1. /\ m \in Seq(Byte) /\ Len(m) = Len(h) + Len(p)
        /\ \A i \in 1 .. (Len(h) + Len(p)) : m[i] = IF i <= Len(h) THEN h[i] ELSE p[i - Len(h)]
    <3>1. m = h \o p
      OBVIOUS
    <3>2. h \in Seq(Byte) /\ p \in Seq(Byte)
      BY <1>6
    <3> HIDE DEF m
    <3> QED
      <4>1. /\ h \o p \in Seq(Byte) /\ Len(h \o p) = Len(h) + Len(p)
            /\ \A i \in 1 .. Len(h) + Len(p) :
                  (h \o p)[i] = IF i <= Len(h) THEN h[i] ELSE p[i - Len(h)]
        BY <3>2, ConcatProperties
      <4> QED
        BY <3>1, <4>1, Zenon
  <2>2. m[1] = h[1] /\ m[2] = h[2] /\ m[3] = h[3]
    BY <1>2, <1>6, <2>1
  <2> QED
    BY <1>2, <1>6, <2>1, <2>2
<1> HIDE DEF m, hi, lo
<1>8. crc[1] \in Byte /\ crc[2] \in Byte
  <2>1. crc \in Byte \X Byte
    BY <1>7, ChecksumIsModbus
  <2> HIDE DEF crc
  <2> QED
    BY <2>1
<1>9. f = m \o <<crc[2], crc[1], 123>>
  BY DEF Compose, Tail_, h, m
<1> HIDE DEF crc
<1> DEFINE z == <<crc[2], crc[1], 123>>
<1>10. z \in Seq(Byte) /\ Len(z) = 3 /\ z[1] = crc[2] /\ z[2] = crc[1] /\ z[3] = 123
  BY <1>5, <1>8
<1> HIDE DEF z
<1>11. /\ f \in Seq(Byte) /\ Len(f) = n
       /\ \A i \in 1 .. n : f[i] = IF i <= n - 3 THEN m[i] ELSE z[i - (n - 3)]
  <2>1. f = m \o z
    BY <1>9 DEF z
  <2>2. n - 3 + 3 = n
    BY <1>2
  <2> QED
    <3>1. /\ f \in Seq(Byte) /\ Len(f) = Len(m) + Len(z)
          /\ \A i \in 1 .. Len(m) + Len(z) :
                f[i] = IF i <= Len(m) THEN m[i] ELSE z[i - Len(m)]
      <4>1. m \in Seq(Byte) /\ z \in Seq(Byte)
        BY <1>7, <1>10
      <4> QED
        <5>1. /\ m \o z \in Seq(Byte) /\ Len(m \o z) = Len(m) + Len(z)
              /\ \A i \in 1 .. Len(m) + Len(z) :
                    (m \o z)[i] = IF i <= Len(m) THEN m[i] ELSE z[i - Len(m)]
          BY <4>1, ConcatProperties
        <5> QED
          BY <2>1, <5>1, Zenon
    <3> QED
      BY <1>7, <1>10, <2>2, <3>1
<1>12. /\ \A i \in 1 .. (n - 3) : f[i] = m[i]
       /\ f[n - 2] = crc[2] /\ f[n - 1] = crc[1] /\ f[n] = 123
  <2>1. \A i \in 1 .. (n - 3) : f[i] = m[i]
    BY <1>2, <1>11
  <2>2. /\ n - 2 \in 1 .. n /\ n - 1 \in 1 .. n /\ n \in 1 .. n
        /\ ~ (n - 2 <= n - 3) /\ ~ (n - 1 <= n - 3) /\ ~ (n <= n - 3)
        /\ n - 2 - (n - 3) = 1 /\ n - 1 - (n - 3) = 2 /\ n - (n - 3) = 3
    BY <1>2
  <2>3. f[n - 2] = z[1] /\ f[n - 1] = z[2] /\ f[n] = z[3]
    BY <1>11, <2>2
  <2> QED
    BY <1>10, <2>1, <2>3
<1>13. SubSeq(f, 1, n - 3) = m
  <2>1. n - 3 \in Nat /\ n - 3 <= Len(f)
    BY <1>2, <1>11
  <2>2. SubSeq(f, 1, n - 3) = [i \in 1 .. (n - 3) |-> f[i]]
    BY <1>11, <2>1
  <2>3. m = [i \in 1 .. (n - 3) |-> m[i]]
    BY <1>7
  <2> QED
    BY <1>12, <2>2, <2>3
<1>14. f[1] = 122 /\ f[2] = hi /\ f[3] = lo
  <2>1. 1 \in 1 .. (n - 3) /\ 2 \in 1 .. (n - 3) /\ 3 \in 1 .. (n - 3)
    BY <1>2
  <2> QED
    BY <1>7, <1>12, <2>1
<1>15. 256 * f[2] + f[3] = n
  BY <1>3, <1>14 DEF hi, lo
<1>16. crc16(SubSeq(f, 1, n - 3)) = crc
  BY <1>13, Zenon DEF crc
<1>17. Sealed(f, n)
  BY <1>2, <1>11, <1>12, <1>14, <1>15, <1>16 DEF Sealed, Proper
<1> QED
  BY <1>13, <1>17, Zenon DEF h, m, Headed

(* What the constructor puts together, isOneChatPackage takes for one frame.   *)
THEOREM FramesRecognised ==
  ASSUME NEW crypt \in Byte, NEW type \in Byte, NEW p \in Seq(Byte),
         Len(p) > 0, Len(p) + CHAT_LENGTH \in Word
  PROVE  isOneChatPackage(Compose(crypt, type, p)) = Whole(Compose(crypt, type, p))
<1> DEFINE f == Compose(crypt, type, p)
           n == Len(p) + CHAT_LENGTH
<1>1. /\ n \in Nat /\ n > 10
      /\ f \in Seq(Byte) /\ Len(f) = n
      /\ 256 * f[2] + f[3] = n /\ Proper(f, n)
  BY Composed DEF Sealed
<1> HIDE DEF f, n
<1>2. isOneChatPackage(f).is /\ (isOneChatPackage(f).is => isOneChatPackage(f) = Whole(SubSeq(f, 1, n)))
  <2>1. n = 256 * f[2] + f[3] /\ Len(f) >= n
    BY <1>1
  <2> QED
    BY <1>1, <2>1, VerdictIs, Zenon
<1>3. SubSeq(f, 1, n) = f
  BY <1>1
<1> QED
  BY <1>2, <1>3, Zenon DEF f

(* A byte changed outside of the length is seen.                           *)
THEOREM DamageShows ==
  ASSUME NEW crypt \in Byte, NEW type \in Byte, NEW p \in Seq(Byte),
         Len(p) > 0, Len(p) + CHAT_LENGTH \in Word,
         NEW f, f = Compose(crypt, type, p),
         NEW i \in 1 .. Len(f), i \notin {2, 3}, NEW b \in Byte, b # f[i]
  PROVE  ~ isOneChatPackage([f EXCEPT ![i] = b]).is
<1> DEFINE n == Len(p) + CHAT_LENGTH
           g == [f EXCEPT ![i] = b]
<1>0. /\ n \in Nat /\ n > 10
      /\ f \in Seq(Byte) /\ Len(f) = n
      /\ 256 * f[2] + f[3] = n /\ Proper(f, n)
  <2>1. n = Len(p) + CHAT_LENGTH
    OBVIOUS
  <2> HIDE DEF n
  <2>2. Sealed(f, n)
    BY <2>1, Composed, Zenon
  <2> QED
    BY <2>2, Zenon DEF Sealed
<1> DEFINE a == SubSeq(f, 1, n - 3)
           c == SubSeq(g, 1, n - 3)
<1>1. /\ n \in Nat /\ n > 10
      /\ f \in Seq(Byte) /\ Len(f) = n
      /\ f[1] = 122 /\ 256 * f[2] + f[3] = n /\ f[n] = 123
      /\ f[n - 2] = crc16(a)[2] /\ f[n - 1] = crc16(a)[1]
  BY <1>0, Zenon DEF Proper
<1> HIDE DEF n
<1>2. /\ g \in Seq(Byte) /\ Len(g) = n /\ g[i] = b
      /\ \A k \in 1 .. n : k # i => g[k] = f[k]
  BY <1>1
<1> HIDE DEF g
<1>3. g[2] = f[2] /\ g[3] = f[3]
  <2>1. 2 \in 1 .. n /\ 3 \in 1 .. n /\ 2 # i /\ 3 # i
    BY <1>1
  <2> QED
    BY <1>2, <2>1
<1>4. n = 256 * g[2] + g[3] /\ Len(g) >= n
  BY <1>1, <1>2, <1>3
<1> SUFFICES ASSUME isOneChatPackage(g).is
             PROVE  FALSE
  BY Zenon DEF g
<1>5. g[1] = 122 /\ g[n] = 123 /\ g[n - 2] = crc16(c)[2] /\ g[n - 1] = crc16(c)[1]
  <2>1. n \in Nat /\ n > 10 /\ g \in Seq(Byte)
    BY <1>1, <1>2
  <2>2. isOneChatPackage(g).is <=> Proper(g, n)
    BY <2>1, <1>4, VerdictIs, Zenon
  <2> QED
    BY <2>2, Zenon DEF Proper
<1>6. /\ a \in Seq(Byte) /\ Len(a) = n - 3
      /\ c \in Seq(Byte) /\ Len(c) = n - 3
      /\ \A k \in 1 .. n - 3 : a[k] = f[k] /\ c[k] = g[k]
  <2>1. n - 3 \in Int /\ 1 <= n - 3 /\ (n - 3) - 1 + 1 = n - 3
        /\ \A k \in 1 .. n - 3 : f[k] \in Byte /\ g[k] \in Byte /\ 1 + k - 1 = k
    BY <1>1, <1>2
  <2>2. /\ a \in Seq(Byte) /\ Len(a) = n - 3
        /\ \A k \in 1 .. (n - 3) - 1 + 1 : a[k] = f[1 + k - 1]
    BY <2>1, SubSeqProperties
  <2>3. /\ c \in Seq(Byte) /\ Len(c) = n - 3
        /\ \A k \in 1 .. (n - 3) - 1 + 1 : c[k] = g[1 + k - 1]
    BY <2>1, SubSeqProperties
  <2> HIDE DEF a, c
  <2> QED
    BY <2>1, <2>2, <2>3
<1> HIDE DEF a, c
<1>7. crc16(a) \in Byte \X Byte /\ crc16(c) \in Byte \X Byte
  BY <1>6, ChecksumIsModbus
<1>8. CASE i > n - 3
  <2>1. i \in {n - 2, n - 1, n}
    BY <1>1, <1>8
  <2>2. a = c
    <3>1. \A k \in 1 .. n - 3 : a[k] = c[k]
      BY <1>1, <1>2, <1>6, <1>8
    <3> QED
      BY <1>6, <3>1
  <2>3. b = g[i] /\ b # f[i]
    BY <1>2
  <2> QED
    BY <1>1, <1>5, <2>1, <2>2, <2>3
<1>9. CASE i <= n - 3
  <2>1. i \in 1 .. Len(a) /\ a[i] # c[i]
    BY <1>1, <1>2, <1>6, <1>9
  <2>2. \A k \in 1 .. Len(a) : k # i => a[k] = c[k]
    BY <1>1, <1>2, <1>6
  <2>3. crc16(a) # crc16(c)
    <3>1. Len(a) = Len(c)
      BY <1>6
    <3> QED
      BY <1>6, <2>1, <2>2, <3>1, OneByteTells, Zenon
  <2>4. ASSUME crc16(a)[1] = crc16(c)[1], crc16(a)[2] = crc16(c)[2]
        PROVE  FALSE
    BY <1>7, <2>3, <2>4
  <2>5. g[n - 1] = f[n - 1] /\ g[n - 2] = f[n - 2]
    <3>1. n - 1 \in 1 .. n /\ n - 2 \in 1 .. n /\ n - 1 # i /\ n - 2 # i
      BY <1>1, <1>9
    <3> QED
      BY <1>2, <3>1
  <2> QED
    BY <1>1, <1>5, <2>4, <2>5
<1>10. i > n - 3 \/ i <= n - 3
  BY <1>1
<1> QED
  BY <1>8, <1>9, <1>10

-----------------------------------------------------------------------------
(* Answers *)

(* The checksums of the three answers, step by step. Some values of xor.   *)
LEMMA Xors ==
  /\ xor(28, 193) = 221
  /\ xor(34, 12) = 46
  /\ xor(62, 0) = 62
  /\ xor(76, 129) = 205
  /\ xor(80, 1) = 81
  /\ xor(88, 0) = 88
  /\ xor(122, 0) = 122
  /\ xor(123, 49) = 74
  /\ xor(123, 63) = 68
  /\ xor(128, 34) = 162
  /\ xor(128, 110) = 238
  /\ xor(129, 1) = 128
  /\ xor(153, 193) = 88
  /\ xor(163, 129) = 34
  /\ xor(185, 0) = 185
  /\ xor(185, 129) = 56
  /\ xor(208, 128) = 80
  /\ xor(221, 1) = 220
  /\ xor(250, 128) = 122
  /\ xor(250, 129) = 123
  /\ xor(252, 1) = 253
  /\ xor(253, 0) = 253
  /\ xor(255, 122) = 133
  /\ xor(255, 193) = 62
BY DEF xor

(* Some entries of the tables.                                             *)
LEMMA Entries ==
  /\ auchCRCHi[47] = 28
  /\ auchCRCHi[63] = 208
  /\ auchCRCHi[69] = 51
  /\ auchCRCHi[75] = 247
  /\ auchCRCHi[82] = 252
  /\ auchCRCHi[89] = 250
  /\ auchCRCHi[123] = 227
  /\ auchCRCHi[134] = 163
  /\ auchCRCHi[163] = 185
  /\ auchCRCHi[221] = 153
  /\ auchCRCHi[239] = 76
  /\ auchCRCHi[254] = 129
  /\ auchCRCLo[47] = 128
  /\ auchCRCLo[63] = 129
  /\ auchCRCLo[69] = 0
  /\ auchCRCLo[75] = 129
  /\ auchCRCLo[82] = 193
  /\ auchCRCLo[89] = 1
  /\ auchCRCLo[123] = 129
  /\ auchCRCLo[134] = 193
  /\ auchCRCLo[163] = 129
  /\ auchCRCLo[221] = 1
  /\ auchCRCLo[239] = 128
  /\ auchCRCLo[254] = 193
BY DEF auchCRCHi, auchCRCLo

(* One turn of the loop, by what it looks up.                              *)
LEMMA Turn ==
  ASSUME NEW h, NEW l, NEW b, NEW u \in Nat, NEW i, xor(l, b) = u, i = u + 1
  PROVE  CrcStep(<<h, l>>, b) = <<auchCRCHi[i], xor(h, auchCRCLo[i])>>
<1>1. <<h, l>>[1] = h /\ <<h, l>>[2] = l
 OBVIOUS
<1> QED
 BY <1>1 DEF CrcStep
(* The register before and after some turns.                               *)
LEMMA HeadTurns ==
  /\ CrcStep(<<255, 255>>, 122) = <<163, 62>>
  /\ CrcStep(<<163, 62>>, 0) = <<208, 34>>
  /\ CrcStep(<<208, 34>>, 12) = <<28, 80>>
  /\ CrcStep(<<28, 80>>, 1) = <<252, 221>>
  /\ CrcStep(<<252, 221>>, 1) = <<153, 253>>
  /\ CrcStep(<<153, 253>>, 0) = <<129, 88>>
  /\ CrcStep(<<129, 88>>, 0) = <<250, 128>>
  /\ CrcStep(<<250, 128>>, 110) = <<76, 122>>
  /\ CrcStep(<<76, 122>>, 0) = <<227, 205>>
  /\ CrcStep(<<250, 128>>, 34) = <<185, 123>>
  /\ CrcStep(<<185, 123>>, 49) = <<247, 56>>
  /\ CrcStep(<<185, 123>>, 63) = <<51, 185>>
<1>1. CrcStep(<<255, 255>>, 122) = <<163, 62>>
  <2>1. CrcStep(<<255, 255>>, 122) = <<auchCRCHi[134], xor(255, auchCRCLo[134])>>
    BY Xors, Turn
  <2> QED
    BY <2>1, Xors, Entries
<1>2. CrcStep(<<163, 62>>, 0) = <<208, 34>>
  <2>1. CrcStep(<<163, 62>>, 0) = <<auchCRCHi[63], xor(163, auchCRCLo[63])>>
    BY Xors, Turn
  <2> QED
    BY <2>1, Xors, Entries
<1>3. CrcStep(<<208, 34>>, 12) = <<28, 80>>
  <2>1. CrcStep(<<208, 34>>, 12) = <<auchCRCHi[47], xor(208, auchCRCLo[47])>>
    BY Xors, Turn
  <2> QED
    BY <2>1, Xors, Entries
<1>4. CrcStep(<<28, 80>>, 1) = <<252, 221>>
  <2>1. CrcStep(<<28, 80>>, 1) = <<auchCRCHi[82], xor(28, auchCRCLo[82])>>
    BY Xors, Turn
  <2> QED
    BY <2>1, Xors, Entries
<1>5. CrcStep(<<252, 221>>, 1) = <<153, 253>>
  <2>1. CrcStep(<<252, 221>>, 1) = <<auchCRCHi[221], xor(252, auchCRCLo[221])>>
    BY Xors, Turn
  <2> QED
    BY <2>1, Xors, Entries
<1>6. CrcStep(<<153, 253>>, 0) = <<129, 88>>
  <2>1. CrcStep(<<153, 253>>, 0) = <<auchCRCHi[254], xor(153, auchCRCLo[254])>>
    BY Xors, Turn
  <2> QED
    BY <2>1, Xors, Entries
<1>7. CrcStep(<<129, 88>>, 0) = <<250, 128>>
  <2>1. CrcStep(<<129, 88>>, 0) = <<auchCRCHi[89], xor(129, auchCRCLo[89])>>
    BY Xors, Turn
  <2> QED
    BY <2>1, Xors, Entries
<1>8. CrcStep(<<250, 128>>, 110) = <<76, 122>>
  <2>1. CrcStep(<<250, 128>>, 110) = <<auchCRCHi[239], xor(250, auchCRCLo[239])>>
    BY Xors, Turn
  <2> QED
    BY <2>1, Xors, Entries
<1>9. CrcStep(<<76, 122>>, 0) = <<227, 205>>
  <2>1. CrcStep(<<76, 122>>, 0) = <<auchCRCHi[123], xor(76, auchCRCLo[123])>>
    BY Xors, Turn
  <2> QED
    BY <2>1, Xors, Entries
<1>10. CrcStep(<<250, 128>>, 34) = <<185, 123>>
  <2>1. CrcStep(<<250, 128>>, 34) = <<auchCRCHi[163], xor(250, auchCRCLo[163])>>
    BY Xors, Turn
  <2> QED
    BY <2>1, Xors, Entries
<1>11. CrcStep(<<185, 123>>, 49) = <<247, 56>>
  <2>1. CrcStep(<<185, 123>>, 49) = <<auchCRCHi[75], xor(185, auchCRCLo[75])>>
    BY Xors, Turn
  <2> QED
    BY <2>1, Xors, Entries
<1>12. CrcStep(<<185, 123>>, 63) = <<51, 185>>
  <2>1. CrcStep(<<185, 123>>, 63) = <<auchCRCHi[69], xor(185, auchCRCLo[69])>>
    BY Xors, Turn
  <2> QED
    BY <2>1, Xors, Entries
<1> QED
  BY <1>1, <1>2, <1>3, <1>4, <1>5, <1>6, <1>7, <1>8, <1>9, <1>10, <1>11, <1>12

(* The frame of an answer has twelve bytes.                                *)
LEMMA JsonFrame ==
  ASSUME NEW id \in Texts \cup {NoId}, NEW f, f = Packed[id]
  PROVE  /\ CRYPT_UNKNOW \in Byte /\ DATA_STRING \in Byte /\ Json(id) \in Seq(Byte)
         /\ Len(Json(id)) > 0 /\ Len(Json(id)) + CHAT_LENGTH \in Word
         /\ f = Compose(CRYPT_UNKNOW, DATA_STRING, Json(id))
         /\ Sealed(f, 12) /\ f[2] = 0 /\ f[3] = 12
         /\ SubSeq(f, 1, 9) = Header(12, DATA_STRING, CRYPT_UNKNOW) \o Json(id)
<1> DEFINE p == Json(id)
<1>1. CRYPT_UNKNOW \in Byte /\ DATA_STRING \in Byte
  BY Literals DEF CRYPT_UNKNOW, DATA_STRING
<1>2. p \in Seq(Byte) /\ Len(p) = 2
  <2>1. id \in {0, 49, 63}
    BY DEF Texts, NoId
  <2>2. 0 \in Byte /\ 49 \in Byte /\ 63 \in Byte /\ 110 \in Byte /\ 34 \in Byte
    BY DEF Byte
  <2>3. id \in Byte
    BY <2>1, <2>2
  <2>4. p = <<110, 0>> \/ p = <<34, id>>
    BY DEF Json
  <2>5. /\ <<110, 0>> \in Seq(Byte) /\ Len(<<110, 0>>) = 2
        /\ <<34, id>> \in Seq(Byte) /\ Len(<<34, id>>) = 2
    BY <2>2, <2>3
  <2> HIDE DEF p
  <2> QED
    BY <2>4, <2>5, Zenon
<1>3. Len(p) + CHAT_LENGTH = 12 /\ 12 \in Word
  BY <1>2 DEF CHAT_LENGTH, CHAT_HEADER, CHAT_TAIL, Word
<1>4. f = Compose(CRYPT_UNKNOW, DATA_STRING, p)
  BY DEF Packed
<1> DEFINE n == Len(p) + CHAT_LENGTH
<1>5. n = 12 /\ n - 3 = 9
  BY <1>3
<1>6. Sealed(f, n) /\ SubSeq(f, 1, n - 3) = Header(n, DATA_STRING, CRYPT_UNKNOW) \o p
  <2>1. Len(p) > 0 /\ Len(p) + CHAT_LENGTH \in Word
    BY <1>2, <1>3
  <2>2. n = Len(p) + CHAT_LENGTH
    OBVIOUS
  <2> HIDE DEF p, n
  <2>3. p \in Seq(Byte)
    BY <1>2
  <2>4. Sealed(f, n)
    BY <1>1, <1>4, <2>1, <2>2, <2>3, Composed, Zenon
  <2>5. Headed(f, n, Header(n, DATA_STRING, CRYPT_UNKNOW) \o p)
    BY <1>1, <1>4, <2>1, <2>2, <2>3, Composed, Zenon
  <2> QED
    BY <2>4, <2>5 DEF Headed
<1> HIDE DEF n
<1>7. Sealed(f, 12) /\ SubSeq(f, 1, 9) = Header(12, DATA_STRING, CRYPT_UNKNOW) \o p
  BY <1>5, <1>6
<1>8. f[2] = 0 /\ f[3] = 12
  <2>1. f[2] \in Byte /\ f[3] \in Byte /\ 256 * f[2] + f[3] = 12
    BY <1>7 DEF Sealed
  <2>2. f[2] \in Nat /\ f[3] \in Nat /\ f[3] <= 255
    BY <2>1, ByteIs
  <2> QED
    BY <2>1, <2>2
<1>9. Len(p) > 0 /\ Len(p) + CHAT_LENGTH \in Word
  BY <1>2, <1>3
<1> QED
  BY <1>1, <1>2, <1>4, <1>7, <1>8, <1>9

(* The elements of a sequence in front of another one.                     *)
LEMMA InFront ==
  ASSUME NEW h \in Seq(Byte), NEW p \in Seq(Byte), NEW k \in 1 .. Len(h)
  PROVE  (h \o p)[k] = h[k]
OBVIOUS
(* And those of the second.                                                *)
LEMMA Behind ==
  ASSUME NEW h \in Seq(Byte), NEW p \in Seq(Byte), NEW k \in 1 .. Len(p),
         NEW i \in Nat, i = Len(h) + k
  PROVE  (h \o p)[i] = p[k]
OBVIOUS

HeadIs(m, id) ==
  /\ m \in Seq(Byte) /\ Len(m) = 9
  /\ m[1] = 122 /\ m[2] = 0 /\ m[3] = 12 /\ m[4] = 1 /\ m[5] = 1
  /\ m[6] = 0 /\ m[7] = 0
  /\ m[8] = Json(id)[1] /\ m[9] = Json(id)[2]

(* The bytes that the checksum of an answer is computed of.                *)
LEMMA HeadBytes ==
  ASSUME NEW id \in Texts \cup {NoId}, NEW m,
         m = Header(12, DATA_STRING, CRYPT_UNKNOW) \o Json(id)
  PROVE  HeadIs(m, id)
<1> DEFINE h == Header(12, DATA_STRING, CRYPT_UNKNOW)
           p == Json(id)
<1>1. h = <<122, 0, 12, 1, 1, 0, 0>>
  <2>1. (12 \div 256) % 256 = 0 /\ 12 % 256 = 12
    OBVIOUS
  <2> QED
    BY <2>1 DEF Header, DATA_STRING, CRYPT_UNKNOW
<1>2. 0 \in Byte /\ 1 \in Byte /\ 12 \in Byte /\ 122 \in Byte
  BY DEF Byte
<1>3. /\ h \in Seq(Byte) /\ Len(h) = 7
      /\ h[1] = 122 /\ h[2] = 0 /\ h[3] = 12 /\ h[4] = 1 /\ h[5] = 1
      /\ h[6] = 0 /\ h[7] = 0
  <2> HIDE DEF h
  <2> QED
    BY <1>1, <1>2
<1>4. p \in Seq(Byte) /\ Len(p) = 2
  <2>1. p \in Seq(Byte) 
    BY JsonFrame
  <2>2. p = <<110, 0>> \/ p = <<34, id>>
    BY DEF Json
  <2> HIDE DEF p
  <2> QED
    BY <2>1, <2>2
<1>5. m = h \o p
  OBVIOUS
<1> HIDE DEF h, p
<1>6. h \in Seq(Byte) /\ p \in Seq(Byte)
  BY <1>3, <1>4
<1>7. m \in Seq(Byte) /\ Len(m) = 9
  <2>1. h \o p \in Seq(Byte) /\ Len(h \o p) = Len(h) + Len(p)
    BY <1>6, ConcatProperties
  <2>2. Len(h) + Len(p) = 9
    BY <1>3, <1>4
  <2> QED
    BY <1>5, <2>1, <2>2, Zenon
<1>8. /\ m[1] = h[1] /\ m[2] = h[2] /\ m[3] = h[3] /\ m[4] = h[4] /\ m[5] = h[5]
      /\ m[6] = h[6] /\ m[7] = h[7] /\ m[8] = p[1] /\ m[9] = p[2]
  <2>1. \A k \in 1 .. Len(h) : m[k] = h[k]
    BY <1>5, <1>6, InFront, Zenon
  <2>2. \A k \in 1 .. Len(p) : \A i \in Nat : i = Len(h) + k => m[i] = p[k]
    <3>1. \A k \in 1 .. Len(p) : \A i \in Nat : i = Len(h) + k => (h \o p)[i] = p[k]
      BY <1>6, Behind
    <3> QED
      BY <1>5, <3>1, Zenon
  <2>3. 1 \in 1 .. Len(h) /\ 2 \in 1 .. Len(h) /\ 3 \in 1 .. Len(h) /\ 4 \in 1 .. Len(h)
        /\ 5 \in 1 .. Len(h) /\ 6 \in 1 .. Len(h) /\ 7 \in 1 .. Len(h)
    BY <1>3
  <2>4. 1 \in 1 .. Len(p) /\ 2 \in 1 .. Len(p) /\ 8 = Len(h) + 1 /\ 9 = Len(h) + 2
        /\ 8 \in Nat /\ 9 \in Nat
    BY <1>3, <1>4
  <2>5. m[8] = p[1] /\ m[9] = p[2]
    BY <2>2, <2>4, Zenon
  <2> QED
    BY <2>1, <2>3, <2>5, Zenon
<1> QED
  BY <1>3, <1>7, <1>8, Zenon DEF p, HeadIs

(* The high byte of the checksum is not the tail byte.                     *)
LEMMA HighByte ==
  ASSUME NEW id \in Texts \cup {NoId}
  PROVE  Packed[id][11] # 123
<1> DEFINE f == Packed[id]
           m == SubSeq(f, 1, 9)
<1>1. Sealed(f, 12) /\ m = Header(12, DATA_STRING, CRYPT_UNKNOW) \o Json(id)
  BY JsonFrame
<1>2. f[11] = crc16(m)[1]
  <2> HIDE DEF f
  <2> QED
    BY <1>1 DEF Sealed, Proper
<1> HIDE DEF f, m
<1>3. /\ m \in Seq(Byte) /\ Len(m) = 9
      /\ m[1] = 122 /\ m[2] = 0 /\ m[3] = 12 /\ m[4] = 1 /\ m[5] = 1
      /\ m[6] = 0 /\ m[7] = 0
      /\ m[8] = Json(id)[1] /\ m[9] = Json(id)[2]
  <2>1. HeadIs(m, id)
    BY <1>1, HeadBytes, Zenon
  <2> QED
    BY <2>1, Zenon DEF HeadIs
<1>4. PICK g : CrcRun(g, m, 9) /\ crc16(m) = g[9]
  <2>1. \E g : CrcRun(g, m, Len(m)) /\ crc16(m) = g[Len(m)]
    BY <1>3, CrcOutcome
  <2> QED
    BY <1>3, <2>1
<1>5. g[0] = <<255, 255>> /\ \A k \in 1 .. 9 : g[k] = CrcStep(g[k - 1], m[k])
  BY <1>4, CrcRunValues
<1>6. g[8] = CrcStep(g[7], m[8]) /\ g[9] = CrcStep(g[8], m[9])
  BY <1>5
<1>7. g[7] = <<250, 128>>
  <2>1. g[1] = <<163, 62>>
    <3>1. g[1] = CrcStep(g[0], m[1])
      BY <1>5
    <3>2. g[1] = CrcStep(<<255, 255>>, 122)
      BY <1>3, <3>1, <1>5, Zenon
    <3> QED
      BY <3>2, HeadTurns
  <2>2. g[2] = <<208, 34>>
    <3>1. g[2] = CrcStep(g[1], m[2])
      BY <1>5
    <3>2. g[2] = CrcStep(<<163, 62>>, 0)
      BY <1>3, <3>1, <2>1, Zenon
    <3> QED
      BY <3>2, HeadTurns
  <2>3. g[3] = <<28, 80>>
    <3>1. g[3] = CrcStep(g[2], m[3])
      BY <1>5
    <3>2. g[3] = CrcStep(<<208, 34>>, 12)
      BY <1>3, <3>1, <2>2, Zenon
    <3> QED
      BY <3>2, HeadTurns
  <2>4. g[4] = <<252, 221>>
    <3>1. g[4] = CrcStep(g[3], m[4])
      BY <1>5
    <3>2. g[4] = CrcStep(<<28, 80>>, 1)
      BY <1>3, <3>1, <2>3, Zenon
    <3> QED
      BY <3>2, HeadTurns
  <2>5. g[5] = <<153, 253>>
    <3>1. g[5] = CrcStep(g[4], m[5])
      BY <1>5
    <3>2. g[5] = CrcStep(<<252, 221>>, 1)
      BY <1>3, <3>1, <2>4, Zenon
    <3> QED
      BY <3>2, HeadTurns
  <2>6. g[6] = <<129, 88>>
    <3>1. g[6] = CrcStep(g[5], m[6])
      BY <1>5
    <3>2. g[6] = CrcStep(<<153, 253>>, 0)
      BY <1>3, <3>1, <2>5, Zenon
    <3> QED
      BY <3>2, HeadTurns
  <2>7. g[7] = <<250, 128>>
    <3>1. g[7] = CrcStep(g[6], m[7])
      BY <1>5
    <3>2. g[7] = CrcStep(<<129, 88>>, 0)
      BY <1>3, <3>1, <2>6, Zenon
    <3> QED
      BY <3>2, HeadTurns
  <2> QED
    BY <2>7
<1>8. \/ m[8] = 110 /\ m[9] = 0
      \/ m[8] = 34 /\ m[9] = 49
      \/ m[8] = 34 /\ m[9] = 63
  BY <1>3 DEF Json, Texts, NoId
<1>9. g[9] \in {<<227, 205>>, <<247, 56>>, <<51, 185>>}
  BY <1>6, <1>7, <1>8, HeadTurns
<1>10. g[9][1] \in {227, 247, 51}
  BY <1>9
<1>11. f[11] # 123
  BY <1>2, <1>4, <1>10
<1> QED
  BY <1>11 DEF f

(* A frame that promises more than is there is waited for.                 *)
LEMMA Waits ==
  ASSUME NEW g, NEW d \in Nat, d = 256 * g[2] + g[3], g[1] = 122, d > 10,
         Len(g) \in Nat, Len(g) < d
  PROVE  isOneChatPackage(g).want # 0
<1> DEFINE e == 256 * g[2] + g[3]
           size == e - CHAT_TAIL
           here == g[1] = 122 /\ e > CHAT_LENGTH
           whole == /\ g[e] = 123
                    /\ SubSeq(g, size + 1, size + 2) =
                           SubSeq(Tail_(SubSeq(g, 1, size)), 1, 2)
<1>1. isOneChatPackage(g) =
        IF here /\ Len(g) < e
        THEN [is |-> TRUE, frame |-> e, want |-> e - Len(g)]
        ELSE [is |-> here /\ whole, frame |-> IF here /\ whole THEN e ELSE 0, want |-> 0]
  BY Zenon DEF isOneChatPackage
<1>2. here /\ Len(g) < e
  BY DEF CHAT_LENGTH, CHAT_HEADER, CHAT_TAIL
<1>3. e - Len(g) # 0
  OBVIOUS
<1> HIDE DEF here, whole, e
<1>4. isOneChatPackage(g) = [is |-> TRUE, frame |-> e, want |-> e - Len(g)]
  BY <1>1, <1>2, Zenon
<1> QED
  BY <1>3, <1>4

(* One that promises less than a frame is none.                            *)
LEMMA TooShort ==
  ASSUME NEW g, NEW d \in Nat, d = 256 * g[2] + g[3], d <= 10
  PROVE  ~ isOneChatPackage(g).is
<1> DEFINE e == 256 * g[2] + g[3]
           size == e - CHAT_TAIL
           here == g[1] = 122 /\ e > CHAT_LENGTH
           whole == /\ g[e] = 123
                    /\ SubSeq(g, size + 1, size + 2) =
                           SubSeq(Tail_(SubSeq(g, 1, size)), 1, 2)
<1>1. isOneChatPackage(g) =
        IF here /\ Len(g) < e
        THEN [is |-> TRUE, frame |-> e, want |-> e - Len(g)]
        ELSE [is |-> here /\ whole, frame |-> IF here /\ whole THEN e ELSE 0, want |-> 0]
  BY Zenon DEF isOneChatPackage
<1>2. ~ (e > CHAT_LENGTH)
  BY DEF CHAT_LENGTH, CHAT_HEADER, CHAT_TAIL
<1>3. ~ here
  BY <1>2, Zenon
<1> HIDE DEF here, whole, e
<1>4. isOneChatPackage(g) = [is |-> here /\ whole, frame |-> IF here /\ whole THEN e ELSE 0, want |-> 0]
  BY <1>1, <1>3, Zenon
<1>5. isOneChatPackage(g).is = (here /\ whole)
  <2> DEFINE b == here /\ whole
             v == [is |-> b, frame |-> IF b THEN e ELSE 0, want |-> 0]
  <2>1. v.is = b
    BY Zenon
  <2>2. isOneChatPackage(g) = v
    BY <1>4, Zenon
  <2> HIDE DEF v
  <2> QED
    BY <2>1, <2>2, Zenon
<1> QED
  BY <1>3, <1>5, Zenon

(* No byte of an answer can be changed unseen: a length that has grown     *)
(* makes the client wait, one that is 11 would need another tail.          *)
LEMMA NoneAccepted ==
  ASSUME NEW frame \in Frames, NEW bad \in Damaged(frame)
  PROVE  ~ (isOneChatPackage(bad).is /\ isOneChatPackage(bad).want = 0)
<1>1. PICK id \in Texts \cup {NoId} : frame = Packed[id]
  <2>1. DOMAIN Packed = Texts \cup {NoId}
    BY DEF Packed
  <2> QED
    BY <2>1, Zenon DEF Frames
<1>2. PICK i \in 1 .. Len(frame), b \in Byte :
         b # frame[i] /\ bad = [frame EXCEPT ![i] = b]
  <2>1. bad \in UNION {{[frame EXCEPT ![i] = b] : b \in Byte \ {frame[i]}} :
                         i \in 1 .. Len(frame)}
    BY DEF Damaged, Byte
  <2>2. PICK i \in 1 .. Len(frame) : bad \in {[frame EXCEPT ![i] = b] : b \in Byte \ {frame[i]}}
    BY <2>1, Zenon
  <2> QED
    BY <2>2, Zenon
<1>3. /\ CRYPT_UNKNOW \in Byte /\ DATA_STRING \in Byte /\ Json(id) \in Seq(Byte)
      /\ Len(Json(id)) > 0 /\ Len(Json(id)) + CHAT_LENGTH \in Word
      /\ frame = Compose(CRYPT_UNKNOW, DATA_STRING, Json(id))
      /\ Sealed(frame, 12) /\ frame[2] = 0 /\ frame[3] = 12
  BY <1>1, JsonFrame
<1>4. frame \in Seq(Byte) /\ Len(frame) = 12 /\ frame[1] = 122
  BY <1>3 DEF Sealed, Proper
<1>5. /\ bad \in Seq(Byte) /\ Len(bad) = 12 /\ bad[i] = b /\ b # frame[i]
      /\ \A k \in 1 .. 12 : k # i => bad[k] = frame[k]
  <2>1. /\ bad \in Seq(Byte) /\ Len(bad) = Len(frame) /\ bad[i] = b
        /\ \A k \in 1 .. Len(frame) : k # i => bad[k] = frame[k]
    <3>1. /\ [frame EXCEPT ![i] = b] \in Seq(Byte)
          /\ Len([frame EXCEPT ![i] = b]) = Len(frame)
          /\ \A k \in 1 .. Len(frame) :
                [frame EXCEPT ![i] = b][k] = IF k = i THEN b ELSE frame[k]
      <4>1. frame \in Seq(Byte)
        BY <1>4
      <4> QED
        BY <1>2, <4>1, ExceptSeq
    <3>2. /\ bad \in Seq(Byte) /\ Len(bad) = Len(frame)
          /\ \A k \in 1 .. Len(frame) : bad[k] = IF k = i THEN b ELSE frame[k]
      BY <1>2, <3>1, Zenon
    <3> QED
      BY <3>2, Zenon
  <2> QED
    BY <1>2, <1>4, <2>1
<1>6. b \in Nat /\ b <= 255
  BY <1>2, ByteIs
<1>7. CASE i \notin {2, 3}
  BY <1>2, <1>3, <1>7, DamageShows, Zenon
<1>8. CASE i = 2
  <2>1. bad[1] = 122 /\ bad[2] = b /\ bad[3] = 12 /\ b # 0
    BY <1>3, <1>4, <1>5, <1>8
  <2> DEFINE d == 256 * b + 12
  <2>2. d \in Nat /\ d = 256 * bad[2] + bad[3] /\ d > 12
    BY <1>6, <2>1
  <2> HIDE DEF d
  <2>3. Len(bad) \in Nat /\ Len(bad) < d /\ d > 10
    BY <1>5, <2>2
  <2> QED
    BY <2>1, <2>2, <2>3, Waits
<1>9. CASE i = 3
  <2>1. bad[1] = 122 /\ bad[2] = 0 /\ bad[3] = b /\ b # 12 /\ bad[11] = frame[11]
    BY <1>3, <1>4, <1>5, <1>9
  <2>2. b = 256 * bad[2] + bad[3]
    BY <1>6, <2>1
  <2>3. CASE b > 12
    <3>1. Len(bad) \in Nat /\ Len(bad) < b /\ b > 10
      BY <1>5, <1>6, <2>3
    <3> QED
      BY <1>6, <2>1, <2>2, <3>1, Waits
  <2>4. CASE b = 11
    <3> DEFINE n == 11
    <3>1. n \in Nat /\ n > 10 /\ n = 256 * bad[2] + bad[3] /\ Len(bad) >= n
      BY <1>5, <2>2, <2>4
    <3>2. bad[n] # 123
      BY <1>1, <2>1, HighByte
    <3> HIDE DEF n
    <3>3. ~ Proper(bad, n)
      BY <3>2 DEF Proper
    <3>4. isOneChatPackage(bad).is <=> Proper(bad, n)
      BY <1>5, <3>1, VerdictIs, Zenon
    <3> QED
      BY <3>3, <3>4, Zenon
  <2>5. CASE b <= 10
    BY <1>6, <2>2, <2>5, TooShort
  <2> QED
    BY <1>6, <2>1, <2>3, <2>4, <2>5
<1> QED
  BY <1>7, <1>8, <1>9

(* The messages that TLC compares the two computations on.                 *)
LEMMA TheTablesAgree == TablesAgree
<1>1. ASSUME NEW m \in Messages \cup Frames
      PROVE  m \in Seq(Byte)
  <2>1. CASE m \in Messages
    <3>1. 1 \in Byte /\ 128 \in Byte
      BY DEF Byte
    <3>2. Messages = {<<b>> : b \in Byte} \cup {<<a, b>> : a \in {1, 128}, b \in Byte}
      BY DEF Messages, Byte
    <3>3. CASE m \in {<<b>> : b \in Byte}
      <4>1. PICK b \in Byte : m = <<b>>
        BY <3>3, Zenon
      <4> QED
        BY <4>1
    <3>4. CASE m \in {<<a, b>> : a \in {1, 128}, b \in Byte}
      <4>1. PICK a \in {1, 128}, b \in Byte : m = <<a, b>>
        BY <3>4
      <4>2. a \in Byte
        BY <3>1
      <4> QED
        BY <4>1, <4>2
    <3> QED
      BY <2>1, <3>2, <3>3, <3>4
  <2>2. CASE m \in Frames
    <3>1. PICK id \in Texts \cup {NoId} : m = Packed[id]
      <4>1. DOMAIN Packed = Texts \cup {NoId}
        BY DEF Packed
      <4> QED
        BY <2>2, <4>1, Zenon DEF Frames
    <3>2. Sealed(m, 12)
      BY <3>1, JsonFrame
    <3> QED
      BY <3>2 DEF Sealed
  <2> QED
    BY <2>1, <2>2
<1> QED
  BY <1>1, ChecksumIsModbus DEF TablesAgree

(* Every answer that is sent is sound.                                     *)
LEMMA AnswersAreSound ==
  ASSUME SignInTypeOK
  PROVE  ResponsesSound
<1> SUFFICES ASSUME NEW t \in Threads, stage[t] = "send"
             PROVE  /\ isOneChatPackage(Sent(t)) = Whole(Sent(t))
                    /\ Sent(t) \notin Accepted
                    /\ LET frame == Sent(t)
                           n == Len(frame)
                       IN  frame[n - 2] + 256 * frame[n - 1] = Modbus(SubSeq(frame, 1, n - 3))
  BY TheTablesAgree, Zenon DEF ResponsesSound, ResponseIsWhole, DamageIsSeen, CrcIsModbus
<1>1. response[t] \in Texts \cup {NoId}
  BY DEF SignInTypeOK
<1> DEFINE f == Sent(t)
<1>2. f = Packed[response[t]]
  BY DEF Sent
<1>3. /\ CRYPT_UNKNOW \in Byte /\ DATA_STRING \in Byte /\ Json(response[t]) \in Seq(Byte)
      /\ Len(Json(response[t])) > 0 /\ Len(Json(response[t])) + CHAT_LENGTH \in Word
      /\ f = Compose(CRYPT_UNKNOW, DATA_STRING, Json(response[t]))
      /\ Sealed(f, 12)
      /\ SubSeq(f, 1, 9) = Header(12, DATA_STRING, CRYPT_UNKNOW) \o Json(response[t])
  BY <1>1, <1>2, JsonFrame
<1> HIDE DEF f
<1>4. isOneChatPackage(f) = Whole(f)
  BY <1>3, FramesRecognised, Zenon
<1>5. f \notin Accepted
  BY NoneAccepted, Zenon DEF Accepted
<1>6. Len(f) = 12 /\ f[10] + 256 * f[11] = Modbus(SubSeq(f, 1, 9))
  <2> DEFINE m == SubSeq(f, 1, 9)
             crc == crc16(m)
  <2>1. f \in Seq(Byte) /\ Len(f) = 12 /\ f[10] = crc[2] /\ f[11] = crc[1]
    BY <1>3 DEF Sealed, Proper
  <2>2. m \in Seq(Byte)
    BY <1>1, <1>3, HeadBytes DEF HeadIs
  <2> HIDE DEF m
  <2>3. crc \in Byte \X Byte /\ Register(crc) = Modbus(m)
    BY <2>2, ChecksumIsModbus
  <2> HIDE DEF crc
  <2>4. crc[1] \in Byte /\ crc[2] \in Byte
    BY <2>3
  <2>5. crc[1] \in Nat /\ crc[2] \in Nat
    BY <2>4, ByteIs
  <2>6. crc[2] + 256 * crc[1] = Modbus(m)
    BY <2>3, <2>5 DEF Register
  <2> QED
    BY <2>1, <2>6 DEF m
<1>7. LET n == Len(f)
      IN  f[n - 2] + 256 * f[n - 1] = Modbus(SubSeq(f, 1, n - 3))
  BY <1>6
<1> QED
  BY <1>4, <1>5, <1>7, Zenon DEF f

(* Every answer that is sent is a whole frame for isOnePackage, is not     *)
(* taken for one with any byte of it changed, and carries the checksum     *)
(* that Modbus defines. (ChatPackage, crc16, transMessage)                 *)
THEOREM AnswersSound == SignInSpec => []ResponsesSound
<1>1. SignInInv => ResponsesSound
  BY AnswersAreSound DEF SignInInv, PoolAccounted
<1> QED
  BY <1>1, SignInInvHolds, PTL
=============================================================================
