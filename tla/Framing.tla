------------------------------ MODULE Framing -------------------------------
(***************************************************************************)
(* How one connection cuts the bytes it receives into packages:            *)
(* TConnection::recv_framing, transition and read_request with             *)
(* MultipleProtocol, ChatProtocol and EchoProtocol.                        *)
(*                                                                         *)
(* The peer sends a stream of Length bytes.  The bytes that have arrived   *)
(* and not been drained are the input evbuffer: positions drained+1 to     *)
(* arrived of the stream.  An evbuffer is a list of chains and the code    *)
(* looks at the first one only (evbuffer_peek with one vector).            *)
(*                                                                         *)
(* What the bytes say is abstracted to frames: a set of records with the   *)
(* number of bytes before the frame, its size and its kind.  "chat" is a   *)
(* frame of ChatPackage, "bad" one whose tail or CRC is wrong, "echo" one  *)
(* of EchoPackage.  Bytes outside the frames start nothing.  Sizes are to  *)
(* scale: only ChatLength and EchoHeader matter to the code.               *)
(***************************************************************************)
EXTENDS Naturals, Sequences

CONSTANTS Length,      \* bytes the peer sends
          Scripts,     \* what it may send: sets of frames
          ChatLength,  \* CHAT_LENGTH: header and tail of a chat frame
          EchoHeader,  \* sizeof(ECHO_HEADER_t)
          MaxBuffer,   \* maxBufferSize_, the high watermark
          Stale        \* further pointers to the connection in the pipe of its loop

Frame == [kind : {"chat", "bad", "echo"}, at : 0..Length, size : 1..Length]

End(f) == f.at + f.size

ASSUME FramingAssumption ==
  /\ Length \in Nat /\ ChatLength \in Nat \ {0} /\ EchoHeader \in Nat \ {0}
  /\ MaxBuffer \in Nat \ {0} /\ Stale \in Nat
  /\ \A s \in Scripts : \A f \in s :
       /\ f \in Frame /\ End(f) <= Length
       /\ IF f.kind = "echo" THEN f.size >= EchoHeader ELSE f.size > ChatLength
       /\ \A g \in s : f # g => End(f) <= g.at \/ End(g) <= f.at

VARIABLES
  frames,     \* what the peer sends
  arrived,    \* bytes read from the socket
  cuts,       \* positions at which a chain of the evbuffer ended
  drained,    \* bytes drained from the evbuffer
  appstate,   \* TConnection::appstate
  socketState,\* TConnection::socketState: what read_cb calls
  frameSize,  \* TConnection::frameSize_
  readWant,   \* TConnection::readWant_
  pc,         \* "idle", "recv" in recv_framing, "transition" before the switch
              \* of transition(), "closed" once close() has freed the bufferevent
  stale,      \* pointers to the connection that the pipe holds or will hold
  delivered,  \* packages handed to the pool, in order
  beaten,     \* a heart beat has marked the connection
  disturbed   \* something has happened that may cost a frame (Arrive, Renotify)

inputVars == <<frames, arrived, cuts, stale, disturbed>>
stateVars == <<appstate, socketState, beaten>>
vars == <<inputVars, stateVars, drained, frameSize, readWant, pc, delivered>>

(* A bufferevent that has just been enabled (transition from TRANS_INIT).  *)
Init ==
  /\ frames \in Scripts
  /\ arrived = 0 /\ cuts = {} /\ drained = 0
  /\ appstate = "APP_INIT" /\ socketState = "SOCKET_RECV_FRAMING"
  /\ frameSize = 0 /\ readWant = 0 /\ pc = "transition" /\ stale = Stale
  /\ delivered = <<>> /\ disturbed = FALSE /\ beaten = FALSE

-----------------------------------------------------------------------------
(* The input evbuffer. *)

Available == arrived - drained

(* The bytes evbuffer_peek shows: the rest of the first chain. *)
Peeked ==
  {e - drained : e \in {c \in cuts \cup {arrived} :
                          c > drained /\ \A b \in cuts : b > drained => c <= b}}

(* evbuffer_drain removes what there is, at most. *)
AfterDrain(n) == IF n <= Available THEN drained + n ELSE arrived

(* The low watermark that transition() sets. *)
Low == IF socketState = "SOCKET_RECV" THEN readWant ELSE 0

Inside(p, kinds) == \E f \in frames : f.kind \in kinds /\ f.at < p /\ p < End(f)

(* libevent reads bytes up to the high watermark, into the last chain or   *)
(* with C = {c} into a new chain from position c on, and calls read_cb     *)
(* above the low watermark.  A chain that ends inside a frame, or an echo  *)
(* frame that arrives in two pieces, disturbs the framing.                 *)
Arrive(n, C) ==
  /\ pc = "idle"
  /\ arrived + n <= Length
  /\ Available + n <= MaxBuffer
  /\ arrived' = arrived + n
  /\ \A c \in C : drained < c /\ arrived <= c /\ c < arrived + n
  /\ cuts' = cuts \cup C
  /\ pc' = IF Available + n < Low THEN "idle"
           ELSE IF socketState = "SOCKET_RECV" THEN "transition" ELSE "recv"
  /\ disturbed' = \/ disturbed
                  \/ \E c \in C : Inside(c, {"chat", "bad", "echo"})
                  \/ Inside(arrived + n, {"echo"})
  /\ UNCHANGED <<frames, stateVars, drained, frameSize, readWant, stale, delivered>>

-----------------------------------------------------------------------------
(* Parsing len bytes at the front of the evbuffer. *)

Starting(kinds) == {f \in frames : f.kind \in kinds /\ f.at = drained}

(* What parseOnePackage returns: framePos, frameSize and readWant. *)
Result(ok, pos, size, want) == [ok |-> ok, pos |-> pos, size |-> size, want |-> want]

(* An isOnePackage that takes a frame that is not complete for junk. *)
isOnePackage_Impatient(f, len) ==
  IF f.kind = "chat" /\ len >= f.size THEN Result(TRUE, 0, f.size, 0)
  ELSE Result(FALSE, len, 0, 0)

(* ChatPackage::isOnePackage on a frame of which len bytes are there; the  *)
(* callers turn "true" with readWant # 0 into false.                       *)
isOnePackage(f, len) ==
  IF len < f.size THEN Result(FALSE, 0, f.size, f.size - len)
  ELSE IF f.kind = "chat" THEN Result(TRUE, 0, f.size, 0)
  ELSE Result(FALSE, len, 0, 0)

FrontFrame == CHOOSE f \in Starting({"chat", "bad"}) : TRUE

(* ChatProtocol::parseOnePackage: the loop tests the same bytes len times, *)
(* so that what does not start with a frame is junk to the last byte.      *)
ChatParse(len) ==
  IF len < ChatLength THEN Result(FALSE, 0, 0, 0)
  ELSE IF Starting({"chat", "bad"}) = {} THEN Result(FALSE, len, 0, 0)
  ELSE isOnePackage(FrontFrame, len)

(* The size in the header of the echo frame f.  EchoProtocol does not look *)
(* at len: a length field that has not arrived is what the memory holds.   *)
EchoSize(f, len) ==
  IF len < EchoHeader THEN EchoHeader..(EchoHeader + Length) ELSE {f.size}

(* EchoProtocol::parseOnePackage *)
EchoParse(len) ==
  UNION {{Result(TRUE, 0, s, 0) : s \in EchoSize(f, len)}
         : f \in Starting({"echo"})}

(* MultipleProtocol::parseOnePackage: the first protocol that says yes. *)
Parse(len) ==
  LET chat == ChatParse(len)
  IN IF chat.ok \/ Starting({"echo"}) = {} THEN {chat} ELSE EchoParse(len)

Package == [kind : {"chat", "echo", "broken"}, at : 0..Length, size : 0..(EchoHeader + Length)]

(* What getOnePackage of the protocols makes of frameSize_ bytes of which  *)
(* len are there: a sequence of at most one package.  A chat frame that is *)
(* not there to its end fails the CRC; an echo frame is taken as it is.    *)
ChatGet(len) ==
  {<<f>> : f \in {g \in Starting({"chat"}) : g.size <= frameSize /\ g.size <= len}}

EchoGet(len) ==
  UNION {{<<[kind |-> IF s = f.size /\ s <= len THEN "echo" ELSE "broken",
             at |-> f.at, size |-> s]>> : s \in {n \in EchoSize(f, len) : n <= frameSize}}
           \cup {<<>> : s \in {n \in EchoSize(f, len) : n > frameSize}}
         : f \in Starting({"echo"})}

(* MultipleProtocol::getOnePackage *)
getOnePackage(len) ==
  IF ChatGet(len) # {} THEN ChatGet(len)
  ELSE IF Starting({"echo"}) # {} THEN EchoGet(len) ELSE {<<>>}

-----------------------------------------------------------------------------
(* recv_framing.  Without input it ends ... *)
RecvNothing ==
  /\ pc = "recv" /\ Available = 0
  /\ pc' = "idle"
  /\ UNCHANGED <<inputVars, stateVars, drained, frameSize, readWant, delivered>>

(* ... with a frame at the front it calls transition() ...                 *)
RecvFrame ==
  /\ pc = "recv"
  /\ \E len \in Peeked : \E r \in Parse(len) :
       /\ r.ok
       /\ frameSize' = r.size /\ readWant' = r.want
  /\ pc' = "transition"
  /\ UNCHANGED <<inputVars, stateVars, drained, delivered>>

(* ... the first bytes of one are left there ...  *)
RecvIncomplete ==
  /\ pc = "recv"
  /\ \E len \in Peeked : \E r \in Parse(len) :
       /\ ~r.ok /\ r.pos = 0
       /\ frameSize' = r.size /\ readWant' = r.want
  /\ pc' = "idle"
  /\ UNCHANGED <<inputVars, stateVars, drained, delivered>>

(* ... and anything else is offered to the HTTP parser and drained.  *)
RecvJunk ==
  /\ pc = "recv"
  /\ \E len \in Peeked : \E r \in Parse(len) :
       /\ ~r.ok /\ r.pos > 0
       /\ frameSize' = r.size /\ readWant' = r.want
       /\ drained' = AfterDrain(r.pos)
  /\ pc' = "idle"
  /\ UNCHANGED <<inputVars, stateVars, delivered>>

-----------------------------------------------------------------------------
(* transition(), a case of its switch at a time. *)
InState(s) == pc = "transition" /\ appstate = s

(* APP_INIT: work the socket right away.  The low watermark is 0 again. *)
AppInit ==
  /\ InState("APP_INIT")
  /\ socketState' = "SOCKET_RECV_FRAMING"
  /\ appstate' = "APP_READ_FRAME_SIZE"
  /\ pc' = "recv"
  /\ UNCHANGED <<inputVars, beaten, drained, frameSize, readWant, delivered>>

(* APP_READ_FRAME_SIZE: on to the package, at once or in the callback that *)
(* comes when readWant_ bytes are there.                                   *)
FrameSize ==
  /\ InState("APP_READ_FRAME_SIZE")
  /\ appstate' = "APP_READ_REQUEST"
  /\ IF readWant = 0 THEN UNCHANGED <<socketState, pc>>
     ELSE socketState' = "SOCKET_RECV" /\ pc' = "idle"
  /\ UNCHANGED <<inputVars, beaten, drained, frameSize, readWant, delivered>>

Deliver ==
  IF Available = 0 THEN UNCHANGED delivered
  ELSE \E len \in Peeked : \E P \in getOnePackage(len) : delivered' = delivered \o P

(* A read_request that leaves the package in the evbuffer. *)
ReadRequest_NoDrain ==
  /\ InState("APP_READ_REQUEST")
  /\ Deliver
  /\ appstate' = "APP_INIT"
  /\ UNCHANGED <<inputVars, socketState, beaten, drained, frameSize, readWant, pc>>

(* A read_request that does not call transition() when it is done. *)
ReadRequest_Wait ==
  /\ InState("APP_READ_REQUEST")
  /\ Deliver
  /\ drained' = AfterDrain(frameSize)
  /\ appstate' = "APP_INIT" /\ pc' = "idle"
  /\ UNCHANGED <<inputVars, socketState, beaten, frameSize, readWant>>

(* APP_READ_REQUEST: read_request.  The package, if there is one, goes to  *)
(* the pool; its bytes are drained; transition() again.                    *)
ReadRequest ==
  /\ InState("APP_READ_REQUEST")
  /\ Deliver
  /\ drained' = AfterDrain(frameSize)
  /\ appstate' = "APP_INIT"
  /\ UNCHANGED <<inputVars, socketState, beaten, frameSize, readWant, pc>>

(* APP_CLOSE_CONNECTION: close().  Nothing is read any more. *)
CloseConnection ==
  /\ InState("APP_CLOSE_CONNECTION")
  /\ pc' = "closed"
  /\ UNCHANGED <<inputVars, stateVars, drained, frameSize, readWant, delivered>>

-----------------------------------------------------------------------------
(* notifyHandler has found a pointer to the connection in its pipe, from a *)
(* heart beat or an earlier life, and calls transition() between two       *)
(* callbacks (Connections!NotifyIgnore).  In the middle of a frame, that   *)
(* waits for readWant_ bytes and takes them for the frame.                 *)
Renotify ==
  /\ pc = "idle" /\ stale > 0 /\ stale' = stale - 1
  /\ pc' = "transition"
  /\ disturbed' = (disturbed \/ readWant # 0)
  /\ UNCHANGED <<frames, arrived, cuts, stateVars, drained, frameSize, readWant, delivered>>

(* heartBeat() on the main thread marks the connection, at any moment and  *)
(* however lately it was used; the next transition() closes it.  (A mark   *)
(* that the IO thread overwrites at once is a step that never was.  The    *)
(* mark that close() itself leaves is written by the IO thread before it   *)
(* can enable the connection again.)                                       *)
HeartBeat ==
  /\ pc # "closed"
  /\ appstate' = "APP_CLOSE_CONNECTION" /\ beaten' = TRUE
  /\ UNCHANGED <<inputVars, socketState, drained, frameSize, readWant, pc, delivered>>

-----------------------------------------------------------------------------
Receive == \E n \in 1..MaxBuffer :
             \/ Arrive(n, {})
             \/ \E c \in arrived..(arrived + n - 1) : Arrive(n, {c})

Callback ==
  \/ RecvNothing \/ RecvFrame \/ RecvIncomplete \/ RecvJunk
  \/ AppInit \/ FrameSize \/ ReadRequest \/ CloseConnection

Next == Receive \/ Callback \/ Renotify \/ HeartBeat

Spec == Init /\ [][Next]_vars

(* The peer sends all it has, the kernel delivers it, and callbacks end. *)
FairSpec == Spec /\ WF_vars(Receive) /\ WF_vars(Callback)

-----------------------------------------------------------------------------
TypeOK ==
  /\ frames \in Scripts
  /\ arrived \in 0..Length
  /\ cuts \subseteq 0..arrived
  /\ drained \in 0..arrived
  /\ appstate \in {"APP_INIT", "APP_READ_FRAME_SIZE", "APP_READ_REQUEST", "APP_CLOSE_CONNECTION"}
  /\ socketState \in {"SOCKET_RECV_FRAMING", "SOCKET_RECV"}
  /\ frameSize \in 0..(EchoHeader + Length)
  /\ readWant \in 0..Length
  /\ pc \in {"idle", "recv", "transition", "closed"}
  /\ stale \in 0..Stale
  /\ delivered \in Seq(Package)
  /\ disturbed \in BOOLEAN /\ beaten \in BOOLEAN

Delivered == {delivered[i] : i \in DOMAIN delivered}

(* However the bytes arrive, whatever junk is between them and whenever a  *)
(* stale pointer calls transition(), the pool gets the chat frames it gets *)
(* as they were sent, once each and in the order of the stream.            *)
DeliveredInOrder ==
  /\ \A i, j \in DOMAIN delivered : i < j => delivered[i].at < delivered[j].at
  /\ \A p \in Delivered : p.kind # "broken" => p \in frames /\ End(p) <= drained

(* Nothing is drained or delivered that has not arrived, or out of order.  *)
FramesSound == TypeOK /\ DeliveredInOrder

(* The stream up to f consists of frames that are in order. *)
CleanBefore(f) ==
  /\ \A g \in frames : g.at < f.at => g.kind # "bad"
  /\ \A p \in 0..(f.at - 1) : \E g \in frames : g.at <= p /\ p < End(g)

(* No frame of an orderly stream is drained undelivered, however it is     *)
(* split over reads, whatever follows it, and also when a heart beat comes *)
(* between its parsing and its delivery.                                   *)
NoSilentLoss ==
  \A f \in frames :
    f.kind # "bad" /\ CleanBefore(f) /\ f.at < drained
      => disturbed \/ f \in Delivered

(* ... and every frame of an orderly stream that fits below the high       *)
(* watermark with those before it is delivered in the end, also the last   *)
(* one and those that arrive together, unless the connection has been      *)
(* closed, which only a heart beat does.                                   *)
FrameIsDelivered ==
  \A s \in Scripts : \A f \in s :
    (/\ frames = s /\ f.kind # "bad" /\ CleanBefore(f)
     /\ \A g \in s : g.at <= f.at => g.size <= MaxBuffer)
      ~> disturbed \/ f \in Delivered \/ (pc = "closed" /\ beaten)
=============================================================================
