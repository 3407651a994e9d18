----------------------------- MODULE HttpServer -----------------------------
(***************************************************************************)
(* The HTTP entry of a connection: what TConnection::recv_framing does     *)
(* with bytes in which no frame was found (TConnection.cpp:301-325), and   *)
(* the parser it offers them to (http/). A byte here is a token: a word, a *)
(* space, a colon, CR, LF. The stream of one client arrives in reads of    *)
(* any sizes; libevent keeps it in chains, of which the first is shown.    *)
(***************************************************************************)
EXTENDS BufferOps, FiniteSets

CONSTANTS
    SP, Colon,      \* two tokens that the parser looks for, beside CR, LF
    Http10, Http11, \* the versions it knows
    Connection, Close, KeepAlive,   \* a field's name and two values
    Methods,        \* the words that setMethod knows
    MinLength,      \* CHAT_LENGTH: shorter images are left in the input
    MaxCuts,        \* bound: chains in the input beyond the first
    Streams         \* what a client may send

Space == {SP, CR, LF}                     \* isspace
Versions == {Http10, Http11}
kInvalid == "invalid"

ASSUME HttpAssumption ==
    /\ Methods \cup Space \cup Versions
           \cup {Colon, Connection, Close, KeepAlive} \subseteq Byte
    /\ CR # LF /\ Connection # Colon
    /\ (Methods \cup Versions \cup {Colon, Connection, Close, KeepAlive})
           \cap Space = {}
    /\ kInvalid \notin Methods
    /\ MinLength \in Nat
    /\ MaxCuts \in Nat
    /\ Streams \subseteq Seq(Byte)

VARIABLES
    stream,         \* what the client sends
    arrived,        \* how much of it has come
    drained,        \* how much of that evbuffer_drain has removed
    cuts,           \* the ends of the chains of the input, but the last
    stage,             \* where the callback is
    buf,            \* the local Buffer of recv_framing
    context,        \* the local HttpContext of onMessage
    ok,             \* the result of parseRequest
    answer          \* what this callback has written, <<>> if nothing

HttpVars == <<stream, arrived, drained, cuts, stage, buf, context, ok, answer>>

----------------------------------------------------------------------------
(* HttpRequest, HttpResponse *)

NewRequest == [method |-> kInvalid, version |-> "unknown", headers |-> <<>>]
NewContext == [state |-> "kExpectRequestLine", request |-> NewRequest]

(* std::find: the position of c in from .. to - 1, or to *)
find(c, from, to) ==
    LET p == FirstIn({q \in from .. (to - 1) : buf.mem[q] = c})
    IN  IF p = NoPos THEN to ELSE p

Text(from, to) == [i \in 1 .. (to - from) |-> buf.mem[from + i - 1]]

(* The value without the spaces around it. *)
Trimmed(from, to) ==
    LET word == {q \in from .. (to - 1) : buf.mem[q] \notin Space}
    IN  IF word = {} THEN <<>>
        ELSE Text(FirstIn(word), 1 + CHOOSE q \in word : \A r \in word : r <= q)

(* A later field of the same name replaces the earlier one. *)
addHeader(request, start, colon, end) ==
    LET field == Text(start, colon)
    IN  [request EXCEPT !.headers =
            [f \in DOMAIN @ \cup {field} |->
                IF f = field THEN Trimmed(colon + 1, end) ELSE @[f]]]

getHeader(request, field) ==
    IF field \in DOMAIN request.headers THEN request.headers[field] ELSE <<>>

setMethod(start, end) ==
    IF end = start + 1 /\ buf.mem[start] \in Methods THEN buf.mem[start]
                                                     ELSE kInvalid

(* Method, path and version between begin and end; the path is not kept.   *)
(* A version is eight characters, which is one token.                      *)
processRequestLine(request, begin, end) ==
    LET space == find(SP, begin, end)
        method == IF space = end THEN request.method ELSE setMethod(begin, space)
        second == find(SP, space + 1, end)
        succeed == /\ space # end /\ method # kInvalid
                   /\ second # end /\ end = second + 2
                   /\ buf.mem[second + 1] \in Versions
    IN  [succeed |-> succeed,
         request |-> [request EXCEPT !.method = method,
                        !.version = IF succeed THEN buf.mem[second + 1] ELSE @]]

(* What MainServer::httpcb fills in, as the lines that appendToBuffer      *)
(* writes. "size" and "body" stand for the text with the server's counters.*)
response(closeConnection) ==
    <<"HTTP/1.1 200 OK">>
    \o (IF closeConnection THEN <<"Connection: close">>
        ELSE <<"Content-Length: size", "Connection: Keep-Alive">>)
    \o <<"Content-Type: text/plain", "Server: CloudServer", "", "body">>

(* Mutant: HTTP/1.0 keeps the connection open by default, as 1.1 does. *)
WantsClose_AsOneOne(request) == getHeader(request, <<Connection>>) = <<Close>>

WantsClose(request) ==
    LET connection == getHeader(request, <<Connection>>)
    IN  \/ connection = <<Close>>
        \/ request.version = Http10 /\ connection # <<KeepAlive>>

----------------------------------------------------------------------------
HttpInit ==
    /\ stream \in Streams
    /\ arrived = 0 /\ drained = 0 /\ cuts = {}
    /\ stage = "idle"
    /\ buf = NewBuffer(kInitialSize)
    /\ context = NewContext
    /\ ok = TRUE
    /\ answer = <<>>

(* libevent reads n tokens, into a new chain or not, and calls read_cb. *)
Arrive(n, newChain) ==
    /\ stage = "idle"
    /\ arrived + n <= Len(stream)
    /\ newChain => arrived > drained /\ Cardinality(cuts) < MaxCuts
    /\ arrived' = arrived + n
    /\ cuts' = IF newChain THEN cuts \cup {arrived} ELSE cuts
    /\ stage' = "recv"
    /\ UNCHANGED <<stream, drained, buf, context, ok, answer>>

(* What evbuffer_peek shows: the first chain. *)
ImageEnd == IF cuts = {} THEN arrived ELSE FirstIn(cuts)
Image == SubSeq(stream, drained + 1, ImageEnd)

(* parseOnePackage leaves framePos at 0: the bytes stay where they are. *)
RecvTooShort ==
    /\ stage = "recv"
    /\ Len(Image) < MinLength
    /\ stage' = "idle"
    /\ UNCHANGED <<stream, arrived, drained, cuts, buf, context, ok, answer>>

(* The image is copied to a Buffer, and onMessage makes a context. *)
OnMessage ==
    /\ stage = "recv"
    /\ Len(Image) >= MinLength
    /\ buf' = append(NewBuffer(kInitialSize), Image)
    /\ context' = NewContext
    /\ ok' = TRUE
    /\ stage' = "loop"
    /\ UNCHANGED <<stream, arrived, drained, cuts, answer>>

(* The turns of the loop of parseRequest *)

crlf == findCRLF(buf, buf.reader)
Line == processRequestLine(context.request, buf.reader, crlf)

Turn(state) ==
    /\ stage = "loop"
    /\ context.state = state
    /\ crlf # NoPos
    /\ UNCHANGED <<stream, arrived, drained, cuts, answer>>

RequestLine ==
    /\ Turn("kExpectRequestLine")
    /\ Line.succeed
    /\ buf' = retrieveUntil(buf, crlf + 2)
    /\ context' = [state |-> "kExpectHeaders", request |-> Line.request]
    /\ UNCHANGED <<ok, stage>>

(* Mutant: a bad request line is skipped, and the request used again. *)
RequestLineRefused_GoOn ==
    /\ Turn("kExpectRequestLine")
    /\ ~ Line.succeed
    /\ context' = [context EXCEPT !.request = Line.request]
    /\ buf' = retrieveUntil(buf, crlf + 2)
    /\ UNCHANGED <<ok, stage>>

RequestLineRefused ==
    /\ Turn("kExpectRequestLine")
    /\ ~ Line.succeed
    /\ ok' = FALSE
    /\ context' = [context EXCEPT !.request = Line.request]
    /\ stage' = "parsed"
    /\ UNCHANGED buf

colon == find(Colon, buf.reader, crlf)

Header ==
    /\ Turn("kExpectHeaders")
    /\ colon # crlf
    /\ context' = [context EXCEPT
            !.request = addHeader(@, buf.reader, colon, crlf)]
    /\ buf' = retrieveUntil(buf, crlf + 2)
    /\ UNCHANGED <<ok, stage>>

(* Mutant: the parser goes on to the state it has no code for. *)
EndOfHeaders_Body ==
    /\ Turn("kExpectHeaders")
    /\ colon = crlf
    /\ context' = [context EXCEPT !.state = "kExpectBody"]
    /\ buf' = retrieveUntil(buf, crlf + 2)
    /\ UNCHANGED <<ok, stage>>

EndOfHeaders ==
    /\ Turn("kExpectHeaders")
    /\ colon = crlf
    /\ context' = [context EXCEPT !.state = "kGotAll"]
    /\ buf' = retrieveUntil(buf, crlf + 2)
    /\ stage' = "parsed"
    /\ UNCHANGED ok

LineIncomplete ==
    /\ stage = "loop"
    /\ crlf = NoPos
    /\ stage' = "parsed"
    /\ UNCHANGED <<stream, arrived, drained, cuts, buf, context, ok, answer>>

(* onRequest, and the reset of the context; whether the response announces *)
(* the end of the connection or not, the connection is left open.          *)
OnRequest ==
    /\ stage = "parsed"
    /\ ok /\ context.state = "kGotAll"
    /\ answer' = response(WantsClose(context.request))
    /\ context' = NewContext
    /\ stage' = "drain"
    /\ UNCHANGED <<stream, arrived, drained, cuts, buf, ok>>

NoRequest ==
    /\ stage = "parsed"
    /\ ~ (ok /\ context.state = "kGotAll")
    /\ stage' = "drain"
    /\ UNCHANGED <<stream, arrived, drained, cuts, buf, context, ok, answer>>

(* evbuffer_drain, and the end of the life of the locals *)
Drain ==
    /\ stage = "drain"
    /\ drained' = ImageEnd
    /\ cuts' = cuts \ {ImageEnd}
    /\ stage' = "idle"
    /\ buf' = NewBuffer(kInitialSize)
    /\ context' = NewContext
    /\ ok' = TRUE
    /\ answer' = <<>>
    /\ UNCHANGED <<stream, arrived>>

Callback ==
    \/ RecvTooShort \/ OnMessage
    \/ RequestLine \/ RequestLineRefused \/ Header \/ EndOfHeaders
    \/ LineIncomplete
    \/ OnRequest \/ NoRequest
    \/ Drain

HttpNext ==
    \/ \E n \in 1 .. Len(stream), newChain \in BOOLEAN : Arrive(n, newChain)
    \/ Callback

HttpSpec == HttpInit /\ [][HttpNext]_HttpVars

(* A callback that has begun goes on; the client may stop at any time. *)
FairSpec == HttpSpec /\ WF_HttpVars(Callback)

----------------------------------------------------------------------------
(* Properties *)

HttpTypeOK ==
    /\ stream \in Streams
    /\ arrived \in 0 .. Len(stream)
    /\ drained \in 0 .. arrived
    /\ cuts \subseteq (drained + 1) .. (arrived - 1)
    /\ stage \in {"idle", "recv", "loop", "parsed", "drain"}
    /\ \A i \in DOMAIN buf.mem : buf.mem[i] \in Byte
    /\ context.state \in {"kExpectRequestLine", "kExpectHeaders", "kGotAll"}
    /\ context.request.method \in Methods \cup {kInvalid}
    /\ ok \in BOOLEAN

(* setMethod is called on a request without a method only, as it asserts   *)
(* (httpRequest.h:50): no request is parsed into the remains of another.   *)
MethodAssert ==
    stage = "loop" /\ context.state = "kExpectRequestLine" =>
        context.request.method = kInvalid

(* The parser stands at the start of a line of the image, whatever it has  *)
(* retrieved (httpContext.cpp:77, 103): no line is read from its middle.   *)
AtLineStart ==
    stage \in {"loop", "parsed"} =>
        LET rest == toString(buf)
            taken == Len(Image) - Len(rest)
        IN  /\ taken >= 0
            /\ rest = SubSeq(Image, taken + 1, Len(Image))
            /\ taken > 0 => Image[taken - 1] = CR /\ Image[taken] = LF

(* The parser, its request and its place in the input fit together.        *)
ParserSound == HttpTypeOK /\ MethodAssert /\ AtLineStart

(* A request, as a client means it: a line is what ends in CR and LF; the  *)
(* first has a method, a target without spaces and a version; then come    *)
(* fields, each with a colon behind its name; an empty line is the end.    *)

EndsLine(s, e) == e \in 2 .. Len(s) /\ s[e - 1] = CR /\ s[e] = LF

(* The line of s behind p ends at e. *)
IsLine(s, p, e) == EndsLine(s, e) /\ e > p /\ \A q \in (p + 1) .. (e - 1) : ~ EndsLine(s, q)

IsRequestLine(s, e) ==
    /\ IsLine(s, 0, e) /\ e >= 6
    /\ s[1] \in Methods /\ s[2] = SP
    /\ s[e - 3] = SP /\ s[e - 2] \in Versions
    /\ \A i \in 3 .. (e - 4) : s[i] # SP

Blank(s, n) == EndsLine(s, n - 2) /\ EndsLine(s, n)

IsHead(s, n) ==
    /\ Blank(s, n) /\ \A m \in 1 .. (n - 1) : ~ Blank(s, m)
    /\ \E e \in 1 .. n : IsRequestLine(s, e)

(* The last field "Connection" before the position k has the one word w.   *)
IsConnection(s, p) == EndsLine(s, p) /\ s[p + 1] = Connection /\ s[p + 2] = Colon

OneWord(s, p, w) ==
    \E e \in DOMAIN s : IsLine(s, p, e) /\
        \E i \in (p + 3) .. (e - 2) :
            s[i] = w /\ \A j \in (p + 3) .. (e - 2) : j # i => s[j] \in Space

Says(s, k, w) ==
    \E p \in 1 .. (k - 1) :
        /\ IsConnection(s, p) /\ OneWord(s, p, w)
        /\ \A q \in (p + 1) .. (k - 1) : ~ IsConnection(s, q)

Closes(s, n) ==
    \/ Says(s, n - 2, Close)
    \/ (\E e \in 1 .. n : IsRequestLine(s, e) /\ s[e - 2] = Http10)
          /\ ~ Says(s, n - 2, KeepAlive)

(* A line without a colon, and not empty, where fields should be.          *)
ColonMissing(s) ==
    \E p, e \in DOMAIN s :
        /\ EndsLine(s, p) /\ IsLine(s, p, e) /\ e # p + 2
        /\ \A i \in (p + 1) .. (e - 2) : s[i] # Colon
        /\ \A m \in 1 .. p : ~ Blank(s, m)

(* A read is answered exactly when a whole head starts it, and then as the *)
(* client asked: by a response that announces the end of the connection,   *)
(* or one with a length. A read that does not start with a whole head, as  *)
(* one that starts in the middle of it, gets no answer                     *)
(* (httpServer.cpp:46-68). Excepted is a head with a field that has no     *)
(* colon, which the parser takes for its end (httpContext.cpp:96).         *)
AnswersWholeRequests ==
    stage = "drain" /\ ~ ColonMissing(Image) =>
        answer = IF \E n \in DOMAIN Image : IsHead(Image, n)
                 THEN response(\E n \in DOMAIN Image : IsHead(Image, n) /\ Closes(Image, n))
                 ELSE <<>>

(* parseRequest comes to an end whatever it is given (its loop has a state *)
(* without an exit, kExpectBody at httpContext.cpp:107) and the callback   *)
(* returns to the event loop.                                              *)
ReadReturns == (stage # "idle") ~> (stage = "idle")
=============================================================================
