---------------------------- MODULE MCHttpServer ----------------------------
(* Streams for TLC: clients that keep to the protocol, alone, pipelined,   *)
(* with a body, with a repeated field; and some that do not.               *)
EXTENDS HttpServer

MCMethods == {"GET", "POST"}
MCByte == MCMethods \cup {"NUL", "SP", "CR", "LF", ":", "?", "word", "HTTP/1.0",
            "HTTP/1.1", "HTTP/1.x", "Connection", "close", "Keep-Alive"}

eol == <<"CR", "LF">>
RequestLineOf(m, target, v) == <<m, "SP">> \o target \o <<"SP", v>> \o eol
Field(name, value) == <<name, ":">> \o value \o eol

(* A client's head, body and wish, as a stream that starts with them. The  *)
(* requests are what the client means by it.                               *)
Sends(head, body, wish) ==
    [bytes |-> head \o body,
     requests |-> {[first |-> 1, last |-> Len(head), close |-> wish]}]

(* One stream behind another *)
Then(s, t) ==
    [bytes |-> s.bytes \o t.bytes,
     requests |-> s.requests \cup
        {[r EXCEPT !.first = @ + Len(s.bytes), !.last = @ + Len(s.bytes)] :
            r \in t.requests}]

Nonsense(tokens) == [bytes |-> tokens, requests |-> {}]

Plain == Sends(RequestLineOf("GET", <<"word">>, "HTTP/1.1") \o eol, <<>>, FALSE)
Old == Sends(RequestLineOf("GET", <<"word", "?", "word">>, "HTTP/1.0") \o eol,
             <<>>, TRUE)
Kept == Sends(RequestLineOf("GET", <<"word">>, "HTTP/1.0")
                \o Field("Connection", <<"SP", "Keep-Alive", "SP">>) \o eol,
              <<>>, FALSE)
Closed == Sends(RequestLineOf("POST", <<"word">>, "HTTP/1.1")
                \o Field("Connection", <<"Keep-Alive">>)
                \o Field("Connection", <<"SP", "close">>) \o eol,
              <<"word", "SP", "word">>, TRUE)

MCClients ==
    {Then(Plain, Old), Kept, Then(Closed, Plain), Then(Old, Nonsense(eol)),
     Nonsense(<<"word", "SP", "word", "SP", "HTTP/1.1">> \o eol \o eol),
     Nonsense(<<"GET", "SP", "HTTP/1.1">> \o eol \o eol),
     Nonsense(RequestLineOf("GET", <<"word">>, "HTTP/1.x") \o eol),
     Nonsense(RequestLineOf("GET", <<"SP">>, "HTTP/1.1") \o eol),
     Nonsense(RequestLineOf("GET", <<"word">>, "HTTP/1.1") \o <<"word">> \o eol \o eol)}

MCStreams == {c.bytes : c \in MCClients}

(* The grammar finds in the streams what the clients mean.                 *)
ASSUME MeantAsFound ==
    \A c \in MCClients : \A i \in DOMAIN c.bytes :
        LET s == SubSeq(c.bytes, i, Len(c.bytes)) IN
        ColonMissing(s) \/
        {<<n, Closes(s, n)>> : n \in {m \in DOMAIN s : IsHead(s, m)}} =
            {<<r.last + 1 - i, r.close>> : r \in {q \in c.requests : q.first = i}}
=============================================================================
