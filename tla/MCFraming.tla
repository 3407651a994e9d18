----------------------------- MODULE MCFraming ------------------------------
(***************************************************************************)
(* Streams of eight bytes for TLC: frames one after the other, before and  *)
(* after junk, after a bad frame, and one beyond the high watermark.       *)
(***************************************************************************)
EXTENDS Framing

F(kind, at, size) == [kind |-> kind, at |-> at, size |-> size]

MCScripts ==
  { {F("chat", 0, 3), F("chat", 3, 5)},
    {F("chat", 0, 3), F("echo", 3, 2), F("chat", 5, 3)},
    {F("echo", 0, 3), F("chat", 3, 4)},
    {F("echo", 1, 3), F("chat", 4, 4)},
    {F("chat", 2, 3), F("chat", 5, 3)},
    {F("chat", 0, 3), F("chat", 4, 4)},
    {F("bad", 0, 4), F("chat", 4, 4)},
    {F("chat", 0, 6)} }
=============================================================================
