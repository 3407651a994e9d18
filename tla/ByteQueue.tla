----------------------------- MODULE ByteQueue -----------------------------
(***************************************************************************)
(* What a buffer promises: a sequence of bytes. Bytes are put at either    *)
(* end and taken from either end, each as the call says; no other call     *)
(* changes what is in it.                                                  *)
(***************************************************************************)
EXTENDS Integers, Sequences

VARIABLES content, call

Init == content = <<>> /\ call = [op |-> "new"]

Next ==
    /\ call'.op = "append" => content' = content \o call'.data
    /\ call'.op = "prepend" => content' = call'.data \o content
    /\ call'.op = "retrieve" =>
          content' = SubSeq(content, call'.len + 1, Len(content))
    /\ call'.op = "unwrite" =>
          content' = SubSeq(content, 1, Len(content) - call'.len)
    /\ call'.op = "arrange" => content' = content

Spec == Init /\ [][Next]_<<content, call>>
=============================================================================
