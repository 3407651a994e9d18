------------------------------- MODULE Vector -------------------------------
(***************************************************************************)
(* What erase does to a std::vector: the elements that stay keep their     *)
(* order and close the gaps. Written with positions and without recursion, *)
(* so that what it keeps can be proved (QueueLemmas.tla).                  *)
(***************************************************************************)
EXTENDS Naturals, Sequences, FiniteSets

(* The elements of s at other places than those of gone. *)
EraseAt(s, gone) ==
    LET kept == DOMAIN s \ gone
        Place(i) == Cardinality({j \in kept : j <= i})
    IN  [n \in 1 .. Cardinality(kept) |-> s[CHOOSE i \in kept : Place(i) = n]]

(* erase(remove(first, last, e), last): every place of e. *)
EraseAll(s, e) == EraseAt(s, {i \in DOMAIN s : s[i] = e})
=============================================================================
