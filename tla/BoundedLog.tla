----------------------------- MODULE BoundedLog -----------------------------
(***************************************************************************)
(* What the emitter's history promises, without its ring: it keeps the     *)
(* last Size events recorded, in the order they were recorded.             *)
(***************************************************************************)
EXTENDS Naturals, Sequences

CONSTANTS Event, Size

VARIABLE log

Kept(s) == IF Len(s) <= Size THEN s ELSE SubSeq(s, Len(s) - Size + 1, Len(s))

Init == log = <<>>

Record(e) == log' = Kept(Append(log, e))

Next == \E e \in Event : Record(e)

Spec == Init /\ [][Next]_log
=============================================================================
