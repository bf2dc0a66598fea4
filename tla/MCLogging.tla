----------------------------- MODULE MCLogging -----------------------------
(***************************************************************************)
(* A logger of two fields, one of them sensitive, a logger of a third      *)
(* derived from it, and two loggers of a fourth derived from that one.     *)
(***************************************************************************)
EXTENDS Logging, TLC

CONSTANTS l1, l2, l3, l4

F(key, value) == [key |-> key, value |-> value]

MCDerivation ==
  (l1 :> [from |-> Root, group |-> FALSE, fields |-> <<F("token", "short"), F("port", "long")>>]) @@
  (l2 :> [from |-> l1, group |-> FALSE, fields |-> <<F("port", "")>>]) @@
  (l3 :> [from |-> l2, group |-> FALSE, fields |-> <<F("token", "long")>>]) @@
  (l4 :> [from |-> l2, group |-> FALSE, fields |-> <<F("port", "short")>>])

MCRecords == {<<>>, <<F("token", "short")>>}
=============================================================================
