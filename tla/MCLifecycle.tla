---------------------------- MODULE MCLifecycle ----------------------------
(***************************************************************************)
(* Small sets of registrations for module Lifecycle.                       *)
(***************************************************************************)
EXTENDS Lifecycle

CONSTANTS a, b, c

MCNames == {a, b, c}

E(n, D, t) == [name |-> n, deps |-> D, timeout |-> t]

\* A chain, a fork, a join, services with nothing between them and a pair, with
\* the registrations in an order that the sort must change, and a timeout on
\* some of the services, on all (the global one) or on none.
MCConfigs ==
  UNION {{ <<E(c, {b}, t), E(b, {a}, FALSE), E(a, {}, t)>>,
           <<E(c, {a}, t), E(b, {a}, t), E(a, {}, FALSE)>>,
           <<E(c, {a, b}, FALSE), E(b, {}, t), E(a, {}, t)>>,
           <<E(b, {}, t), E(a, {}, FALSE)>> } : t \in BOOLEAN}

\* One service on another, with timeouts everywhere.
MCPair == { <<E(a, {}, TRUE), E(b, {a}, TRUE)>> }
=============================================================================
