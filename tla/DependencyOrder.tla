--------------------------- MODULE DependencyOrder ---------------------------
(***************************************************************************)
(* What the lifecycle manager promises, without its loops, timeouts and    *)
(* goroutines: a service is active only while everything it depends on is. *)
(* A service joins when its dependencies are active and it is not, and     *)
(* leaves when nothing active depends on it.                               *)
(***************************************************************************)
CONSTANT Names

VARIABLES
  deps,      \* name -> the names it depends on
  active     \* the names the manager counts as started and not yet stopped

Init ==
  /\ deps \in [Names -> SUBSET Names]
  /\ active = {}

Start(n) ==
  /\ n \notin active
  /\ deps[n] \subseteq active
  /\ active' = active \cup {n}
  /\ UNCHANGED deps

Stop(n) ==
  /\ n \in active
  /\ \A m \in active : n \notin deps[m]
  /\ active' = active \ {n}
  /\ UNCHANGED deps

Next == \E n \in Names : Start(n) \/ Stop(n)

Spec == Init /\ [][Next]_<<deps, active>>
=============================================================================
