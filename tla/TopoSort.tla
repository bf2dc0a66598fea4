------------------------------ MODULE TopoSort ------------------------------
(***************************************************************************)
(* Manager.topoSort (lifecycle/lifecycle.go), the algorithm NewManager     *)
(* runs on the registered services: Kahn's algorithm, one action per       *)
(* iteration of each of its loops.  A service is its name, the set of the  *)
(* names it depends on (a name given twice to DependsOn is counted and     *)
(* later discounted twice, which changes nothing) and whether it has a     *)
(* timeout of its own, which only module Lifecycle reads.                  *)
(***************************************************************************)
EXTENDS Integers, Sequences, FiniteSets

CONSTANTS
  Names,     \* the names that options mention
  Configs    \* the sequences of registrations that NewManager may be given

Entry == [name : Names, deps : SUBSET Names, timeout : BOOLEAN]

ASSUME NamesAssumption == IsFiniteSet(Names)
ASSUME ConfigsAssumption == Configs \subseteq Seq(Entry)

VARIABLES
  entries,   \* m.entries
  phase,     \* where topoSort is, or how it ended
  inDegree,  \* name -> dependencies not yet popped
  queue,     \* names whose dependencies have all been popped
  order,     \* names popped so far
  at         \* index of the entry the running loop visits next

sortVars == <<entries, phase, inDegree, queue, order, at>>

Index == DOMAIN entries
Registered == {entries[i].name : i \in Index}
Deps(n) == UNION {entries[i].deps : i \in {j \in Index : entries[j].name = n}}

\* The (registration, dependency) pairs, and those that count for the in-degree of n.
Edges == {e \in Index \X Names : e[2] \in entries[e[1]].deps}
InEdges(n) == {e \in Edges : entries[e[1]].name = n}

Ended == {"built", "missing", "cyclic"}
Phases == {"new", "roots", "sorting"} \cup Ended

SortInit ==
  /\ entries \in Configs
  /\ phase = "new"
  /\ inDegree = [n \in Names |-> 0]
  /\ queue = <<>>
  /\ order = <<>>
  /\ at = 1

\* A dependency that no registration provides: ErrMissingDep.
RejectMissing ==
  /\ phase = "new"
  /\ \E i \in Index : ~(entries[i].deps \subseteq Registered)
  /\ phase' = "missing"
  /\ UNCHANGED <<entries, inDegree, queue, order, at>>

\* Every dependency is registered: count the in-degrees.
CountInDegrees ==
  /\ phase = "new"
  /\ \A i \in Index : entries[i].deps \subseteq Registered
  /\ inDegree' = [n \in Names |-> Cardinality(InEdges(n))]
  /\ phase' = "roots"
  /\ UNCHANGED <<entries, queue, order, at>>

\* One registration of the loop that queues the services with no dependency.
QueueRoot ==
  /\ phase = "roots"
  /\ at <= Len(entries)
  /\ queue' = IF inDegree[entries[at].name] = 0
              THEN Append(queue, entries[at].name) ELSE queue
  /\ at' = at + 1
  /\ UNCHANGED <<entries, phase, inDegree, order>>

RootsQueued ==
  /\ phase = "roots"
  /\ at > Len(entries)
  /\ phase' = "sorting"
  /\ UNCHANGED <<entries, inDegree, queue, order, at>>

Pop ==
  /\ phase = "sorting"
  /\ at > Len(entries)
  /\ queue # <<>>
  /\ order' = Append(order, Head(queue))
  /\ queue' = Tail(queue)
  /\ at' = 1
  /\ UNCHANGED <<entries, phase, inDegree>>

\* Mutant of Relax: a dependent is queued at its first popped dependency.
RelaxQueuesAtOnce ==
  /\ phase = "sorting"
  /\ at <= Len(entries)
  /\ LET n == entries[at].name
     IN  IF order[Len(order)] \in entries[at].deps
         THEN /\ inDegree' = [inDegree EXCEPT ![n] = @ - 1]
              /\ queue' = Append(queue, n)
         ELSE UNCHANGED <<inDegree, queue>>
  /\ at' = at + 1
  /\ UNCHANGED <<entries, phase, order>>

\* Mutant of Relax: the in-degree is tested before it is decremented.
RelaxTestsFirst ==
  /\ phase = "sorting"
  /\ at <= Len(entries)
  /\ LET n == entries[at].name
     IN  IF order[Len(order)] \in entries[at].deps
         THEN /\ inDegree' = [inDegree EXCEPT ![n] = @ - 1]
              /\ queue' = IF inDegree[n] = 0 THEN Append(queue, n) ELSE queue
         ELSE UNCHANGED <<inDegree, queue>>
  /\ at' = at + 1
  /\ UNCHANGED <<entries, phase, order>>

\* One registration of the loop over dependents[name], name the one just popped.
\* dependents[name] lists the dependents in registration order.
Relax ==
  /\ phase = "sorting"
  /\ at <= Len(entries)
  /\ LET n == entries[at].name
     IN  IF order[Len(order)] \in entries[at].deps
         THEN /\ inDegree' = [inDegree EXCEPT ![n] = @ - 1]
              /\ queue' = IF inDegree[n] = 1 THEN Append(queue, n) ELSE queue
         ELSE UNCHANGED <<inDegree, queue>>
  /\ at' = at + 1
  /\ UNCHANGED <<entries, phase, order>>

\* Mutant of FinishSort: the length of the order is not compared.
FinishSortUnchecked ==
  /\ phase = "sorting"
  /\ at > Len(entries)
  /\ queue = <<>>
  /\ phase' = "built"
  /\ UNCHANGED <<entries, inDegree, queue, order, at>>

\* The queue is empty: every registration has been ordered, or there is a cycle.
FinishSort ==
  /\ phase = "sorting"
  /\ at > Len(entries)
  /\ queue = <<>>
  /\ phase' = IF Len(order) # Len(entries) THEN "cyclic" ELSE "built"
  /\ UNCHANGED <<entries, inDegree, queue, order, at>>

SortNext ==
  \/ RejectMissing
  \/ CountInDegrees
  \/ QueueRoot
  \/ RootsQueued
  \/ Pop
  \/ Relax
  \/ FinishSort

SortSpec == SortInit /\ [][SortNext]_sortVars
-----------------------------------------------------------------------------
(* Properties *)

DistinctNames == \A i, j \in Index : entries[i].name = entries[j].name => i = j

SortTypeOK ==
  /\ entries \in Seq(Entry)
  /\ phase \in Phases
  /\ inDegree \in [Names -> Int]
  /\ queue \in Seq(Names)
  /\ order \in Seq(Names)
  /\ at \in 1 .. Len(entries) + 1

\* "a service comes after all it depends on, and no service comes twice"
Respects(s) ==
  /\ \A i \in DOMAIN s : Deps(s[i]) \subseteq {s[j] : j \in 1 .. i - 1}
  /\ \A i, j \in DOMAIN s : s[i] = s[j] => i = j

\* At every moment of the sort, and so in the order NewManager keeps, a service
\* is preceded by everything it depends on, and none is listed twice.
OrderRespectsDependencies == DistinctNames => Respects(order)

\* A set of services each of which waits for another of the set.
Knot(S) == S # {} /\ \A n \in S : Deps(n) \cap S # {}

\* NewManager succeeds only with an order of all the registered services, and reports
\* ErrCyclicDependency exactly when their dependencies have a cycle.
OrderOrCycle ==
  LET cyclic == \E S \in SUBSET Registered : Knot(S)
  IN  DistinctNames =>
        /\ phase = "cyclic" => cyclic
        /\ phase = "built"  => ~ cyclic /\ {order[i] : i \in DOMAIN order} = Registered
=============================================================================
