--------------------------- MODULE LifecycleProofs ---------------------------
(***************************************************************************)
(* Proofs about modules TopoSort and Lifecycle, for any finite set of      *)
(* names, any registrations and any number of startups.  The sort is type  *)
(* correct; when no name is registered twice its order respects the        *)
(* dependencies, and it has one unless they have a cycle.  The manager is  *)
(* type correct and its events agree with its books; when no name is       *)
(* registered twice it implements DependencyOrder, and the services        *)
(* themselves (up) start and stop in dependency order and agree with the   *)
(* books.                                                                  *)
(***************************************************************************)
EXTENDS Lifecycle, FiniteSetTheorems, TLAPS

(* The sort. *)

\* The elements of a sequence that grew by one.
LEMMA AppendCases ==
  ASSUME NEW S, NEW s \in Seq(S), NEW x \in S
  PROVE  LET t == Append(s, x)
         IN  /\ t \in Seq(S)
             /\ Len(s) \in Nat
             /\ Len(t) = Len(s) + 1
             /\ t[Len(t)] = x
             /\ \A i \in 1 .. Len(s) : t[i] = s[i]
             /\ \A i \in 1 .. Len(t) :
                  \/ i \in 1 .. Len(s) /\ t[i] = s[i]
                  \/ i = Len(t) /\ t[i] = x
             /\ {t[i] : i \in 1 .. Len(t)} = {s[i] : i \in 1 .. Len(s)} \cup {x}
<1> DEFINE t == Append(s, x)
<1>1. t \in Seq(S) /\ Len(s) \in Nat /\ Len(t) = Len(s) + 1 /\ t[Len(t)] = x
  OBVIOUS
<1>2. \A i \in 1 .. Len(s) : t[i] = s[i]
  OBVIOUS
<1>3. \A i \in 1 .. Len(t) : i \in 1 .. Len(s) \/ i = Len(t)
  BY <1>1
<1> HIDE DEF t
<1>4. {t[i] : i \in 1 .. Len(t)} = {s[i] : i \in 1 .. Len(s)} \cup {x}
  BY <1>1, <1>2, <1>3
<1>5. QED
  BY <1>1, <1>2, <1>3, <1>4 DEF t

\* A registration has a name and dependencies among Names.
LEMMA EntryFields ==
  ASSUME entries \in Seq(Entry), NEW i \in 1 .. Len(entries)
  PROVE  /\ entries[i].name \in Names
         /\ entries[i].deps \in SUBSET Names
<1>1. entries[i] \in Entry
  OBVIOUS
<1>2. QED
  BY <1>1 DEF Entry

LEMMA EdgesFinite ==
  ASSUME entries \in Seq(Entry), NEW n
  PROVE  IsFiniteSet(InEdges(n))
<1>1. Index = 1 .. Len(entries) /\ Len(entries) \in Nat
  BY DEF Index
<1>2. IsFiniteSet(Index)
  BY <1>1, FS_Interval
<1>3. IsFiniteSet(Index \X Names)
  BY <1>2, NamesAssumption, FS_Product
<1>4. InEdges(n) \in SUBSET (Index \X Names)
  BY DEF InEdges, Edges
<1>5. QED
  BY <1>3, <1>4, FS_Subset

LEMMA SortTypeStep ==
  ASSUME SortTypeOK, [SortNext]_sortVars
  PROVE  SortTypeOK'
<1> USE DEF SortTypeOK, Phases, Ended
<1>1. CASE RejectMissing
  BY <1>1 DEF RejectMissing
<1>2. CASE CountInDegrees
  <2>1. ASSUME NEW n \in Names PROVE Cardinality(InEdges(n)) \in Int
    BY EdgesFinite, FS_CardinalityType
  <2>2. QED
    BY <1>2, <2>1 DEF CountInDegrees
<1>3. CASE QueueRoot
  <2>1. at \in 1 .. Len(entries)
    BY <1>3 DEF QueueRoot
  <2>2. entries[at].name \in Names
    BY <2>1, EntryFields
  <2>3. QED
    BY <1>3, <2>1, <2>2 DEF QueueRoot
<1>4. CASE RootsQueued
  BY <1>4 DEF RootsQueued
<1>5. CASE Pop
  BY <1>5 DEF Pop
<1>6. CASE Relax
  <2>1. at \in 1 .. Len(entries)
    BY <1>6 DEF Relax
  <2>2. entries[at].name \in Names
    BY <2>1, EntryFields
  <2> DEFINE n == entries[at].name
             newDegree == [inDegree EXCEPT ![n] = @ - 1]
             newQueue == IF inDegree[n] = 1 THEN Append(queue, n) ELSE queue
  <2>3. newDegree \in [Names -> Int] /\ newQueue \in Seq(Names)
    BY <2>2
  <2>4. inDegree' \in [Names -> Int] /\ queue' \in Seq(Names)
    <3>1. inDegree' \in {newDegree, inDegree} /\ queue' \in {newQueue, queue}
      BY <1>6 DEF Relax
    <3>2. QED
      BY <2>3, <3>1
  <2>5. at' \in 1 .. Len(entries) + 1 /\ UNCHANGED <<entries, phase, order>>
    BY <1>6, <2>1 DEF Relax
  <2>6. QED
    BY <2>4, <2>5
<1>7. CASE FinishSort
  BY <1>7 DEF FinishSort
<1>8. CASE UNCHANGED sortVars
  BY <1>8 DEF sortVars
<1>9. QED
  BY <1>1, <1>2, <1>3, <1>4, <1>5, <1>6, <1>7, <1>8 DEF SortNext

\* Every variable keeps its type: topoSort never indexes outside m.entries.
THEOREM SortTypeCorrect == SortSpec => []SortTypeOK
<1>1. SortInit => SortTypeOK
  BY ConfigsAssumption DEF SortInit, SortTypeOK, Phases
<1>2. SortTypeOK /\ [SortNext]_sortVars => SortTypeOK'
  BY SortTypeStep
<1>3. QED
  BY <1>1, <1>2, PTL DEF SortSpec
-----------------------------------------------------------------------------
(* The inductive invariant behind OrderRespectsDependencies. *)

\* The edges that the loops have not discounted yet: their dependency has not
\* been popped, or it is the one just popped and their turn is to come.
PendingEdges ==
  {e \in Edges :
     \/ e[2] \notin {order[i] : i \in 1 .. Len(order)}
     \/ Len(order) > 0 /\ e[2] = order[Len(order)] /\ e[1] >= at}

Pending(n) == {e \in PendingEdges : entries[e[1]].name = n}

\* The in-degree of a name is the number of its pending edges.
DegreesRight ==
  phase \notin {"new", "missing"} =>
    \A n \in Names : inDegree[n] = Cardinality(Pending(n))

\* What waits in the queue has no pending edge, is there once, and is not popped.
QueueReady ==
  /\ \A i \in 1 .. Len(queue), e \in PendingEdges : entries[e[1]].name # queue[i]
  /\ \A i, j \in 1 .. Len(queue) : queue[i] = queue[j] => i = j
  /\ \A i \in 1 .. Len(queue), j \in 1 .. Len(order) : queue[i] # order[j]

\* What has been popped was popped once, after its dependencies.
OrderReady ==
  /\ \A i \in 1 .. Len(order), e \in Edges :
       entries[e[1]].name = order[i] => \E j \in 1 .. i - 1 : order[j] = e[2]
  /\ \A i, j \in 1 .. Len(order) : order[i] = order[j] => i = j

\* Where each loop may stand.
LoopsInPlace ==
  /\ phase \in {"new", "missing", "roots"} => order = <<>>
  /\ phase \in {"new", "missing"} => queue = <<>>
  /\ phase = "roots" =>
       \A i \in 1 .. Len(queue) : \E j \in 1 .. at - 1 : entries[j].name = queue[i]
  /\ phase = "sorting" /\ at <= Len(entries) => Len(order) > 0

OnlyRegistered ==
  /\ \A i \in 1 .. Len(queue) : queue[i] \in Registered
  /\ \A i \in 1 .. Len(order) : order[i] \in Registered

SortInv ==
  /\ SortTypeOK
  /\ DegreesRight
  /\ QueueReady
  /\ LoopsInPlace
  /\ OnlyRegistered
  /\ OrderReady
-----------------------------------------------------------------------------
LEMMA PendingFinite ==
  ASSUME SortTypeOK, NEW n
  PROVE  IsFiniteSet(Pending(n))
<1>1. Pending(n) \in SUBSET InEdges(n)
  BY DEF Pending, PendingEdges, InEdges
<1>2. QED
  BY <1>1, EdgesFinite, FS_Subset DEF SortTypeOK

LEMMA EdgeFields ==
  ASSUME entries \in Seq(Entry), NEW e \in Edges
  PROVE  /\ e[1] \in 1 .. Len(entries)
         /\ e[2] \in Names
         /\ e = <<e[1], e[2]>>
         /\ e[2] \in entries[e[1]].deps
BY DEF Edges, Index

LEMMA SortInitInv == SortInit => SortInv
<1> SUFFICES ASSUME SortInit PROVE SortInv
  OBVIOUS
<1>1. SortTypeOK
  BY ConfigsAssumption DEF SortInit, SortTypeOK, Phases
<1>2. DegreesRight /\ QueueReady /\ LoopsInPlace /\ OnlyRegistered /\ OrderReady
  BY DEF SortInit, DegreesRight, QueueReady, LoopsInPlace, OnlyRegistered,
       OrderReady
<1>3. QED
  BY <1>1, <1>2 DEF SortInv

\* What depends only on the registrations is the same after every step.
LEMMA EntriesFixed ==
  ASSUME entries' = entries
  PROVE  /\ Registered' = Registered
         /\ Edges' = Edges
         /\ DistinctNames' = DistinctNames
BY DEF Registered, Edges, Index, DistinctNames

LEMMA CountInv ==
  ASSUME SortInv, CountInDegrees
  PROVE  DegreesRight' /\ QueueReady'
<1> USE DEF SortInv
<1>1. /\ order = <<>> /\ queue = <<>> /\ order' = <<>> /\ queue' = <<>>
      /\ entries' = entries
  BY DEF CountInDegrees, LoopsInPlace
<1>2. PendingEdges' = Edges
  BY <1>1, EntriesFixed DEF PendingEdges
<1>3. \A n : Pending(n)' = InEdges(n)
  BY <1>1, <1>2 DEF Pending, InEdges
<1>4. DegreesRight'
  BY <1>3 DEF DegreesRight, CountInDegrees
<1>5. QueueReady'
  BY <1>1 DEF QueueReady
<1>6. QED
  BY <1>4, <1>5

LEMMA QueueRootInv ==
  ASSUME DistinctNames, SortInv, QueueRoot
  PROVE  DegreesRight' /\ QueueReady' /\ LoopsInPlace' /\ OnlyRegistered'
<1> USE DEF SortInv, SortTypeOK
<1> DEFINE n == entries[at].name
<1>1. at \in 1 .. Len(entries) /\ n \in Names /\ n \in Registered
  BY EntryFields DEF QueueRoot, Registered, Index
<1>2. /\ phase = "roots" /\ phase' = "roots" /\ order = <<>> /\ order' = <<>>
      /\ entries' = entries /\ inDegree' = inDegree /\ at' = at + 1
  BY DEF QueueRoot, LoopsInPlace
<1>3. PendingEdges = Edges /\ PendingEdges' = Edges
  BY <1>2, EntriesFixed DEF PendingEdges
<1>4. DegreesRight'
  BY <1>2, <1>3 DEF DegreesRight, Pending
<1>5. CASE inDegree[n] # 0
  <2>1. queue' = queue
    BY <1>5 DEF QueueRoot
  <2>2. LoopsInPlace'
    BY <1>1, <1>2, <2>1 DEF LoopsInPlace
  <2>3. QED
    BY <1>2, <1>3, <1>4, <2>1, <2>2, EntriesFixed DEF QueueReady, OnlyRegistered
<1>6. CASE inDegree[n] = 0
  <2>1. queue' = Append(queue, n)
    BY <1>6 DEF QueueRoot
  <2>2. /\ Len(queue) \in Nat
        /\ Len(queue') = Len(queue) + 1
        /\ \A i \in 1 .. Len(queue') :
             \/ i \in 1 .. Len(queue) /\ queue'[i] = queue[i]
             \/ i = Len(queue') /\ queue'[i] = n
    BY <1>1, <2>1, AppendCases
  <2>3. Pending(n) = {}
    BY <1>1, <1>2, <1>6, PendingFinite, FS_EmptySet DEF DegreesRight
  <2>4. \A i \in 1 .. Len(queue) : queue[i] # n
    <3>1. SUFFICES ASSUME NEW i \in 1 .. Len(queue), queue[i] = n PROVE FALSE
      OBVIOUS
    <3>2. PICK j \in 1 .. at - 1 : entries[j].name = n
      BY <1>2, <3>1 DEF LoopsInPlace
    <3>3. j \in Index /\ at \in Index /\ j # at
      BY <1>1 DEF Index
    <3>4. QED
      BY <3>2, <3>3 DEF DistinctNames
  <2>5. QueueReady'
    <3>1. \A i \in 1 .. Len(queue'), e \in Edges : entries[e[1]].name # queue'[i]
      BY <1>3, <2>2, <2>3 DEF QueueReady, Pending
    <3>2. \A i, j \in 1 .. Len(queue') : queue'[i] = queue'[j] => i = j
      BY <2>2, <2>4 DEF QueueReady
    <3>3. QED
      BY <1>2, <1>3, <3>1, <3>2 DEF QueueReady
  <2>6. LoopsInPlace'
    <3>1. ASSUME NEW i \in 1 .. Len(queue')
          PROVE  \E j \in 1 .. at : entries[j].name = queue'[i]
      <4>1. CASE i \in 1 .. Len(queue) /\ queue'[i] = queue[i]
        <5>1. PICK j \in 1 .. at - 1 : entries[j].name = queue[i]
          BY <1>2, <4>1 DEF LoopsInPlace
        <5>2. j \in 1 .. at
          BY <1>1, <5>1
        <5>3. QED
          BY <4>1, <5>1, <5>2, Zenon
      <4>2. CASE queue'[i] = n
        <5>1. at \in 1 .. at
          BY <1>1
        <5>2. QED
          BY <4>2, <5>1, Zenon
      <4>3. QED
        BY <2>2, <4>1, <4>2
    <3>2. QED
      BY <1>1, <1>2, <3>1 DEF LoopsInPlace
  <2>7. OnlyRegistered'
    BY <1>1, <1>2, <2>2, EntriesFixed DEF OnlyRegistered
  <2>8. QED
    BY <1>4, <2>5, <2>6, <2>7
<1>7. QED
  BY <1>5, <1>6

LEMMA PopInv ==
  ASSUME SortInv, Pop
  PROVE  DegreesRight' /\ QueueReady' /\ LoopsInPlace' /\ OnlyRegistered' /\ OrderReady'
<1> USE DEF SortInv, SortTypeOK
<1> PICK h : h = Head(queue)
  OBVIOUS
<1>1. /\ phase = "sorting" /\ phase' = "sorting" /\ at > Len(entries) /\ at' = 1
      /\ entries' = entries /\ inDegree' = inDegree
      /\ queue' = Tail(queue) /\ order' = Append(order, h)
  BY DEF Pop
<1>2. /\ Len(queue) \in Nat /\ Len(queue) > 0 /\ h = queue[1] /\ h \in Names
      /\ Len(queue') = Len(queue) - 1
      /\ \A i \in 1 .. Len(queue') : i + 1 \in 1 .. Len(queue) /\ queue'[i] = queue[i + 1]
  BY <1>1 DEF Pop
<1>3. /\ Len(order) \in Nat
      /\ Len(order') = Len(order) + 1
      /\ order'[Len(order')] = h
      /\ \A i \in 1 .. Len(order) : order'[i] = order[i]
      /\ \A i \in 1 .. Len(order') :
           \/ i \in 1 .. Len(order) /\ order'[i] = order[i]
           \/ i = Len(order') /\ order'[i] = h
      /\ {order'[i] : i \in 1 .. Len(order')} = {order[i] : i \in 1 .. Len(order)} \cup {h}
  BY <1>1, <1>2, AppendCases
<1>4. h \notin {order[i] : i \in 1 .. Len(order)}
  BY <1>2 DEF QueueReady
<1>5. PendingEdges = {e \in Edges : e[2] \notin {order[i] : i \in 1 .. Len(order)}}
  BY <1>1, EdgeFields DEF PendingEdges
<1>6. PendingEdges' = PendingEdges
  <2>1. PendingEdges' = {e \in Edges :
                           \/ e[2] \notin {order[i] : i \in 1 .. Len(order)} \cup {h}
                           \/ e[2] = h /\ e[1] >= 1}
    <3>1. /\ Edges' = Edges /\ at' = 1
          /\ Len(order') > 0 /\ order'[Len(order')] = h
      BY <1>1, <1>3, EntriesFixed
    <3>2. PendingEdges' = {e \in Edges :
                             \/ e[2] \notin {order'[i] : i \in 1 .. Len(order')}
                             \/ e[2] = h /\ e[1] >= 1}
      BY <3>1, Zenon DEF PendingEdges
    <3>3. QED
      BY <1>3, <3>2, Zenon
  <2>2. \A e \in Edges : e[1] >= 1
    BY EdgeFields
  <2>3. QED
    BY <1>4, <1>5, <2>1, <2>2
<1>7. DegreesRight'
  BY <1>1, <1>6 DEF DegreesRight, Pending
<1>8. QueueReady'
  <2>1. ASSUME NEW i \in 1 .. Len(queue'), NEW e \in PendingEdges
        PROVE  entries[e[1]].name # queue'[i]
    <3>1. i + 1 \in 1 .. Len(queue) /\ queue'[i] = queue[i + 1]
      BY <1>2
    <3>2. QED
      BY <3>1 DEF QueueReady
  <2>2. ASSUME NEW i \in 1 .. Len(queue'), NEW j \in 1 .. Len(queue'),
               queue'[i] = queue'[j]
        PROVE  i = j
    <3>1. /\ i + 1 \in 1 .. Len(queue) /\ queue'[i] = queue[i + 1]
          /\ j + 1 \in 1 .. Len(queue) /\ queue'[j] = queue[j + 1]
      BY <1>2
    <3>2. i + 1 = j + 1
      BY <2>2, <3>1 DEF QueueReady
    <3>3. QED
      BY <3>2
  <2>3. \A i \in 1 .. Len(queue') : queue'[i] # h
    <3>1. ASSUME NEW i \in 1 .. Len(queue') PROVE queue[i + 1] # queue[1]
      <4>1. i + 1 \in 1 .. Len(queue) /\ 1 \in 1 .. Len(queue) /\ i + 1 # 1
        BY <1>2
      <4>2. QED
        BY <4>1 DEF QueueReady
    <3>2. QED
      BY <1>2, <3>1
  <2>4. ASSUME NEW i \in 1 .. Len(queue'), NEW j \in 1 .. Len(order')
        PROVE  queue'[i] # order'[j]
    <3>1. i + 1 \in 1 .. Len(queue) /\ queue'[i] = queue[i + 1]
      BY <1>2
    <3>2. CASE j \in 1 .. Len(order) /\ order'[j] = order[j]
      BY <3>1, <3>2 DEF QueueReady
    <3>3. CASE order'[j] = h
      BY <2>3, <3>3
    <3>4. QED
      BY <1>3, <3>2, <3>3
  <2>5. QED
    BY <1>1, <1>6, <2>1, <2>2, <2>4 DEF QueueReady
<1>9. LoopsInPlace'
  BY <1>1, <1>3 DEF LoopsInPlace
<1>10. OnlyRegistered'
  <2>1. h \in Registered
    BY <1>2 DEF OnlyRegistered
  <2>2. QED
    BY <1>1, <1>2, <1>3, <2>1, EntriesFixed DEF OnlyRegistered
<1>11. OrderReady'
  <2>1. ASSUME NEW i \in 1 .. Len(order'), NEW e \in Edges, entries[e[1]].name = order'[i]
        PROVE  \E j \in 1 .. i - 1 : order'[j] = e[2]
    <3>1. CASE i \in 1 .. Len(order) /\ order'[i] = order[i]
      <4>1. PICK j \in 1 .. i - 1 : order[j] = e[2]
        BY <2>1, <3>1 DEF OrderReady
      <4>2. order'[j] = e[2]
        BY <1>3, <3>1, <4>1
      <4>3. QED
        BY <4>2
    <3>2. CASE i = Len(order') /\ order'[i] = h
      <4>1. e \notin PendingEdges
        BY <1>2, <2>1, <3>2 DEF QueueReady
      <4>2. PICK j \in 1 .. Len(order) : order[j] = e[2]
        BY <1>5, <4>1
      <4>3. j \in 1 .. i - 1 /\ order'[j] = e[2]
        BY <1>3, <3>2, <4>2
      <4>4. QED
        BY <4>3
    <3>3. QED
      BY <1>3, <3>1, <3>2
  <2>2. \A i, j \in 1 .. Len(order') : order'[i] = order'[j] => i = j
    <3>1. \A i \in 1 .. Len(order) : order[i] # h
      BY <1>4
    <3>2. QED
      BY <1>3, <3>1 DEF OrderReady
  <2>3. QED
    BY <1>1, <2>1, <2>2, EntriesFixed DEF OrderReady
<1>12. QED
  BY <1>7, <1>8, <1>9, <1>10, <1>11

LEMMA RelaxInv ==
  ASSUME SortInv, Relax
  PROVE  DegreesRight' /\ QueueReady' /\ LoopsInPlace' /\ OnlyRegistered'
<1> USE DEF SortInv, SortTypeOK
<1> PICK n : n = entries[at].name
  OBVIOUS
<1> DEFINE last == order[Len(order)]
           edge == <<at, last>>
<1>1. /\ phase = "sorting" /\ phase' = "sorting" /\ at' = at + 1
      /\ entries' = entries /\ order' = order
      /\ Len(order) \in Nat /\ Len(order) > 0
  BY DEF Relax, LoopsInPlace
<1>2. at \in 1 .. Len(entries) /\ n \in Names /\ n \in Registered
  BY EntryFields DEF Relax, Registered, Index
<1>3. LoopsInPlace'
  BY <1>1 DEF LoopsInPlace
<1>4. PendingEdges' = PendingEdges \ {edge}
  <2>1. PendingEdges' = {e \in Edges :
                           \/ e[2] \notin {order[i] : i \in 1 .. Len(order)}
                           \/ e[2] = last /\ e[1] >= at + 1}
    BY <1>1, EntriesFixed DEF PendingEdges
  <2>2. last \in {order[i] : i \in 1 .. Len(order)}
    BY <1>1
  <2>3. \A e \in Edges : e = edge <=> e[1] = at /\ e[2] = last
    BY EdgeFields
  <2>4. \A e \in Edges : e[1] >= at + 1 <=> e[1] >= at /\ e[1] # at
    BY <1>2, EdgeFields
  <2>5. PendingEdges = {e \in Edges :
                           \/ e[2] \notin {order[i] : i \in 1 .. Len(order)}
                           \/ e[2] = last /\ e[1] >= at}
    BY <1>1 DEF PendingEdges
  <2>6. QED
    BY <2>1, <2>2, <2>3, <2>4, <2>5
<1>5. CASE last \notin entries[at].deps
  <2>1. queue' = queue /\ inDegree' = inDegree
    BY <1>5 DEF Relax
  <2>2. edge \notin Edges
    BY <1>5 DEF Edges
  <2>3. PendingEdges' = PendingEdges
    BY <1>4, <2>2 DEF PendingEdges
  <2>4. DegreesRight' /\ QueueReady' /\ OnlyRegistered'
    BY <1>1, <2>1, <2>3, EntriesFixed
       DEF DegreesRight, QueueReady, OnlyRegistered, Pending
  <2>5. QED
    BY <1>3, <2>4
<1>6. CASE last \in entries[at].deps
  <2>1. /\ inDegree' = [inDegree EXCEPT ![n] = @ - 1]
        /\ queue' = IF inDegree[n] = 1 THEN Append(queue, n) ELSE queue
    BY <1>6 DEF Relax
  <2>2. last \in Names
    BY <1>2, <1>6, EntryFields
  <2>3. edge \in PendingEdges /\ entries[edge[1]].name = n
    BY <1>1, <1>2, <1>6, <2>2 DEF PendingEdges, Edges, Index
  <2>4. Pending(n)' = Pending(n) \ {edge}
    BY <1>1, <1>4 DEF Pending
  <2>5. \A m \in Names : m # n => Pending(m)' = Pending(m)
    BY <1>1, <1>4, <2>3 DEF Pending
  <2>6. /\ IsFiniteSet(Pending(n)) /\ IsFiniteSet(Pending(n)')
        /\ Cardinality(Pending(n)') = Cardinality(Pending(n)) - 1
    <3>1. IsFiniteSet(Pending(n)) /\ edge \in Pending(n)
      BY <2>3, PendingFinite DEF Pending
    <3>2. QED
      BY <2>4, <3>1, FS_RemoveElement
  <2>7. inDegree[n] = Cardinality(Pending(n))
    BY <1>1, <1>2 DEF DegreesRight
  <2>8. DegreesRight'
    <3>1. \A m \in Names : inDegree'[m] = Cardinality(Pending(m)')
      BY <1>1, <1>2, <2>1, <2>5, <2>6, <2>7 DEF DegreesRight
    <3>2. QED
      BY <1>1, <3>1 DEF DegreesRight
  <2>9. CASE inDegree[n] # 1
    <3>1. queue' = queue
      BY <2>1, <2>9
    <3>2. QED
      BY <1>1, <1>3, <1>4, <2>8, <3>1, EntriesFixed
           DEF QueueReady, OnlyRegistered
  <2>10. CASE inDegree[n] = 1
    <3>1. queue' = Append(queue, n)
      BY <2>1, <2>10
    <3>2. /\ Len(queue) \in Nat
          /\ Len(queue') = Len(queue) + 1
          /\ \A i \in 1 .. Len(queue') :
               \/ i \in 1 .. Len(queue) /\ queue'[i] = queue[i]
               \/ i = Len(queue') /\ queue'[i] = n
      BY <1>2, <3>1, AppendCases
    <3>3. \A e \in PendingEdges \ {edge} : entries[e[1]].name # n
      <4>1. Pending(n) \ {edge} = {}
        <5>1. Cardinality(Pending(n) \ {edge}) = 0 /\ IsFiniteSet(Pending(n) \ {edge})
          BY <2>4, <2>6, <2>7, <2>10
        <5>2. QED
          BY <5>1, FS_EmptySet
      <4>2. QED
        BY <4>1 DEF Pending
    <3>4. \A i \in 1 .. Len(queue) : queue[i] # n
      BY <2>3 DEF QueueReady
    <3>5. \A i \in 1 .. Len(order) : order[i] # n
      <4>1. SUFFICES ASSUME NEW i \in 1 .. Len(order), order[i] = n PROVE FALSE
        OBVIOUS
      <4>2. edge \in Edges /\ edge[2] = last
        BY <2>3 DEF PendingEdges
      <4>3. PICK j \in 1 .. i - 1 : order[j] = last
        BY <2>3, <4>1, <4>2 DEF OrderReady
      <4>4. j \in 1 .. Len(order) /\ Len(order) \in 1 .. Len(order) /\ j # Len(order)
        BY <1>1, <4>1, <4>3
      <4>5. QED
        BY <4>3, <4>4 DEF OrderReady
    <3>6. QueueReady'
      <4>1. \A i \in 1 .. Len(queue'), e \in PendingEdges \ {edge} :
              entries[e[1]].name # queue'[i]
        BY <3>2, <3>3 DEF QueueReady
      <4>2. \A i, j \in 1 .. Len(queue') : queue'[i] = queue'[j] => i = j
        BY <3>2, <3>4 DEF QueueReady
      <4>3. \A i \in 1 .. Len(queue'), j \in 1 .. Len(order) : queue'[i] # order[j]
        BY <3>2, <3>5 DEF QueueReady
      <4>4. QED
        BY <1>1, <1>4, <4>1, <4>2, <4>3 DEF QueueReady
    <3>7. OnlyRegistered'
      BY <1>1, <1>2, <3>2, EntriesFixed DEF OnlyRegistered
    <3>8. QED
      BY <1>3, <2>8, <3>6, <3>7
  <2>11. QED
    BY <2>9, <2>10
<1>7. QED
  BY <1>5, <1>6

LEMMA SortInvStep ==
  ASSUME DistinctNames, SortInv, [SortNext]_sortVars
  PROVE  SortInv'
<1> USE DEF SortInv
<1>1. SortTypeOK'
  BY SortTypeStep
<1>2. entries' = entries
  BY DEF SortNext, RejectMissing, CountInDegrees, QueueRoot, RootsQueued, Pop,
         Relax, FinishSort, sortVars
<1>3. ASSUME order' = order
      PROVE  OrderReady'
  BY <1>2, <1>3, EntriesFixed DEF OrderReady
<1>4. ASSUME order' = order, queue' = queue
      PROVE  OnlyRegistered'
  BY <1>2, <1>4, EntriesFixed DEF OnlyRegistered
<1>5. ASSUME order' = order, queue' = queue, at' = at, inDegree' = inDegree,
             phase \notin {"new", "missing"} \/ phase' \in {"new", "missing"}
      PROVE  DegreesRight' /\ QueueReady'
  <2>1. PendingEdges' = PendingEdges
    BY <1>2, <1>5, EntriesFixed DEF PendingEdges
  <2>2. QED
    BY <1>2, <1>5, <2>1 DEF DegreesRight, QueueReady, Pending
<1>6. CASE RejectMissing
  <2>1. LoopsInPlace'
    BY <1>6 DEF RejectMissing, LoopsInPlace
  <2>2. QED
    BY <1>1, <1>3, <1>4, <1>5, <1>6, <2>1 DEF RejectMissing
<1>7. CASE CountInDegrees
  <2>1. LoopsInPlace'
    BY <1>7, <1>2 DEF CountInDegrees, LoopsInPlace
  <2>2. QED
    BY <1>1, <1>3, <1>4, <1>7, <2>1, CountInv DEF CountInDegrees
<1>8. CASE QueueRoot
  BY <1>1, <1>3, <1>8, QueueRootInv DEF QueueRoot
<1>9. CASE RootsQueued
  <2>1. LoopsInPlace'
    BY <1>9 DEF RootsQueued, LoopsInPlace, SortTypeOK
  <2>2. QED
    BY <1>1, <1>3, <1>4, <1>5, <1>9, <2>1 DEF RootsQueued
<1>10. CASE Pop
  BY <1>1, <1>10, PopInv
<1>11. CASE Relax
  BY <1>1, <1>3, <1>11, RelaxInv DEF Relax
<1>12. CASE FinishSort
  <2>1. LoopsInPlace'
    BY <1>12 DEF FinishSort, LoopsInPlace
  <2>2. QED
    BY <1>1, <1>3, <1>4, <1>5, <1>12, <2>1 DEF FinishSort
<1>13. CASE UNCHANGED sortVars
  <2>1. LoopsInPlace'
    BY <1>13 DEF sortVars, LoopsInPlace
  <2>2. QED
    BY <1>1, <1>3, <1>4, <1>5, <1>13, <2>1 DEF sortVars
<1>14. QED
  BY <1>6, <1>7, <1>8, <1>9, <1>10, <1>11, <1>12, <1>13 DEF SortNext

LEMMA DepsOfEntries ==
  ASSUME entries \in Seq(Entry), NEW n, NEW d \in Deps(n)
  PROVE  \E k \in 1 .. Len(entries) : entries[k].name = n /\ d \in entries[k].deps
<1>1. PICK k \in {j \in Index : entries[j].name = n} : d \in entries[k].deps
  BY DEF Deps
<1>2. k \in 1 .. Len(entries)
  BY DEF Index
<1>3. QED
  BY <1>1, <1>2

LEMMA SortInvRespects ==
  ASSUME SortInv
  PROVE  Respects(order)
<1> USE DEF SortInv, SortTypeOK
<1>1. DOMAIN order = 1 .. Len(order)
  OBVIOUS
<1>2. ASSUME NEW i \in 1 .. Len(order), NEW d \in Deps(order[i])
      PROVE  \E j \in 1 .. i - 1 : order[j] = d
  <2>1. PICK k \in 1 .. Len(entries) : entries[k].name = order[i] /\ d \in entries[k].deps
    BY DepsOfEntries
  <2>2. d \in Names
    BY <2>1, EntryFields
  <2>3. <<k, d>> \in Edges
    BY <2>1, <2>2 DEF Edges, Index
  <2>4. QED
    BY <2>1, <2>3 DEF OrderReady
<1>3. \A i \in DOMAIN order : Deps(order[i]) \subseteq {order[j] : j \in 1 .. i - 1}
  BY <1>1, <1>2
<1>4. \A i, j \in DOMAIN order : order[i] = order[j] => i = j
  BY <1>1 DEF OrderReady
<1>5. QED
  BY <1>3, <1>4 DEF Respects

\* Whatever is registered, if no name is registered twice then in the order
\* NewManager computes a service comes after everything it depends on, and once.
THEOREM SortRespectsDependencies == SortSpec => []OrderRespectsDependencies
<1> DEFINE Inv == DistinctNames => SortInv
<1>1. SortInit => Inv
  BY SortInitInv
<1>2. Inv /\ [SortNext]_sortVars => Inv'
  <2>1. ASSUME [SortNext]_sortVars PROVE DistinctNames' = DistinctNames
    <3>1. entries' = entries
      BY <2>1 DEF SortNext, RejectMissing, CountInDegrees, QueueRoot, RootsQueued,
           Pop, Relax, FinishSort, sortVars
    <3>2. QED
      BY <3>1, EntriesFixed
  <2>2. QED
    BY <2>1, SortInvStep
<1>3. Inv => OrderRespectsDependencies
  BY SortInvRespects DEF OrderRespectsDependencies
<1>4. QED
  BY <1>1, <1>2, <1>3, PTL DEF SortSpec
-----------------------------------------------------------------------------
(* That the sort ends with every registration ordered, or with a knot. *)

InQueue(n) == \E i \in 1 .. Len(queue) : queue[i] = n
InOrder(n) == \E i \in 1 .. Len(order) : order[i] = n

\* A registered service with no pending dependency is waiting in the queue or has been
\* popped, once the loop over the roots has seen it; and the sort ends only with its
\* loops run out, every dependency being registered.
NoneForgotten ==
  /\ phase = "new" => at = 1
  /\ phase = "roots" =>
       \A i \in 1 .. at - 1 : inDegree[entries[i].name] = 0 => InQueue(entries[i].name)
  /\ phase \in {"sorting", "built", "cyclic"} =>
       \A n \in Registered : inDegree[n] = 0 => InQueue(n) \/ InOrder(n)
  /\ phase \notin {"new", "missing"} => \A i \in Index : entries[i].deps \subseteq Registered
  /\ phase \in {"built", "cyclic"} => queue = <<>> /\ at > Len(entries)
  /\ phase = "built" => Len(order) = Len(entries)
  /\ phase = "cyclic" => Len(order) # Len(entries)

\* What was in the queue stays there when it grows, and its new end is in it.
LEMMA QueueGrows ==
  ASSUME SortTypeOK, NEW n \in Names, queue' = Append(queue, n)
  PROVE  /\ InQueue(n)'
         /\ \A m : InQueue(m) => InQueue(m)'
<1>1. /\ Len(queue) \in Nat /\ Len(queue') = Len(queue) + 1 /\ queue'[Len(queue')] = n
      /\ \A i \in 1 .. Len(queue) : queue'[i] = queue[i]
  BY AppendCases DEF SortTypeOK
<1>2. Len(queue') \in 1 .. Len(queue') /\ \A i \in 1 .. Len(queue) : i \in 1 .. Len(queue')
  BY <1>1
<1>3. QED
  BY <1>1, <1>2 DEF InQueue

LEMMA RootNotForgotten ==
  ASSUME SortTypeOK, NoneForgotten, QueueRoot
  PROVE  NoneForgotten'
<1> USE DEF SortTypeOK
<1> PICK n : n = entries[at].name
  OBVIOUS
<1>1. /\ phase = "roots" /\ phase' = "roots" /\ at \in 1 .. Len(entries) /\ at' = at + 1
      /\ UNCHANGED <<entries, inDegree>> /\ n \in Names
      /\ queue' = IF inDegree[n] = 0 THEN Append(queue, n) ELSE queue
  BY EntryFields DEF QueueRoot
<1>2. \A m : InQueue(m) => InQueue(m)'
  <2>1. CASE inDegree[n] = 0
    BY <1>1, <2>1, QueueGrows
  <2>2. CASE inDegree[n] # 0
    BY <1>1, <2>2 DEF InQueue
  <2>3. QED
    BY <2>1, <2>2
<1>3. inDegree[n] = 0 => InQueue(n)'
  BY <1>1, QueueGrows
<1>4. \A i \in 1 .. at : inDegree[entries[i].name] = 0 => InQueue(entries[i].name)'
  <2>1. \A i \in 1 .. at : i \in 1 .. at - 1 \/ i = at
    BY <1>1
  <2>2. QED
    BY <1>1, <1>2, <1>3, <2>1 DEF NoneForgotten
<1>5. \A i \in Index' : entries'[i].deps \subseteq Registered'
  BY <1>1, EntriesFixed DEF NoneForgotten, Index
<1>6. at' - 1 = at
  BY <1>1
<1>7. QED
  BY <1>1, <1>4, <1>5, <1>6 DEF NoneForgotten

LEMMA PopNotForgotten ==
  ASSUME SortTypeOK, NoneForgotten, Pop
  PROVE  NoneForgotten'
<1> USE DEF SortTypeOK
<1> PICK h : h = Head(queue)
  OBVIOUS
<1>1. /\ phase = "sorting" /\ phase' = "sorting"
      /\ UNCHANGED <<entries, inDegree>> /\ h \in Names
      /\ queue # <<>> /\ queue' = Tail(queue) /\ order' = Append(order, h)
  BY DEF Pop
<1>2. /\ Len(queue) \in Nat /\ h = queue[1] /\ Len(queue') = Len(queue) - 1
      /\ \A i \in 1 .. Len(queue') : queue'[i] = queue[i + 1]
  BY <1>1
<1>3. \A m : InQueue(m) => InQueue(m)' \/ m = h
  <2>1. ASSUME NEW i \in 1 .. Len(queue), i # 1
        PROVE  i - 1 \in 1 .. Len(queue') /\ queue'[i - 1] = queue[i]
    <3>1. i - 1 \in 1 .. Len(queue') /\ (i - 1) + 1 = i
      BY <1>2, <2>1
    <3>2. queue'[i - 1] = queue[(i - 1) + 1]
      BY <1>2, <3>1
    <3>3. QED
      BY <3>1, <3>2
  <2>2. QED
    BY <1>2, <2>1 DEF InQueue
<1>4. \A m : InOrder(m) \/ m = h => InOrder(m)'
  <2>1. /\ Len(order) \in Nat /\ Len(order') = Len(order) + 1 /\ order'[Len(order')] = h
        /\ \A i \in 1 .. Len(order) : order'[i] = order[i]
    BY <1>1, AppendCases
  <2>2. Len(order') \in 1 .. Len(order') /\ \A i \in 1 .. Len(order) : i \in 1 .. Len(order')
    BY <2>1
  <2>3. QED
    BY <2>1, <2>2 DEF InOrder
<1>5. QED
  BY <1>1, <1>3, <1>4, EntriesFixed DEF NoneForgotten, Index

LEMMA RelaxNotForgotten ==
  ASSUME SortTypeOK, NoneForgotten, Relax
  PROVE  NoneForgotten'
<1> USE DEF SortTypeOK
<1> PICK n : n = entries[at].name
  OBVIOUS
<1>1. /\ phase = "sorting" /\ phase' = "sorting"
      /\ UNCHANGED <<entries, order>> /\ at \in 1 .. Len(entries) /\ n \in Names
      /\ \/ UNCHANGED <<inDegree, queue>>
         \/ /\ inDegree' = [inDegree EXCEPT ![n] = @ - 1]
            /\ queue' = IF inDegree[n] = 1 THEN Append(queue, n) ELSE queue
  BY EntryFields DEF Relax
<1>2. CASE UNCHANGED <<inDegree, queue>>
  BY <1>1, <1>2, EntriesFixed DEF NoneForgotten, InQueue, InOrder, Index
<1>3. CASE /\ inDegree' = [inDegree EXCEPT ![n] = @ - 1]
           /\ queue' = IF inDegree[n] = 1 THEN Append(queue, n) ELSE queue
  <2>1. \A m : InQueue(m) => InQueue(m)'
    <3>1. CASE inDegree[n] = 1
      BY <1>1, <1>3, <3>1, QueueGrows
    <3>2. CASE inDegree[n] # 1
      BY <1>3, <3>2 DEF InQueue
    <3>3. QED
      BY <3>1, <3>2
  <2>2. inDegree'[n] = 0 => InQueue(n)'
    <3>1. inDegree'[n] = inDegree[n] - 1 /\ inDegree[n] \in Int
      BY <1>1, <1>3
    <3>2. QED
      BY <1>1, <1>3, <3>1, QueueGrows
  <2>3. \A m \in Names : m # n => inDegree'[m] = inDegree[m]
    BY <1>3
  <2>4. \A m : InOrder(m)' = InOrder(m)
    BY <1>1 DEF InOrder
  <2>5. Registered \subseteq Names /\ Registered' = Registered
    BY <1>1, EntryFields, EntriesFixed DEF Registered, Index
  <2>6. QED
    BY <1>1, <2>1, <2>2, <2>3, <2>4, <2>5 DEF NoneForgotten, Index
<1>4. QED
  BY <1>1, <1>2, <1>3

LEMMA NoneForgottenStep ==
  ASSUME SortTypeOK, NoneForgotten, [SortNext]_sortVars
  PROVE  NoneForgotten'
<1> USE DEF SortTypeOK
<1>1. CASE RejectMissing
  BY <1>1 DEF RejectMissing, NoneForgotten
<1>2. CASE CountInDegrees
  <2>1. /\ phase' = "roots" /\ at' = at /\ entries' = entries
        /\ \A i \in Index : entries[i].deps \subseteq Registered
    BY <1>2 DEF CountInDegrees
  <2>2. at = 1
    BY <1>2 DEF CountInDegrees, NoneForgotten
  <2>3. QED
    BY <2>1, <2>2, EntriesFixed DEF NoneForgotten, Index
<1>3. CASE QueueRoot
  BY <1>3, RootNotForgotten
<1>4. CASE RootsQueued
  <2>1. /\ phase = "roots" /\ phase' = "sorting" /\ at = Len(entries) + 1
        /\ UNCHANGED <<entries, inDegree, queue, order>>
    BY <1>4 DEF RootsQueued
  <2>2. \A n \in Registered : inDegree[n] = 0 => InQueue(n)
    <3>1. Index = 1 .. at - 1
      BY <2>1 DEF Index
    <3>2. QED
      BY <2>1, <3>1 DEF NoneForgotten, Registered
  <2>3. QED
    BY <2>1, <2>2, EntriesFixed DEF NoneForgotten, InQueue, InOrder, Index
<1>5. CASE Pop
  BY <1>5, PopNotForgotten
<1>6. CASE Relax
  BY <1>6, RelaxNotForgotten
<1>7. CASE FinishSort
  BY <1>7, EntriesFixed DEF FinishSort, NoneForgotten, InQueue, InOrder, Index
<1>8. CASE UNCHANGED sortVars
  BY <1>8, EntriesFixed DEF sortVars, NoneForgotten, InQueue, InOrder, Index
<1>9. QED
  BY <1>1, <1>2, <1>3, <1>4, <1>5, <1>6, <1>7, <1>8 DEF SortNext

Values(f, n) == {f[i] : i \in 1 .. n}
Injective(f, n) == \A i, j \in 1 .. n : f[i] = f[j] => i = j

\* As many values as indices, when no value comes twice.
LEMMA InjectiveRange ==
  ASSUME NEW n \in Nat, NEW S, NEW f \in [1 .. n -> S],
         Injective(f, n)
  PROVE  IsFiniteSet(Values(f, n)) /\ Cardinality(Values(f, n)) = n
<1>1. f \in Bijection(1 .. n, Values(f, n))
  BY DEF Bijection, Injection, Surjection, IsInjective, Injective, Values
<1>2. IsFiniteSet(1 .. n) /\ Cardinality(1 .. n) = n
  BY FS_Interval
<1>3. QED
  BY <1>1, <1>2, FS_Bijection DEF ExistsBijection

Ordered == {order[i] : i \in 1 .. Len(order)}

\* All the registrations have been ordered exactly when there are as many.
LEMMA OrderedAll ==
  ASSUME DistinctNames, SortInv
  PROVE  Ordered = Registered <=> Len(order) = Len(entries)
<1> USE DEF SortInv, SortTypeOK
<1>1. IsFiniteSet(Ordered) /\ Cardinality(Ordered) = Len(order)
  <2>1. Len(order) \in Nat /\ order \in [1 .. Len(order) -> Names]
    OBVIOUS
  <2>2. Injective(order, Len(order)) /\ Ordered = Values(order, Len(order))
    BY DEF OrderReady, Injective, Ordered, Values
  <2>3. QED
    BY <2>1, <2>2, InjectiveRange
<1>2. IsFiniteSet(Registered) /\ Cardinality(Registered) = Len(entries)
  <2> DEFINE name == [i \in 1 .. Len(entries) |-> entries[i].name]
  <2>1. /\ Len(entries) \in Nat /\ Index = 1 .. Len(entries)
        /\ name \in [1 .. Len(entries) -> Names]
    BY EntryFields DEF Index
  <2>2. Injective(name, Len(entries))
    BY <2>1 DEF DistinctNames, Injective
  <2>3. Registered = Values(name, Len(entries))
    BY <2>1 DEF Registered, Values
  <2> HIDE DEF name
  <2>4. QED
    BY <2>1, <2>2, <2>3, InjectiveRange
<1>3. Ordered \in SUBSET Registered
  BY DEF OnlyRegistered, Ordered
<1>4. QED
  BY <1>1, <1>2, <1>3, FS_Subset

\* A nonempty set of indices has a least one.
LEMMA LeastIndex ==
  ASSUME NEW T \in SUBSET Nat, T # {}
  PROVE  \E i \in T : \A j \in T : i <= j
<1>1. PICK i \in T : \A j \in T : ~(<<j, i>> \in OpToRel(<, Nat))
  BY NatLessThanWellFounded, WFMin
<1>2. ASSUME NEW j \in T PROVE i <= j
  <2>1. i \in Nat /\ j \in Nat
    BY <1>1
  <2>2. ~(j < i)
    BY <1>1, <2>1 DEF OpToRel
  <2>3. QED
    BY <2>1, <2>2
<1>3. QED
  BY <1>2

\* What stands in an order that respects the dependencies is in no knot.
LEMMA OrderedUntied ==
  ASSUME Respects(order), order \in Seq(Names), NEW S, Knot(S)
  PROVE  \E n \in S : n \notin Ordered
<1> SUFFICES ASSUME \A n \in S : n \in Ordered PROVE FALSE
  OBVIOUS
<1> DEFINE T == {i \in 1 .. Len(order) : order[i] \in S}
<1>1. T \in SUBSET Nat /\ T # {}
  BY DEF Knot, Ordered
<1>2. PICK i \in T : \A j \in T : i <= j
  BY <1>1, LeastIndex
<1>3. PICK d \in Deps(order[i]) : d \in S
  BY <1>2 DEF Knot
<1>4. i \in DOMAIN order /\ Len(order) \in Nat
  BY <1>2
<1>5. PICK j \in 1 .. i - 1 : order[j] = d
  BY <1>3, <1>4 DEF Respects
<1>6. j \in T /\ j < i
  BY <1>3, <1>4, <1>5
<1>7. QED
  BY <1>2, <1>6

\* When the queue has run out, what has not been ordered waits for itself.
LEMMA RestIsKnot ==
  ASSUME SortInv, NoneForgotten, phase = "cyclic", Ordered # Registered
  PROVE  Knot(Registered \ Ordered)
<1> USE DEF SortInv, SortTypeOK
<1>1. Registered \ Ordered # {}
  BY DEF OnlyRegistered, Ordered
<1>2. ASSUME NEW n \in Registered \ Ordered
      PROVE  Deps(n) \cap (Registered \ Ordered) # {}
  <2>1. n \in Names
    BY EntryFields DEF Registered, Index
  <2>2. ~InQueue(n) /\ ~InOrder(n)
    BY DEF NoneForgotten, InQueue, InOrder, Ordered
  <2>3. Cardinality(Pending(n)) # 0
    BY <2>1, <2>2 DEF NoneForgotten, DegreesRight
  <2>4. PICK e \in PendingEdges : entries[e[1]].name = n
    BY <2>3, FS_EmptySet DEF Pending
  <2>5. e \in Edges /\ e[1] \in 1 .. Len(entries) /\ e[2] \in entries[e[1]].deps
    BY <2>4, EdgeFields DEF PendingEdges
  <2>6. ~(e[1] >= at)
    BY <2>5 DEF NoneForgotten
  <2>7. e[2] \notin Ordered
    BY <2>4, <2>6 DEF PendingEdges, Ordered
  <2>8. e[2] \in Registered
    BY <2>5 DEF NoneForgotten, Index
  <2>9. e[2] \in Deps(n)
    BY <2>4, <2>5 DEF Deps, Index
  <2>10. QED
    BY <2>7, <2>8, <2>9
<1>3. QED
  BY <1>1, <1>2 DEF Knot

\* Whatever is registered, if no name is registered twice then NewManager returns an
\* order of all the services or finds a cycle in their dependencies, and only when there
\* is one.
THEOREM SortOrdersOrFindsCycle == SortSpec => []OrderOrCycle
<1> DEFINE Inv == DistinctNames => SortInv /\ NoneForgotten
<1>1. SortInit => Inv
  BY SortInitInv DEF SortInit, NoneForgotten
<1>2. Inv /\ [SortNext]_sortVars => Inv'
  <2>1. ASSUME [SortNext]_sortVars PROVE DistinctNames' = DistinctNames
    <3>1. entries' = entries
      BY <2>1 DEF SortNext, RejectMissing, CountInDegrees, QueueRoot, RootsQueued, Pop,
         Relax, FinishSort, sortVars
    <3>2. QED
      BY <3>1, EntriesFixed
  <2>2. SortInv => SortTypeOK
    BY DEF SortInv
  <2>3. QED
    BY <2>1, <2>2, SortInvStep, NoneForgottenStep
<1>3. ASSUME DistinctNames, SortInv, NoneForgotten PROVE OrderOrCycle
  <2>1. /\ Respects(order) /\ order \in Seq(Names)
        /\ {order[i] : i \in DOMAIN order} = Ordered
    BY <1>3, SortInvRespects DEF SortInv, SortTypeOK, Ordered
  <2>2. CASE phase = "cyclic"
    <3>1. Knot(Registered \ Ordered)
      BY <1>3, <2>2, OrderedAll, RestIsKnot DEF NoneForgotten
    <3>2. QED
      BY <2>2, <3>1 DEF OrderOrCycle
  <2>3. CASE phase = "built"
    <3>1. Ordered = Registered
      BY <1>3, <2>3, OrderedAll DEF NoneForgotten
    <3>2. \A S \in SUBSET Registered : ~Knot(S)
      BY <2>1, <3>1, OrderedUntied
    <3>3. QED
      BY <2>1, <2>3, <3>1, <3>2 DEF OrderOrCycle
  <2>4. QED
    BY <2>2, <2>3 DEF OrderOrCycle
<1>4. Inv => OrderOrCycle
  BY <1>3 DEF OrderOrCycle
<1>5. QED
  BY <1>1, <1>2, <1>4, PTL DEF SortSpec
-----------------------------------------------------------------------------
(* The manager. *)

Calling == {"start_call", "roll_call", "stop_call"}

\* Where the manager may be: it has called a service only while it has one to
\* call, started is a prefix of the order, and live counts started except in the
\* stop loops.
ManagerInPlace ==
  /\ phase # "built" => pc = "idle" /\ started = <<>>
  /\ call # "none" <=> pc \in Calling
  /\ Len(started) <= Len(order)
  /\ \A i \in 1 .. Len(started) : started[i] = order[i]
  /\ pc \in {"idle", "starting", "start_call"} => live = Len(started)
  /\ pc = "start_call" => Len(started) < Len(order)
  /\ pc \in {"roll_call", "stop_call"} => live > 0

ManagerInv == TypeOK /\ ManagerInPlace

LEMMA ManagerInit == Init => ManagerInv
<1> SUFFICES ASSUME Init PROVE ManagerInv
  OBVIOUS
<1>1. SortTypeOK
  BY ConfigsAssumption DEF Init, SortInit, SortTypeOK, Phases
<1>2. TypeOK
  BY <1>1, MaxStartupsAssumption DEF Init, TypeOK, PCs, Kinds
<1>3. ManagerInPlace
  BY DEF Init, SortInit, ManagerInPlace, Calling
<1>4. QED
  BY <1>2, <1>3 DEF ManagerInv

\* The service the manager is at has a name, wherever it has one to be at.
LEMMA CurrentService ==
  ASSUME ManagerInv
  PROVE  /\ Len(started) < Len(order) => Starting \in Names
         /\ live > 0 => Stopping \in Names
BY DEF ManagerInv, TypeOK, SortTypeOK, Starting, Stopping

\* What is active stands where the order has it.
LEMMA ActiveInOrder ==
  ASSUME ManagerInv
  PROVE  \A i \in 1 .. live : i \in DOMAIN order /\ started[i] = order[i]
<1>1. /\ DOMAIN order = 1 .. Len(order) /\ Len(started) <= Len(order)
      /\ live <= Len(started) /\ live \in Int /\ Len(started) \in Nat /\ Len(order) \in Nat
  BY DEF ManagerInv, ManagerInPlace, TypeOK, SortTypeOK
<1>2. ASSUME NEW i \in 1 .. live PROVE i \in 1 .. Len(started) /\ i \in DOMAIN order
  BY <1>1
<1>3. QED
  BY <1>2 DEF ManagerInv, ManagerInPlace

\* A step of NewManager: nothing is started yet.
LEMMA NewManagerInv ==
  ASSUME ManagerInv, NewManager
  PROVE  ManagerInv'
<1> USE DEF ManagerInv
<1>1. SortTypeOK'
  BY SortTypeStep DEF NewManager, TypeOK
<1>2. TypeOK'
  BY <1>1 DEF NewManager, managerVars, serviceVars, historyVars, TypeOK
<1>3. phase # "built"
  BY DEF NewManager, SortNext, RejectMissing, CountInDegrees, QueueRoot,
         RootsQueued, Pop, Relax, FinishSort
<1>4. Len(order') \in Nat
  BY <1>1 DEF SortTypeOK
<1>5. ManagerInPlace'
  BY <1>3, <1>4 DEF NewManager, managerVars, serviceVars, historyVars,
                    ManagerInPlace, Calling
<1>6. QED
  BY <1>2, <1>5
\* The sort's variables are as they were in every other step.
LEMMA SortTypeFrame ==
  ASSUME SortTypeOK, UNCHANGED sortVars
  PROVE  SortTypeOK'
BY DEF SortTypeOK, sortVars

\* What Return and LateReturn do to the services keeps their types.
LEMMA FinishType ==
  ASSUME NEW n \in Names, NEW kind, NEW r, Finish(n, kind, r),
         up \in SUBSET Names, refused \in SUBSET Names
  PROVE  up' \in SUBSET Names /\ refused' \in SUBSET Names
BY DEF Finish

\* Giving up on a call keeps the types of the two records of it.
LEMMA AbandonType ==
  ASSUME NEW n \in Names, NEW kind \in Kinds, NEW to, Abandon(n, kind, to),
         late \in [Names \X Kinds -> Nat], abandoned \in SUBSET (Names \X Kinds)
  PROVE  /\ late' \in [Names \X Kinds -> Nat]
         /\ abandoned' \in SUBSET (Names \X Kinds)
<1>1. <<n, kind>> \in Names \X Kinds
  OBVIOUS
<1>2. late' \in [Names \X Kinds -> Nat]
  BY <1>1 DEF Abandon
<1>3. QED
  BY <1>1, <1>2 DEF Abandon

\* One conjunct of the invariant at a time, for each action.
LEMMA ManagerStepInv ==
  ASSUME ManagerInv, ManagerNext
  PROVE  ManagerInv'
<1> USE DEF ManagerInv, TypeOK, PCs
<1>1. SortTypeOK' /\ UNCHANGED <<phase, order>> /\ Len(order) \in Nat /\ Len(started) \in Nat
  <2>1. UNCHANGED sortVars
    BY DEF ManagerNext, CallStartup, InvokeStart, StartSucceeded, StartFailed,
           StartTimedOut, StartupSucceeds, InvokeRollback, RolledBack,
           StartupFails, CallShutdown, InvokeStop, StopSucceeded, StopFailed,
           StopTimedOut, ShutdownReturns
  <2>2. QED
    BY <2>1, SortTypeFrame DEF sortVars, SortTypeOK
<1>2. CASE CallStartup
  <2>1. TypeOK'
    BY <1>1, <1>2, MaxStartupsAssumption
         DEF CallStartup, serviceVars, historyVars
  <2>2. ManagerInPlace'
    BY <1>1, <1>2 DEF CallStartup, ManagerInPlace, Calling
  <2>3. QED
    BY <2>1, <2>2
<1>3. CASE InvokeStart
  <2>1. TypeOK'
    BY <1>1, <1>3, CurrentService
         DEF InvokeStart, Invoke, ManagerInPlace, serviceVars, historyVars
  <2>2. ManagerInPlace'
    BY <1>1, <1>3 DEF InvokeStart, Invoke, ManagerInPlace, Calling
  <2>3. QED
    BY <2>1, <2>2
<1>4. CASE StartSucceeded
  <2>1. /\ pc = "start_call" /\ pc' = "starting" /\ call' = "none"
        /\ Starting \in Names /\ started' = Append(started, Starting) /\ live' = live + 1
    BY <1>4, CurrentService DEF StartSucceeded, Answered, ManagerInPlace
  <2>2. /\ started' \in Seq(Names)
        /\ Len(started') = Len(started) + 1
        /\ \A i \in 1 .. Len(started') :
             \/ i \in 1 .. Len(started) /\ started'[i] = started[i]
             \/ i = Len(started') /\ started'[i] = Starting
    BY <2>1, AppendCases
  <2>3. TypeOK'
    BY <1>1, <1>4, <2>1, <2>2 DEF StartSucceeded, serviceVars
  <2>4. ManagerInPlace'
    BY <1>1, <2>1, <2>2 DEF ManagerInPlace, Calling, Starting
  <2>5. QED
    BY <2>3, <2>4
<1>5. CASE StartFailed
  <2>1. TypeOK'
    BY <1>1, <1>5, CurrentService
         DEF StartFailed, Answered, ManagerInPlace, serviceVars, historyVars
  <2>2. ManagerInPlace'
    BY <1>1, <1>5 DEF StartFailed, Answered, ManagerInPlace, Calling
  <2>3. QED
    BY <2>1, <2>2
<1>6. CASE StartTimedOut
  <2>1. Starting \in Names /\ "start" \in Kinds
    BY <1>6, CurrentService DEF StartTimedOut, ManagerInPlace, Kinds
  <2>2. late' \in [Names \X Kinds -> Nat] /\ abandoned' \in SUBSET (Names \X Kinds)
    BY <1>6, <2>1, AbandonType DEF StartTimedOut
  <2>3. TypeOK'
    BY <1>1, <1>6, <2>1, <2>2 DEF StartTimedOut, Abandon, ManagerInPlace
  <2>4. ManagerInPlace'
    BY <1>1, <1>6 DEF StartTimedOut, Abandon, ManagerInPlace, Calling
  <2>5. QED
    BY <2>3, <2>4
<1>7. CASE StartupSucceeds
  <2>1. TypeOK'
    BY <1>1, <1>7, CurrentService
         DEF StartupSucceeds, ManagerInPlace, serviceVars, historyVars
  <2>2. ManagerInPlace'
    BY <1>1, <1>7 DEF StartupSucceeds, ManagerInPlace, Calling
  <2>3. QED
    BY <2>1, <2>2
<1>8. CASE InvokeRollback
  <2>1. TypeOK'
    BY <1>1, <1>8, CurrentService
         DEF InvokeRollback, Invoke, ManagerInPlace, serviceVars, historyVars
  <2>2. ManagerInPlace'
    BY <1>1, <1>8 DEF InvokeRollback, Invoke, ManagerInPlace, Calling
  <2>3. QED
    BY <2>1, <2>2
<1>9. CASE RolledBack
  <2>1. TypeOK'
    BY <1>1, <1>9, CurrentService
         DEF RolledBack, Answered, ManagerInPlace, serviceVars, historyVars
  <2>2. ManagerInPlace'
    BY <1>1, <1>9 DEF RolledBack, Answered, ManagerInPlace, Calling
  <2>3. QED
    BY <2>1, <2>2
<1>10. CASE StartupFails
  <2>1. TypeOK'
    BY <1>1, <1>10, CurrentService
         DEF StartupFails, ManagerInPlace, serviceVars, historyVars
  <2>2. ManagerInPlace'
    BY <1>1, <1>10 DEF StartupFails, ManagerInPlace, Calling
  <2>3. QED
    BY <2>1, <2>2
<1>11. CASE CallShutdown
  <2>1. TypeOK'
    BY <1>1, <1>11, CurrentService
         DEF CallShutdown, ManagerInPlace, serviceVars, historyVars
  <2>2. ManagerInPlace'
    BY <1>1, <1>11 DEF CallShutdown, ManagerInPlace, Calling
  <2>3. QED
    BY <2>1, <2>2
<1>12. CASE InvokeStop
  <2>1. TypeOK'
    BY <1>1, <1>12, CurrentService
         DEF InvokeStop, Invoke, ManagerInPlace, serviceVars, historyVars
  <2>2. ManagerInPlace'
    BY <1>1, <1>12 DEF InvokeStop, Invoke, ManagerInPlace, Calling
  <2>3. QED
    BY <2>1, <2>2
<1>13. CASE StopSucceeded
  <2>1. TypeOK'
    BY <1>1, <1>13, CurrentService
         DEF StopSucceeded, Answered, ManagerInPlace, serviceVars, historyVars
  <2>2. ManagerInPlace'
    BY <1>1, <1>13 DEF StopSucceeded, Answered, ManagerInPlace, Calling
  <2>3. QED
    BY <2>1, <2>2
<1>14. CASE StopFailed
  <2>1. TypeOK'
    BY <1>1, <1>14, CurrentService
         DEF StopFailed, Answered, ManagerInPlace, serviceVars, historyVars
  <2>2. ManagerInPlace'
    BY <1>1, <1>14 DEF StopFailed, Answered, ManagerInPlace, Calling
  <2>3. QED
    BY <2>1, <2>2
<1>15. CASE StopTimedOut
  <2>1. Stopping \in Names /\ "stop" \in Kinds
    BY <1>15, CurrentService DEF StopTimedOut, ManagerInPlace, Kinds
  <2>2. late' \in [Names \X Kinds -> Nat] /\ abandoned' \in SUBSET (Names \X Kinds)
    BY <1>15, <2>1, AbandonType DEF StopTimedOut
  <2>3. TypeOK'
    BY <1>1, <1>15, <2>1, <2>2 DEF StopTimedOut, Abandon, ManagerInPlace
  <2>4. ManagerInPlace'
    BY <1>1, <1>15 DEF StopTimedOut, Abandon, ManagerInPlace, Calling
  <2>5. QED
    BY <2>3, <2>4
<1>16. CASE ShutdownReturns
  <2>1. TypeOK'
    BY <1>1, <1>16, CurrentService
         DEF ShutdownReturns, ManagerInPlace, serviceVars, historyVars
  <2>2. ManagerInPlace'
    BY <1>1, <1>16 DEF ShutdownReturns, ManagerInPlace, Calling
  <2>3. QED
    BY <2>1, <2>2
<1>17. QED
  BY <1>2, <1>3, <1>4, <1>5, <1>6, <1>7, <1>8, <1>9, <1>10, <1>11, <1>12,
       <1>13, <1>14, <1>15, <1>16 DEF ManagerNext

LEMMA ServiceStepInv ==
  ASSUME ManagerInv, ServiceNext
  PROVE  ManagerInv'
<1> USE DEF ManagerInv, TypeOK
<1>1. ASSUME NEW r \in {"ok", "err"}, Return(r)
      PROVE  ManagerInv'
  <2>1. SortTypeOK'
    BY <1>1, SortTypeFrame DEF Return
  <2>2. up' \in SUBSET Names /\ refused' \in SUBSET Names
    BY <1>1, CurrentService, FinishType DEF Return, ManagerInPlace, Calling
  <2>3. TypeOK'
    BY <1>1, <2>1, <2>2 DEF Return
  <2>4. ManagerInPlace'
    BY <1>1 DEF Return, ManagerInPlace, Calling, sortVars
  <2>5. QED
    BY <2>3, <2>4
<1>2. ASSUME NEW n \in Names, NEW kind \in Kinds, NEW r \in {"ok", "err"},
             LateReturn(n, kind, r)
      PROVE  ManagerInv'
  <2>1. SortTypeOK'
    BY <1>2, SortTypeFrame DEF LateReturn
  <2>2. up' \in SUBSET Names /\ refused' \in SUBSET Names
    BY <1>2, FinishType DEF LateReturn
  <2>3. late' \in [Names \X Kinds -> Nat]
    <3>1. <<n, kind>> \in Names \X Kinds /\ late[<<n, kind>>] - 1 \in Nat
      BY <1>2 DEF LateReturn
    <3>2. QED
      BY <1>2, <3>1 DEF LateReturn
  <2>4. TypeOK'
    BY <1>2, <2>1, <2>2, <2>3 DEF LateReturn, managerVars
  <2>5. ManagerInPlace'
    BY <1>2 DEF LateReturn, ManagerInPlace, Calling, managerVars, sortVars
  <2>6. QED
    BY <2>4, <2>5
<1>3. QED
  BY <1>1, <1>2 DEF ServiceNext

LEMMA ManagerInvStep ==
  ASSUME ManagerInv, [Next]_vars
  PROVE  ManagerInv'
<1>1. CASE NewManager
  BY <1>1, NewManagerInv
<1>2. CASE ManagerNext
  BY <1>2, ManagerStepInv
<1>3. CASE ServiceNext
  BY <1>3, ServiceStepInv
<1>4. CASE UNCHANGED vars
  <2>1. SortTypeOK'
    BY <1>4, SortTypeFrame DEF vars, ManagerInv, TypeOK
  <2>2. TypeOK'
    BY <1>4, <2>1
       DEF vars, sortVars, managerVars, serviceVars, historyVars, ManagerInv,
            TypeOK
  <2>3. ManagerInPlace'
    BY <1>4 DEF vars, sortVars, managerVars, ManagerInv, ManagerInPlace, Calling
  <2>4. QED
    BY <2>2, <2>3 DEF ManagerInv
<1>5. QED
  BY <1>1, <1>2, <1>3, <1>4 DEF Next

LEMMA ManagerInvariant == Spec => []ManagerInv
<1>1. ManagerInv /\ [Next]_vars => ManagerInv'
  BY ManagerInvStep
<1>2. QED
  BY <1>1, ManagerInit, PTL DEF Spec

\* The manager's variables keep their types: Startup never runs past m.order and
\* no stop loop past the start of m.started, whatever services and deadlines do.
THEOREM LifecycleTypeCorrect == Spec => []TypeOK
<1>1. ManagerInv => TypeOK
  BY DEF ManagerInv
<1>2. QED
  BY <1>1, ManagerInvariant, PTL
-----------------------------------------------------------------------------
(* The manager implements DependencyOrder. *)

LEMMA StepIsSortStep ==
  ASSUME [Next]_vars
  PROVE  [SortNext]_sortVars /\ DistinctNames' = DistinctNames
<1>1. CASE NewManager
  <2>1. SortNext
    BY <1>1 DEF NewManager
  <2>2. entries' = entries
    BY <2>1 DEF SortNext, RejectMissing, CountInDegrees, QueueRoot, RootsQueued,
                Pop, Relax, FinishSort
  <2>3. QED
    BY <2>1, <2>2, EntriesFixed
<1>2. CASE ManagerNext \/ ServiceNext \/ UNCHANGED vars
  <2>1. UNCHANGED sortVars
    BY <1>2 DEF ManagerNext, CallStartup, InvokeStart, StartSucceeded,
         StartFailed,
                StartTimedOut, StartupSucceeds, InvokeRollback, RolledBack,
                StartupFails, CallShutdown, InvokeStop, StopSucceeded, StopFailed,
                StopTimedOut, ShutdownReturns, ServiceNext, Return, LateReturn, vars
  <2>2. QED
    BY <2>1, EntriesFixed DEF sortVars
<1>3. QED
  BY <1>1, <1>2 DEF Next

\* The order the manager works from respects the dependencies, all along.
LEMMA SortedInvariant == Spec => [](DistinctNames => SortInv)
<1> DEFINE Inv == DistinctNames => SortInv
<1>1. Init => Inv
  BY SortInitInv DEF Init
<1>2. Inv /\ [Next]_vars => Inv'
  BY StepIsSortStep, SortInvStep
<1>3. QED
  BY <1>1, <1>2, PTL DEF Spec

\* A service joins the active ones when OnStartup returned nil in time.
LEMMA StartRefines ==
  ASSUME ManagerInv, Respects(order), StartSucceeded
  PROVE  Abstract!Start(Starting)
<1> USE DEF ManagerInv, TypeOK, SortTypeOK
<1> PICK n : n = Starting
  OBVIOUS
<1>1. /\ n = order[Len(started) + 1] /\ Len(started) + 1 \in DOMAIN order
      /\ live = Len(started) /\ live' = live + 1 /\ n \in Names
      /\ started' = Append(started, n) /\ entries' = entries /\ order' = order
  BY CurrentService
     DEF StartSucceeded, Starting, ManagerInPlace, sortVars
<1>2. \A i \in 1 .. live : i \in DOMAIN order /\ started[i] = order[i]
  BY ActiveInOrder
<1>3. n \notin Active
  BY <1>1, <1>2 DEF Active, Respects
<1>4. Deps(n) \subseteq Active
  <2>1. Deps(n) \subseteq {order[j] : j \in 1 .. live}
    BY <1>1 DEF Respects
  <2>2. QED
    BY <1>2, <2>1 DEF Active
<1>5. Active' = Active \cup {n}
  <2>1. {started'[i] : i \in 1 .. Len(started')} =
          {started[i] : i \in 1 .. Len(started)} \cup {n} /\ Len(started') = Len(started) + 1
    BY <1>1, AppendCases
  <2>2. QED
    BY <1>1, <2>1 DEF Active
<1>6. [m \in Names |-> Deps(m)]' = [m \in Names |-> Deps(m)]
  BY <1>1 DEF Deps, Index
<1>7. QED
  BY <1>1, <1>3, <1>4, <1>5, <1>6 DEF Abstract!Start

\* A service leaves when the stop loop passes it.
LEMMA StopRefines ==
  ASSUME ManagerInv, Respects(order), live > 0, live' = live - 1,
         UNCHANGED <<started, sortVars>>
  PROVE  Abstract!Stop(Stopping)
<1> USE DEF ManagerInv, TypeOK, SortTypeOK
<1> PICK n : n = Stopping
  OBVIOUS
<1>1. /\ n = started[live] /\ n \in Names /\ live \in 1 .. live
      /\ live <= Len(started) /\ Len(started) \in Nat /\ Len(order) \in Nat
      /\ started' = started /\ entries' = entries
  BY CurrentService DEF Stopping, sortVars
<1>2. \A i \in 1 .. live : i \in DOMAIN order /\ started[i] = order[i]
  BY ActiveInOrder
<1>3. n \in Active
  BY <1>1, Zenon DEF Active
<1>4. \A i \in 1 .. live - 1 : started[i] # n
  BY <1>1, <1>2 DEF Respects
<1>5. Active' = Active \ {n}
  <2>1. 1 .. live = (1 .. live - 1) \cup {live}
    BY <1>1
  <2>2. Active = {started[i] : i \in 1 .. live - 1} \cup {n}
    BY <1>1, <2>1 DEF Active
  <2>3. Active' = {started[i] : i \in 1 .. live - 1}
    BY <1>1 DEF Active
  <2>4. QED
    BY <1>4, <2>2, <2>3
<1>6. \A m \in Active : n \notin Deps(m)
  <2>1. SUFFICES ASSUME NEW i \in 1 .. live, n \in Deps(started[i]) PROVE FALSE
    BY DEF Active
  <2>2. PICK j \in 1 .. i - 1 : order[j] = n
    BY <1>2, <2>1 DEF Respects
  <2>3. j \in DOMAIN order /\ live \in DOMAIN order /\ order[live] = n /\ j # live
    BY <1>1, <1>2, <2>2
  <2>4. QED
    BY <2>2, <2>3 DEF Respects
<1>7. Active \subseteq Names
  BY <1>2 DEF Active
<1>8. [m \in Names |-> Deps(m)]' = [m \in Names |-> Deps(m)]
  BY <1>1 DEF Deps, Index
<1>9. QED
  BY <1>1, <1>3, <1>5, <1>6, <1>7, <1>8 DEF Abstract!Stop

\* Every other step of the system is invisible to DependencyOrder.
LEMMA OthersRefine ==
  ASSUME ManagerInv, [Next]_vars, ~StartSucceeded, ~RolledBack, ~StopSucceeded,
         ~StopFailed, ~StopTimedOut
  PROVE  UNCHANGED <<[n \in Names |-> Deps(n)], Active>>
<1> USE DEF ManagerInv, TypeOK
<1>1. entries' = entries
  BY StepIsSortStep DEF SortNext, RejectMissing, CountInDegrees, QueueRoot,
     RootsQueued, Pop, Relax, FinishSort, sortVars
<1>2. [n \in Names |-> Deps(n)]' = [n \in Names |-> Deps(n)]
  BY <1>1 DEF Deps, Index
<1>3. \/ started' = started /\ live' = live
      \/ live = 0 /\ live' = 0
  BY DEF Next, NewManager, ManagerNext, CallStartup, InvokeStart, StartFailed,
     StartTimedOut, StartupSucceeds, InvokeRollback, StartupFails, CallShutdown,
     InvokeStop, ShutdownReturns, ServiceNext, Return, LateReturn, vars,
     managerVars, ManagerInPlace
<1>4. Active' = Active
  BY <1>3 DEF Active
<1>5. QED
  BY <1>2, <1>4

\* Whatever services, deadlines and the application do, each start and each stop
\* of the manager is one that DependencyOrder allows: nothing is started before
\* its dependencies or twice, and nothing is stopped before its dependents.
THEOREM LifecycleImplements ==
  Spec /\ []DistinctNames => ImplementsDependencyOrder
<1> DEFINE deps == [n \in Names |-> Deps(n)]
<1>1. Init => Abstract!Init
  <2> SUFFICES ASSUME Init PROVE Abstract!Init
    OBVIOUS
  <2>1. entries \in Seq(Entry)
    BY ConfigsAssumption DEF Init, SortInit
  <2>2. \A n \in Names : Deps(n) \subseteq Names
    <3>1. SUFFICES ASSUME NEW n \in Names, NEW d \in Deps(n) PROVE d \in Names
      OBVIOUS
    <3>2. PICK k \in 1 .. Len(entries) : entries[k].name = n /\ d \in entries[k].deps
      BY <2>1, DepsOfEntries
    <3>3. QED
      BY <2>1, <3>2, EntryFields
  <2>3. Active = {}
    BY DEF Init, Active
  <2>4. QED
    BY <2>2, <2>3 DEF Abstract!Init
<1>2. ASSUME ManagerInv, DistinctNames => SortInv, DistinctNames, [Next]_vars
      PROVE  [Abstract!Next]_<<deps, Active>>
  <2>1. Respects(order)
    BY <1>2, SortInvRespects
  <2>2. CASE StartSucceeded
    <3>1. Starting \in Names
      BY <1>2, <2>2, CurrentService
           DEF StartSucceeded, ManagerInv, ManagerInPlace
    <3>2. QED
      BY <1>2, <2>1, <2>2, <3>1, StartRefines DEF Abstract!Next
  <2>3. CASE RolledBack \/ StopSucceeded \/ StopFailed \/ StopTimedOut
    <3>1. /\ live > 0 /\ live' = live - 1
          /\ UNCHANGED <<started, sortVars>>
      BY <1>2, <2>3 DEF RolledBack, StopSucceeded, StopFailed, StopTimedOut,
                        ManagerInv, ManagerInPlace
    <3>2. Stopping \in Names
      BY <1>2, <3>1, CurrentService
    <3>3. QED
      BY <1>2, <2>1, <3>1, <3>2, StopRefines DEF Abstract!Next
  <2>4. CASE ~(StartSucceeded \/ RolledBack \/ StopSucceeded \/ StopFailed \/ StopTimedOut)
    BY <1>2, <2>4, OthersRefine
  <2>5. QED
    BY <2>2, <2>3, <2>4
<1>3. QED
  BY <1>1, <1>2, ManagerInvariant, SortedInvariant, PTL
     DEF Spec, ImplementsDependencyOrder, Abstract!Spec
-----------------------------------------------------------------------------
(* The manager's books and the services themselves. *)

LateAccounted == \A k \in Names \X Kinds : late[k] > 0 => k \in abandoned

\* What is active runs, but for the service whose OnShutdown has just returned.
ActiveUp ==
  \A i \in 1 .. live :
    \/ started[i] \in up
    \/ <<started[i], "stop">> \in abandoned
    \/ i = live /\ pc \in {"roll_call", "stop_call"} /\ call # "running"

\* What runs is active, or a call has lost it, or its OnStartup has just returned.
UpAccounted ==
  \A n \in up :
    \/ \E i \in 1 .. live : started[i] = n
    \/ StartLost(n)
    \/ StopLost(n)
    \/ pc = "start_call" /\ call = "ok" /\ n = Starting

\* What a result that the manager has not read yet says of the service.
ResultMeansIt ==
  /\ pc = "start_call" /\ call = "ok" =>
       Starting \in up \/ <<Starting, "stop">> \in abandoned
  /\ pc \in {"roll_call", "stop_call"} /\ call = "ok" =>
       Stopping \notin up \/ StartLost(Stopping)
  /\ pc \in {"roll_call", "stop_call"} /\ call = "err" => Stopping \in refused

ServiceInv == LateAccounted /\ ActiveUp /\ UpAccounted /\ ResultMeansIt

LEMMA ServiceInit == Init => ServiceInv
BY DEF Init, ServiceInv, LateAccounted, ActiveUp, UpAccounted, ResultMeansIt

\* A step that changes neither the services nor what is known of them.
LEMMA QuietStep ==
  ASSUME ManagerInv, ServiceInv, UNCHANGED <<serviceVars, abandoned, refused>>,
         (started' = started /\ live' = live) \/ (live = 0 /\ live' = 0),
         call # "none" => pc = "start_call" /\ call # "ok",
         call' # "none" => call' = "running"
  PROVE  ServiceInv'
<1>1. LateAccounted'
  BY DEF ServiceInv, LateAccounted, serviceVars
<1>2. ActiveUp'
  <2>1. pc \notin {"roll_call", "stop_call"}
    BY DEF ManagerInv, ManagerInPlace, Calling
  <2>2. \A i \in 1 .. live : started[i] \in up \/ <<started[i], "stop">> \in abandoned
    BY <2>1 DEF ServiceInv, ActiveUp
  <2>3. QED
    BY <2>2 DEF ActiveUp, serviceVars
<1>3. UpAccounted'
  <2>1. SUFFICES ASSUME NEW n \in up
                 PROVE  \/ \E i \in 1 .. live' : started'[i] = n
                        \/ StartLost(n) \/ StopLost(n)
    BY DEF UpAccounted, serviceVars, StartLost, StopLost
  <2>2. (\E i \in 1 .. live : started[i] = n) \/ StartLost(n) \/ StopLost(n)
    BY DEF ServiceInv, UpAccounted
  <2>3. QED
    BY <2>2
<1>4. ResultMeansIt'
  BY DEF ResultMeansIt
<1>5. QED
  BY <1>1, <1>2, <1>3, <1>4 DEF ServiceInv

\* The manager gives up on a call, or reads the result of a stop.
LEMMA StopStep ==
  ASSUME ManagerInv, ServiceInv, pc \in {"roll_call", "stop_call"},
         live' = live - 1, UNCHANGED <<started, up, refused>>, call' = "none",
         \/ call \in {"ok", "err"} /\ UNCHANGED <<late, abandoned>>
         \/ Abandon(Stopping, "stop", "stopping")
  PROVE  ServiceInv'
<1> USE DEF ManagerInv, TypeOK
<1>1. live \in Nat /\ live > 0 /\ Stopping = started[live] /\ Stopping \in Names
  BY CurrentService DEF ManagerInPlace, Stopping
<1>2. abandoned \subseteq abandoned'
  BY DEF Abandon
<1>3. LateAccounted'
  <2>1. CASE UNCHANGED <<late, abandoned>>
    BY <2>1 DEF ServiceInv, LateAccounted
  <2>2. CASE Abandon(Stopping, "stop", "stopping")
    BY <1>1, <2>2 DEF ServiceInv, LateAccounted, Abandon, Kinds
  <2>3. QED
    BY <2>1, <2>2
<1>4. ActiveUp'
  BY <1>1, <1>2 DEF ServiceInv, ActiveUp
<1>5. UpAccounted'
  <2>1. SUFFICES ASSUME NEW n \in up
                 PROVE  \/ \E i \in 1 .. live - 1 : started[i] = n
                        \/ StartLost(n)' \/ StopLost(n)'
    BY DEF UpAccounted
  <2>2. StartLost(n) \/ StopLost(n) => StartLost(n)' \/ StopLost(n)'
    BY <1>2 DEF StartLost, StopLost
  <2>3. CASE n = Stopping
    <3>1. CASE Abandon(Stopping, "stop", "stopping")
      BY <2>3, <3>1 DEF Abandon, StopLost
    <3>2. CASE call \in {"ok", "err"}
      BY <2>2, <2>3, <3>2 DEF ServiceInv, ResultMeansIt, StopLost
    <3>3. QED
      BY <3>1, <3>2
  <2>4. CASE n # Stopping
    BY <1>1, <2>2, <2>4 DEF ServiceInv, UpAccounted
  <2>5. QED
    BY <2>3, <2>4
<1>6. ResultMeansIt'
  BY DEF ResultMeansIt
<1>7. QED
  BY <1>3, <1>4, <1>5, <1>6 DEF ServiceInv

LEMMA StartSucceededService ==
  ASSUME ManagerInv, ServiceInv, StartSucceeded
  PROVE  ServiceInv'
<1> USE DEF ManagerInv, TypeOK
<1> PICK n : n = Starting
  OBVIOUS
<1>1. /\ pc = "start_call" /\ call = "ok" /\ call' = "none" /\ pc' = "starting"
      /\ live = Len(started) /\ live' = live + 1 /\ n \in Names /\ live \in Nat
      /\ started' = Append(started, n)
      /\ UNCHANGED <<up, late, abandoned, refused>>
  BY CurrentService DEF StartSucceeded, Answered, ManagerInPlace, serviceVars
<1>2. /\ Len(started') = live + 1 /\ started'[live + 1] = n
      /\ \A i \in 1 .. live : started'[i] = started[i]
      /\ \A i \in 1 .. live + 1 : i \in 1 .. live \/ i = live + 1
  BY <1>1, AppendCases
<1>3. LateAccounted' /\ ResultMeansIt'
  BY <1>1 DEF ServiceInv, LateAccounted, ResultMeansIt
<1>4. ActiveUp'
  <2>1. n \in up \/ <<n, "stop">> \in abandoned
    BY <1>1 DEF ServiceInv, ResultMeansIt
  <2>2. \A i \in 1 .. live : started[i] \in up \/ <<started[i], "stop">> \in abandoned
    BY <1>1 DEF ServiceInv, ActiveUp
  <2>3. QED
    BY <1>1, <1>2, <2>1, <2>2 DEF ActiveUp
<1>5. UpAccounted'
  <2>1. SUFFICES ASSUME NEW m \in up
                 PROVE  \/ \E i \in 1 .. live + 1 : started'[i] = m
                        \/ StartLost(m) \/ StopLost(m)
    BY <1>1 DEF UpAccounted, StartLost, StopLost
  <2>2. CASE m = n
    BY <1>1, <1>2, <2>2
  <2>3. CASE \E i \in 1 .. live : started[i] = m
    BY <1>1, <1>2, <2>3
  <2>4. QED
    BY <2>2, <2>3 DEF ServiceInv, UpAccounted
<1>6. QED
  BY <1>3, <1>4, <1>5 DEF ServiceInv

LEMMA StartTimedOutService ==
  ASSUME ManagerInv, ServiceInv, StartTimedOut
  PROVE  ServiceInv'
<1> USE DEF ManagerInv, TypeOK
<1> PICK n : n = Starting
  OBVIOUS
<1>1. /\ pc = "start_call" /\ call' = "none" /\ pc' = "rolling"
      /\ n \in Names /\ UNCHANGED <<started, live, up, refused>>
      /\ late' = [late EXCEPT ![<<n, "start">>] = @ + (IF call = "running" THEN 1 ELSE 0)]
      /\ abandoned' = abandoned \cup {<<n, "start">>}
  BY CurrentService DEF StartTimedOut, Abandon, ManagerInPlace
<1>2. LateAccounted'
  BY <1>1 DEF ServiceInv, LateAccounted, Kinds
<1>3. ActiveUp' /\ ResultMeansIt'
  BY <1>1 DEF ServiceInv, ActiveUp, ResultMeansIt
<1>4. UpAccounted'
  <2>1. SUFFICES ASSUME NEW m \in up
                 PROVE  \/ \E i \in 1 .. live : started[i] = m
                        \/ <<m, "start">> \in abandoned'
                        \/ <<m, "stop">> \in abandoned' \/ m \in refused
    BY <1>1 DEF UpAccounted, StartLost, StopLost
  <2>2. CASE m = n
    BY <1>1, <2>2
  <2>3. CASE m # n
    BY <1>1, <2>3 DEF ServiceInv, UpAccounted, StartLost, StopLost
  <2>4. QED
    BY <2>2, <2>3
<1>5. QED
  BY <1>2, <1>3, <1>4 DEF ServiceInv

LEMMA ReturnService ==
  ASSUME ManagerInv, ServiceInv, Respects(order), NEW r \in {"ok", "err"}, Return(r)
  PROVE  ServiceInv'
<1> USE DEF ManagerInv, TypeOK, SortTypeOK
<1>1. /\ call = "running" /\ call' = r /\ pc \in Calling
      /\ UNCHANGED <<pc, started, live, late, abandoned, order>>
  BY DEF Return, ManagerInPlace, sortVars
<1>2. LateAccounted'
  BY <1>1 DEF ServiceInv, LateAccounted
<1>3. Starting' = Starting /\ Stopping' = Stopping
  BY <1>1 DEF Starting, Stopping
<1>4. CASE pc = "start_call"
  <2>1. /\ up' = IF r = "ok" THEN up \cup {Starting} ELSE up
        /\ refused' = refused
    BY <1>4 DEF Return, Finish
  <2>2. ActiveUp'
    BY <1>1, <1>4, <2>1 DEF ServiceInv, ActiveUp
  <2>3. UpAccounted'
    <3>1. \A n \in up : (\E i \in 1 .. live : started[i] = n) \/ StartLost(n) \/ StopLost(n)
      BY <1>1 DEF ServiceInv, UpAccounted
    <3>2. QED
      BY <1>1, <1>3, <1>4, <2>1, <3>1 DEF UpAccounted, StartLost, StopLost
  <2>4. ResultMeansIt'
    BY <1>1, <1>3, <1>4, <2>1 DEF ResultMeansIt
  <2>5. QED
    BY <1>2, <2>2, <2>3, <2>4 DEF ServiceInv
<1>5. CASE pc \in {"roll_call", "stop_call"}
  <2>1. /\ up' = IF r = "ok" THEN up \ {Stopping} ELSE up
        /\ refused' = IF r = "err" THEN refused \cup {Stopping} ELSE refused
    BY <1>5 DEF Return, Finish
  <2>2. \A i \in 1 .. live : i # live => started[i] # Stopping
    <3>1. \A i \in 1 .. live : i \in DOMAIN order /\ started[i] = order[i]
      BY ActiveInOrder
    <3>2. live \in 1 .. live
      BY <1>5 DEF ManagerInPlace
    <3>3. QED
      BY <3>1, <3>2 DEF Respects, Stopping
  <2>3. ActiveUp'
    BY <1>1, <1>5, <2>1, <2>2 DEF ServiceInv, ActiveUp
  <2>4. UpAccounted'
    <3>1. \A n \in up : (\E i \in 1 .. live : started[i] = n) \/ StartLost(n) \/ StopLost(n)
      BY <1>1 DEF ServiceInv, UpAccounted
    <3>2. QED
      BY <1>1, <2>1, <3>1 DEF UpAccounted, StartLost, StopLost
  <2>5. ResultMeansIt'
    BY <1>1, <1>3, <1>5, <2>1 DEF ResultMeansIt
  <2>6. QED
    BY <1>2, <2>3, <2>4, <2>5 DEF ServiceInv
<1>6. QED
  BY <1>1, <1>4, <1>5 DEF Calling

LEMMA LateReturnService ==
  ASSUME ManagerInv, ServiceInv, NEW n \in Names, NEW kind \in Kinds,
         NEW r \in {"ok", "err"}, LateReturn(n, kind, r)
  PROVE  ServiceInv'
<1> USE DEF ManagerInv, TypeOK
<1>1. /\ UNCHANGED <<pc, call, started, live, abandoned, order>>
      /\ late[<<n, kind>>] > 0
      /\ late' = [late EXCEPT ![<<n, kind>>] = @ - 1]
      /\ <<n, kind>> \in Names \X Kinds
  BY DEF LateReturn, managerVars, sortVars
<1>2. <<n, kind>> \in abandoned
  BY <1>1 DEF ServiceInv, LateAccounted
<1>3. Starting' = Starting /\ Stopping' = Stopping
  BY <1>1 DEF Starting, Stopping
<1>4. LateAccounted'
  BY <1>1, <1>2 DEF ServiceInv, LateAccounted
<1>5. CASE kind = "start"
  <2>1. up' = (IF r = "ok" THEN up \cup {n} ELSE up) /\ refused' = refused
    BY <1>5 DEF LateReturn, Finish
  <2>2. ActiveUp'
    BY <1>1, <2>1 DEF ServiceInv, ActiveUp
  <2>3. UpAccounted'
    BY <1>1, <1>2, <1>3, <1>5, <2>1
         DEF ServiceInv, UpAccounted, StartLost, StopLost
  <2>4. ResultMeansIt'
    BY <1>1, <1>2, <1>3, <1>5, <2>1 DEF ServiceInv, ResultMeansIt, StartLost
  <2>5. QED
    BY <1>4, <2>2, <2>3, <2>4 DEF ServiceInv
<1>6. CASE kind = "stop"
  <2>1. /\ up' = IF r = "ok" THEN up \ {n} ELSE up
        /\ refused' = IF r = "err" THEN refused \cup {n} ELSE refused
    BY <1>6 DEF LateReturn, Finish
  <2>2. ActiveUp'
    BY <1>1, <1>2, <1>6, <2>1 DEF ServiceInv, ActiveUp
  <2>3. UpAccounted'
    BY <1>1, <1>3, <2>1 DEF ServiceInv, UpAccounted, StartLost, StopLost
  <2>4. ResultMeansIt'
    BY <1>1, <1>2, <1>3, <1>6, <2>1 DEF ServiceInv, ResultMeansIt, StartLost
  <2>5. QED
    BY <1>4, <2>2, <2>3, <2>4 DEF ServiceInv
<1>7. QED
  BY <1>5, <1>6 DEF Kinds

LEMMA ServiceInvStep ==
  ASSUME ManagerInv, ServiceInv, Respects(order), [Next]_vars
  PROVE  ServiceInv'
<1> USE DEF ManagerInv, TypeOK
<1>1. CASE \/ NewManager \/ CallStartup \/ InvokeStart \/ StartFailed
           \/ StartupSucceeds \/ InvokeRollback \/ StartupFails
           \/ CallShutdown \/ InvokeStop \/ ShutdownReturns
  <2>1. UNCHANGED <<serviceVars, abandoned, refused>>
    BY <1>1 DEF NewManager, CallStartup, InvokeStart, StartFailed,
         StartupSucceeds,
                InvokeRollback, StartupFails, CallShutdown, InvokeStop,
                ShutdownReturns, historyVars
  <2>2. (started' = started /\ live' = live) \/ (live = 0 /\ live' = 0)
    BY <1>1 DEF NewManager, CallStartup, InvokeStart, StartFailed,
         StartupSucceeds,
                InvokeRollback, StartupFails, CallShutdown, InvokeStop,
                ShutdownReturns, managerVars, ManagerInPlace
  <2>3. CASE UNCHANGED <<pc, call>>
    <3>1. phase # "built"
      BY <1>1, <2>3 DEF NewManager, SortNext, RejectMissing, CountInDegrees,
         QueueRoot, RootsQueued, Pop, Relax, FinishSort, CallStartup, InvokeStart,
         StartFailed, StartupSucceeds, InvokeRollback, StartupFails, CallShutdown,
         InvokeStop, ShutdownReturns, Invoke, Answered
    <3>2. call = "none" /\ call' = "none"
      BY <2>3, <3>1 DEF ManagerInPlace, Calling
    <3>3. QED
      BY <2>1, <2>2, <3>2, QuietStep
  <2>4. CASE ~UNCHANGED <<pc, call>>
    <3>1. /\ call # "none" => pc = "start_call" /\ call # "ok"
          /\ call' # "none" => call' = "running"
      BY <1>1, <2>4 DEF NewManager, CallStartup, InvokeStart, StartFailed,
         StartupSucceeds, InvokeRollback, StartupFails, CallShutdown, InvokeStop,
         ShutdownReturns, Invoke, Answered, managerVars, ManagerInPlace, Calling
    <3>2. QED
      BY <2>1, <2>2, <3>1, QuietStep
  <2>5. QED
    BY <2>3, <2>4
<1>2. CASE StartSucceeded
  BY <1>2, StartSucceededService
<1>3. CASE StartTimedOut
  BY <1>3, StartTimedOutService
<1>4. CASE RolledBack \/ StopSucceeded \/ StopFailed \/ StopTimedOut
  <2>1. /\ pc \in {"roll_call", "stop_call"} /\ live' = live - 1 /\ call' = "none"
        /\ UNCHANGED <<started, up, refused>>
        /\ \/ call \in {"ok", "err"} /\ UNCHANGED <<late, abandoned>>
           \/ Abandon(Stopping, "stop", "stopping")
    BY <1>4 DEF RolledBack, StopSucceeded, StopFailed, StopTimedOut, Answered,
                Abandon, serviceVars, historyVars
  <2>2. QED
    BY <2>1, StopStep
<1>5. CASE ServiceNext
  BY <1>5, ReturnService, LateReturnService DEF ServiceNext
<1>6. CASE UNCHANGED vars
  BY <1>6 DEF vars, sortVars, managerVars, serviceVars, historyVars, ServiceInv,
     LateAccounted, ActiveUp, UpAccounted, ResultMeansIt, StartLost, StopLost,
     Starting, Stopping
<1>7. QED
  BY <1>1, <1>2, <1>3, <1>4, <1>5, <1>6 DEF Next, ManagerNext

LEMMA ServiceInvariant == Spec /\ []DistinctNames => []ServiceInv
<1>1. ManagerInv /\ (DistinctNames => SortInv) /\ DistinctNames /\ ServiceInv
        /\ [Next]_vars => ServiceInv'
  BY ServiceInvStep, SortInvRespects
<1>2. QED
  BY <1>1, ServiceInit, ManagerInvariant, SortedInvariant, PTL DEF Spec
\* Services are started on running dependencies: when OnStartup is called, every
\* dependency runs, unless a stop given up on earlier has ended late.
THEOREM LifecycleStartsOnLiveDependencies ==
  Spec /\ []DistinctNames => []StartsOnLiveDependencies
<1>1. ASSUME ManagerInv, ServiceInv, Respects(order)
      PROVE  StartsOnLiveDependencies
  <2>1. SUFFICES ASSUME pc = "start_call", call = "running", NEW d \in Deps(Starting)
                 PROVE  d \in up \/ <<d, "stop">> \in abandoned
    BY DEF StartsOnLiveDependencies
  <2>2. live = Len(started) /\ live \in Nat /\ live + 1 \in DOMAIN order
    BY <1>1, <2>1 DEF ManagerInv, ManagerInPlace, TypeOK, SortTypeOK
  <2>3. PICK j \in 1 .. live : order[j] = d
    BY <1>1, <2>1, <2>2 DEF Respects, Starting
  <2>4. started[j] = d
    BY <1>1, <2>3, ActiveInOrder
  <2>5. QED
    BY <1>1, <2>1, <2>3, <2>4 DEF ServiceInv, ActiveUp
<1>2. ManagerInv /\ ServiceInv /\ (DistinctNames => SortInv) /\ DistinctNames
        => StartsOnLiveDependencies
  BY <1>1, SortInvRespects
<1>3. QED
  BY <1>2, ManagerInvariant, SortedInvariant, ServiceInvariant, PTL

\* Services are stopped after their dependents: when OnShutdown is called, in
\* Shutdown or in a rollback, nothing that runs depends on the service, unless a
\* call to it failed or was given up on.
THEOREM LifecycleStopsAfterDependents ==
  Spec /\ []DistinctNames => []StopsAfterDependents
<1>1. ASSUME ManagerInv, ServiceInv, Respects(order)
      PROVE  StopsAfterDependents
  <2>1. SUFFICES ASSUME pc \in {"stop_call", "roll_call"}, call = "running",
                        NEW n \in up, Stopping \in Deps(n)
                 PROVE  StopLost(n) \/ StartLost(n)
    BY DEF StopsAfterDependents
  <2>2. \A i \in 1 .. live : i \in DOMAIN order /\ started[i] = order[i]
    BY <1>1, ActiveInOrder
  <2>3. live \in 1 .. live /\ Stopping = order[live]
    BY <1>1, <2>1, <2>2 DEF ManagerInv, ManagerInPlace, TypeOK, Stopping
  <2>4. ASSUME NEW i \in 1 .. live, started[i] = n PROVE FALSE
    <3>1. PICK j \in 1 .. i - 1 : order[j] = Stopping
      BY <1>1, <2>1, <2>2, <2>4 DEF Respects
    <3>2. j \in 1 .. live /\ j # live
      BY <2>3, <3>1
    <3>3. QED
      BY <1>1, <2>2, <2>3, <3>1, <3>2 DEF Respects
  <2>5. QED
    BY <1>1, <2>1, <2>4 DEF ServiceInv, UpAccounted
<1>2. ManagerInv /\ ServiceInv /\ (DistinctNames => SortInv) /\ DistinctNames
        => StopsAfterDependents
  BY <1>1, SortInvRespects
<1>3. QED
  BY <1>2, ManagerInvariant, SortedInvariant, ServiceInvariant, PTL

\* Between operations the services run that m.started lists and no others, but
\* for calls that failed to stop a service or that the manager gave up on.
THEOREM LifecycleBooksMatchServices ==
  Spec /\ []DistinctNames => []BooksMatchServices
<1>1. ManagerInv /\ ServiceInv => BooksMatchServices
  <2>1. SUFFICES ASSUME ManagerInv, ServiceInv, pc = "idle"
                 PROVE  BooksMatchServices
    BY DEF BooksMatchServices
  <2>2. live = Len(started) /\ DOMAIN started = 1 .. live
    BY <2>1 DEF ManagerInv, ManagerInPlace, TypeOK
  <2>3. \A i \in DOMAIN started : started[i] \in up \/ <<started[i], "stop">> \in abandoned
    BY <2>1, <2>2 DEF ServiceInv, ActiveUp
  <2>4. \A n \in up : (\E i \in DOMAIN started : started[i] = n)
                        \/ StartLost(n) \/ StopLost(n)
    BY <2>1, <2>2 DEF ServiceInv, UpAccounted
  <2>5. QED
    BY <2>3, <2>4 DEF BooksMatchServices
<1>2. QED
  BY <1>1, ManagerInvariant, ServiceInvariant, PTL
-----------------------------------------------------------------------------
(* That the lifecycle events tell what the books list. *)

Announced(n) == told[n] = "started"
Listed(n) == \E i \in 1 .. Len(started) : started[i] = n
StillActive(n) == \E i \in 1 .. live : started[i] = n

\* While services are being started, and between operations, the announced services are
\* those listed; a rollback and a shutdown may have announced the end of some of them.
\* Between operations all the services are listed or none.
EventsInv ==
  /\ pc \in {"idle", "starting", "start_call"} =>
       \A n \in Names : Announced(n) <=> Listed(n)
  /\ pc \in {"rolling", "roll_call"} => \A n \in Names : Announced(n) => Listed(n)
  /\ pc \in {"stopping", "stop_call"} => \A n \in Names : Announced(n) => StillActive(n)
  /\ pc = "idle" => started = <<>> \/ Len(started) = Len(order)

LEMMA EventsInit == Init => EventsInv
BY DEF Init, EventsInv, Announced, Listed

\* A service has started, and its event has been emitted.
LEMMA StartAnnounced ==
  ASSUME ManagerInv, EventsInv, StartSucceeded
  PROVE  EventsInv'
<1> USE DEF ManagerInv, TypeOK
<1> PICK s : s = Starting
  OBVIOUS
<1>1. /\ pc = "start_call" /\ pc' = "starting" /\ s \in Names
      /\ started' = Append(started, s)
      /\ told' = [told EXCEPT ![s] = "started"]
  BY CurrentService DEF StartSucceeded, Answered, ManagerInPlace
<1>2. /\ Len(started) \in Nat /\ Len(started') = Len(started) + 1
      /\ started'[Len(started')] = s
      /\ \A i \in 1 .. Len(started) : started'[i] = started[i]
      /\ \A i \in 1 .. Len(started') : \/ i \in 1 .. Len(started) /\ started'[i] = started[i]
                                       \/ i = Len(started') /\ started'[i] = s
  BY <1>1, AppendCases
<1>3. ASSUME NEW n \in Names PROVE Listed(n)' <=> Listed(n) \/ n = s
  <2>1. Listed(n)' <=> \E i \in 1 .. Len(started') : started'[i] = n
    BY DEF Listed
  <2>2. ASSUME NEW i \in 1 .. Len(started) PROVE i \in 1 .. Len(started') /\ started'[i] = started[i]
    BY <1>2
  <2>3. Len(started') \in 1 .. Len(started')
    BY <1>2
  <2>4. QED
    BY <1>2, <2>1, <2>2, <2>3 DEF Listed
<1>4. \A n \in Names : Announced(n)' <=> Announced(n) \/ n = s
  BY <1>1 DEF Announced
<1>5. QED
  BY <1>1, <1>3, <1>4 DEF EventsInv

\* The start of a service has failed or was given up on: it is announced no longer.
LEMMA FailureAnnounced ==
  ASSUME ManagerInv, EventsInv, StartFailed \/ StartTimedOut
  PROVE  EventsInv'
<1> USE DEF ManagerInv, TypeOK
<1>1. /\ pc = "start_call" /\ pc' = "rolling" /\ Starting \in Names
      /\ UNCHANGED started
      /\ told' = [told EXCEPT ![Starting] = "error"]
  BY CurrentService DEF StartFailed, StartTimedOut, Answered, Abandon, ManagerInPlace
<1>2. \A n \in Names : Announced(n)' => Announced(n)
  BY <1>1 DEF Announced
<1>3. \A n \in Names : Listed(n)' <=> Listed(n)
  BY <1>1 DEF Listed
<1>4. QED
  BY <1>1, <1>2, <1>3 DEF EventsInv

\* The stop of a service has ended, one way or another: it is announced no longer.
LEMMA StopAnnounced ==
  ASSUME ManagerInv, EventsInv, StopSucceeded \/ StopFailed \/ StopTimedOut
  PROVE  EventsInv'
<1> USE DEF ManagerInv, TypeOK
<1> PICK s : s = Stopping
  OBVIOUS
<1>1. /\ pc = "stop_call" /\ pc' = "stopping" /\ s \in Names
      /\ live \in Nat /\ live > 0 /\ live' = live - 1 /\ s = started[live]
      /\ UNCHANGED started
      /\ \E what \in {"stopped", "error"} : told' = [told EXCEPT ![s] = what]
  BY CurrentService
     DEF StopSucceeded, StopFailed, StopTimedOut, Answered, Abandon, ManagerInPlace, Stopping
<1>2. \A n \in Names : Announced(n)' => Announced(n) /\ n # s
  BY <1>1 DEF Announced
<1>3. \A n \in Names : StillActive(n) => StillActive(n)' \/ n = s
  <2>1. \A i \in 1 .. live : i = live \/ i \in 1 .. live'
    BY <1>1
  <2>2. QED
    BY <1>1, <2>1 DEF StillActive
<1>4. QED
  BY <1>1, <1>2, <1>3 DEF EventsInv

LEMMA EventsInvStep ==
  ASSUME ManagerInv, EventsInv, [Next]_vars
  PROVE  EventsInv'
<1> USE DEF ManagerInv, TypeOK
<1>1. CASE NewManager
  <2>1. phase # "built"
    BY <1>1 DEF NewManager, SortNext, RejectMissing, CountInDegrees, QueueRoot,
       RootsQueued, Pop, Relax, FinishSort
  <2>2. pc = "idle" /\ started = <<>> /\ UNCHANGED <<pc, started, told>>
    BY <1>1, <2>1 DEF NewManager, managerVars, historyVars, ManagerInPlace
  <2>3. QED
    BY <2>2 DEF EventsInv, Announced, Listed
<1>2. CASE CallStartup
  BY <1>2 DEF CallStartup, historyVars, EventsInv, Announced, Listed
<1>3. CASE InvokeStart \/ InvokeRollback \/ InvokeStop
  <2>1. /\ \/ pc = "starting" /\ pc' = "start_call"
           \/ pc = "rolling" /\ pc' = "roll_call"
           \/ pc = "stopping" /\ pc' = "stop_call"
        /\ UNCHANGED <<started, live, told>>
    BY <1>3 DEF InvokeStart, InvokeRollback, InvokeStop, Invoke, historyVars
  <2>2. QED
    BY <2>1 DEF EventsInv, Announced, Listed, StillActive
<1>4. CASE StartSucceeded
  BY <1>4, StartAnnounced
<1>5. CASE StartFailed \/ StartTimedOut
  BY <1>5, FailureAnnounced
<1>6. CASE StartupSucceeds
  BY <1>6 DEF StartupSucceeds, sortVars, historyVars, EventsInv, Announced, Listed
<1>7. CASE RolledBack
  BY <1>7 DEF RolledBack, Answered, historyVars, EventsInv, Announced, Listed
<1>8. CASE StartupFails
  <2>1. pc = "rolling" /\ pc' = "idle" /\ started' = <<>>
    BY <1>8 DEF StartupFails
  <2>2. \A n \in Names : ~Announced(n)'
    <3>1. SUFFICES ASSUME NEW n \in Names PROVE told'[n] # "started"
      BY DEF Announced
    <3>2. told'[n] = IF \E i \in DOMAIN started : started[i] = n THEN "rolledback" ELSE told[n]
      BY <1>8 DEF StartupFails
    <3>3. told[n] = "started" => \E i \in DOMAIN started : started[i] = n
      BY <2>1 DEF EventsInv, Announced, Listed
    <3>4. QED
      BY <3>2, <3>3
  <2>3. QED
    BY <2>1, <2>2 DEF EventsInv, Listed
<1>9. CASE CallShutdown
  BY <1>9 DEF CallShutdown, ManagerInPlace, historyVars, EventsInv, Announced, Listed,
     StillActive
<1>10. CASE StopSucceeded \/ StopFailed \/ StopTimedOut
  BY <1>10, StopAnnounced
<1>11. CASE ShutdownReturns
  <2>1. \A n \in Names : ~Announced(n) /\ Announced(n)' = Announced(n)
    BY <1>11 DEF ShutdownReturns, historyVars, EventsInv, Announced, StillActive
  <2>2. QED
    BY <1>11, <2>1 DEF ShutdownReturns, EventsInv, Listed
<1>12. CASE ServiceNext \/ UNCHANGED vars
  <2>1. UNCHANGED <<pc, started, live, order, told>>
    BY <1>12 DEF ServiceNext, Return, LateReturn, vars, managerVars, sortVars, historyVars
  <2>2. QED
    BY <2>1 DEF EventsInv, Announced, Listed, StillActive
<1>13. QED
  BY <1>1, <1>2, <1>3, <1>4, <1>5, <1>6, <1>7, <1>8, <1>9, <1>10, <1>11, <1>12
     DEF Next, ManagerNext

LEMMA EventsInvariant == Spec => []EventsInv
<1>1. ManagerInv /\ EventsInv /\ [Next]_vars => EventsInv'
  BY EventsInvStep
<1>2. QED
  BY <1>1, EventsInit, ManagerInvariant, PTL DEF Spec

\* Between operations the services that the lifecycle events have announced are those
\* m.started lists, and those are the whole order or none of it, whatever calls fail or
\* are given up on and even if a name is registered twice.
THEOREM LifecycleEventsMatchBooks == Spec => []EventsMatchBooks
<1>1. ManagerInv /\ EventsInv => EventsMatchBooks
  <2>1. SUFFICES ASSUME ManagerInv, EventsInv, pc = "idle"
                 PROVE  EventsMatchBooks
    BY DEF EventsMatchBooks
  <2> USE DEF ManagerInv, TypeOK, SortTypeOK
  <2>2. DOMAIN started = 1 .. Len(started) /\ \A i \in 1 .. Len(started) : started[i] \in Names
    BY <2>1
  <2>3. {n \in Names : told[n] = "started"} = {started[i] : i \in DOMAIN started}
    <3>1. \A n \in Names : told[n] = "started" <=> \E i \in 1 .. Len(started) : started[i] = n
      BY <2>1 DEF EventsInv, Announced, Listed
    <3>2. QED
      BY <2>2, <3>1, Zenon
  <2>4. ASSUME started # <<>> PROVE started = order
    <3>1. Len(started) = Len(order) /\ \A i \in 1 .. Len(started) : started[i] = order[i]
      BY <2>1, <2>4 DEF EventsInv, ManagerInPlace
    <3>2. started \in Seq(Names) /\ order \in Seq(Names)
      BY <2>1
    <3>3. QED
      BY <3>1, <3>2
  <2>5. QED
    BY <2>3, <2>4 DEF EventsMatchBooks
<1>2. QED
  BY <1>1, ManagerInvariant, EventsInvariant, PTL
=============================================================================
