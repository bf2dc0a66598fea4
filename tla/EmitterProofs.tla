---------------------------- MODULE EmitterProofs ----------------------------
(***************************************************************************)
(* Proofs about module Emitter, for any goroutines, handlers and scripts,  *)
(* and about the batcher of module Middleware, for any size of its batches *)
(* and any number of calls.                                                *)
(***************************************************************************)
EXTENDS Emitter, Middleware, EventHistoryProofs, SequenceTheorems, FiniteSetTheorems

EmitPCs == {"idle", "record", "notify", "deliver", "handler"}

EmitterTypeOK ==
  /\ HistoryTypeOK
  /\ asyncBuf \in AsyncBufs
  /\ handlers \in Seq(Handlers)
  /\ sub \in [Handlers -> {"none", "active", "stopped", "ended"}]
  /\ pc \in [EmitCalls -> EmitPCs]
  /\ emitted \in [Emitters -> Nat]
  /\ \A g \in Emitters : emitted[g] <= Len(Script[g])
  /\ todo \in [EmitCalls -> Seq(Handlers)]
  /\ chan \in [Handlers -> Seq(Event)]
  /\ done \in [Handlers -> BOOLEAN]
  /\ loop \in [Handlers -> {"none", "select", "handler", "gone"}]
  /\ recorded \in Seq(Event)
  /\ handled \in [Handlers -> SUBSET Payloads]
  /\ ended \in [Handlers -> SUBSET Payloads]

\* Where an emission is: its goroutine has begun it, and it has a snapshot to go
\* through.  With asynchronous handlers a goroutine is in one emission at a time.
EmissionsInPlace ==
  \A p \in EmitCalls :
    /\ pc[p] # "idle" => p[2] <= emitted[p[1]]
    /\ asyncBuf > 0 => /\ pc[p] # "handler"
                       /\ pc[p] # "idle" => p[2] = emitted[p[1]]
    /\ pc[p] \notin {"deliver", "handler"} => todo[p] = <<>>
    /\ pc[p] = "handler" => todo[p] # <<>>
    /\ \A i, j \in DOMAIN todo[p] : todo[p][i] = todo[p][j] => i = j

\* The emitter has each handler that is subscribed and not cancelled, once.
Registered ==
  /\ \A i \in DOMAIN handlers : sub[handlers[i]] \in {"active", "stopped"}
  /\ \A i, j \in DOMAIN handlers : handlers[i] = handlers[j] => i = j
  /\ \A h \in Handlers : sub[h] # "ended" => ended[h] = {}

\* What handler h was given: handled, or waiting in its channel.
Got(h) == handled[h] \cup {chan[h][i].data : i \in DOMAIN chan[h]}

\* Handler h has not got the event of emission p, nor, if it is asynchronous, a later
\* one of the same goroutine.
Missing(p, h) ==
  /\ p \notin Got(h)
  /\ asyncBuf > 0 => \A q \in Got(h) : q[1] = p[1] => q[2] < p[2]

\* No handler has what was not emitted yet, and each of those left of the snapshot
\* is still to get the event.
Delivered ==
  /\ \A h \in Handlers : \A q \in Got(h) \cup ended[h] :
       q \in Emitters \X Nat /\ q[2] <= emitted[q[1]]
  /\ \A p \in EmitCalls, h \in Handlers : pc[p] \in {"record", "notify"} => Missing(p, h)
  /\ \A p \in EmitCalls : \A i \in DOMAIN todo[p] :
       i > 1 \/ pc[p] = "deliver" => Missing(p, todo[p][i])

\* The channels are in order, and none is used on the emitting goroutine's own calls.
ChannelsInOrder ==
  \A h \in Handlers :
    /\ asyncBuf = 0 => chan[h] = <<>>
    /\ \A i \in DOMAIN chan[h] :
         LET Newer(q) == q[1] = chan[h][i].data[1] => q[2] < chan[h][i].data[2]
         IN  /\ \A q \in handled[h] : Newer(q)
             /\ \A j \in 1 .. i - 1 : Newer(chan[h][j].data)

\* Nothing emitted after a handler's cancellation is given to it, or will be.
NoNews ==
  /\ \A h \in Handlers : Got(h) \cap ended[h] = {}
  /\ \A p \in EmitCalls : \A i \in DOMAIN todo[p] :
       p \notin ended[todo[p][i]]

\* The ring holds the newest of what was recorded.
RingHolds ==
  /\ count = IF Len(recorded) < Size THEN Len(recorded) ELSE Size
  /\ \A i \in 0 .. count - 1 : buf[Back(i)] = recorded[Len(recorded) - i]

EmitterInv ==
  /\ EmitterTypeOK /\ EmissionsInPlace /\ Registered
  /\ Delivered /\ ChannelsInOrder /\ NoNews /\ RingHolds
-----------------------------------------------------------------------------
(* Sequences, and the event of an emission *)

LEMMA TailEntries ==
  ASSUME NEW S, NEW s \in Seq(S), s # <<>>
  PROVE  /\ 1 \in DOMAIN s /\ Head(s) = s[1] /\ s[1] \in S /\ Tail(s) \in Seq(S)
         /\ \A i \in DOMAIN Tail(s) : /\ i \in Nat /\ i > 0 /\ i + 1 \in DOMAIN s
                                      /\ Tail(s)[i] = s[i + 1]
OBVIOUS

Without(s, i) == SubSeq(s, 1, i - 1) \o SubSeq(s, i + 1, Len(s))

\* A sequence without its entry i: what follows it moves up by one.
LEMMA CutOut ==
  ASSUME NEW S, NEW s \in Seq(S), NEW i \in 1 .. Len(s)
  PROVE  /\ Without(s, i) \in Seq(S)
         /\ \A j \in DOMAIN Without(s, i) :
              /\ j \in Nat
              /\ j < i => j \in DOMAIN s /\ Without(s, i)[j] = s[j]
              /\ ~(j < i) => j + 1 \in DOMAIN s /\ Without(s, i)[j] = s[j + 1]
<1> DEFINE front == SubSeq(s, 1, i - 1)
           back == SubSeq(s, i + 1, Len(s))
           r == Without(s, i)
<1>1. front \in Seq(S) /\ Len(front) = i - 1 /\ \A j \in 1 .. i - 1 : front[j] = s[j]
  OBVIOUS
<1>2. back \in Seq(S) /\ Len(back) = Len(s) - i /\ \A j \in 1 .. Len(s) - i : back[j] = s[i + j]
  OBVIOUS
<1>3. r = front \o back
  BY DEF Without
<1> HIDE DEF front, back, r
<1>4. /\ front \o back \in Seq(S) /\ Len(front \o back) = Len(front) + Len(back)
      /\ \A j \in 1 .. Len(front) + Len(back) :
           (front \o back)[j] = IF j <= Len(front) THEN front[j] ELSE back[j - Len(front)]
  BY <1>1, <1>2, ConcatProperties
<1>5. /\ r \in Seq(S) /\ Len(r) = Len(front) + Len(back)
      /\ \A j \in 1 .. Len(front) + Len(back) :
           r[j] = IF j <= Len(front) THEN front[j] ELSE back[j - Len(front)]
  BY <1>3, <1>4, Zenon
<1>6. Len(r) = Len(s) - 1 /\ DOMAIN r = 1 .. Len(s) - 1
  BY <1>1, <1>2, <1>5
<1>7. \A j \in 1 .. Len(s) - 1 : r[j] = IF j <= i - 1 THEN front[j] ELSE back[j - (i - 1)]
  BY <1>1, <1>2, <1>5
<1>8. ASSUME NEW j \in 1 .. Len(s) - 1, ~(j < i)
      PROVE  r[j] = s[j + 1]
  <2>1. j - (i - 1) \in 1 .. Len(s) - i /\ i + (j - (i - 1)) = j + 1 /\ ~(j <= i - 1)
    BY <1>8
  <2>2. back[j - (i - 1)] = s[i + (j - (i - 1))]
    BY <1>2, <2>1
  <2>3. QED
    BY <1>7, <2>1, <2>2
<1>9. \A j \in 1 .. Len(s) - 1 : j < i => r[j] = s[j]
  BY <1>1, <1>7
<1>10. QED
  BY <1>5, <1>6, <1>8, <1>9 DEF r

\* An emission is a goroutine and the index of one of its events.
LEMMA EmissionFacts ==
  ASSUME NEW p \in EmitCalls
  PROVE  /\ p[1] \in Emitters /\ p[2] \in Nat /\ p = <<p[1], p[2]>>
         /\ p[2] \in DOMAIN Script[p[1]] /\ Script[p[1]] \in Seq(EventNames)
         /\ p \in Payloads /\ p \in Emitters \X Nat
<1>1. PICK g \in Emitters : p \in {g} \X DOMAIN Script[g]
  BY DEF EmitCalls
<1>2. /\ Script[g] \in Seq(EventNames) /\ {g} \X DOMAIN Script[g] \subseteq Payloads
  BY <1>1, EmitterAssumption
<1>3. p[1] = g /\ p[2] \in DOMAIN Script[g] /\ p = <<p[1], p[2]>>
  BY <1>1
<1>4. p[2] \in Nat
  BY <1>2, <1>3
<1>5. QED
  BY <1>1, <1>2, <1>3, <1>4

LEMMA EmittedEvent ==
  ASSUME NEW p \in EmitCalls
  PROVE  Emitting(p) \in Event /\ Emitting(p).data = p
<1>1. /\ p[2] \in DOMAIN Script[p[1]] /\ Script[p[1]] \in Seq(EventNames) /\ p \in Payloads
  BY EmissionFacts
<1>2. Script[p[1]][p[2]] \in EventNames
  BY <1>1
<1>3. QED
  BY <1>1, <1>2 DEF Emitting, Event
-----------------------------------------------------------------------------
(* One lemma for each part of the invariant *)

LEMMA EmitterTypeStep == EmitterInv /\ [EmitterNext]_vars => EmitterTypeOK'
<1> SUFFICES ASSUME EmitterInv, [EmitterNext]_vars PROVE EmitterTypeOK'
  OBVIOUS
<1> USE DEF EmitterInv
<1>1. ASSUME NEW p \in EmitCalls, Emit(p) PROVE EmitterTypeOK'
  <2>1. /\ p[1] \in Emitters /\ p[2] = emitted[p[1]] + 1 /\ p[2] <= Len(Script[p[1]])
        /\ p \in Payloads
    BY <1>1, EmissionFacts DEF Emit
  <2>2. ended' \in [Handlers -> SUBSET Payloads]
    BY <1>1, <2>1 DEF Emit, EmitterTypeOK
  <2>3. /\ emitted' \in [Emitters -> Nat]
        /\ \A k \in Emitters : emitted'[k] <= Len(Script[k])
    BY <1>1, <2>1 DEF Emit, EmitterTypeOK
  <2>4. QED
    BY <1>1, <2>2, <2>3, HistoryStutters DEF Emit, EmitterTypeOK, EmitPCs
<1>2. ASSUME NEW p \in EmitCalls, ToHistory(p) PROVE EmitterTypeOK'
  <2>1. Emitting(p) \in Event /\ HistoryRecord(Emitting(p))
    BY <1>2, EmittedEvent DEF ToHistory
  <2>2. HistoryTypeOK'
    BY <2>1, RecordImplements DEF EmitterTypeOK
  <2>3. QED
    BY <1>2, <2>1, <2>2 DEF ToHistory, EmitterTypeOK, EmitPCs
<1>3. ASSUME NEW p \in EmitCalls, Snapshot(p) \/ PassOver(p) \/ SyncReturns(p) \/ EmitReturns(p)
      PROVE  EmitterTypeOK'
  <2>1. todo[p] \in Seq(Handlers) /\ (todo[p] # <<>> => Tail(todo[p]) \in Seq(Handlers))
    BY DEF EmitterTypeOK
  <2>2. HistoryTypeOK'
    BY <1>3, HistoryStutters DEF Snapshot, PassOver, SyncReturns, EmitReturns, EmitterTypeOK
  <2>3. todo' \in [EmitCalls -> Seq(Handlers)]
    BY <1>3, <2>1
       DEF Snapshot, PassOver, SyncReturns, EmitReturns, EmitterTypeOK, EmissionsInPlace
  <2>4. QED
    BY <1>3, <2>2, <2>3
       DEF Snapshot, PassOver, SyncReturns, EmitReturns, EmitterTypeOK, EmitPCs
<1>4. ASSUME NEW p \in EmitCalls, DeliverAsync(p) PROVE EmitterTypeOK'
  <2>0. todo[p] \in Seq(Handlers) /\ todo[p] # <<>> /\ pc[p] # "idle"
    BY <1>4 DEF DeliverAsync, EmitterTypeOK
  <2>1. /\ Head(todo[p]) \in Handlers /\ Tail(todo[p]) \in Seq(Handlers)
        /\ Emitting(p) \in Event
    BY <2>0, TailEntries, EmittedEvent
  <2>2. chan' \in [Handlers -> Seq(Event)]
    BY <1>4, <2>1 DEF DeliverAsync, EmitterTypeOK
  <2>3. QED
    BY <1>4, <2>1, <2>2, HistoryStutters DEF DeliverAsync, EmitterTypeOK
<1>5. ASSUME NEW p \in EmitCalls, DeliverSync(p) PROVE EmitterTypeOK'
  <2>0. todo[p] \in Seq(Handlers) /\ todo[p] # <<>> /\ pc[p] # "idle"
    BY <1>5 DEF DeliverSync, EmitterTypeOK
  <2>1. Head(todo[p]) \in Handlers /\ Emitting(p).data \in Payloads
    BY <2>0, TailEntries, EmittedEvent, EmissionFacts
  <2>2. QED
    BY <1>5, <2>1, HistoryStutters DEF DeliverSync, EmitterTypeOK, EmitPCs
<1>6. ASSUME NEW h \in Handlers, Subscribe(h) PROVE EmitterTypeOK'
  BY <1>6, HistoryStutters DEF Subscribe, EmitterTypeOK
<1>7. ASSUME NEW h \in Handlers, Unsubscribe(h) PROVE EmitterTypeOK'
  <2>1. handlers' \in Seq(Handlers)
    BY <1>7, CutOut DEF Unsubscribe, EmitterTypeOK
  <2>2. QED
    BY <1>7, <2>1, HistoryStutters DEF Unsubscribe, EmitterTypeOK
<1>8. ASSUME NEW h \in Handlers, TakeEvent(h) PROVE EmitterTypeOK'
  <2>0. chan[h] \in Seq(Event) /\ chan[h] # <<>>
    BY <1>8 DEF TakeEvent, EmitterTypeOK
  <2>1. Head(chan[h]) \in Event /\ Tail(chan[h]) \in Seq(Event)
    BY <2>0
  <2>3. Head(chan[h]).data \in Payloads
    BY <2>1 DEF Event
  <2>2. QED
    BY <1>8, <2>1, <2>3, HistoryStutters DEF TakeEvent, EmitterTypeOK
<1>9. ASSUME NEW h \in Handlers, HandlerReturns(h) \/ TakeDone(h) PROVE EmitterTypeOK'
  BY <1>9, HistoryStutters DEF HandlerReturns, TakeDone, EmitterTypeOK
<1>10. CASE Close
  BY <1>10, HistoryStutters DEF Close, EmitterTypeOK
<1>11. CASE UNCHANGED vars
  BY <1>11, HistoryStutters DEF vars, emitterVars, EmitterTypeOK
<1>12. QED
  BY <1>1, <1>2, <1>3, <1>4, <1>5, <1>6, <1>7, <1>8, <1>9, <1>10, <1>11
     DEF EmitterNext, EmitStep

\* A snapshot only shrinks, so it keeps each handler at most once.
LEMMA PlaceStep == EmitterInv /\ [EmitterNext]_vars => EmissionsInPlace'
<1> SUFFICES ASSUME EmitterInv, [EmitterNext]_vars PROVE EmissionsInPlace'
  OBVIOUS
<1> USE DEF EmitterInv
<1>0. ASSUME NEW p \in EmitCalls, Emit(p) PROVE EmissionsInPlace'
  <2>1. /\ p[1] \in Emitters /\ p[2] = emitted[p[1]] + 1 /\ p[2] \in Nat
        /\ emitted \in [Emitters -> Nat] /\ pc \in [EmitCalls -> EmitPCs]
        /\ emitted' = [emitted EXCEPT ![p[1]] = @ + 1] /\ pc' = [pc EXCEPT ![p] = "record"]
        /\ todo' = todo /\ asyncBuf' = asyncBuf
        /\ \A k \in EmitCalls : k[1] = p[1] => pc[k] \in {"idle", "handler"}
    BY <1>0, EmissionFacts DEF Emit, EmitterTypeOK
  <2>2. pc[p] = "idle" /\ todo[p] = <<>>
    BY <2>1 DEF EmissionsInPlace
  <2>3. ASSUME NEW k \in EmitCalls
        PROVE  /\ pc'[k] # "idle" => k[2] <= emitted'[k[1]]
               /\ asyncBuf > 0 => /\ pc'[k] # "handler"
                                  /\ pc'[k] # "idle" => k[2] = emitted'[k[1]]
    <3>1. k[1] \in Emitters /\ k[2] \in Nat
      BY EmissionFacts
    <3>2. QED
      BY <2>1, <3>1 DEF EmissionsInPlace
  <2>4. QED
    BY <2>1, <2>2, <2>3 DEF EmissionsInPlace
<1>1. ASSUME NEW p \in EmitCalls, ToHistory(p) \/ DeliverSync(p) \/ EmitReturns(p)
      PROVE  EmissionsInPlace'
  <2>1. /\ \A k \in EmitCalls : k # p => pc'[k] = pc[k]
        /\ UNCHANGED <<asyncBuf, emitted, todo>> /\ pc[p] # "idle"
        /\ \/ pc'[p] = "notify" /\ pc[p] \notin {"deliver", "handler"}
           \/ pc'[p] = "handler" /\ todo[p] # <<>> /\ asyncBuf = 0
           \/ pc'[p] = "idle" /\ todo[p] = <<>>
    BY <1>1 DEF ToHistory, DeliverSync, EmitReturns, EmitterTypeOK
  <2>2. QED
    BY <2>1 DEF EmissionsInPlace
<1>2. ASSUME NEW p \in EmitCalls, Snapshot(p) PROVE EmissionsInPlace'
  BY <1>2 DEF Snapshot, EmissionsInPlace, EmitterTypeOK, Registered
<1>3. ASSUME NEW p \in EmitCalls, PassOver(p) \/ DeliverAsync(p) \/ SyncReturns(p)
      PROVE  EmissionsInPlace'
  <2>1. /\ todo[p] \in Seq(Handlers) /\ todo[p] # <<>> /\ pc[p] \in {"deliver", "handler"}
        /\ todo' = [todo EXCEPT ![p] = Tail(@)]
        /\ pc' = pc \/ pc' = [pc EXCEPT ![p] = "deliver"]
        /\ SyncReturns(p) \/ pc[p] = "deliver"
        /\ pc'[p] = "deliver" /\ emitted' = emitted /\ asyncBuf' = asyncBuf
    BY <1>3 DEF PassOver, DeliverAsync, SyncReturns, EmissionsInPlace, EmitterTypeOK
  <2>2. \A i \in DOMAIN Tail(todo[p]) :
          i \in Nat /\ i + 1 \in DOMAIN todo[p] /\ Tail(todo[p])[i] = todo[p][i + 1]
    BY <2>1, TailEntries
  <2>3. \A i, j \in DOMAIN Tail(todo[p]) : Tail(todo[p])[i] = Tail(todo[p])[j] => i = j
    <3>1. SUFFICES ASSUME NEW i \in DOMAIN Tail(todo[p]), NEW j \in DOMAIN Tail(todo[p]),
                          Tail(todo[p])[i] = Tail(todo[p])[j]
                   PROVE  i = j
      OBVIOUS
    <3>2. i + 1 = j + 1
      BY <2>2, <3>1 DEF EmissionsInPlace
    <3>3. QED
      BY <2>2, <3>2
  <2>4. QED
    BY <2>1, <2>3 DEF EmissionsInPlace, EmitterTypeOK
<1>4. ASSUME NEW h \in Handlers,
             Subscribe(h) \/ Unsubscribe(h) \/ TakeEvent(h) \/ HandlerReturns(h) \/ TakeDone(h)
      PROVE  EmissionsInPlace'
  BY <1>4 DEF Subscribe, Unsubscribe, TakeEvent, HandlerReturns, TakeDone, EmissionsInPlace
<1>5. CASE Close \/ UNCHANGED vars
  BY <1>5 DEF Close, vars, emitterVars, EmissionsInPlace
<1>6. QED
  BY <1>0, <1>1, <1>2, <1>3, <1>4, <1>5 DEF EmitterNext, EmitStep

\* Subscribe adds a handler that was not there, Unsubscribe removes its only entry.
LEMMA RegisteredStep == EmitterInv /\ [EmitterNext]_vars => Registered'
<1> SUFFICES ASSUME EmitterInv, [EmitterNext]_vars PROVE Registered'
  OBVIOUS
<1> USE DEF EmitterInv
<1>1. ASSUME NEW p \in EmitCalls, Emit(p) PROVE Registered'
  BY <1>1 DEF Emit, Registered
<1>2. ASSUME NEW h \in Handlers, Subscribe(h) PROVE Registered'
  <2>1. \A i \in DOMAIN handlers : handlers[i] # h
    BY <1>2 DEF Subscribe, Registered
  <2>2. handlers \in Seq(Handlers) /\ handlers' = Append(handlers, h)
    BY <1>2 DEF Subscribe, EmitterTypeOK
  <2>3. \A i \in DOMAIN handlers' :
          \/ i \in DOMAIN handlers /\ handlers'[i] = handlers[i]
          \/ i = Len(handlers) + 1 /\ handlers'[i] = h
    BY <2>2
  <2>4. QED
    BY <1>2, <2>1, <2>2, <2>3 DEF Subscribe, Registered, EmitterTypeOK
<1>3. ASSUME NEW h \in Handlers, Unsubscribe(h) PROVE Registered'
  <2>1. PICK i \in DOMAIN handlers : handlers[i] = h /\ handlers' = Without(handlers, i)
    BY <1>3 DEF Unsubscribe, Without
  <2>2. handlers \in Seq(Handlers) /\ i \in 1 .. Len(handlers)
    BY <2>1 DEF EmitterTypeOK
  <2>3. \A j \in DOMAIN handlers' :
          /\ j \in Nat
          /\ j < i => j \in DOMAIN handlers /\ handlers'[j] = handlers[j]
          /\ ~(j < i) => j + 1 \in DOMAIN handlers /\ handlers'[j] = handlers[j + 1]
    BY <2>1, <2>2, CutOut
  <2>4. \A j \in DOMAIN handlers' :
          handlers'[j] # h /\ sub[handlers'[j]] \in {"active", "stopped"}
    BY <2>1, <2>2, <2>3 DEF Registered
  <2>5. ASSUME NEW j \in DOMAIN handlers', NEW k \in DOMAIN handlers',
               handlers'[j] = handlers'[k]
        PROVE  j = k
    <3> DEFINE old(m) == IF m < i THEN m ELSE m + 1
    <3>1. /\ old(j) \in DOMAIN handlers /\ handlers[old(j)] = handlers'[j]
          /\ old(k) \in DOMAIN handlers /\ handlers[old(k)] = handlers'[k]
      BY <2>3
    <3>2. old(j) = old(k)
      BY <2>5, <3>1 DEF Registered
    <3>3. QED
      BY <2>2, <2>3, <3>2
  <2>6. /\ sub' = [sub EXCEPT ![h] = "ended"] /\ ended' = ended
        /\ sub \in [Handlers -> {"none", "active", "stopped", "ended"}]
    BY <1>3 DEF Unsubscribe, EmitterTypeOK
  <2>7. \A j \in DOMAIN handlers' : sub'[handlers'[j]] \in {"active", "stopped"}
    BY <2>4, <2>6
  <2>8. \A k \in Handlers : sub'[k] # "ended" => ended'[k] = {}
    BY <2>6 DEF Registered
  <2>9. QED
    BY <2>5, <2>7, <2>8 DEF Registered
<1>4. CASE Close
  <2>1. \A i \in DOMAIN handlers : handlers[i] \in Handlers
    BY DEF EmitterTypeOK
  <2>2. QED
    BY <1>4, <2>1 DEF Close, Registered
<1>5. ASSUME NEW p \in EmitCalls, EmitStep(p) \/ SyncReturns(p) PROVE Registered'
  BY <1>5 DEF EmitStep, ToHistory, Snapshot, PassOver, DeliverAsync, DeliverSync,
     EmitReturns, SyncReturns, Registered
<1>6. ASSUME NEW h \in Handlers, TakeEvent(h) \/ HandlerReturns(h) \/ TakeDone(h)
      PROVE  Registered'
  BY <1>6 DEF TakeEvent, HandlerReturns, TakeDone, Registered
<1>7. CASE UNCHANGED vars
  BY <1>7 DEF vars, emitterVars, Registered
<1>8. QED
  BY <1>1, <1>2, <1>3, <1>4, <1>5, <1>6, <1>7 DEF EmitterNext

\* What a goroutine delivers, and to whom: the handler at the head of its snapshot,
\* which was missing the event and stands nowhere else in it.
LEMMA Delivering ==
  ASSUME EmitterInv, NEW p \in EmitCalls, todo[p] # <<>>, pc[p] = "deliver"
  PROVE  /\ Head(todo[p]) \in Handlers /\ Missing(p, Head(todo[p]))
         /\ 1 \in DOMAIN todo[p] /\ todo[p][1] = Head(todo[p])
         /\ \A i \in DOMAIN todo[p] : i # 1 => todo[p][i] # Head(todo[p])
         /\ \A i \in DOMAIN Tail(todo[p]) :
              /\ i \in Nat /\ i + 1 \in DOMAIN todo[p] /\ i + 1 > 1
              /\ Tail(todo[p])[i] = todo[p][i + 1]
<1>1. todo[p] \in Seq(Handlers)
  BY DEF EmitterInv, EmitterTypeOK
<1>2. /\ 1 \in DOMAIN todo[p] /\ Head(todo[p]) = todo[p][1] /\ todo[p][1] \in Handlers
      /\ \A i \in DOMAIN Tail(todo[p]) : /\ i \in Nat /\ i > 0 /\ i + 1 \in DOMAIN todo[p]
                                         /\ Tail(todo[p])[i] = todo[p][i + 1]
  BY <1>1, TailEntries
<1>3. Missing(p, todo[p][1])
  BY <1>2 DEF EmitterInv, Delivered
<1>4. \A i \in DOMAIN todo[p] : i # 1 => todo[p][i] # todo[p][1]
  BY <1>2 DEF EmitterInv, EmissionsInPlace
<1>5. QED
  BY <1>2, <1>3, <1>4

\* A step that gives no handler anything and starts no emission keeps Delivered.
LEMMA DeliveredKept ==
  ASSUME EmitterInv, UNCHANGED <<asyncBuf, emitted, ended>>,
         \A h \in Handlers : Got(h)' = Got(h),
         \A p \in EmitCalls : pc'[p] \in {"record", "notify"} => pc[p] \in {"record", "notify"},
         \A p \in EmitCalls : \A i \in DOMAIN todo'[p] :
           /\ todo'[p][i] \in Handlers
           /\ i > 1 \/ pc'[p] = "deliver" => Missing(p, todo'[p][i])
  PROVE  Delivered'
BY DEF EmitterInv, Delivered, Missing

LEMMA DeliveredStep == EmitterInv /\ [EmitterNext]_vars => Delivered'
<1> SUFFICES ASSUME EmitterInv, [EmitterNext]_vars PROVE Delivered'
  OBVIOUS
<1>0. \A p \in EmitCalls : \A i \in DOMAIN todo[p] : todo[p][i] \in Handlers
  BY DEF EmitterInv, EmitterTypeOK
<1>1. ASSUME NEW p \in EmitCalls, Emit(p) PROVE Delivered'
  <2>1. /\ p[1] \in Emitters /\ p[2] = emitted[p[1]] + 1
        /\ emitted' = [emitted EXCEPT ![p[1]] = @ + 1] /\ pc' = [pc EXCEPT ![p] = "record"]
        /\ todo' = todo /\ asyncBuf' = asyncBuf
        /\ emitted \in [Emitters -> Nat] /\ pc \in [EmitCalls -> EmitPCs]
    BY <1>1, EmissionFacts DEF Emit, EmitterInv, EmitterTypeOK
  <2>9. todo[p] = <<>>
    BY <2>1 DEF EmitterInv, EmissionsInPlace
  <2>2. \A h \in Handlers : Got(h)' = Got(h)
    BY <1>1 DEF Emit, Got
  <2>3. \A h \in Handlers : ended'[h] \subseteq ended[h] \cup {p}
    BY <1>1 DEF Emit
  <2>4. ASSUME NEW h \in Handlers, NEW q \in Got(h) \cup ended[h]
        PROVE  /\ q \in Emitters \X Nat /\ q[2] <= emitted'[q[1]]
               /\ q[1] = p[1] => q[2] < p[2]
    <3>1. q \in Emitters \X Nat /\ q[2] <= emitted[q[1]]
      BY DEF EmitterInv, Delivered
    <3>2. q[1] \in Emitters /\ q[2] \in Nat
      BY <3>1
    <3>3. QED
      BY <2>1, <3>1, <3>2
  <2>5. ASSUME NEW h \in Handlers, NEW q \in Got(h)' \cup ended'[h]
        PROVE  q \in Emitters \X Nat /\ q[2] <= emitted'[q[1]]
    <3>1. p \in Emitters \X Nat /\ p[2] <= emitted'[p[1]]
      BY <2>1, EmissionFacts
    <3>2. QED
      BY <2>2, <2>3, <2>4, <3>1
  <2>6. ASSUME NEW k \in EmitCalls, NEW h \in Handlers, pc'[k] \in {"record", "notify"}
        PROVE  Missing(k, h)'
    <3>1. CASE k = p
      <4>1. \A q \in Got(h) : q[1] = p[1] => q[2] < p[2]
        BY <2>4
      <4>2. p \notin Got(h)
        BY <2>1, <4>1
      <4>3. QED
        BY <2>2, <3>1, <4>1, <4>2 DEF Missing
    <3>2. CASE k # p
      BY <2>1, <2>2, <2>6, <3>2 DEF Missing, EmitterInv, Delivered
    <3>3. QED
      BY <3>1, <3>2
  <2>7. ASSUME NEW k \in EmitCalls, NEW i \in DOMAIN todo'[k], i > 1 \/ pc'[k] = "deliver"
        PROVE  Missing(k, todo[k][i])'
    <3>1. k # p
      BY <2>1, <2>7, <2>9
    <3>2. /\ Missing(k, todo[k][i]) /\ todo[k][i] \in Handlers
          /\ todo'[k][i] = todo[k][i]
      BY <1>0, <2>1, <2>7, <3>1 DEF EmitterInv, Delivered
    <3>3. QED
      BY <2>1, <2>2, <3>2 DEF Missing
  <2>8. QED
    BY <2>5, <2>6, <2>7 DEF Delivered
<1>2. ASSUME NEW p \in EmitCalls, ToHistory(p) \/ Snapshot(p) \/ PassOver(p) \/ SyncReturns(p)
                                  \/ EmitReturns(p)
      PROVE  Delivered'
  <2>1. UNCHANGED <<asyncBuf, emitted, ended>> /\ \A h \in Handlers : Got(h)' = Got(h)
    BY <1>2 DEF ToHistory, Snapshot, PassOver, SyncReturns, EmitReturns, Got
  <2>2. \A k \in EmitCalls : k # p => pc'[k] = pc[k] /\ todo'[k] = todo[k]
    BY <1>2
       DEF ToHistory, Snapshot, PassOver, SyncReturns, EmitReturns, EmitterInv, EmitterTypeOK
  <2>3. pc'[p] \in {"record", "notify"} => pc[p] \in {"record", "notify"}
    BY <1>2
       DEF ToHistory, Snapshot, PassOver, SyncReturns, EmitReturns, EmitterInv, EmitterTypeOK
  <2>4. ASSUME NEW i \in DOMAIN todo'[p]
        PROVE  /\ todo'[p][i] \in Handlers
               /\ i > 1 \/ pc'[p] = "deliver" => Missing(p, todo'[p][i])
    <3>1. CASE ToHistory(p) \/ EmitReturns(p)
      BY <3>1 DEF ToHistory, EmitReturns, EmitterInv, EmissionsInPlace
    <3>2. CASE Snapshot(p)
      <4>1. todo'[p] = handlers /\ pc[p] = "notify"
        BY <3>2 DEF Snapshot, EmitterInv, EmitterTypeOK
      <4>2. todo'[p][i] \in Handlers
        BY <4>1 DEF EmitterInv, EmitterTypeOK
      <4>3. QED
        BY <4>1, <4>2 DEF EmitterInv, Delivered
    <3>3. CASE PassOver(p) \/ SyncReturns(p)
      <4>1. todo[p] \in Seq(Handlers) /\ todo[p] # <<>> /\ todo'[p] = Tail(todo[p])
        BY <3>3 DEF PassOver, SyncReturns, EmitterInv, EmitterTypeOK, EmissionsInPlace
      <4>2. /\ i \in Nat /\ i > 0 /\ i + 1 \in DOMAIN todo[p] /\ todo'[p][i] = todo[p][i + 1]
        BY <4>1, TailEntries
      <4>3. i + 1 > 1
        BY <4>2
      <4>4. QED
        BY <1>0, <4>2, <4>3 DEF EmitterInv, Delivered
    <3>4. QED
      BY <1>2, <3>1, <3>2, <3>3
  <2>5. QED
    BY <1>0, <2>1, <2>2, <2>3, <2>4, DeliveredKept DEF EmitterInv, Delivered
<1>3. ASSUME NEW p \in EmitCalls, DeliverAsync(p) \/ DeliverSync(p) PROVE Delivered'
  <2>1. /\ todo[p] # <<>> /\ pc[p] = "deliver" /\ emitted' = emitted /\ ended' = ended
        /\ \A k \in EmitCalls : k # p => pc'[k] = pc[k] /\ todo'[k] = todo[k]
        /\ emitted \in [Emitters -> Nat] /\ asyncBuf' = asyncBuf
    BY <1>3 DEF DeliverAsync, DeliverSync, EmitterInv, EmitterTypeOK
  <2>11. PICK h \in Handlers : h = Head(todo[p])
    BY <2>1, Delivering
  <2>2. /\ h \in Handlers
        /\ \A i \in DOMAIN todo[p] : i # 1 => todo[p][i] # h
        /\ \A i \in DOMAIN Tail(todo[p]) :
             /\ i \in Nat /\ i + 1 \in DOMAIN todo[p] /\ i + 1 > 1
             /\ Tail(todo[p])[i] = todo[p][i + 1]
    BY <2>1, <2>11, Delivering
  <2>3. /\ Emitting(p).data = p /\ p \in Emitters \X Nat
        /\ p[2] <= emitted[p[1]] /\ (asyncBuf > 0 => p[2] = emitted[p[1]])
    BY <2>1, EmittedEvent, EmissionFacts DEF EmitterInv, EmissionsInPlace
  <2>4. Got(h)' \subseteq Got(h) \cup {p}
    <3>1. CASE DeliverSync(p)
      BY <2>11, <2>3, <3>1 DEF DeliverSync, Got, EmitterInv, EmitterTypeOK
    <3>2. CASE DeliverAsync(p)
      <4>1. /\ chan[h] \in Seq(Event) /\ handled' = handled
            /\ chan'[h] = chan[h] \/ chan'[h] = Append(chan[h], Emitting(p))
        BY <2>11, <3>2 DEF DeliverAsync, EmitterInv, EmitterTypeOK
      <4>2. \A i \in DOMAIN chan'[h] :
              \/ i \in DOMAIN chan[h] /\ chan'[h][i] = chan[h][i]
              \/ chan'[h][i] = Emitting(p)
        BY <4>1
      <4>3. QED
        BY <2>3, <4>1, <4>2 DEF Got
    <3>3. QED
      BY <1>3, <3>1, <3>2
  <2>5. \A k \in Handlers : k # h => Got(k)' = Got(k)
    BY <1>3, <2>11 DEF DeliverAsync, DeliverSync, Got, EmitterInv, EmitterTypeOK
  <2>6. ASSUME NEW k \in Handlers, NEW q \in Got(k)' \cup ended'[k]
        PROVE  q \in Emitters \X Nat /\ q[2] <= emitted'[q[1]]
    <3>1. CASE q \in Got(k) \cup ended[k]
      BY <2>1, <3>1 DEF EmitterInv, Delivered
    <3>2. CASE q = p
      BY <2>1, <2>3, <3>2
    <3>3. QED
      BY <2>1, <2>4, <2>5, <3>1, <3>2
  <2>7. ASSUME NEW e \in EmitCalls, NEW k \in Handlers, e # p \/ k # h, Missing(e, k),
               pc[e] # "idle"
        PROVE  Missing(e, k)'
    <3>1. CASE k = h
      <4>1. asyncBuf > 0 => e[1] # p[1]
        <5>1. e = <<e[1], e[2]>> /\ p = <<p[1], p[2]>>
          BY EmissionFacts
        <5>2. asyncBuf > 0 => e[2] = emitted[e[1]]
          BY <2>7 DEF EmitterInv, EmissionsInPlace
        <5>3. QED
          BY <2>3, <2>7, <3>1, <5>1, <5>2
      <4>2. QED
        BY <2>1, <2>4, <2>7, <3>1, <4>1 DEF Missing
    <3>2. CASE k # h
      BY <2>1, <2>5, <2>7, <3>2 DEF Missing
    <3>3. QED
      BY <3>1, <3>2
  <2>8. ASSUME NEW e \in EmitCalls, NEW k \in Handlers, pc'[e] \in {"record", "notify"}
        PROVE  Missing(e, k)'
    <3>1. e # p
      BY <1>3, <2>8 DEF DeliverAsync, DeliverSync, EmitterInv, EmitterTypeOK
    <3>2. QED
      BY <2>1, <2>7, <2>8, <3>1 DEF EmitterInv, Delivered
  <2>9. ASSUME NEW e \in EmitCalls, NEW i \in DOMAIN todo'[e], i > 1 \/ pc'[e] = "deliver"
        PROVE  Missing(e, todo[e][i])'
    <3>1. CASE e # p
      <4>1. todo'[e] = todo[e] /\ pc'[e] = pc[e] /\ i \in DOMAIN todo[e]
        BY <2>1, <2>9, <3>1
      <4>2. todo[e][i] \in Handlers /\ Missing(e, todo[e][i])
        BY <1>0, <2>9, <4>1 DEF EmitterInv, Delivered
      <4>3. pc[e] # "idle"
        BY <4>1 DEF EmitterInv, EmissionsInPlace
      <4>4. QED
        BY <2>7, <3>1, <4>1, <4>2, <4>3
    <3>2. CASE e = p
      <4>1. \/ todo'[p] = Tail(todo[p]) 
            \/ todo'[p] = todo[p] /\ pc'[p] # "deliver"
        BY <1>3 DEF DeliverAsync, DeliverSync, EmitterInv, EmitterTypeOK
      <4>2. \E j \in DOMAIN todo[p] : j > 1 /\ todo'[p][i] = todo[p][j]
        BY <2>2, <2>9, <3>2, <4>1
      <4>3. PICK j \in DOMAIN todo[p] : j > 1 /\ todo'[p][i] = todo[p][j]
        BY <4>2
      <4>4. Missing(p, todo[p][j]) /\ todo[p][j] # h /\ todo[p][j] \in Handlers
        BY <1>0, <2>2, <4>3 DEF EmitterInv, Delivered
      <4>5. QED
        BY <2>1, <2>7, <3>2, <4>3, <4>4
    <3>3. QED
      BY <3>1, <3>2
  <2>10. QED
    BY <2>6, <2>8, <2>9 DEF Delivered
<1>4. ASSUME NEW h \in Handlers, TakeEvent(h) PROVE Delivered'
  <2>1. chan[h] \in Seq(Event) /\ chan[h] # <<>>
    BY <1>4 DEF TakeEvent, EmitterInv, EmitterTypeOK
  <2>2. /\ 1 \in DOMAIN chan[h] /\ Head(chan[h]) = chan[h][1]
        /\ \A i \in DOMAIN Tail(chan[h]) :
             i + 1 \in DOMAIN chan[h] /\ Tail(chan[h])[i] = chan[h][i + 1]
    BY <2>1, TailEntries
  <2>3. Got(h)' = Got(h)
    <3>1. handled'[h] = handled[h] \cup {chan[h][1].data} /\ chan'[h] = Tail(chan[h])
      BY <1>4, <2>2 DEF TakeEvent, EmitterInv, EmitterTypeOK
    <3>2. \A i \in DOMAIN chan[h] : i = 1 \/ \E j \in DOMAIN Tail(chan[h]) : j + 1 = i
      <4>1. ASSUME NEW i \in DOMAIN chan[h], i # 1
            PROVE  i - 1 \in DOMAIN Tail(chan[h]) /\ i - 1 + 1 = i
        BY <2>1, <4>1
      <4>2. QED
        BY <4>1
    <3>3. {chan[h][i].data : i \in DOMAIN chan[h]} =
            {chan[h][1].data} \cup {Tail(chan[h])[i].data : i \in DOMAIN Tail(chan[h])}
      BY <2>2, <3>2
    <3>4. QED
      BY <3>1, <3>3 DEF Got
  <2>4. \A k \in Handlers : k # h => Got(k)' = Got(k)
    BY <1>4 DEF TakeEvent, Got, EmitterInv, EmitterTypeOK
  <2>5. QED
    BY <1>0, <1>4, <2>3, <2>4, DeliveredKept DEF TakeEvent, EmitterInv, Delivered
<1>5. ASSUME NEW h \in Handlers,
             Subscribe(h) \/ Unsubscribe(h) \/ HandlerReturns(h) \/ TakeDone(h)
      PROVE  Delivered'
  <2>1. UNCHANGED <<asyncBuf, emitted, ended, handled, chan, pc, todo>>
    BY <1>5 DEF Subscribe, Unsubscribe, HandlerReturns, TakeDone
  <2>2. QED
    BY <2>1 DEF EmitterInv, Delivered, Missing, Got
<1>6. CASE Close \/ UNCHANGED vars
  <2>1. UNCHANGED <<asyncBuf, emitted, ended, handled, chan, pc, todo>>
    BY <1>6 DEF Close, vars, emitterVars
  <2>2. QED
    BY <2>1 DEF EmitterInv, Delivered, Missing, Got
<1>7. QED
  BY <1>1, <1>2, <1>3, <1>4, <1>5, <1>6 DEF EmitterNext, EmitStep

\* The event p is older than the event q, if the same goroutine emitted both.
Older(p, q) == p[1] = q[1] => p[2] < q[2]

\* ChannelsInOrder for one handler.
InOrder(h) ==
  /\ asyncBuf = 0 => chan[h] = <<>>
  /\ \A i \in DOMAIN chan[h] : \A q \in handled[h] : Older(q, chan[h][i].data)
  /\ \A i \in DOMAIN chan[h] : \A j \in 1 .. i - 1 : Older(chan[h][j].data, chan[h][i].data)

LEMMA InOrderAll == ChannelsInOrder <=> \A h \in Handlers : InOrder(h)
BY DEF ChannelsInOrder, InOrder, Older

\* The channels take events that are newer than what their handlers were given,
\* and give their oldest.
LEMMA ChannelsStep == EmitterInv /\ [EmitterNext]_vars => ChannelsInOrder'
<1> SUFFICES ASSUME EmitterInv, [EmitterNext]_vars, NEW k \in Handlers PROVE InOrder(k)'
  BY InOrderAll DEF ChannelsInOrder, InOrder, Older
<1>0. InOrder(k)
  BY InOrderAll DEF EmitterInv
<1>1. ASSUME NEW p \in EmitCalls, DeliverAsync(p) PROVE InOrder(k)'
  <2>1. PICK h \in Handlers : h = Head(todo[p]) /\ Missing(p, h)
    BY <1>1, Delivering DEF DeliverAsync
  <2>2. chan'[k] = chan[k] \/ (k = h /\ chan'[k] = Append(chan[k], Emitting(p)))
    BY <1>1, <2>1 DEF DeliverAsync, EmitterInv, EmitterTypeOK
  <2>3. UNCHANGED <<asyncBuf, handled>> /\ asyncBuf > 0 /\ asyncBuf \in Nat
        /\ chan[k] \in Seq(Event) /\ pc[p] # "idle"
    BY <1>1, EmitterAssumption DEF DeliverAsync, EmitterInv, EmitterTypeOK
  <2>4. CASE chan'[k] = chan[k]
    BY <1>0, <2>3, <2>4 DEF InOrder
  <2>5. CASE k = h /\ chan'[k] = Append(chan[k], Emitting(p))
    <3>1. Emitting(p).data = p
      BY EmittedEvent
    <3>2. /\ \A q \in handled[k] : Older(q, Emitting(p).data)
          /\ \A j \in DOMAIN chan[k] : Older(chan[k][j].data, Emitting(p).data)
      BY <2>1, <2>3, <2>5, <3>1 DEF Missing, Got, Older
    <3>3. /\ DOMAIN chan'[k] = 1 .. Len(chan[k]) + 1 /\ DOMAIN chan[k] = 1 .. Len(chan[k])
          /\ Len(chan[k]) \in Nat /\ chan'[k][Len(chan[k]) + 1] = Emitting(p)
          /\ \A i \in 1 .. Len(chan[k]) : chan'[k][i] = chan[k][i]
      BY <2>3, <2>5
    <3>4. ASSUME NEW i \in DOMAIN chan'[k]
          PROVE  /\ \A q \in handled'[k] : Older(q, chan'[k][i].data)
                 /\ \A j \in 1 .. i - 1 : Older(chan'[k][j].data, chan'[k][i].data)
      <4>1. CASE i \in DOMAIN chan[k]
        <5>1. chan'[k][i] = chan[k][i] /\ \A j \in 1 .. i - 1 : chan'[k][j] = chan[k][j]
          BY <3>3, <4>1
        <5>2. QED
          BY <1>0, <2>3, <4>1, <5>1 DEF InOrder
      <4>2. CASE i = Len(chan[k]) + 1
        BY <2>3, <3>2, <3>3, <4>2
      <4>3. QED
        BY <3>3, <4>1, <4>2
    <3>5. QED
      BY <2>3, <3>4 DEF InOrder, Older
  <2>6. QED
    BY <2>2, <2>4, <2>5
<1>2. ASSUME NEW p \in EmitCalls, DeliverSync(p) PROVE InOrder(k)'
  BY <1>0, <1>2 DEF DeliverSync, InOrder
<1>3. ASSUME NEW h \in Handlers, TakeEvent(h) PROVE InOrder(k)'
  <2>1. CASE k # h
    BY <1>0, <1>3, <2>1 DEF TakeEvent, InOrder, EmitterInv, EmitterTypeOK
  <2>2. CASE k = h
    <3>1. /\ chan[k] \in Seq(Event) /\ chan[k] # <<>> /\ chan'[k] = Tail(chan[k])
          /\ handled'[k] = handled[k] \cup {Head(chan[k]).data} /\ asyncBuf' = asyncBuf
      BY <1>3, <2>2 DEF TakeEvent, EmitterInv, EmitterTypeOK
    <3>2. /\ 1 \in DOMAIN chan[k] /\ Head(chan[k]) = chan[k][1]
          /\ \A i \in DOMAIN Tail(chan[k]) : /\ i \in Nat /\ i > 0 /\ i + 1 \in DOMAIN chan[k]
                                             /\ Tail(chan[k])[i] = chan[k][i + 1]
      BY <3>1, TailEntries
    <3>3. ASSUME NEW i \in DOMAIN chan'[k]
          PROVE  /\ \A q \in handled'[k] : Older(q, chan'[k][i].data)
                 /\ \A j \in 1 .. i - 1 : Older(chan'[k][j].data, chan'[k][i].data)
      <4>1. i \in Nat /\ i > 0 /\ i + 1 \in DOMAIN chan[k] /\ chan'[k][i] = chan[k][i + 1]
        BY <3>1, <3>2
      <4>2. 1 \in 1 .. (i + 1) - 1
        BY <4>1
      <4>3. \A q \in handled'[k] : Older(q, chan'[k][i].data)
        BY <1>0, <3>1, <3>2, <4>1, <4>2 DEF InOrder
      <4>4. ASSUME NEW j \in 1 .. i - 1 PROVE Older(chan'[k][j].data, chan'[k][i].data)
        <5>1. j \in DOMAIN Tail(chan[k]) /\ j + 1 \in 1 .. (i + 1) - 1
          BY <3>1, <4>1
        <5>2. chan'[k][j] = chan[k][j + 1]
          BY <3>1, <3>2, <5>1
        <5>3. QED
          BY <1>0, <4>1, <5>1, <5>2 DEF InOrder
      <4>5. QED
        BY <4>3, <4>4
    <3>4. asyncBuf' # 0
      BY <1>0, <3>1 DEF InOrder
    <3>5. QED
      BY <3>3, <3>4 DEF InOrder, Older
  <2>3. QED
    BY <2>1, <2>2
<1>4. CASE UNCHANGED <<asyncBuf, chan, handled>>
  BY <1>0, <1>4 DEF InOrder
<1>5. QED
  BY <1>1, <1>2, <1>3, <1>4 DEF EmitterNext, EmitStep, Emit, ToHistory, Snapshot, PassOver,
     SyncReturns, EmitReturns, Subscribe, Unsubscribe, HandlerReturns, TakeDone, Close, vars,
     emitterVars

\* A handler that is cancelled is in no snapshot taken later.
LEMMA NewsStep == EmitterInv /\ [EmitterNext]_vars => NoNews'
<1> SUFFICES ASSUME EmitterInv, [EmitterNext]_vars PROVE NoNews'
  OBVIOUS
<1>0. \A p \in EmitCalls : \A i \in DOMAIN todo[p] : todo[p][i] \in Handlers
  BY DEF EmitterInv, EmitterTypeOK
<1>1. ASSUME NEW p \in EmitCalls, Emit(p) PROVE NoNews'
  <2>1. /\ p[1] \in Emitters /\ p[2] = emitted[p[1]] + 1 /\ todo' = todo
        /\ emitted \in [Emitters -> Nat] /\ UNCHANGED <<handled, chan>>
    BY <1>1, EmissionFacts DEF Emit, EmitterInv, EmitterTypeOK
  <2>2. /\ \A h \in Handlers : Got(h)' = Got(h)
        /\ \A h \in Handlers : ended'[h] \subseteq ended[h] \cup {p}
    BY <1>1, <2>1 DEF Emit, Got
  <2>3. todo[p] = <<>>
    BY <2>1 DEF EmitterInv, EmissionsInPlace
  <2>4. \A h \in Handlers : p \notin Got(h)
    BY <2>1 DEF EmitterInv, Delivered
  <2>5. \A h \in Handlers : Got(h)' \cap ended'[h] = {}
    BY <2>2, <2>4 DEF EmitterInv, NoNews
  <2>6. ASSUME NEW k \in EmitCalls, NEW i \in DOMAIN todo'[k]
        PROVE  k \notin ended'[todo'[k][i]]
    <3>1. k # p /\ todo[k][i] \in Handlers
      BY <1>0, <2>1, <2>3, <2>6
    <3>2. QED
      BY <2>1, <2>2, <2>6, <3>1 DEF EmitterInv, NoNews
  <2>7. QED
    BY <2>5, <2>6 DEF NoNews
<1>2. ASSUME NEW p \in EmitCalls, EmitStep(p) \/ SyncReturns(p) PROVE NoNews'
  <2>1. emitted' = emitted /\ ended' = ended
    BY <1>2 DEF EmitStep, ToHistory, Snapshot, PassOver, DeliverAsync, DeliverSync,
       EmitReturns, SyncReturns
  <2>2. \A h \in Handlers : Got(h)' \cap ended'[h] = {}
    <3>1. CASE UNCHANGED <<chan, handled>>
      BY <2>1, <3>1 DEF Got, EmitterInv, NoNews
    <3>2. CASE DeliverAsync(p) \/ DeliverSync(p)
      <4>1. /\ todo[p] # <<>> /\ pc[p] = "deliver"
        BY <3>2 DEF DeliverAsync, DeliverSync
      <4>2. PICK h \in Handlers : h = Head(todo[p]) /\ 1 \in DOMAIN todo[p] /\ h = todo[p][1]
        BY <4>1, Delivering
      <4>3. Emitting(p).data = p /\ p \notin ended[h]
        BY <4>1, <4>2, EmittedEvent DEF EmitterInv, NoNews
      <4>4. ASSUME NEW k \in Handlers, NEW q \in Got(k)'
            PROVE  q \in Got(k) \/ (k = h /\ q = p)
        <5>1. CASE DeliverSync(p)
          BY <4>2, <4>3, <4>4, <5>1 DEF DeliverSync, Got, EmitterInv, EmitterTypeOK
        <5>2. CASE DeliverAsync(p)
          <6>1. /\ chan[k] \in Seq(Event) /\ handled' = handled
                /\ chan'[k] = chan[k] \/ (k = h /\ chan'[k] = Append(chan[k], Emitting(p)))
            BY <4>2, <5>2 DEF DeliverAsync, EmitterInv, EmitterTypeOK
          <6>2. \A i \in DOMAIN chan'[k] :
                  \/ i \in DOMAIN chan[k] /\ chan'[k][i] = chan[k][i]
                  \/ k = h /\ chan'[k][i] = Emitting(p)
            BY <6>1
          <6>3. QED
            BY <4>3, <4>4, <6>1, <6>2 DEF Got
        <5>3. QED
          BY <3>2, <5>1, <5>2
      <4>5. QED
        BY <2>1, <4>3, <4>4 DEF EmitterInv, NoNews
    <3>3. QED
      BY <1>2, <3>1, <3>2 DEF EmitStep, ToHistory, Snapshot, PassOver, EmitReturns, SyncReturns
  <2>3. ASSUME NEW k \in EmitCalls, NEW i \in DOMAIN todo'[k]
        PROVE  k \notin ended[todo'[k][i]]
    <3>1. CASE todo'[k] = todo[k]
      BY <2>3, <3>1 DEF EmitterInv, NoNews
    <3>2. CASE k = p /\ todo[p] # <<>> /\ todo'[p] = Tail(todo[p])
      <4>1. i + 1 \in DOMAIN todo[p] /\ todo'[p][i] = todo[p][i + 1]
        BY <2>3, <3>2, TailEntries DEF EmitterInv, EmitterTypeOK
      <4>2. QED
        BY <3>2, <4>1 DEF EmitterInv, NoNews
    <3>3. CASE k = p /\ Snapshot(p)
      <4>1. todo'[p] = handlers
        BY <3>3 DEF Snapshot, EmitterInv, EmitterTypeOK
      <4>0. i \in DOMAIN handlers /\ handlers[i] \in Handlers
        BY <2>3, <3>3, <4>1 DEF EmitterInv, EmitterTypeOK
      <4>2. todo'[p][i] \in Handlers /\ sub[todo'[p][i]] # "ended"
        BY <4>0, <4>1 DEF EmitterInv, Registered
      <4>3. ended[todo'[p][i]] = {}
        BY <4>2 DEF EmitterInv, Registered
      <4>4. QED
        BY <3>3, <4>3
    <3>4. QED
      BY <1>2, <3>1, <3>2, <3>3
         DEF EmitStep, ToHistory, Snapshot, PassOver, DeliverAsync, DeliverSync, EmitReturns,
             SyncReturns, EmitterInv, EmitterTypeOK, EmissionsInPlace
  <2>4. QED
    BY <2>1, <2>2, <2>3 DEF NoNews
<1>3. ASSUME NEW h \in Handlers, TakeEvent(h) PROVE NoNews'
  <2>1. chan[h] \in Seq(Event) /\ chan[h] # <<>>
    BY <1>3 DEF TakeEvent, EmitterInv, EmitterTypeOK
  <2>2. /\ 1 \in DOMAIN chan[h] /\ Head(chan[h]) = chan[h][1]
        /\ \A i \in DOMAIN Tail(chan[h]) :
             i + 1 \in DOMAIN chan[h] /\ Tail(chan[h])[i] = chan[h][i + 1]
    BY <2>1, TailEntries
  <2>3. /\ handled' = [handled EXCEPT ![h] = @ \cup {chan[h][1].data}]
        /\ chan' = [chan EXCEPT ![h] = Tail(@)] /\ UNCHANGED <<emitted, ended, todo>>
    BY <1>3, <2>2 DEF TakeEvent
  <2>4. \A k \in Handlers : Got(k)' \subseteq Got(k)
    BY <2>2, <2>3 DEF Got, EmitterInv, EmitterTypeOK
  <2>5. QED
    BY <2>3, <2>4 DEF EmitterInv, NoNews
<1>4. CASE UNCHANGED <<emitted, ended, handled, chan, todo>>
  BY <1>4 DEF EmitterInv, NoNews, Got
<1>5. QED
  BY <1>1, <1>2, <1>3, <1>4 DEF EmitterNext, Subscribe, Unsubscribe, HandlerReturns, TakeDone,
     Close, vars, emitterVars

\* A record goes to the ring and to the sequence of what was recorded.
LEMMA RingStep == EmitterInv /\ [EmitterNext]_vars => RingHolds'
<1> SUFFICES ASSUME EmitterInv, [EmitterNext]_vars PROVE RingHolds'
  OBVIOUS
<1>1. ASSUME NEW p \in EmitCalls, ToHistory(p) PROVE RingHolds'
  <2>1. /\ HistoryRecord(Emitting(p)) /\ Emitting(p) \in Event
        /\ recorded' = Append(recorded, Emitting(p))
    BY <1>1, EmittedEvent DEF ToHistory, EmitterInv
  <2>2. PICK e \in Event : HistoryRecord(e) /\ recorded' = Append(recorded, e)
    BY <2>1
  <2>3. /\ count' = (IF count < Size THEN count + 1 ELSE count)
        /\ buf'[Back(0)'] = e
        /\ \A i \in 1 .. count' - 1 : /\ i - 1 \in 0 .. count - 1
                                      /\ buf'[Back(i)'] = buf[Back(i - 1)]
    BY <2>2, RecordShifts DEF EmitterInv, EmitterTypeOK
  <2>4. /\ Size \in Nat \ {0} /\ recorded \in Seq(Event) /\ Len(recorded) \in Nat
        /\ count = IF Len(recorded) < Size THEN Len(recorded) ELSE Size
        /\ \A i \in 0 .. count - 1 : buf[Back(i)] = recorded[Len(recorded) - i]
    <3>1. recorded \in Seq(Event) /\ Len(recorded) \in Nat
      BY DEF EmitterInv, EmitterTypeOK
    <3>2. QED
      BY <3>1, SizeAssumption DEF EmitterInv, RingHolds
  <2>5. /\ Len(recorded') = Len(recorded) + 1 /\ recorded'[Len(recorded) + 1] = e
        /\ \A i \in 1 .. Len(recorded) : recorded'[i] = recorded[i]
    BY <2>2, <2>4
  <2>6. count' = IF Len(recorded') < Size THEN Len(recorded') ELSE Size
    BY <2>3, <2>4, <2>5
  <2>7. ASSUME NEW i \in 0 .. count' - 1
        PROVE  buf'[Back(i)'] = recorded'[Len(recorded') - i]
    <3>1. CASE i = 0
      BY <2>3, <2>4, <2>5, <3>1
    <3>2. CASE i # 0
      <4>1. i \in 1 .. count' - 1 /\ i - 1 \in 0 .. count - 1
        BY <2>3, <2>4, <3>2
      <4>2. buf'[Back(i)'] = recorded[Len(recorded) - (i - 1)]
        BY <2>3, <2>4, <4>1
      <4>3. /\ Len(recorded) - (i - 1) \in 1 .. Len(recorded)
            /\ Len(recorded') - i = Len(recorded) - (i - 1)
        BY <2>4, <2>5, <4>1
      <4>4. QED
        BY <2>5, <4>2, <4>3
    <3>3. QED
      BY <3>1, <3>2
  <2>8. QED
    BY <2>6, <2>7 DEF RingHolds
<1>2. CASE UNCHANGED <<historyVars, recorded>>
  BY <1>2 DEF historyVars, EmitterInv, RingHolds, Back
<1>3. QED
  BY <1>1, <1>2 DEF EmitterNext, EmitStep, Emit, Snapshot, PassOver, DeliverAsync, DeliverSync,
     SyncReturns, EmitReturns, Subscribe, Unsubscribe, TakeEvent, HandlerReturns, TakeDone,
     Close, vars, emitterVars

LEMMA EmitterStarts == EmitterInit => EmitterInv
<1> SUFFICES ASSUME EmitterInit PROVE EmitterInv
  OBVIOUS
<1>1. HistoryTypeOK /\ count = 0
  BY HistoryStarts DEF EmitterInit, HistoryInit
<1>2. EmitterTypeOK
  BY <1>1, EmitterAssumption DEF EmitterInit, EmitterTypeOK, EmitPCs
<1>3. \A h \in Handlers : Got(h) = {} /\ ended[h] = {} /\ chan[h] = <<>>
  BY DEF EmitterInit, Got
<1>4. EmissionsInPlace /\ Registered
  BY DEF EmitterInit, EmissionsInPlace, Registered
<1>5. Delivered /\ NoNews
  BY <1>3 DEF EmitterInit, Delivered, NoNews
<1>6. ChannelsInOrder
  BY <1>3 DEF ChannelsInOrder
<1>7. RingHolds
  BY <1>1, SizeAssumption DEF EmitterInit, RingHolds
<1>8. QED
  BY <1>2, <1>4, <1>5, <1>6, <1>7 DEF EmitterInv

LEMMA EmitterInvariant == EmitterSpec => []EmitterInv
<1>1. EmitterInv /\ [EmitterNext]_vars => EmitterInv'
  BY EmitterTypeStep, PlaceStep, RegisteredStep, DeliveredStep, ChannelsStep, NewsStep, RingStep
     DEF EmitterInv
<1>2. QED
  BY <1>1, EmitterStarts, PTL DEF EmitterSpec
-----------------------------------------------------------------------------
(* Theorems *)

\* Every goroutine that emits and every handler's own keep the types of what they
\* share (events.go), and each handler is registered once, until it is cancelled.
THEOREM EmitterTypeCorrect == EmitterSpec => [](EmitterTypeOK /\ Registered)
<1>1. EmitterInv => EmitterTypeOK /\ Registered
  BY DEF EmitterInv
<1>2. QED
  BY <1>1, EmitterInvariant, PTL

\* A handler is never called with an event emitted after it was cancelled, for any
\* number of goroutines and whatever is still in its channel (events.go, notify).
THEOREM NothingNewIsHandled == EmitterSpec => []NoNewsAfterUnsubscribe
<1>1. EmitterInv => NoNewsAfterUnsubscribe
  BY DEF EmitterInv, NoNews, Got, NoNewsAfterUnsubscribe
<1>2. QED
  BY <1>1, EmitterInvariant, PTL

\* No handler gets an event twice, whatever handlers emit while they are called, and
\* an asynchronous one gets each goroutine's events in the order they were emitted,
\* for any size of its channel (events.go, notify and deliver).
THEOREM EventsHandledInOrder == EmitterSpec => []HandledInOrder
<1>1. EmitterInv => HandledInOrder
  <2> SUFFICES ASSUME EmitterInv PROVE HandledInOrder
    OBVIOUS
  <2>1. ASSUME NEW p \in EmitCalls, pc[p] = "deliver", NEW i \in DOMAIN todo[p]
        PROVE  /\ p \notin handled[todo[p][i]]
               /\ asyncBuf > 0 => \A q \in handled[todo[p][i]] : q[1] = p[1] => q[2] < p[2]
    BY <2>1 DEF EmitterInv, Delivered, Missing, Got
  <2>2. QED
    BY <2>1 DEF EmitterInv, ChannelsInOrder, HandledInOrder
<1>2. QED
  BY <1>1, EmitterInvariant, PTL

\* Replay and ReplayAll (history.go) find the newest event of each name among the
\* last Size recorded, for a ring of any size that any goroutines record in.
THEOREM ReplayIsNewest == EmitterSpec => []ReplayFindsNewest
<1> DEFINE named(n) == {i \in DOMAIN recorded : /\ i > Len(recorded) - Size
                                                /\ recorded[i].name = n}
           newest(n) == {recorded[i] : i \in {k \in named(n) : \A j \in named(n) : j <= k}}
<1>1. ASSUME EmitterInv
      PROVE  /\ \A n \in EventNames : Last(n) = newest(n)
             /\ Latest = UNION {newest(n) : n \in EventNames}
  <2> DEFINE L == Len(recorded)
  <2>1. /\ Size \in Nat \ {0} /\ recorded \in Seq(Event) /\ L \in Nat
        /\ DOMAIN recorded = 1 .. L
        /\ count = IF L < Size THEN L ELSE Size
        /\ \A i \in 0 .. count - 1 : buf[Back(i)] = recorded[L - i]
    BY <1>1, SizeAssumption DEF EmitterInv, EmitterTypeOK, RingHolds
  <2> HIDE DEF L
  <2>2. \A k \in 0 .. count - 1 : L - k \in 1 .. L /\ L - k > L - Size
    BY <2>1
  <2>3. \A i \in 1 .. L : i > L - Size => L - i \in 0 .. count - 1 /\ L - (L - i) = i
    BY <2>1
  <2>4. ASSUME NEW n \in EventNames PROVE Last(n) = newest(n)
    <3>1. ASSUME NEW k \in 0 .. count - 1, buf[Back(k)].name = n,
                 \A j \in 0 .. k - 1 : buf[Back(j)].name # n
          PROVE  buf[Back(k)] \in newest(n)
      <4>1. L - k \in named(n) /\ buf[Back(k)] = recorded[L - k]
        BY <2>1, <2>2, <3>1 DEF L
      <4>2. ASSUME NEW j \in named(n) PROVE j <= L - k
        <5>1. j \in 1 .. L /\ j > L - Size /\ recorded[j].name = n
          BY <2>1 DEF L
        <5>2. L - j \in 0 .. count - 1 /\ buf[Back(L - j)].name = n
          BY <2>1, <2>3, <5>1
        <5>3. L - j \notin 0 .. k - 1
          BY <3>1, <5>2
        <5>4. QED
          BY <2>1, <5>1, <5>2, <5>3
      <4>3. QED
        BY <4>1, <4>2
    <3>2. ASSUME NEW i \in named(n), \A j \in named(n) : j <= i
          PROVE  recorded[i] \in Last(n)
      <4>1. i \in 1 .. L /\ i > L - Size /\ recorded[i].name = n
        BY <2>1 DEF L
      <4>2. PICK k \in 0 .. count - 1 : k = L - i /\ L - k = i
        BY <2>1, <2>3, <4>1
      <4>3. buf[Back(k)] = recorded[i]
        BY <2>1, <4>2
      <4>4. ASSUME NEW j \in 0 .. k - 1 PROVE buf[Back(j)].name # n
        <5>1. j \in 0 .. count - 1 /\ L - j > i
          BY <2>1, <4>1, <4>2
        <5>2. L - j \in 1 .. L /\ L - j > L - Size /\ buf[Back(j)] = recorded[L - j]
          BY <2>1, <2>2, <5>1
        <5>3. L - j \notin named(n)
          BY <2>1, <3>2, <4>1, <5>1
        <5>4. QED
          BY <2>1, <5>2, <5>3 DEF L
      <4>5. QED
        BY <4>1, <4>3, <4>4 DEF Last
    <3>3. QED
      BY <3>1, <3>2 DEF Last
  <2>5. \A k \in 0 .. count - 1 : buf[Back(k)].name \in EventNames
    BY <1>1 DEF EmitterInv, EmitterTypeOK, HistoryTypeOK, Event
  <2>6. Latest = UNION {Last(n) : n \in EventNames}
    BY <2>5 DEF Latest, Last
  <2> HIDE DEF newest
  <2>7. {Last(n) : n \in EventNames} = {newest(n) : n \in EventNames}
    BY <2>4
  <2>8. QED
    BY <2>4, <2>6, <2>7
<1>2. EmitterInv => ReplayFindsNewest
  BY <1>1 DEF ReplayFindsNewest
<1>3. QED
  BY <1>2, EmitterInvariant, PTL

\* Whatever goroutines emit at once, the history is the log of the last Size events
\* they recorded, and nothing but a record changes it (events.go, history.go).
THEOREM EmitterImplementsLog == EmitterSpec => ImplementsBoundedLog
<1>1. EmitterInit => Log!Init
  BY HistoryStarts DEF EmitterInit
<1>2. EmitterInv /\ [EmitterNext]_vars => [Log!Next]_HistoryLog
  <2> SUFFICES ASSUME EmitterInv, [EmitterNext]_vars PROVE [Log!Next]_HistoryLog
    OBVIOUS
  <2>1. ASSUME NEW p \in EmitCalls, ToHistory(p) PROVE Log!Next
    <3>1. HistoryRecord(Emitting(p)) /\ Emitting(p) \in Event
      BY <2>1, EmittedEvent DEF ToHistory, EmitterInv
    <3>2. Log!Record(Emitting(p))
      BY <3>1, RecordImplements DEF EmitterInv, EmitterTypeOK
    <3>3. QED
      BY <3>1, <3>2 DEF Log!Next
  <2>2. CASE UNCHANGED historyVars
    BY <2>2, HistoryStutters
  <2>3. QED
    BY <2>1, <2>2
       DEF EmitterNext, EmitStep, Emit, Snapshot, PassOver, DeliverAsync, DeliverSync,
           SyncReturns, EmitReturns, Subscribe, Unsubscribe, TakeEvent, HandlerReturns,
           TakeDone, Close, vars
<1>3. QED
  BY <1>1, <1>2, EmitterInvariant, PTL DEF EmitterSpec, ImplementsBoundedLog, Log!Spec
-----------------------------------------------------------------------------
(* Middleware: the batcher *)

\* The batch b holds the payload p.
Holds(b, p) == \E i \in DOMAIN b : b[i] = p

\* The payloads that are in the batcher no more.
Taken == 1 .. calls - Len(buffer)

BatcherTypeOK ==
  /\ calls \in 0 .. MaxCalls /\ closes \in 0 .. MaxCloses
  /\ timer \in 0 .. calls
  /\ timers \in [Calls -> {"unused", "armed", "stopped", "fired", "done"}]
  /\ buffer \in Seq(Nat)
  /\ flying \subseteq [by : Int, payloads : Seq(Nat)]
  /\ out \in Seq(Seq(Nat))

\* The timer runs, or its callback is about to, exactly while events wait.
TimerInv ==
  /\ timer = 0 <=> buffer = <<>>
  /\ timer # 0 => timers[timer] \in {"armed", "fired"}

\* The buffer holds the last payloads, and has room for one more.
BufferInv ==
  /\ Len(buffer) \in 0 .. MaxSize - 1 /\ Len(buffer) <= calls
  /\ \A i \in DOMAIN buffer : buffer[i] = calls - Len(buffer) + i

\* A batch is a run of payloads that were taken.
BatchInv(b) ==
  /\ Len(b) \in 1 .. MaxSize
  /\ \A i \in 1 .. Len(b) : b[i] = b[1] + i - 1 /\ b[i] \in Taken

BatchesInv ==
  /\ \A x \in flying : BatchInv(x.payloads)
  /\ \A i \in DOMAIN out : BatchInv(out[i])

\* No two batches share a payload, and what was taken is in one.
OneBatchInv ==
  /\ \A p \in Taken : \/ \E x \in flying : Holds(x.payloads, p)
                      \/ \E i \in DOMAIN out : Holds(out[i], p)
  /\ \A x, y \in flying : \A p \in Nat :
       Holds(x.payloads, p) /\ Holds(y.payloads, p) => x = y
  /\ \A i, j \in DOMAIN out : \A p \in Nat :
       Holds(out[i], p) /\ Holds(out[j], p) => i = j
  /\ \A x \in flying, i \in DOMAIN out : \A p \in Nat :
       ~ (Holds(x.payloads, p) /\ Holds(out[i], p))

BatcherInv ==
  kind = "batch" =>
    BatcherTypeOK /\ TimerInv /\ BufferInv /\ BatchesInv /\ OneBatchInv
-----------------------------------------------------------------------------
LEMMA BatcherStarts == MiddlewareInit => BatcherInv
BY MiddlewareAssumption
   DEF MiddlewareInit, BatcherInv, BatcherTypeOK, TimerInv, BufferInv, BatchesInv, OneBatchInv,
       Taken

\* Batches keep what is said of them while the payloads that were taken stay the same.
LEMMA BatchesKept ==
  ASSUME BatchesInv, OneBatchInv, Taken' = Taken, UNCHANGED <<flying, out>>
  PROVE  BatchesInv' /\ OneBatchInv'
<1>1. BatchesInv'
  BY DEF BatchesInv, BatchInv
<1>2. OneBatchInv'
  BY DEF OneBatchInv
<1>3. QED
  BY <1>1, <1>2

\* The batch b takes all that waits: the payloads after those taken before.
LEMMA CutKeeps ==
  ASSUME BatcherTypeOK, BufferInv, BatchesInv, OneBatchInv,
         NEW by \in Int, NEW b \in Seq(Nat),
         Len(b) \in 1 .. MaxSize, calls' \in Nat, calls' - Len(b) = calls - Len(buffer),
         \A i \in 1 .. Len(b) : b[i] = calls' - Len(b) + i,
         flying' = flying \cup {[by |-> by, payloads |-> b]},
         buffer' = <<>>, out' = out
  PROVE  /\ flying' \subseteq [by : Int, payloads : Seq(Nat)]
         /\ BufferInv' /\ BatchesInv' /\ OneBatchInv'
<1> DEFINE new == [by |-> by, payloads |-> b]
<1>0. /\ MaxSize \in Nat \ {0} /\ calls \in Nat /\ Len(buffer) \in Nat /\ Len(b) \in Nat
      /\ Len(buffer) <= calls
  BY MiddlewareAssumption DEF BatcherTypeOK, BufferInv
<1>k. PICK k \in Nat : k = calls - Len(buffer) /\ calls' = k + Len(b)
  <2>1. calls - Len(buffer) \in Nat
    BY <1>0
  <2>2. calls' = (calls - Len(buffer)) + Len(b)
    BY <1>0
  <2>3. QED
    BY <2>1, <2>2
<1>n. \A i \in 1 .. Len(b) : b[i] = k + i
  BY <1>0, <1>k
<1>1. /\ flying' \subseteq [by : Int, payloads : Seq(Nat)]
      /\ new.payloads = b /\ DOMAIN b = 1 .. Len(b)
  BY DEF BatcherTypeOK
<1>2. BufferInv'
  BY <1>0 DEF BufferInv
<1>3. Taken' = 1 .. k + Len(b) /\ Taken = 1 .. k
  <2>1. Len(buffer') = 0
    OBVIOUS
  <2>2. QED
    BY <1>0, <1>k, <2>1 DEF Taken
<1>4. Taken \subseteq Taken'
  BY <1>0, <1>3
<1>5. BatchInv(b)'
  <2>1. b[1] = k + 1
    BY <1>0, <1>n
  <2>2. ASSUME NEW i \in 1 .. Len(b)
        PROVE  b[i] = b[1] + i - 1 /\ b[i] \in 1 .. k + Len(b)
    <3>1. b[i] = k + i
      BY <1>n
    <3>2. i \in Nat /\ i >= 1 /\ i <= Len(b)
      BY <1>0
    <3>3. QED
      BY <1>0, <2>1, <3>1, <3>2
  <2>3. QED
    BY <1>3, <2>2 DEF BatchInv
<1>6. \A x \in flying : BatchInv(x.payloads)'
  BY <1>4 DEF BatchesInv, BatchInv
<1>7. \A i \in DOMAIN out : BatchInv(out[i])'
  BY <1>4 DEF BatchesInv, BatchInv
<1> HIDE DEF new
<1>8. BatchesInv'
  <2>1. \A x \in flying' : BatchInv(x.payloads)'
    <3>1. SUFFICES ASSUME NEW x \in flying' PROVE BatchInv(x.payloads)'
      OBVIOUS
    <3>2. CASE x \in flying
      BY <1>6, <3>2
    <3>3. CASE x = new
      BY <1>1, <1>5, <3>3 DEF BatchInv
    <3>4. QED
      BY <3>1, <3>2, <3>3 DEF new
  <2>2. QED
    BY <1>7, <2>1 DEF BatchesInv
<1>9. \A p \in Nat : Holds(b, p) <=> p \in Taken' /\ p \notin Taken
  <2>1. ASSUME NEW p \in Nat, Holds(b, p) PROVE p \in Taken' /\ p \notin Taken
    <3>1. PICK i \in 1 .. Len(b) : p = k + i
      BY <1>1, <1>n, <2>1 DEF Holds
    <3>2. QED
      BY <1>0, <1>3, <3>1
  <2>2. ASSUME NEW p \in Nat, p \in Taken', p \notin Taken PROVE Holds(b, p)
    <3>1. PICK i \in 1 .. Len(b) : p = k + i
      BY <1>0, <1>3, <2>2
    <3>2. b[i] = p
      BY <1>n, <3>1
    <3>3. QED
      BY <1>1, <3>1, <3>2 DEF Holds
  <2>3. QED
    BY <2>1, <2>2
<1>10. \A p \in Nat : /\ \A x \in flying : Holds(x.payloads, p) => p \in Taken
                      /\ \A i \in DOMAIN out : Holds(out[i], p) => p \in Taken
  <2>1. ASSUME NEW c, c \in Seq(Nat), BatchInv(c), NEW p \in Nat, Holds(c, p) PROVE p \in Taken
    BY <2>1 DEF BatchInv, Holds
  <2>2. \A x \in flying : x.payloads \in Seq(Nat) /\ BatchInv(x.payloads)
    BY DEF BatcherTypeOK, BatchesInv
  <2>3. \A i \in DOMAIN out : out[i] \in Seq(Nat) /\ BatchInv(out[i])
    BY DEF BatcherTypeOK, BatchesInv
  <2>4. QED
    BY <2>1, <2>2, <2>3
<1>11. \A p \in Nat : \A x \in flying' : Holds(x.payloads, p) =>
         (x = new /\ p \notin Taken) \/ (x \in flying /\ p \in Taken)
  BY <1>1, <1>9, <1>10 DEF new
<1>12. \A p \in Taken' : \/ \E x \in flying' : Holds(x.payloads, p)
                         \/ \E i \in DOMAIN out' : Holds(out'[i], p)
  <2>1. SUFFICES ASSUME NEW p \in Taken'
                 PROVE  \/ \E x \in flying' : Holds(x.payloads, p)
                        \/ \E i \in DOMAIN out' : Holds(out'[i], p)
    OBVIOUS
  <2>2. CASE p \in Taken
    BY <2>2 DEF OneBatchInv
  <2>3. CASE p \notin Taken
    <3>1. p \in Nat
      BY <1>0, <1>3
    <3>2. Holds(new.payloads, p)
      BY <1>1, <1>9, <2>3, <3>1
    <3>3. QED
      BY <3>2 DEF new
  <2>4. QED
    BY <2>2, <2>3
<1>13. OneBatchInv'
  <2>1. \A x, y \in flying' : \A p \in Nat :
          Holds(x.payloads, p) /\ Holds(y.payloads, p) => x = y
    BY <1>11 DEF OneBatchInv
  <2>2. \A x \in flying', i \in DOMAIN out : \A p \in Nat :
          ~ (Holds(x.payloads, p) /\ Holds(out[i], p))
    BY <1>10, <1>11 DEF OneBatchInv
  <2>3. QED
    BY <1>12, <2>1, <2>2 DEF OneBatchInv
<1>14. QED
  BY <1>1, <1>2, <1>8, <1>13

\* batcher.flush, by whatever goroutine; its timer is among those that ts counts.
LEMMA FlushKeeps ==
  ASSUME BatcherInv, kind = "batch", NEW by \in Int,
         NEW ts \in [Calls -> {"unused", "armed", "stopped", "fired", "done"}],
         Flush(by, ts), UNCHANGED <<kind, calls, out>>, closes' \in 0 .. MaxCloses
  PROVE  BatcherInv'
<1>0. BatcherTypeOK /\ TimerInv /\ BufferInv /\ BatchesInv /\ OneBatchInv
  BY DEF BatcherInv
<1>1. CASE buffer = <<>>
  <2>1. timers' = ts /\ UNCHANGED <<timer, buffer, flying>>
    BY <1>1 DEF Flush
  <2>2. Taken' = Taken
    BY <2>1 DEF Taken
  <2>3. BatchesInv' /\ OneBatchInv'
    BY <1>0, <2>1, <2>2, BatchesKept
  <2>4. BatcherTypeOK' /\ TimerInv' /\ BufferInv'
    BY <1>0, <1>1, <2>1 DEF BatcherTypeOK, TimerInv, BufferInv
  <2>5. QED
    BY <2>3, <2>4 DEF BatcherInv
<1>2. CASE buffer # <<>>
  <2>1. /\ timers' \in [Calls -> {"unused", "armed", "stopped", "fired", "done"}]
        /\ timer' = 0 /\ buffer' = <<>>
        /\ flying' = flying \cup {[by |-> by, payloads |-> buffer]}
    BY <1>2 DEF Flush, Cut
  <2>2. /\ buffer \in Seq(Nat) /\ Len(buffer) \in 1 .. MaxSize /\ calls \in Nat
        /\ \A i \in 1 .. Len(buffer) : buffer[i] = calls - Len(buffer) + i
    BY <1>0, <1>2, MiddlewareAssumption DEF BatcherTypeOK, BufferInv
  <2>3. /\ flying' \subseteq [by : Int, payloads : Seq(Nat)]
        /\ BufferInv' /\ BatchesInv' /\ OneBatchInv'
    BY <1>0, <2>1, <2>2, CutKeeps
  <2>4. BatcherTypeOK' /\ TimerInv'
    BY <1>0, <2>1, <2>3 DEF BatcherTypeOK, TimerInv
  <2>5. QED
    BY <2>3, <2>4 DEF BatcherInv
<1>3. QED
  BY <1>1, <1>2

\* An emission that is made moves a batch to the end of out.
LEMMA RawEmitKeeps ==
  ASSUME BatcherInv, kind = "batch", NEW x \in flying, RawEmit(x)
  PROVE  BatcherInv'
<1>0. BatcherTypeOK /\ TimerInv /\ BufferInv /\ BatchesInv /\ OneBatchInv
  BY DEF BatcherInv
<1>1. /\ flying' = flying \ {x} /\ out' = Append(out, x.payloads)
      /\ UNCHANGED <<kind, calls, closes, timer, timers, buffer>>
  BY DEF RawEmit
<1>2. BatcherTypeOK' /\ TimerInv' /\ BufferInv'
  BY <1>0, <1>1 DEF BatcherTypeOK, TimerInv, BufferInv
<1>3. Taken' = Taken
  BY <1>1 DEF Taken
<1>4. out \in Seq(Seq(Nat)) /\ x.payloads \in Seq(Nat)
  BY <1>0 DEF BatcherTypeOK
<1>5. /\ \A i \in DOMAIN out : i \in DOMAIN out' /\ out'[i] = out[i]
      /\ Len(out) + 1 \in DOMAIN out' /\ out'[Len(out) + 1] = x.payloads
      /\ \A i \in DOMAIN out' : i \in DOMAIN out \/ i = Len(out) + 1
  BY <1>1, <1>4
<1>6. BatchesInv'
  <2>1. ASSUME NEW c, BatchInv(c) PROVE BatchInv(c)'
    BY <1>3, <2>1 DEF BatchInv
  <2>2. \A y \in flying' : BatchInv(y.payloads)
    BY <1>0, <1>1 DEF BatchesInv
  <2>3. \A i \in DOMAIN out' : BatchInv(out'[i])
    BY <1>0, <1>5 DEF BatchesInv
  <2>4. QED
    BY <1>3, <2>2, <2>3 DEF BatchesInv, BatchInv
<1>7. OneBatchInv'
  <2>1. \A p \in Taken' : \/ \E y \in flying' : Holds(y.payloads, p)
                          \/ \E i \in DOMAIN out' : Holds(out'[i], p)
    BY <1>0, <1>1, <1>3, <1>5 DEF OneBatchInv
  <2>2. \A y, z \in flying' : \A p \in Nat :
          Holds(y.payloads, p) /\ Holds(z.payloads, p) => y = z
    BY <1>0, <1>1 DEF OneBatchInv
  <2>3. ASSUME NEW i \in DOMAIN out', NEW j \in DOMAIN out', NEW p \in Nat,
               Holds(out'[i], p), Holds(out'[j], p)
        PROVE  i = j
    BY <1>0, <1>5, <2>3 DEF OneBatchInv
  <2>4. ASSUME NEW y \in flying', NEW i \in DOMAIN out', NEW p \in Nat,
               Holds(y.payloads, p), Holds(out'[i], p)
        PROVE  FALSE
    BY <1>0, <1>1, <1>5, <2>4 DEF OneBatchInv
  <2>5. QED
    BY <2>1, <2>2, <2>3, <2>4 DEF OneBatchInv
<1>8. QED
  BY <1>2, <1>6, <1>7 DEF BatcherInv

LEMMA BatcherStep == BatcherInv /\ [MiddlewareNext]_middlewareVars => BatcherInv'
<1> SUFFICES ASSUME BatcherInv, [MiddlewareNext]_middlewareVars PROVE BatcherInv'
  OBVIOUS
<1>0. kind' = kind
  BY DEF MiddlewareNext, Push, AddFills, AddWaits, DebounceFlush, BatchFlush, Expire, Fires,
     DebounceFires, BatchFires, RawEmit, middlewareVars
<1>1. CASE kind # "batch"
  BY <1>0, <1>1 DEF BatcherInv
<1>2. CASE kind = "batch"
  <2>0. /\ BatcherTypeOK /\ TimerInv /\ BufferInv /\ BatchesInv /\ OneBatchInv
        /\ MaxSize \in Nat \ {0} /\ MaxCalls \in Nat /\ MaxCloses \in Nat
    BY <1>2, MiddlewareAssumption DEF BatcherInv
  <2>1. CASE AddFills
    <3> DEFINE b == Append(buffer, calls')
    <3>1. /\ calls' = calls + 1 /\ calls' \in 1 .. MaxCalls /\ flying' =
              flying \cup {[by |-> calls', payloads |-> b]}
          /\ buffer' = <<>> /\ timers' = Stopped /\ timer' = 0 /\ UNCHANGED <<closes, out>>
      BY <2>0, <2>1 DEF AddFills, Cut, BatcherTypeOK
    <3>2. /\ b \in Seq(Nat) /\ Len(b) = Len(buffer) + 1 /\ b[Len(buffer) + 1] = calls'
          /\ \A i \in 1 .. Len(buffer) : b[i] = buffer[i]
          /\ calls \in Nat /\ Len(buffer) \in Nat
      BY <2>0, <3>1 DEF BatcherTypeOK
    <3> HIDE DEF b
    <3>3. /\ Len(b) \in 1 .. MaxSize /\ calls' \in Nat /\ calls' - Len(b) = calls - Len(buffer)
          /\ \A i \in 1 .. Len(b) : b[i] = calls' - Len(b) + i
      <4>1. \A i \in 1 .. Len(buffer) : b[i] = calls - Len(buffer) + i
        <5>1. DOMAIN buffer = 1 .. Len(buffer)
          BY <2>0 DEF BatcherTypeOK
        <5>2. QED
          BY <2>0, <3>2, <5>1 DEF BufferInv
      <4>2. Len(buffer) + 1 \in 1 .. MaxSize
        BY <2>0, <3>2 DEF BufferInv
      <4>3. QED
        BY <3>1, <3>2, <4>1, <4>2
    <3>4. /\ flying' \subseteq [by : Int, payloads : Seq(Nat)]
          /\ BufferInv' /\ BatchesInv' /\ OneBatchInv'
      <4>1. PICK c \in Seq(Nat) : c = b
        BY <3>2
      <4>2. calls' \in Int
        BY <3>3
      <4>3. QED
        BY <2>0, <3>1, <3>3, <4>1, <4>2, CutKeeps
    <3>5. BatcherTypeOK' /\ TimerInv'
      BY <2>0, <3>1, <3>4 DEF BatcherTypeOK, TimerInv, Stopped
    <3>6. QED
      BY <3>4, <3>5 DEF BatcherInv
  <2>2. CASE AddWaits
    <3>1. /\ calls' = calls + 1 /\ calls' \in Calls /\ buffer' = Append(buffer, calls')
          /\ UNCHANGED <<closes, flying, out>>
          /\ Len(buffer) + 1 < MaxSize
      BY <2>0, <2>2 DEF AddWaits, BatcherTypeOK, BufferInv, Calls, Full
    <3>2. /\ buffer' \in Seq(Nat) /\ Len(buffer') = Len(buffer) + 1
          /\ buffer'[Len(buffer) + 1] = calls'
          /\ \A i \in 1 .. Len(buffer) : buffer'[i] = buffer[i]
      BY <2>0, <3>1 DEF BatcherTypeOK, Calls
    <3>3. BufferInv' /\ buffer' # <<>>
      <4>1. calls \in Nat /\ Len(buffer) \in Nat /\ Len(buffer) <= calls
        BY <2>0 DEF BatcherTypeOK, BufferInv
      <4>2. \A i \in 1 .. Len(buffer) : buffer'[i] = calls - Len(buffer) + i
        BY <2>0, <3>2 DEF BatcherTypeOK, BufferInv
      <4>3. \A i \in 1 .. Len(buffer') : buffer'[i] = calls' - Len(buffer') + i
        BY <3>1, <3>2, <4>1, <4>2
      <4>4. Len(buffer') \in 0 .. MaxSize - 1 /\ Len(buffer') <= calls' /\ Len(buffer') # 0
        BY <2>0, <3>1, <3>2, <4>1
      <4>5. QED
        BY <3>2, <4>3, <4>4 DEF BufferInv
    <3>4. Taken' = Taken
      BY <2>0, <3>1, <3>2 DEF Taken, BatcherTypeOK
    <3>5. BatchesInv' /\ OneBatchInv'
      BY <2>0, <3>1, <3>4, BatchesKept
    <3>6. /\ timers' \in [Calls -> {"unused", "armed", "stopped", "fired", "done"}]
          /\ timer' \in 1 .. calls' /\ timers'[timer'] \in {"armed", "fired"}
      <4>1. CASE timer = 0
        <5>1. timers' = [timers EXCEPT ![calls'] = "armed"] /\ timer' = calls'
          BY <2>2, <4>1 DEF AddWaits
        <5>2. calls' \in 1 .. calls'
          BY <3>1 DEF Calls
        <5>3. QED
          BY <2>0, <3>1, <5>1, <5>2 DEF BatcherTypeOK
      <4>2. CASE timer # 0
        <5>1. UNCHANGED <<timer, timers>>
          BY <2>2, <4>2 DEF AddWaits
        <5>2. timer \in 1 .. calls'
          BY <2>0, <3>1, <4>2 DEF BatcherTypeOK
        <5>3. QED
          BY <2>0, <4>2, <5>1, <5>2 DEF BatcherTypeOK, TimerInv
      <4>3. QED
        BY <4>1, <4>2
    <3>7. BatcherTypeOK' /\ TimerInv'
      BY <2>0, <3>1, <3>2, <3>3, <3>6 DEF BatcherTypeOK, TimerInv, Calls
    <3>8. QED
      BY <3>3, <3>5, <3>7 DEF BatcherInv
  <2>3. ASSUME NEW t \in Calls, BatchFires(t) PROVE BatcherInv'
    <3>1. [timers EXCEPT ![t] = "done"] \in
            [Calls -> {"unused", "armed", "stopped", "fired", "done"}]
      BY <2>0 DEF BatcherTypeOK
    <3>2. t \in Int /\ closes' \in 0 .. MaxCloses
      BY <2>0, <2>3 DEF BatchFires, Calls, BatcherTypeOK
    <3>3. QED
      BY <1>2, <2>3, <3>1, <3>2, FlushKeeps DEF BatchFires
  <2>4. CASE BatchFlush
    <3>1. -closes' \in Int /\ closes' \in 0 .. MaxCloses
      BY <2>0, <2>4 DEF BatchFlush, BatcherTypeOK
    <3>2. timers \in [Calls -> {"unused", "armed", "stopped", "fired", "done"}]
      BY <2>0 DEF BatcherTypeOK
    <3>3. QED
      BY <1>2, <2>4, <3>1, <3>2, FlushKeeps DEF BatchFlush
  <2>5. ASSUME NEW t \in Calls, Expire(t) PROVE BatcherInv'
    <3>1. Taken' = Taken /\ UNCHANGED <<flying, out>>
      BY <2>5 DEF Expire, Taken
    <3>2. BatchesInv' /\ OneBatchInv'
      BY <2>0, <3>1, BatchesKept
    <3>3. BatcherTypeOK' /\ TimerInv' /\ BufferInv'
      BY <2>0, <2>5 DEF Expire, BatcherTypeOK, TimerInv, BufferInv, Calls
    <3>4. QED
      BY <3>2, <3>3 DEF BatcherInv
  <2>6. ASSUME NEW x \in flying, RawEmit(x) PROVE BatcherInv'
    BY <1>2, <2>6, RawEmitKeeps
  <2>7. CASE UNCHANGED middlewareVars
    <3>1. Taken' = Taken /\ UNCHANGED <<flying, out>>
      BY <2>7 DEF middlewareVars, Taken
    <3>2. BatchesInv' /\ OneBatchInv'
      BY <2>0, <3>1, BatchesKept
    <3>3. BatcherTypeOK' /\ TimerInv' /\ BufferInv'
      BY <2>0, <2>7 DEF middlewareVars, BatcherTypeOK, TimerInv, BufferInv
    <3>4. QED
      BY <3>2, <3>3 DEF BatcherInv
  <2>8. QED
    BY <1>2, <2>1, <2>2, <2>3, <2>4, <2>5, <2>6, <2>7
       DEF MiddlewareNext, Push, DebounceFlush, Fires, DebounceFires
<1>3. QED
  BY <1>1, <1>2

LEMMA BatcherInvariant == MiddlewareSpec => []BatcherInv
BY BatcherStarts, BatcherStep, PTL DEF MiddlewareSpec

\* While events wait in the batcher (middleware.go), its timer runs or its callback is
\* about to flush them, for any maxSize and however calls, timers and Close interleave.
THEOREM BatcherTimerCovers == MiddlewareSpec => []TimerCoversBuffer
<1>1. BatcherInv => TimerCoversBuffer
  BY DEF BatcherInv, TimerInv, TimerCoversBuffer
<1>2. QED
  BY <1>1, BatcherInvariant, PTL

\* Every event given to the batcher is in the buffer or in one batch of at most maxSize
\* events in order, about to be emitted or emitted once, for any number of calls.
THEOREM BatcherEachOnce == MiddlewareSpec => []BatchedOnce
<1>1. ASSUME BatcherInv, kind = "batch" PROVE BatchedOnce
  <2>0. /\ BatcherTypeOK /\ TimerInv /\ BufferInv /\ BatchesInv /\ OneBatchInv
    BY <1>1 DEF BatcherInv
  <2>1. \A b \in Emissions : /\ Len(b) \in 1 .. MaxSize
                             /\ \A i \in 1 .. Len(b) : b[i] = b[1] + i - 1
    BY <2>0 DEF Emissions, BatchesInv, BatchInv
  <2>2. ASSUME NEW p \in 1 .. calls
        PROVE  LET buffered == {i \in DOMAIN buffer : buffer[i] = p}
                   cut == {x \in flying : \E i \in DOMAIN x.payloads : x.payloads[i] = p}
                   sent == {i \in DOMAIN out : \E j \in DOMAIN out[i] : out[i][j] = p}
               IN  Cardinality(buffered) + Cardinality(cut) + Cardinality(sent) = 1
    <3> DEFINE buffered == {i \in DOMAIN buffer : buffer[i] = p}
               cut == {x \in flying : \E i \in DOMAIN x.payloads : x.payloads[i] = p}
               sent == {i \in DOMAIN out : \E j \in DOMAIN out[i] : out[i][j] = p}
    <3>0. /\ calls \in Nat /\ Len(buffer) \in Nat /\ buffer \in Seq(Nat) /\ p \in Nat
          /\ DOMAIN buffer = 1 .. Len(buffer) /\ Taken = 1 .. calls - Len(buffer)
          /\ Len(buffer) <= calls
          /\ \A i \in 1 .. Len(buffer) : buffer[i] = calls - Len(buffer) + i
      BY <2>0, MiddlewareAssumption DEF BatcherTypeOK, BufferInv, Taken
    <3>1. /\ cut = {x \in flying : Holds(x.payloads, p)}
          /\ sent = {i \in DOMAIN out : Holds(out[i], p)}
      BY DEF Holds
    <3> HIDE DEF cut, sent
    <3>2. CASE p \in Taken
      <4>1. buffered = {}
        BY <3>0, <3>2
      <4>2. \/ \E x \in flying : cut = {x} /\ sent = {}
            \/ \E i \in DOMAIN out : cut = {} /\ sent = {i}
        BY <2>0, <3>0, <3>1, <3>2 DEF OneBatchInv
      <4>3. \A x : Cardinality({x}) = 1
        BY FS_Singleton
      <4>4. Cardinality({}) = 0
        BY FS_EmptySet
      <4>5. Cardinality(buffered) + Cardinality(cut) + Cardinality(sent) = 1
        BY <4>1, <4>2, <4>3, <4>4
      <4>6. QED
        BY <4>5 DEF cut, sent
    <3>3. CASE p \notin Taken
      <4>1. PICK k \in 1 .. Len(buffer) : p = calls - Len(buffer) + k
        <5>1. p - (calls - Len(buffer)) \in 1 .. Len(buffer)
          BY <3>0, <3>3
        <5>2. QED
          BY <3>0, <5>1
      <4>2. \A i \in 1 .. Len(buffer) : (buffer[i] = p) <=> (i = k)
        BY <3>0, <4>1
      <4>3. buffered = {k}
        BY <3>0, <4>1, <4>2
      <4>4. cut = {}
        <5>1. \A x \in flying : x.payloads \in Seq(Nat) /\ BatchInv(x.payloads)
          BY <2>0 DEF BatcherTypeOK, BatchesInv
        <5>2. QED
          BY <3>1, <3>3, <5>1 DEF BatchInv, Holds
      <4>5. sent = {}
        <5>1. \A i \in DOMAIN out : out[i] \in Seq(Nat) /\ BatchInv(out[i])
          BY <2>0 DEF BatcherTypeOK, BatchesInv
        <5>2. QED
          BY <3>1, <3>3, <5>1 DEF BatchInv, Holds
      <4>6. Cardinality(buffered) = 1 /\ Cardinality({}) = 0
        BY <4>3, FS_Singleton, FS_EmptySet
      <4>7. Cardinality(buffered) + Cardinality(cut) + Cardinality(sent) = 1
        BY <4>4, <4>5, <4>6
      <4>8. QED
        BY <4>7 DEF cut, sent
    <3>4. QED
      BY <3>2, <3>3
  <2>3. QED
    BY <2>1, <2>2 DEF BatchedOnce
<1>2. BatcherInv => BatchedOnce
  BY <1>1 DEF BatchedOnce
<1>3. QED
  BY <1>2, BatcherInvariant, PTL
=============================================================================
