------------------------------ MODULE Emitter ------------------------------
(***************************************************************************)
(* events.Emitter (events/events.go) used by several goroutines at once:   *)
(* Emit and EmitTo after the middleware (module Middleware), with the      *)
(* history and the handlers they notify, subscription, unsubscription and  *)
(* Close.  Replay and ReplayAll read the history (Last) and call a window's *)
(* backend, which is left out with the table of windows.                   *)
(*                                                                         *)
(* A handler runs on the emitting goroutine (asyncBuf = 0), inside of the  *)
(* emission, or on one of its own that a buffered channel feeds (which may *)
(* be one of Emitters, too).  A handler may emit, and may never return.    *)
(* The events that Close flushes are emitted by the closing goroutine like *)
(* any others, before the steps of Close below.                            *)
(***************************************************************************)
EXTENDS EventHistory, FiniteSets

CONSTANTS
  Emitters,    \* goroutines that emit
  Handlers,    \* subscriptions, each made and cancelled once
  Pattern,     \* handler -> the scope ("" for On) and name it is registered for
  Scoped,      \* wire name -> its scope and base name (ParseScopedName)
  Returning,   \* handlers whose function always returns
  AsyncBufs,   \* the values of WithAsync, 0 for none
  Script       \* bound: goroutine -> the names it emits, in order

ASSUME EmitterAssumption ==
  /\ Pattern \in [Handlers -> [scope : STRING, name : STRING]]
  /\ Scoped \in [EventNames -> [scope : STRING, name : STRING]]
  /\ Returning \subseteq Handlers
  /\ AsyncBufs \subseteq Nat
  /\ Script \in [Emitters -> Seq(EventNames)]
  /\ \A g \in Emitters : {g} \X DOMAIN Script[g] \subseteq Payloads

\* The calls of Emit: a goroutine and which of its events.  A call that a handler makes
\* while another call is calling it has a higher number, and ends first.
EmitCalls == UNION {{g} \X DOMAIN Script[g] : g \in Emitters}

VARIABLES
  asyncBuf,   \* e.asyncBuf
  handlers,   \* e.handlers
  sub,        \* handler -> where its subscription is
  pc,         \* emission -> where it is
  emitted,    \* goroutine -> events it has begun to emit
  todo,       \* emission -> handlers of its snapshot it has yet to deliver to
  chan,       \* handler -> h.ch
  done,       \* handler -> h.done is closed
  loop,       \* handler -> where its goroutine is
  recorded,   \* history: what the ring was given, in order
  handled,    \* history: handler -> payloads its function was called with
  ended       \* history: handler -> payloads emitted since its cancellation

emitterVars == <<asyncBuf, handlers, sub, pc, emitted, todo,
                 chan, done, loop, recorded, handled, ended>>
vars == <<historyVars, emitterVars>>

EmitterInit ==
  /\ HistoryInit
  /\ asyncBuf \in AsyncBufs
  /\ handlers = <<>>
  /\ sub = [h \in Handlers |-> "none"]
  /\ pc = [p \in EmitCalls |-> "idle"]
  /\ emitted = [g \in Emitters |-> 0]
  /\ todo = [p \in EmitCalls |-> <<>>]
  /\ chan = [h \in Handlers |-> <<>>]
  /\ done = [h \in Handlers |-> FALSE]
  /\ loop = [h \in Handlers |-> "none"]
  /\ recorded = <<>>
  /\ handled = [h \in Handlers |-> {}]
  /\ ended = [h \in Handlers |-> {}]
-----------------------------------------------------------------------------
(* Emit *)

\* The event of an emission.
Emitting(p) == [name |-> Script[p[1]][p[2]], data |-> p]

\* The rules of notify: On takes a base name in every scope, OnScoped one scope's.
Matches(h, n) ==
  IF Pattern[h].scope # "" THEN Scoped[n] = Pattern[h]
                           ELSE Scoped[n].name = Pattern[h].name

\* The call, and the backend's Emit: the default one's, or that of the window
\* EmitTo looked up.  A goroutine emits when it is in no emission, or in a handler
\* that the innermost of its emissions has called.
Emit(p) ==
  /\ p[2] = emitted[p[1]] + 1
  /\ \A q \in EmitCalls : q[1] = p[1] => pc[q] \in {"idle", "handler"}
  /\ ended' = [h \in Handlers |->
                 IF sub[h] = "ended" THEN ended[h] \cup {p} ELSE ended[h]]
  /\ emitted' = [emitted EXCEPT ![p[1]] = @ + 1]
  /\ pc' = [pc EXCEPT ![p] = "record"]
  /\ UNCHANGED <<historyVars, asyncBuf, handlers, sub, todo,
                 chan, done, loop, recorded, handled>>

ToHistory(p) ==
  /\ pc[p] = "record"
  /\ HistoryRecord(Emitting(p))
  /\ recorded' = Append(recorded, Emitting(p))
  /\ pc' = [pc EXCEPT ![p] = "notify"]
  /\ UNCHANGED <<asyncBuf, handlers, sub, emitted, todo,
                 chan, done, loop, handled, ended>>

\* notify copies the handlers under the lock and delivers without it.
Snapshot(p) ==
  /\ pc[p] = "notify"
  /\ todo' = [todo EXCEPT ![p] = handlers]
  /\ pc' = [pc EXCEPT ![p] = "deliver"]
  /\ UNCHANGED <<historyVars, asyncBuf, handlers, sub, emitted,
                 chan, done, loop, recorded, handled, ended>>

\* The event is for the next handler of the snapshot.
ForNext(p) == Matches(Head(todo[p]), Emitting(p).name)

PassOver(p) ==
  /\ pc[p] = "deliver"
  /\ todo[p] # <<>> /\ ~ ForNext(p)
  /\ todo' = [todo EXCEPT ![p] = Tail(@)]
  /\ UNCHANGED <<historyVars, asyncBuf, handlers, sub, pc, emitted,
                 chan, done, loop, recorded, handled, ended>>

\* Mutant of DeliverAsync: the send blocks while the buffer is full.
DeliverAsyncBlocks(p) ==
  /\ pc[p] = "deliver"
  /\ asyncBuf > 0
  /\ todo[p] # <<>> /\ ForNext(p)
  /\ LET h == Head(todo[p])
     IN  /\ Len(chan[h]) < asyncBuf
         /\ chan' = [chan EXCEPT ![h] = Append(@, Emitting(p))]
  /\ todo' = [todo EXCEPT ![p] = Tail(@)]
  /\ UNCHANGED <<historyVars, asyncBuf, handlers, sub, pc, emitted,
                 done, loop, recorded, handled, ended>>

\* The event goes into the handler's channel, or nowhere when that is full.
DeliverAsync(p) ==
  /\ pc[p] = "deliver"
  /\ asyncBuf > 0
  /\ todo[p] # <<>> /\ ForNext(p)
  /\ LET h == Head(todo[p])
     IN  chan' = IF Len(chan[h]) < asyncBuf
                 THEN [chan EXCEPT ![h] = Append(@, Emitting(p))] ELSE chan
  /\ todo' = [todo EXCEPT ![p] = Tail(@)]
  /\ UNCHANGED <<historyVars, asyncBuf, handlers, sub, pc, emitted,
                 done, loop, recorded, handled, ended>>

DeliverSync(p) ==
  /\ pc[p] = "deliver"
  /\ asyncBuf = 0
  /\ todo[p] # <<>> /\ ForNext(p)
  /\ handled' = [handled EXCEPT ![Head(todo[p])] = @ \cup {Emitting(p).data}]
  /\ pc' = [pc EXCEPT ![p] = "handler"]
  /\ UNCHANGED <<historyVars, asyncBuf, handlers, sub, emitted, todo,
                 chan, done, loop, recorded, ended>>

\* The handler returns when what it has emitted is done with.
SyncReturns(p) ==
  /\ pc[p] = "handler"
  /\ \A q \in EmitCalls : q[1] = p[1] /\ q[2] > p[2] => pc[q] = "idle"
  /\ todo' = [todo EXCEPT ![p] = Tail(@)]
  /\ pc' = [pc EXCEPT ![p] = "deliver"]
  /\ UNCHANGED <<historyVars, asyncBuf, handlers, sub, emitted,
                 chan, done, loop, recorded, handled, ended>>

EmitReturns(p) ==
  /\ pc[p] = "deliver"
  /\ todo[p] = <<>>
  /\ pc' = [pc EXCEPT ![p] = "idle"]
  /\ UNCHANGED <<historyVars, asyncBuf, handlers, sub, emitted, todo,
                 chan, done, loop, recorded, handled, ended>>
-----------------------------------------------------------------------------
(* Subscriptions *)

\* On and OnScoped.
Subscribe(h) ==
  /\ sub[h] = "none"
  /\ sub' = [sub EXCEPT ![h] = "active"]
  /\ loop' = [loop EXCEPT ![h] = IF asyncBuf > 0 THEN "select" ELSE "none"]
  /\ handlers' = Append(handlers, h)
  /\ UNCHANGED <<historyVars, asyncBuf, pc, emitted, todo,
                 chan, done, recorded, handled, ended>>

\* Mutant of Unsubscribe: the slice is cut one short of the handler.
UnsubscribeCutsShort(h) ==
  /\ sub[h] \in {"active", "stopped"}
  /\ sub' = [sub EXCEPT ![h] = "ended"]
  /\ \E i \in DOMAIN handlers :
       /\ handlers[i] = h
       /\ handlers' = SubSeq(handlers, 1, i) \o SubSeq(handlers, i + 2, Len(handlers))
  /\ done' = [done EXCEPT ![h] = asyncBuf > 0]
  /\ UNCHANGED <<historyVars, asyncBuf, pc, emitted, todo, chan, loop,
                 recorded, handled, ended>>

\* The function On returns removes the handler and stops it: the stop closes a
\* channel that only the handler's goroutine looks at.
Unsubscribe(h) ==
  /\ sub[h] \in {"active", "stopped"}
  /\ sub' = [sub EXCEPT ![h] = "ended"]
  /\ \E i \in DOMAIN handlers :
       /\ handlers[i] = h
       /\ handlers' = SubSeq(handlers, 1, i - 1) \o SubSeq(handlers, i + 1, Len(handlers))
  /\ done' = [done EXCEPT ![h] = asyncBuf > 0]
  /\ UNCHANGED <<historyVars, asyncBuf, pc, emitted, todo, chan, loop,
                 recorded, handled, ended>>

\* Mutant of TakeEvent: the newest event of the channel is taken.
TakeEventNewest(h) ==
  /\ loop[h] = "select"
  /\ chan[h] # <<>>
  /\ handled' = [handled EXCEPT ![h] = @ \cup {chan[h][Len(chan[h])].data}]
  /\ chan' = [chan EXCEPT ![h] = SubSeq(@, 1, Len(@) - 1)]
  /\ loop' = [loop EXCEPT ![h] = "handler"]
  /\ UNCHANGED <<historyVars, asyncBuf, handlers, sub, pc, emitted, todo,
                 done, recorded, ended>>

\* The handler's goroutine: select takes an event or done, whichever it likes.
TakeEvent(h) ==
  /\ loop[h] = "select"
  /\ chan[h] # <<>>
  /\ handled' = [handled EXCEPT ![h] = @ \cup {Head(chan[h]).data}]
  /\ chan' = [chan EXCEPT ![h] = Tail(@)]
  /\ loop' = [loop EXCEPT ![h] = "handler"]
  /\ UNCHANGED <<historyVars, asyncBuf, handlers, sub, pc, emitted, todo,
                 done, recorded, ended>>

HandlerReturns(h) ==
  /\ loop[h] = "handler"
  /\ loop' = [loop EXCEPT ![h] = "select"]
  /\ UNCHANGED <<historyVars, asyncBuf, handlers, sub, pc, emitted, todo,
                 chan, done, recorded, handled, ended>>

TakeDone(h) ==
  /\ loop[h] = "select"
  /\ done[h]
  /\ loop' = [loop EXCEPT ![h] = "gone"]
  /\ UNCHANGED <<historyVars, asyncBuf, handlers, sub, pc, emitted, todo,
                 chan, done, recorded, handled, ended>>
-----------------------------------------------------------------------------
(* Close, after its flushes: it stops the handlers it finds, and keeps them. *)

\* Mutant of Close: the handlers' goroutines are not told to stop.
CloseLeaks ==
  /\ sub' = [h \in Handlers |-> IF sub[h] = "active" THEN "stopped" ELSE sub[h]]
  /\ UNCHANGED <<historyVars, asyncBuf, handlers, pc, emitted, todo, chan, done,
                 loop, recorded, handled, ended>>

Close ==
  /\ sub' = [h \in Handlers |-> IF sub[h] = "active" THEN "stopped" ELSE sub[h]]
  /\ done' = [h \in Handlers |-> done[h] \/ (asyncBuf > 0 /\ sub[h] = "active")]
  /\ UNCHANGED <<historyVars, asyncBuf, handlers, pc, emitted, todo, chan, loop,
                 recorded, handled, ended>>
-----------------------------------------------------------------------------
\* The steps of an emission that are the emitter's own, not a handler's.
EmitStep(p) ==
  \/ ToHistory(p) \/ Snapshot(p) \/ PassOver(p)
  \/ DeliverAsync(p) \/ DeliverSync(p) \/ EmitReturns(p)

EmitterNext ==
  \/ \E p \in EmitCalls : Emit(p) \/ EmitStep(p) \/ SyncReturns(p)
  \/ \E h \in Handlers :
       \/ Subscribe(h) \/ Unsubscribe(h)
       \/ TakeEvent(h) \/ HandlerReturns(h) \/ TakeDone(h)
  \/ Close

\* The scheduler runs the goroutines that can run; select is fair between its ready
\* cases.  Some handlers' functions return; the others, and the application, owe nothing.
EmitterFairness ==
  /\ \A g \in Emitters : WF_vars(\E n \in DOMAIN Script[g] : EmitStep(<<g, n>>))
  /\ \A h \in Returning :
       WF_vars(TakeEvent(h) \/ HandlerReturns(h)) /\ SF_vars(TakeDone(h))

EmitterSpec == EmitterInit /\ [][EmitterNext]_vars /\ EmitterFairness
-----------------------------------------------------------------------------
(* Properties *)

\* Whatever goroutines emit at once, Replay finds the newest event of a name
\* among the last Size recorded, and finds nothing only when none has that name;
\* ReplayAll finds what Replay finds for each name.
ReplayFindsNewest ==
  LET named(n) == {i \in DOMAIN recorded : /\ i > Len(recorded) - Size
                                           /\ recorded[i].name = n}
      newest(n) == {recorded[i] : i \in {k \in named(n) : \A j \in named(n) : j <= k}}
  IN  /\ \A n \in EventNames : Last(n) = newest(n)
      /\ Latest = UNION {newest(n) : n \in EventNames}

\* No handler gets an event twice, and an asynchronous handler gets the events of one
\* goroutine in the order they were emitted, though it may miss some: what is in its
\* channel, or about to be delivered, is newer than what it has handled.  This is not so
\* of handlers on the emitting goroutine: what a handler emits while it is called gets
\* to those behind it in the snapshot before the event that it was called with.
HandledInOrder ==
  /\ \A h \in Handlers : \A i \in DOMAIN chan[h] :
       LET Newer(q) == q[1] = chan[h][i].data[1] => q[2] < chan[h][i].data[2]
       IN  /\ \A q \in handled[h] : Newer(q)
           /\ \A j \in 1 .. i - 1 : Newer(chan[h][j].data)
  /\ \A p \in EmitCalls : pc[p] = "deliver" =>
       \A i \in DOMAIN todo[p] :
         /\ p \notin handled[todo[p][i]]
         /\ asyncBuf > 0 => \A q \in handled[todo[p][i]] : q[1] = p[1] => q[2] < p[2]

\* A handler is not called with an event that was emitted after the handler was
\* cancelled, though it may still be called with earlier ones.
NoNewsAfterUnsubscribe ==
  \A h \in Handlers : handled[h] \cap ended[h] = {}

\* With asynchronous handlers Emit returns, even if every handler hangs.
EmitEnds ==
  \A g \in Emitters :
    LET InEmission == \E n \in DOMAIN Script[g] : pc[<<g, n>>] # "idle"
    IN  asyncBuf > 0 /\ InEmission ~> ~ InEmission

\* A handler's goroutine ends once the handler is cancelled, or when Close finds
\* it registered, if the handler's function returns.
GoroutinesEnd ==
  \A h \in Returning :
    asyncBuf > 0 /\ sub[h] \in {"stopped", "ended"} ~> loop[h] = "gone"
=============================================================================
