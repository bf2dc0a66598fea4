----------------------------- MODULE Middleware -----------------------------
(***************************************************************************)
(* The debouncer and the batcher of events/middleware.go, for one event    *)
(* name, which has one of the two.  Each works under its lock and emits    *)
(* after releasing it, from three goroutines: the one that calls Emit, the *)
(* callback of a timer, and the one that calls Close.                      *)
(*                                                                         *)
(* Stop on a timer that has expired changes nothing: its callback may be   *)
(* waiting for the lock.  The code ignores what Stop returns.  Payloads    *)
(* are numbered by the calls of Emit, and a timer by the call that armed   *)
(* it.  The throttler, one comparison of two times, is left out.           *)
(***************************************************************************)
EXTENDS Integers, Sequences, FiniteSets

CONSTANTS
  MaxSize,    \* WithBatching's maxSize
  MaxCalls,   \* bound: calls of Emit
  MaxCloses   \* bound: calls of Close

ASSUME MiddlewareAssumption ==
  MaxSize \in Nat \ {0} /\ MaxCalls \in Nat /\ MaxCloses \in Nat

VARIABLES
  kind,      \* which of the two the name has
  calls,     \* calls of Emit so far
  closes,    \* calls of Close so far
  timer,     \* d.timer or b.timer: the call that armed it, 0 for nil
  timers,    \* call -> the state of the timer it armed
  buffer,    \* d.data or b.buffer
  flying,    \* emissions cut under the lock and not yet made
  out        \* history: the payloads of each emission, in order

middlewareVars == <<kind, calls, closes, timer, timers, buffer, flying, out>>

Calls == 1 .. MaxCalls

MiddlewareInit ==
  /\ kind \in {"debounce", "batch"}
  /\ calls = 0
  /\ closes = 0
  /\ timer = 0
  /\ timers = [t \in Calls |-> "unused"]
  /\ buffer = <<>>
  /\ flying = {}
  /\ out = <<>>

\* The timers after timer.Stop().
Stopped == [t \in Calls |-> IF t = timer /\ timers[t] = "armed"
                            THEN "stopped" ELSE timers[t]]

\* The goroutine by is about to emit the payloads of the buffer.
Cut(by, payloads) == flying' = flying \cup {[by |-> by, payloads |-> payloads]}
-----------------------------------------------------------------------------
(* debouncer *)

\* Mutant of Push: the timer is stopped and a new one armed only if there was none.
PushKeepsStopped ==
  /\ kind = "debounce"
  /\ calls < MaxCalls
  /\ calls' = calls + 1
  /\ timers' = IF timer = 0 THEN [timers EXCEPT ![calls'] = "armed"] ELSE Stopped
  /\ timer' = IF timer = 0 THEN calls' ELSE timer
  /\ buffer' = <<calls'>>
  /\ UNCHANGED <<kind, closes, flying, out>>

Push ==
  /\ kind = "debounce"
  /\ calls < MaxCalls
  /\ calls' = calls + 1
  /\ timers' = [Stopped EXCEPT ![calls'] = "armed"]
  /\ timer' = calls'
  /\ buffer' = <<calls'>>
  /\ UNCHANGED <<kind, closes, flying, out>>

\* The callback clears d.timer, whichever timer that is by now.
DebounceFires(t) ==
  /\ kind = "debounce"
  /\ timers[t] = "fired"
  /\ timers' = [timers EXCEPT ![t] = "done"]
  /\ timer' = 0
  /\ Cut(t, buffer)
  /\ UNCHANGED <<kind, calls, closes, buffer, out>>

DebounceFlush ==
  /\ kind = "debounce"
  /\ closes < MaxCloses
  /\ closes' = closes + 1
  /\ IF timer = 0
     THEN UNCHANGED <<timer, timers, flying>>
     ELSE /\ timers' = Stopped
          /\ timer' = 0
          /\ Cut(-closes', buffer)
  /\ UNCHANGED <<kind, calls, buffer, out>>
-----------------------------------------------------------------------------
(* batcher *)

\* The event about to be added fills the buffer.
Full == Len(buffer) + 1 >= MaxSize

\* Mutant of AddFills: the stopped timer is kept in b.timer.
AddKeepsTimer ==
  /\ kind = "batch"
  /\ calls < MaxCalls
  /\ Full
  /\ calls' = calls + 1
  /\ Cut(calls', Append(buffer, calls'))
  /\ buffer' = <<>>
  /\ timers' = Stopped
  /\ UNCHANGED <<kind, closes, timer, out>>

\* The event that fills the buffer: the caller emits the batch itself.
AddFills ==
  /\ kind = "batch"
  /\ calls < MaxCalls
  /\ Full
  /\ calls' = calls + 1
  /\ Cut(calls', Append(buffer, calls'))
  /\ buffer' = <<>>
  /\ timers' = Stopped
  /\ timer' = 0
  /\ UNCHANGED <<kind, closes, out>>

AddWaits ==
  /\ kind = "batch"
  /\ calls < MaxCalls
  /\ ~ Full
  /\ calls' = calls + 1
  /\ buffer' = Append(buffer, calls')
  /\ IF timer = 0
     THEN timers' = [timers EXCEPT ![calls'] = "armed"] /\ timer' = calls'
     ELSE UNCHANGED <<timer, timers>>
  /\ UNCHANGED <<kind, closes, flying, out>>

\* Mutant of Flush: the buffer is kept.
FlushKeepsBuffer(by, ts) ==
  IF buffer = <<>>
  THEN timers' = ts /\ UNCHANGED <<timer, buffer, flying>>
  ELSE /\ timers' = [t \in Calls |-> IF t = timer /\ ts[t] = "armed"
                                     THEN "stopped" ELSE ts[t]]
       /\ timer' = 0
       /\ Cut(by, buffer)
       /\ UNCHANGED buffer

\* batcher.flush, run by goroutine by when the timers are ts.
Flush(by, ts) ==
  IF buffer = <<>>
  THEN timers' = ts /\ UNCHANGED <<timer, buffer, flying>>
  ELSE /\ timers' = [t \in Calls |-> IF t = timer /\ ts[t] = "armed"
                                     THEN "stopped" ELSE ts[t]]
       /\ timer' = 0
       /\ Cut(by, buffer)
       /\ buffer' = <<>>

BatchFires(t) ==
  /\ kind = "batch"
  /\ timers[t] = "fired"
  /\ Flush(t, [timers EXCEPT ![t] = "done"])
  /\ UNCHANGED <<kind, calls, closes, out>>

BatchFlush ==
  /\ kind = "batch"
  /\ closes < MaxCloses
  /\ closes' = closes + 1
  /\ Flush(-closes', timers)
  /\ UNCHANGED <<kind, calls, out>>
-----------------------------------------------------------------------------
\* The duration elapses: the runtime starts the callback, which takes the lock.
Expire(t) ==
  /\ timers[t] = "armed"
  /\ timers' = [timers EXCEPT ![t] = "fired"]
  /\ UNCHANGED <<kind, calls, closes, timer, buffer, flying, out>>

\* The emission itself (rawEmit), after the lock is released.
RawEmit(x) ==
  /\ flying' = flying \ {x}
  /\ out' = Append(out, x.payloads)
  /\ UNCHANGED <<kind, calls, closes, timer, timers, buffer>>

Fires(t) == DebounceFires(t) \/ BatchFires(t)

MiddlewareNext ==
  \/ Push \/ AddFills \/ AddWaits
  \/ DebounceFlush \/ BatchFlush
  \/ \E t \in Calls : Expire(t) \/ Fires(t)
  \/ \E x \in flying : RawEmit(x)

\* Timers expire, and the scheduler runs every goroutine.
MiddlewareFairness ==
  /\ \A t \in Calls : WF_middlewareVars(Expire(t)) /\ WF_middlewareVars(Fires(t))
  /\ WF_middlewareVars(\E x \in flying : RawEmit(x))

MiddlewareSpec ==
  MiddlewareInit /\ [][MiddlewareNext]_middlewareVars /\ MiddlewareFairness
-----------------------------------------------------------------------------
(* Properties *)

Emissions == {x.payloads : x \in flying} \cup {out[i] : i \in DOMAIN out}

\* Every event given to the batcher is in exactly one place: the buffer, one
\* batch that is about to be emitted, or one that was; and a batch is a run of at
\* most maxSize events, in the order they were emitted.
BatchedOnce ==
  kind = "batch" =>
    /\ \A b \in Emissions : /\ Len(b) \in 1 .. MaxSize
                            /\ \A i \in 1 .. Len(b) : b[i] = b[1] + i - 1
    /\ \A p \in 1 .. calls :
         LET buffered == {i \in DOMAIN buffer : buffer[i] = p}
             cut == {x \in flying : \E i \in DOMAIN x.payloads : x.payloads[i] = p}
             sent == {i \in DOMAIN out : \E j \in DOMAIN out[i] : out[i][j] = p}
         IN  Cardinality(buffered) + Cardinality(cut) + Cardinality(sent) = 1

\* While events wait in the batcher's buffer, the timer in b.timer is running or
\* its callback is about to flush them.
TimerCoversBuffer ==
  kind = "batch" /\ buffer # <<>> =>
    timer # 0 /\ timers[timer] \in {"armed", "fired"}

\* A payload was emitted, or another one of its burst was debounced after it.
Settled(p) ==
  \/ \E i \in DOMAIN out : \E j \in DOMAIN out[i] : out[i][j] = p
  \/ kind = "debounce" /\ calls > p

\* What is given to the middleware is emitted, when the calls pause: every event of a
\* batch, and the last of a burst that is debounced.
EventuallyEmitted == calls > 0 ~> \A p \in 1 .. calls : Settled(p)
=============================================================================
