----------------------------- MODULE MCEmitter -----------------------------
(***************************************************************************)
(* Two goroutines that emit an event, one of them its scoped form before,  *)
(* and a handler of each kind: called on the goroutine that emits first, it*)
(* may emit the second event there.  Or, while they have not begun, the    *)
(* middleware of one event name and four calls of Emit.                    *)
(***************************************************************************)
EXTENDS Emitter, Middleware

CONSTANTS g1, g2, on, onScoped, plain, scoped

MCPattern == [h \in {on, onScoped} |->
                IF h = on THEN [scope |-> "", name |-> "x"]
                          ELSE [scope |-> "s", name |-> "x"]]

MCScoped == [n \in {plain, scoped} |->
               IF n = plain THEN [scope |-> "", name |-> "x"]
                            ELSE [scope |-> "s", name |-> "x"]]

MCScript == [g \in {g1, g2} |-> IF g = g1 THEN <<scoped, plain>> ELSE <<plain>>]

MCPayloads == {<<g1, 1>>, <<g1, 2>>, <<g2, 1>>}

Init == EmitterInit /\ MiddlewareInit

Next ==
  \/ EmitterNext /\ MiddlewareInit /\ kind = "batch" /\ UNCHANGED middlewareVars
  \/ MiddlewareNext /\ EmitterInit /\ asyncBuf = 0 /\ UNCHANGED vars

Spec == Init /\ [][Next]_<<vars, middlewareVars>> /\ EmitterFairness /\ MiddlewareFairness
=============================================================================
