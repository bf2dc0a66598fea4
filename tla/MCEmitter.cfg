\* The goroutines stop when they have emitted all they may.
CHECK_DEADLOCK FALSE
CONSTANTS
  g1 = g1
  g2 = g2
  on = on
  onScoped = onScoped
  plain = plain
  scoped = scoped
  Zero = Zero
  Emitters = {g1, g2}
  Handlers = {on, onScoped}
  EventNames = {plain, scoped}
  Payloads <- MCPayloads
  Returning = {on}
  Pattern <- MCPattern
  Scoped <- MCScoped
  Size = 2
  AsyncBufs = {0, 2}
  Script <- MCScript
  MaxSize = 2
  MaxCalls = 4
  MaxCloses = 1
SPECIFICATION Spec
INVARIANTS
  BatchedOnce
  TimerCoversBuffer
  ReplayFindsNewest
  HandledInOrder
  NoNewsAfterUnsubscribe
PROPERTIES
  ImplementsBoundedLog
  EmitEnds
  GoroutinesEnd
  EventuallyEmitted
