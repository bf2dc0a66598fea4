\* Every call may have been made, and every wait be over.
CHECK_DEADLOCK FALSE
CONSTANTS
  n1 = n1
  n2 = n2
  f1 = f1
  f2 = f2
  w1 = w1
  EventNames = {n1, n2}
  Payloads = {1, 2, 3}
  Size = 2
  Zero = Zero
  WindowIDs = {w1}
  Elsewhere = Elsewhere
  Everyone = Everyone
  MaxEmits = 3
  Names = {n1, n2}
  Waits = {f1, f2}
  WaitName <- MCWaitName
  MaxRecords = 3
SPECIFICATION Spec
INVARIANTS
  NothingMissed
  NoLostWakeup
