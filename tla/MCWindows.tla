------------------------------ MODULE MCWindows ------------------------------
(***************************************************************************)
(* Three calls of Emit and EmitTo, for two names, one window that joins    *)
(* and one that never does, and a history of two records; or, while none   *)
(* of this has begun, two calls of WaitFor.                                *)
(***************************************************************************)
EXTENDS Windows, MemoryBackend

CONSTANTS n1, n2, f1, f2, w1

MCWaitName == [w \in {f1, f2} |-> n1]

Init == WindowsInit /\ MemoryInit

Next ==
  \/ WindowsNext /\ MemoryInit /\ UNCHANGED memoryVars
  \/ MemoryNext /\ WindowsInit /\ UNCHANGED windowsVars

Spec == Init /\ [][Next]_<<windowsVars, memoryVars>>
=============================================================================
