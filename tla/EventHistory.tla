---------------------------- MODULE EventHistory ----------------------------
(***************************************************************************)
(* The emitter's history (events/history.go): a ring of the last Size      *)
(* records and the searches that Replay and ReplayAll make in it.  A record *)
(* is an event's name and its payload; its window is kept but never read.  *)
(* Each operation holds the history's lock from end to end.                *)
(***************************************************************************)
EXTENDS Integers, Sequences

CONSTANTS
  EventNames,   \* wire names of events
  Payloads,
  Size,         \* WithHistory(Size)
  Zero          \* a slot of the ring that was never written

Event == [name : EventNames, data : Payloads]

ASSUME SizeAssumption == Size \in Nat \ {0}
ASSUME ZeroAssumption == Zero \notin Event

VARIABLES
  buf,     \* the ring
  pos,     \* the slot to write next
  count    \* how many slots hold a record

historyVars == <<buf, pos, count>>

HistoryInit ==
  /\ buf = [i \in 0 .. Size - 1 |-> Zero]
  /\ pos = 0
  /\ count = 0

\* Mutant of HistoryRecord: the slot is advanced first and the write follows it.
HistoryRecordAfter(e) ==
  /\ pos' = (pos + 1) % Size
  /\ buf' = [buf EXCEPT ![(pos + 1) % Size] = e]
  /\ count' = IF count < Size THEN count + 1 ELSE count

HistoryRecord(e) ==
  /\ buf' = [buf EXCEPT ![pos] = e]
  /\ pos' = (pos + 1) % Size
  /\ count' = IF count < Size THEN count + 1 ELSE count

\* The slot of the record written i records before the newest.
Back(i) == (pos - 1 - i + Size) % Size

\* Mutant of Last: the search runs from the oldest record to the newest.
LastFromOldest(n) ==
  {buf[Back(i)] : i \in {k \in 0 .. count - 1 :
                          /\ buf[Back(k)].name = n
                          /\ \A j \in k + 1 .. count - 1 : buf[Back(j)].name # n}}

\* The newest record named n, if the ring holds one.
Last(n) ==
  {buf[Back(i)] : i \in {k \in 0 .. count - 1 :
                          /\ buf[Back(k)].name = n
                          /\ \A j \in 0 .. k - 1 : buf[Back(j)].name # n}}

\* The newest record of each name: one with a name not met before it.
Latest ==
  {buf[Back(i)] : i \in {k \in 0 .. count - 1 :
                          \A j \in 0 .. k - 1 : buf[Back(j)].name # buf[Back(k)].name}}

HistoryNext == \E e \in Event : HistoryRecord(e)

HistorySpec == HistoryInit /\ [][HistoryNext]_historyVars
-----------------------------------------------------------------------------
(* Properties *)

HistoryTypeOK ==
  /\ buf \in [0 .. Size - 1 -> Event \cup {Zero}]
  /\ pos \in 0 .. Size - 1
  /\ count \in 0 .. Size
  /\ \A i \in 0 .. count - 1 : buf[Back(i)] \in Event

\* The ring read from its oldest record to its newest.
HistoryLog == [i \in 1 .. count |-> buf[Back(count - i)]]

Log == INSTANCE BoundedLog WITH log <- HistoryLog

\* The ring implements BoundedLog: through every wrap-around it holds exactly
\* the last Size events, in order.
ImplementsBoundedLog == Log!Spec
=============================================================================
