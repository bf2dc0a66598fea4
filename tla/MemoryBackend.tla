---------------------------- MODULE MemoryBackend ----------------------------
(***************************************************************************)
(* MemoryEmitter (events/memory.go): the backend that captures events, and *)
(* the goroutines that wait in WaitFor for one of a name.  Each operation  *)
(* holds the lock from end to end except WaitFor, which lets go of it to   *)
(* wait for its channel or its timeout.  Only a record's name is looked    *)
(* at; the operations that read the records are left out.                  *)
(***************************************************************************)
EXTENDS Naturals, Sequences

CONSTANTS
  Names,      \* of events
  Waits,      \* calls of WaitFor
  WaitName,   \* call -> the name it waits for
  MaxRecords  \* bound: the events that are captured, and not cleared

ASSUME MemoryAssumption == WaitName \in [Waits -> Names] /\ MaxRecords \in Nat

VARIABLES
  records,  \* m.records: their names
  waiters,  \* the calls in m.waiters
  full,     \* the calls whose channel holds a value
  wait      \* call -> where it is, or what it returned

memoryVars == <<records, waiters, full, wait>>

MemoryInit ==
  /\ records = <<>>
  /\ waiters = {}
  /\ full = {}
  /\ wait = [w \in Waits |-> "new"]

Captured(name) == \E k \in DOMAIN records : records[k] = name

\* Mutant of MemoryRecord: one waiter is woken, and the others are not.
MemoryRecordWakesOne(n) ==
  LET named == {w \in waiters : WaitName[w] = n}
  IN  /\ Len(records) < MaxRecords
      /\ records' = Append(records, n)
      /\ full' = full \cup {w \in named : w = CHOOSE v \in named : TRUE}
      /\ UNCHANGED <<waiters, wait>>

\* Every channel of the name gets a value, unless it holds one.
MemoryRecord(n) ==
  /\ Len(records) < MaxRecords
  /\ records' = Append(records, n)
  /\ full' = full \cup {w \in waiters : WaitName[w] = n}
  /\ UNCHANGED <<waiters, wait>>

Clear ==
  /\ records # <<>>
  /\ records' = <<>>
  /\ UNCHANGED <<waiters, full, wait>>

\* Mutant of WaitFor: only the newest record is looked at.
WaitForSeesLast(w) ==
  /\ wait[w] = "new"
  /\ IF records # <<>> /\ records[Len(records)] = WaitName[w]
     THEN wait' = [wait EXCEPT ![w] = "true"] /\ UNCHANGED waiters
     ELSE wait' = [wait EXCEPT ![w] = "waiting"] /\ waiters' = waiters \cup {w}
  /\ UNCHANGED <<records, full>>

\* WaitFor until it lets go of the lock: it returns, or waits.
WaitFor(w) ==
  /\ wait[w] = "new"
  /\ IF Captured(WaitName[w])
     THEN wait' = [wait EXCEPT ![w] = "true"] /\ UNCHANGED waiters
     ELSE wait' = [wait EXCEPT ![w] = "waiting"] /\ waiters' = waiters \cup {w}
  /\ UNCHANGED <<records, full>>

\* The select takes what is there; of a value and the timeout, either.
Woken(w) ==
  /\ wait[w] = "waiting" /\ w \in full
  /\ full' = full \ {w}
  /\ wait' = [wait EXCEPT ![w] = "woken"]
  /\ UNCHANGED <<records, waiters>>

TimesOut(w) ==
  /\ wait[w] = "waiting"
  /\ wait' = [wait EXCEPT ![w] = "late"]
  /\ UNCHANGED <<records, waiters, full>>

\* The deferred function takes the lock again.
Leave(w) ==
  /\ wait[w] \in {"woken", "late"}
  /\ waiters' = waiters \ {w}
  /\ wait' = [wait EXCEPT ![w] = IF @ = "woken" THEN "true" ELSE "false"]
  /\ UNCHANGED <<records, full>>

MemoryNext ==
  \/ \E n \in Names : MemoryRecord(n)
  \/ Clear
  \/ \E w \in Waits : WaitFor(w) \/ Woken(w) \/ TimesOut(w) \/ Leave(w)

MemorySpec == MemoryInit /\ [][MemoryNext]_memoryVars
-----------------------------------------------------------------------------
(* Properties *)

\* No call waits for what is there: while it waits, be its event recorded before it
\* came, when it was about to wait, or for another waiter too, its channel holds a value
\* once an event of its name is among the records.
NoLostWakeup ==
  \A w \in Waits : wait[w] = "waiting" /\ Captured(WaitName[w]) => w \in full
=============================================================================
