---------------------------- MODULE WindowsProofs ----------------------------
(***************************************************************************)
(* Proofs about what an emitter hands its events to: module Windows, for   *)
(* any number of windows and of calls and a history of any size, and       *)
(* module MemoryBackend, for any calls of WaitFor.                         *)
(***************************************************************************)
EXTENDS Windows, MemoryBackend, EventHistoryProofs

(* MemoryBackend *)

\* Whoever waits is among the waiters, and records are of events' names.
WaitInv ==
  /\ records \in Seq(Names)
  /\ waiters \subseteq Waits /\ full \subseteq Waits
  /\ wait \in [Waits -> {"new", "waiting", "woken", "late", "true", "false"}]
  /\ \A w \in Waits : wait[w] = "waiting" => w \in waiters
  /\ NoLostWakeup

LEMMA WaitInvInit == MemoryInit => WaitInv
BY DEF MemoryInit, WaitInv, NoLostWakeup

LEMMA WaitInvStep == WaitInv /\ [MemoryNext]_memoryVars => WaitInv'
<1> SUFFICES ASSUME WaitInv, [MemoryNext]_memoryVars PROVE WaitInv'
  OBVIOUS
<1> USE DEF WaitInv, NoLostWakeup, Captured
<1>1. ASSUME NEW n \in Names, MemoryRecord(n) PROVE WaitInv'
  <2>1. /\ records' \in Seq(Names)
        /\ \A k \in DOMAIN records' : k \in DOMAIN records \/ records'[k] = n
        /\ \A k \in DOMAIN records : records'[k] = records[k]
    BY <1>1 DEF MemoryRecord
  <2> QED BY <1>1, <2>1 DEF MemoryRecord
<1>2. CASE Clear
  BY <1>2 DEF Clear
<1>3. ASSUME NEW w \in Waits, WaitFor(w) PROVE WaitInv'
  BY <1>3 DEF WaitFor
<1>4. ASSUME NEW w \in Waits, Woken(w) PROVE WaitInv'
  BY <1>4 DEF Woken
<1>5. ASSUME NEW w \in Waits, TimesOut(w) PROVE WaitInv'
  BY <1>5 DEF TimesOut
<1>6. ASSUME NEW w \in Waits, Leave(w) PROVE WaitInv'
  BY <1>6 DEF Leave
<1>7. CASE UNCHANGED memoryVars
  BY <1>7 DEF memoryVars
<1> QED BY <1>1, <1>2, <1>3, <1>4, <1>5, <1>6, <1>7 DEF MemoryNext

\* A call of WaitFor that waits never waits for an event that is recorded: whatever is
\* recorded, cleared and waited for at the same time, its channel then holds a value
\* (memory.go:45-57 and 121-155).
THEOREM MemoryNoLostWakeup == MemorySpec => []NoLostWakeup
<1>1. WaitInv => NoLostWakeup
  BY DEF WaitInv
<1> QED BY <1>1, WaitInvInit, WaitInvStep, PTL DEF MemorySpec
-----------------------------------------------------------------------------
(* Windows *)

Calls == [name : EventNames, to : WindowIDs \cup {Elsewhere, Everyone},
          at : {"look", "send", "record", "done"}]

WindowsTypeInv ==
  /\ HistoryTypeOK
  /\ emits \in Seq(Calls) /\ Len(emits) <= MaxEmits
  /\ recorded \in Seq(Nat)
  /\ \A i \in DOMAIN recorded : recorded[i] \in DOMAIN emits
  /\ \A k \in DOMAIN emits : emits[k].at = "look" => emits[k].to # Everyone
  /\ open \subseteq WindowIDs
  /\ replay \in [WindowIDs -> {"none", "found", "all", "giving"}]
  /\ rest \in [WindowIDs -> SUBSET Event]
  /\ got \in [WindowIDs -> SUBSET Nat]
  /\ early \in [WindowIDs -> SUBSET Nat]

\* The ring holds the last of what was recorded, the newest at Back(0).
RingInv ==
  /\ count <= Len(recorded)
  /\ count < Size => count = Len(recorded)
  /\ \A i \in 0 .. count - 1 :
       LET k == recorded[Len(recorded) - i]
       IN  buf[Back(i)] = [name |-> emits[k].name, data |-> k]

\* A window that has read the history is registered, and so open; a replay that has
\* not looked into the history has nothing to give.
JoinInv ==
  /\ joined \subseteq windows /\ windows \subseteq open
  /\ \A w \in WindowIDs : replay[w] \in {"none", "all"} => rest[w] = {}

\* An event about to be recorded was given to every window that was there for it, and
\* those that came later know that it was on its way.
SentInv ==
  \A k \in DOMAIN emits, w \in WindowIDs :
    /\ emits[k].at = "record"
    /\ (emits[k].to = Everyone /\ w \in open) \/ (emits[k].to = w /\ w \in windows)
    => k \in got[w] \cup early[w]

\* What NothingMissed says of one window and one record.
Has(w, k) == k \in got[w] \/ k \in early[w] \/ \E e \in rest[w] : e.data = k

NotMissed(w, i) ==
  \/ emits[recorded[i]].to \notin {w, Everyone}
  \/ Has(w, recorded[i])
  \/ Len(recorded) - i >= Size
  \/ \E j \in i + 1 .. Len(recorded) : emits[recorded[j]].name = emits[recorded[i]].name

JoinedInv == \A w \in joined : \A i \in DOMAIN recorded : NotMissed(w, i)

WindowsInv == WindowsTypeInv /\ RingInv /\ JoinInv /\ SentInv /\ JoinedInv

LEMMA WindowsInvInit == WindowsInit => WindowsInv
<1> SUFFICES ASSUME WindowsInit PROVE WindowsInv
  OBVIOUS
<1>1. WindowsTypeInv
  BY HistoryStarts, WindowsAssumption DEF WindowsInit, WindowsTypeInv
<1>2. RingInv
  BY SizeAssumption DEF WindowsInit, HistoryInit, RingInv
<1>3. JoinInv /\ SentInv /\ JoinedInv
  BY DEF WindowsInit, JoinInv, SentInv, JoinedInv
<1> QED BY <1>1, <1>2, <1>3 DEF WindowsInv

\* The history is left alone, and no call changes its event: the ring still holds what
\* was recorded.
LEMMA RingKept ==
  ASSUME WindowsTypeInv, RingInv, UNCHANGED <<recorded, historyVars>>,
         \A k \in DOMAIN emits : k \in DOMAIN emits' /\ emits'[k].name = emits[k].name
  PROVE  /\ RingInv' /\ HistoryTypeOK'
         /\ \A i \in DOMAIN recorded' : recorded'[i] \in DOMAIN emits'
<1>1. HistoryTypeOK'
  <2>1. HistoryTypeOK
    BY DEF WindowsTypeInv
  <2> QED BY <2>1 DEF HistoryTypeOK, historyVars, Back
<1>2. \A i \in DOMAIN recorded' : recorded'[i] \in DOMAIN emits'
  BY DEF WindowsTypeInv
<1>3. /\ buf' = buf /\ pos' = pos /\ count' = count /\ recorded' = recorded
      /\ count \in Int /\ Len(recorded) \in Nat /\ DOMAIN recorded = 1 .. Len(recorded)
  BY SizeAssumption DEF historyVars, WindowsTypeInv, HistoryTypeOK
<1>4. ASSUME NEW i \in 0 .. count - 1
      PROVE  LET k == recorded[Len(recorded) - i]
             IN  buf[Back(i)] = [name |-> emits'[k].name, data |-> k]
  <2>0. count <= Len(recorded)
    BY DEF RingInv
  <2>1. Len(recorded) - i \in DOMAIN recorded
    <3>1. Len(recorded) - i \in 1 .. Len(recorded)
      BY <1>3, <2>0
    <3> QED BY <1>3, <3>1
  <2>2. recorded[Len(recorded) - i] \in DOMAIN emits
    BY <2>1 DEF WindowsTypeInv
  <2>3. emits'[recorded[Len(recorded) - i]].name = emits[recorded[Len(recorded) - i]].name
    BY <2>2
  <2>4. buf[Back(i)] = [name |-> emits[recorded[Len(recorded) - i]].name,
                        data |-> recorded[Len(recorded) - i]]
    BY DEF RingInv
  <2> QED BY <2>3, <2>4
<1>5. \A i \in 0 .. count - 1 : Back(i)' = Back(i)
  BY <1>3 DEF Back
<1>6. RingInv'
  BY <1>3, <1>4, <1>5 DEF RingInv
<1> QED BY <1>1, <1>2, <1>6

\* Nothing is recorded, no call changes its event or its window, and no window forgets
\* what it was given: none that had joined misses anything.
LEMMA JoinedKept ==
  ASSUME WindowsTypeInv, JoinedInv, recorded' = recorded,
         \A k \in DOMAIN emits : /\ emits'[k].name = emits[k].name
                                 /\ emits'[k].to = emits[k].to,
         joined' \subseteq joined,
         \A w \in joined', k \in DOMAIN emits : Has(w, k) => Has(w, k)'
  PROVE  JoinedInv'
<1> SUFFICES ASSUME NEW w \in joined', NEW i \in DOMAIN recorded'
             PROVE  NotMissed(w, i)'
  BY DEF JoinedInv
<1>1. /\ \A j \in DOMAIN recorded : recorded[j] \in DOMAIN emits
      /\ DOMAIN recorded = 1 .. Len(recorded) /\ Len(recorded) \in Nat
  BY DEF WindowsTypeInv
<1>2. NotMissed(w, i) /\ recorded[i] \in DOMAIN emits
  BY <1>1 DEF JoinedInv
<1>3. PICK k \in DOMAIN emits : k = recorded[i]
  BY <1>2
<1>4. Has(w, k) => Has(w, k)'
  OBVIOUS
<1>5. \A j \in i + 1 .. Len(recorded) : recorded[j] \in DOMAIN emits
  BY <1>1
<1> QED BY <1>2, <1>3, <1>4, <1>5 DEF NotMissed, Has

\* What Advance does to the calls.
LEMMA Advanced ==
  ASSUME emits \in Seq(Calls), NEW k \in DOMAIN emits,
         NEW at \in {"look", "send", "record", "done"}, Advance(k, at)
  PROVE  /\ emits' \in Seq(Calls) /\ Len(emits') = Len(emits)
         /\ DOMAIN emits' = DOMAIN emits
         /\ emits'[k].at = at
         /\ \A j \in DOMAIN emits :
              /\ emits'[j].name = emits[j].name /\ emits'[j].to = emits[j].to
              /\ j # k => emits'[j].at = emits[j].at
<1>1. emits' = [emits EXCEPT ![k] = [emits[k] EXCEPT !.at = at]]
  BY DEF Advance
<1>2. emits[k] \in Calls /\ k \in 1 .. Len(emits) /\ DOMAIN emits = 1 .. Len(emits)
  OBVIOUS
<1>3. [emits[k] EXCEPT !.at = at] \in Calls
  BY <1>2 DEF Calls
<1>4. emits' \in Seq(Calls) /\ Len(emits') = Len(emits) /\ DOMAIN emits' = DOMAIN emits
  BY <1>1, <1>2, <1>3
<1>5. emits'[k] = [emits[k] EXCEPT !.at = at]
      /\ \A j \in DOMAIN emits : j # k => emits'[j] = emits[j]
  BY <1>1, <1>2
<1> QED BY <1>2, <1>4, <1>5 DEF Calls

\* What a call does to the calls.
LEMMA CallAdded ==
  ASSUME emits \in Seq(Calls), CallEmit
  PROVE  /\ emits' \in Seq(Calls) /\ Len(emits') = Len(emits) + 1
         /\ DOMAIN emits' = 1 .. Len(emits) + 1
         /\ \A j \in DOMAIN emits : j \in DOMAIN emits' /\ emits'[j] = emits[j]
         /\ emits'[Len(emits) + 1].at # "record"
         /\ emits'[Len(emits) + 1].at = "look" => emits'[Len(emits) + 1].to # Everyone
<1>1. PICK c \in Calls : /\ emits' = Append(emits, c) /\ c.at # "record"
                         /\ c.at = "look" => c.to # Everyone
  <2>1. PICK n \in EventNames, to \in WindowIDs \cup {Elsewhere, Everyone} :
          emits' = Append(emits, [name |-> n, to |-> to,
                                  at |-> IF to = Everyone THEN "send" ELSE "look"])
    BY DEF CallEmit
  <2> DEFINE c == [name |-> n, to |-> to, at |-> IF to = Everyone THEN "send" ELSE "look"]
  <2>2. c \in Calls /\ c.at # "record" /\ (c.at = "look" => c.to # Everyone)
    BY DEF Calls
  <2> HIDE DEF c
  <2>3. emits' = Append(emits, c)
    BY <2>1 DEF c
  <2> QED BY <2>2, <2>3
<1> QED BY <1>1

\* A call begins, looks its window up or sends its event.
LEMMA CallKeeps ==
  ASSUME WindowsInv,
         CallEmit \/ \E k \in DOMAIN emits : LookUp(k) \/ Send(k)
  PROVE  WindowsInv'
<1> USE DEF WindowsInv
<1>t. emits \in Seq(Calls) /\ Len(emits) \in Nat /\ Len(emits) <= MaxEmits /\ MaxEmits \in Nat
  BY WindowsAssumption DEF WindowsTypeInv
<1>1. /\ emits' \in Seq(Calls) /\ Len(emits') <= MaxEmits
      /\ \A k \in DOMAIN emits : /\ k \in DOMAIN emits'
                                 /\ emits'[k].name = emits[k].name
                                 /\ emits'[k].to = emits[k].to
      /\ UNCHANGED <<joinVars, recorded, early, historyVars>>
  <2>1. CASE CallEmit
    <3>1. Len(emits) < MaxEmits /\ UNCHANGED <<joinVars, recorded, early, historyVars>>
      BY <2>1 DEF CallEmit
    <3> QED BY <1>t, <2>1, <3>1, CallAdded
  <2>2. CASE \E k \in DOMAIN emits : LookUp(k) \/ Send(k)
    <3>1. PICK k \in DOMAIN emits : LookUp(k) \/ Send(k)
      BY <2>2
    <3>2. PICK at \in {"send", "record"} : Advance(k, at)
      <4>1. Advance(k, "send") \/ Advance(k, "record")
        BY <3>1 DEF LookUp, Send
      <4> QED BY <4>1
    <3>3. UNCHANGED <<joinVars, recorded, early, historyVars>>
      BY <3>1 DEF LookUp, Send
    <3> QED BY <1>t, <3>2, <3>3, Advanced
  <2> QED BY <2>1, <2>2
<1>2. /\ got' \in [WindowIDs -> SUBSET Nat]
      /\ \A w \in WindowIDs : got[w] \subseteq got'[w]
  <2>1. CASE UNCHANGED got
    BY <2>1 DEF WindowsTypeInv
  <2>2. CASE \E k \in DOMAIN emits : Send(k)
    <3>1. PICK k \in DOMAIN emits : Send(k)
      BY <2>2
    <3>2. PICK e : e = EmitID(k) /\ Sent(e, emits[k].to)
      BY <3>1 DEF Send
    <3>3. k \in Nat /\ e.data = k
      BY <1>t, <3>2 DEF EmitID
    <3> QED BY <3>2, <3>3 DEF Sent, WindowsTypeInv
  <2> QED BY <2>1, <2>2 DEF CallEmit, LookUp
<1>3. RingInv' /\ HistoryTypeOK' /\ \A i \in DOMAIN recorded' : recorded'[i] \in DOMAIN emits'
  BY <1>1, RingKept
<1>l. \A k \in DOMAIN emits' : emits'[k].at = "look" => emits'[k].to # Everyone
  <2>1. CASE CallEmit
    BY <1>t, <2>1, CallAdded DEF WindowsTypeInv
  <2>2. CASE \E k \in DOMAIN emits : LookUp(k) \/ Send(k)
    <3>1. PICK k \in DOMAIN emits : LookUp(k) \/ Send(k)
      BY <2>2
    <3>2. PICK at \in {"send", "record"} : Advance(k, at)
      <4>1. Advance(k, "send") \/ Advance(k, "record")
        BY <3>1 DEF LookUp, Send
      <4> QED BY <4>1
    <3>3. /\ DOMAIN emits' = DOMAIN emits /\ emits'[k].at = at
          /\ \A j \in DOMAIN emits :
               /\ emits'[j].to = emits[j].to
               /\ j # k => emits'[j].at = emits[j].at
      BY <1>t, <3>2, Advanced
    <3> QED BY <3>2, <3>3 DEF WindowsTypeInv
  <2> QED BY <2>1, <2>2
<1>4. WindowsTypeInv'
  BY <1>1, <1>2, <1>3, <1>l DEF WindowsTypeInv, joinVars, replayVars
<1>5. JoinInv'
  BY <1>1 DEF JoinInv, joinVars, replayVars
<1>6. SentInv'
  <2>1. CASE CallEmit
    BY <1>t, <1>1, <2>1, CallAdded DEF CallEmit, SentInv, joinVars
  <2>2. ASSUME NEW k \in DOMAIN emits, LookUp(k) PROVE SentInv'
    <3>1. CASE emits[k].to \in windows
      <4>1. Advance(k, "send")
        BY <2>2, <3>1 DEF LookUp
      <4>2. \A j \in DOMAIN emits' : emits'[j].at = "record" => j # k
        BY <1>t, <4>1, Advanced
      <4> QED BY <1>t, <1>1, <2>2, <4>1, <4>2, Advanced DEF LookUp, SentInv, joinVars
    <3>2. CASE emits[k].to \notin windows
      <4>1. Advance(k, "record") /\ emits[k].at = "look"
        BY <2>2, <3>2 DEF LookUp
      <4>2. emits[k].to # Everyone
        BY <4>1 DEF WindowsTypeInv
      <4> QED BY <1>t, <1>1, <2>2, <3>2, <4>1, <4>2, Advanced DEF LookUp, SentInv, joinVars
    <3> QED BY <3>1, <3>2
  <2>3. ASSUME NEW k \in DOMAIN emits, Send(k) PROVE SentInv'
    <3>1. PICK e : e = EmitID(k) /\ Sent(e, emits[k].to)
      BY <2>3 DEF Send
    <3>2. \A w \in WindowIDs :
            (emits[k].to = Everyone /\ w \in open) \/ emits[k].to = w => k \in got'[w]
      BY <3>1 DEF Sent, EmitID
    <3>3. Advance(k, "record") /\ UNCHANGED <<joinVars, early>>
      BY <2>3 DEF Send
    <3> QED BY <1>t, <1>1, <1>2, <3>2, <3>3, Advanced DEF SentInv, joinVars
  <2> QED BY <2>1, <2>2, <2>3
<1>7. JoinedInv'
  <2>1. \A w \in joined', k \in DOMAIN emits : Has(w, k) => Has(w, k)'
    BY <1>1, <1>2 DEF Has, JoinInv, WindowsTypeInv, joinVars, replayVars
  <2> QED BY <1>1, <2>1, JoinedKept DEF joinVars, replayVars
<1> QED BY <1>3, <1>4, <1>5, <1>6, <1>7

\* A window comes, goes or is given something; no call does anything.
LEMMA JoinKeeps ==
  ASSUME WindowsInv, UNCHANGED <<emits, recorded, historyVars>>, WindowsTypeInv',
         JoinInv', SentInv', joined' \subseteq joined,
         \A w \in joined', k \in DOMAIN emits : Has(w, k) => Has(w, k)'
  PROVE  WindowsInv'
<1>1. RingInv'
  BY RingKept DEF WindowsInv
<1>2. JoinedInv'
  BY JoinedKept DEF WindowsInv
<1> QED BY <1>1, <1>2 DEF WindowsInv

\* What is found in the history are events.
LEMMA FoundAreEvents ==
  ASSUME HistoryTypeOK
  PROVE  Latest \subseteq Event /\ \A n \in EventNames : Last(n) \subseteq Event
BY DEF HistoryTypeOK, Latest, Last

LEMMA JoinStepKeeps ==
  ASSUME WindowsInv, NEW w \in WindowIDs,
         \/ Open(w) \/ RegisterWindow(w) \/ UnregisterWindow(w)
         \/ Replay(w) \/ ReplayLooksUp(w) \/ ReplayAll(w) \/ Give(w) \/ ReplayEnds(w)
  PROVE  WindowsInv'
<1>1. UNCHANGED <<emits, recorded, historyVars>>
  BY DEF Open, RegisterWindow, UnregisterWindow, Replay, ReplayLooksUp, ReplayAll, Give,
    ReplayEnds
<1>2. /\ HistoryTypeOK' /\ emits' \in Seq(Calls) /\ Len(emits') <= MaxEmits
      /\ recorded' \in Seq(Nat)
      /\ \A i \in DOMAIN recorded' : recorded'[i] \in DOMAIN emits'
      /\ \A k \in DOMAIN emits' : emits'[k].at = "look" => emits'[k].to # Everyone
  BY <1>1, RingKept DEF WindowsInv, WindowsTypeInv
<1>3. /\ open \subseteq WindowIDs
      /\ replay \in [WindowIDs -> {"none", "found", "all", "giving"}]
      /\ rest \in [WindowIDs -> SUBSET Event]
      /\ got \in [WindowIDs -> SUBSET Nat]
      /\ early \in [WindowIDs -> SUBSET Nat]
      /\ DOMAIN emits \subseteq Nat
  BY DEF WindowsInv, WindowsTypeInv
<1>4. CASE Open(w) \/ RegisterWindow(w)
  <2>1. /\ Came(w) /\ UNCHANGED <<replay, rest, joined, got>>
        /\ Open(w) => w \notin open /\ open' = open \cup {w} /\ windows' = windows
        /\ RegisterWindow(w) => w \in open /\ windows' = windows \cup {w} /\ open' = open
    BY <1>4 DEF Open, RegisterWindow, replayVars
  <2>2. /\ early' \in [WindowIDs -> SUBSET Nat]
        /\ \A v \in WindowIDs : early[v] \subseteq early'[v]
        /\ \A k \in DOMAIN emits : emits[k].at = "record" => k \in early'[w]
    BY <1>3, <2>1 DEF Came, Between
  <2>3. WindowsTypeInv'
    BY <1>2, <1>3, <1>4, <2>1, <2>2 DEF WindowsTypeInv
  <2>4. JoinInv'
    BY <1>4, <2>1 DEF WindowsInv, JoinInv
  <2>5. SentInv'
    BY <1>1, <1>4, <2>1, <2>2 DEF WindowsInv, SentInv
  <2>6. \A v \in joined', k \in DOMAIN emits : Has(v, k) => Has(v, k)'
    BY <2>1, <2>2 DEF WindowsInv, WindowsTypeInv, JoinInv, Has
  <2> QED BY <1>1, <2>1, <2>3, <2>4, <2>5, <2>6, JoinKeeps
<1>5. CASE UnregisterWindow(w)
  <2>1. /\ windows' = windows \ {w} /\ joined' = joined \ {w}
        /\ UNCHANGED <<open, replay, rest, got, early>>
    BY <1>5 DEF UnregisterWindow
  <2>2. WindowsTypeInv'
    BY <1>2, <1>3, <2>1 DEF WindowsTypeInv
  <2>3. JoinInv'
    BY <2>1 DEF WindowsInv, JoinInv
  <2>4. SentInv'
    BY <1>1, <2>1 DEF WindowsInv, SentInv
  <2>5. \A v \in joined', k \in DOMAIN emits : Has(v, k) => Has(v, k)'
    BY <2>1 DEF Has
  <2> QED BY <1>1, <2>1, <2>2, <2>3, <2>4, <2>5, JoinKeeps
<1>6. CASE Replay(w)
  <2>1. PICK n \in EventNames : rest' = [rest EXCEPT ![w] = Last(n)]
    BY <1>6 DEF Replay
  <2>2. /\ replay[w] = "none" /\ replay' = [replay EXCEPT ![w] = "found"]
        /\ UNCHANGED <<open, windows, joined, got, early>>
    BY <1>6 DEF Replay
  <2>3. Last(n) \subseteq Event
    BY FoundAreEvents DEF WindowsInv, WindowsTypeInv
  <2>4. rest[w] = {}
    BY <2>2 DEF WindowsInv, JoinInv
  <2>5. WindowsTypeInv'
    BY <1>2, <1>3, <2>1, <2>2, <2>3 DEF WindowsTypeInv
  <2>6. JoinInv'
    BY <1>3, <2>1, <2>2 DEF WindowsInv, JoinInv
  <2>7. SentInv'
    BY <1>1, <2>2 DEF WindowsInv, SentInv
  <2>8. \A v \in joined', k \in DOMAIN emits : Has(v, k) => Has(v, k)'
    BY <1>3, <2>1, <2>2, <2>4 DEF WindowsInv, JoinInv, Has
  <2> QED BY <1>1, <2>2, <2>5, <2>6, <2>7, <2>8, JoinKeeps
<1>7. CASE ReplayLooksUp(w)
  <2>1. /\ replay' \in [WindowIDs -> {"none", "found", "all", "giving"}]
        /\ rest' \in [WindowIDs -> SUBSET Event]
        /\ \A v \in WindowIDs : v # w => rest'[v] = rest[v] /\ replay'[v] = replay[v]
        /\ w \in windows => rest'[w] = rest[w] /\ replay'[w] = "giving"
        /\ w \notin windows => rest'[w] = {}
        /\ UNCHANGED <<open, windows, joined, got, early>>
    BY <1>3, <1>7 DEF ReplayLooksUp
  <2>2. WindowsTypeInv'
    BY <1>2, <1>3, <2>1 DEF WindowsTypeInv
  <2>3. JoinInv'
    BY <2>1 DEF WindowsInv, JoinInv
  <2>4. SentInv'
    BY <1>1, <2>1 DEF WindowsInv, SentInv
  <2>5. \A v \in joined', k \in DOMAIN emits : Has(v, k) => Has(v, k)'
    BY <1>3, <2>1 DEF WindowsInv, JoinInv, Has
  <2> QED BY <1>1, <2>1, <2>2, <2>3, <2>4, <2>5, JoinKeeps
<1>8. CASE ReplayAll(w) \/ ReplayEnds(w)
  <2>1. /\ replay' \in [WindowIDs -> {"none", "found", "all", "giving"}]
        /\ \A v \in WindowIDs : v # w => replay'[v] = replay[v]
        /\ rest[w] = {}
        /\ UNCHANGED <<open, windows, rest, joined, got, early>>
    BY <1>3, <1>8 DEF ReplayAll, ReplayEnds, WindowsInv, JoinInv
  <2>2. WindowsTypeInv'
    BY <1>2, <1>3, <2>1 DEF WindowsTypeInv
  <2>3. JoinInv'
    BY <2>1 DEF WindowsInv, JoinInv
  <2>4. SentInv'
    BY <1>1, <2>1 DEF WindowsInv, SentInv
  <2>5. \A v \in joined', k \in DOMAIN emits : Has(v, k) => Has(v, k)'
    BY <2>1 DEF Has
  <2> QED BY <1>1, <2>1, <2>2, <2>3, <2>4, <2>5, JoinKeeps
<1>9. CASE Give(w)
  <2>1. PICK e \in rest[w] : Sent(e, w) /\ rest' = [rest EXCEPT ![w] = @ \ {e}]
    BY <1>9 DEF Give
  <2>2. /\ replay[w] = "giving"
        /\ UNCHANGED <<open, windows, replay, joined, early>>
    BY <1>9 DEF Give
  <2>3. e \in Event /\ e.data \in Nat
    BY <1>3, <2>1, WindowsAssumption DEF Event
  <2>4. /\ got' \in [WindowIDs -> SUBSET Nat]
        /\ \A v \in WindowIDs : got[v] \subseteq got'[v]
        /\ e.data \in got'[w]
    BY <1>3, <2>1, <2>3 DEF Sent
  <2>5. WindowsTypeInv'
    BY <1>2, <1>3, <2>1, <2>2, <2>4 DEF WindowsTypeInv
  <2>6. JoinInv'
    BY <1>3, <2>1, <2>2 DEF WindowsInv, JoinInv
  <2>7. SentInv'
    BY <1>1, <2>2, <2>4 DEF WindowsInv, SentInv
  <2>8. \A v \in joined', k \in DOMAIN emits : Has(v, k) => Has(v, k)'
    BY <1>3, <2>1, <2>2, <2>4 DEF WindowsInv, JoinInv, Has
  <2> QED BY <1>1, <2>2, <2>5, <2>6, <2>7, <2>8, JoinKeeps
<1> QED BY <1>4, <1>5, <1>6, <1>7, <1>8, <1>9

\* ReplayAll reads the history: what it does not find there is older than the history
\* holds, or another event of its name came later.
LEMMA ReplayAllReadsKeeps ==
  ASSUME WindowsInv, NEW w \in WindowIDs, ReplayAllReads(w)
  PROVE  WindowsInv'
<1>1. /\ UNCHANGED <<emits, recorded, historyVars, open, windows, got, early>>
      /\ replay[w] = "all" /\ replay' = [replay EXCEPT ![w] = "giving"]
      /\ rest' = [rest EXCEPT ![w] = Latest]
      /\ joined' = joined \cup ({w} \cap windows)
  BY DEF ReplayAllReads
<1>2. /\ HistoryTypeOK' /\ emits' \in Seq(Calls) /\ Len(emits') <= MaxEmits
      /\ recorded' \in Seq(Nat) /\ RingInv'
      /\ \A i \in DOMAIN recorded' : recorded'[i] \in DOMAIN emits'
      /\ \A k \in DOMAIN emits' : emits'[k].at = "look" => emits'[k].to # Everyone
  BY <1>1, RingKept DEF WindowsInv, WindowsTypeInv
<1>3. /\ rest \in [WindowIDs -> SUBSET Event] /\ rest[w] = {}
      /\ recorded \in Seq(Nat) /\ Len(recorded) \in Nat
      /\ DOMAIN recorded = 1 .. Len(recorded)
      /\ count \in 0 .. Size /\ Size \in Nat /\ joined \subseteq WindowIDs
  BY <1>1, SizeAssumption DEF WindowsInv, WindowsTypeInv, JoinInv, HistoryTypeOK
<1>4. WindowsTypeInv'
  BY <1>1, <1>2, FoundAreEvents DEF WindowsInv, WindowsTypeInv
<1>5. JoinInv'
  BY <1>1, <1>3 DEF WindowsInv, WindowsTypeInv, JoinInv
<1>6. SentInv'
  BY <1>1 DEF WindowsInv, SentInv
<1>7. ASSUME NEW i \in DOMAIN recorded
      PROVE  NotMissed(w, i)'
  <2> SUFFICES ASSUME Len(recorded) - i < Size
               PROVE  \/ \E e \in Latest : e.data = recorded[i]
                      \/ \E j \in i + 1 .. Len(recorded) :
                           emits[recorded[j]].name = emits[recorded[i]].name
    BY <1>1, <1>3 DEF NotMissed, Has
  <2> DEFINE m == Len(recorded) - i
  <2>1. m \in 0 .. count - 1 /\ Len(recorded) - m = i
    <3>1. count <= Len(recorded) /\ (count < Size => count = Len(recorded))
      BY DEF WindowsInv, RingInv
    <3>2. /\ i \in Int /\ 1 <= i /\ i <= Len(recorded) /\ Len(recorded) \in Int
          /\ count \in Int /\ count <= Size /\ Size \in Int
      BY <1>3
    <3>3. m < count
      <4>1. CASE count < Size    BY <3>1, <3>2, <4>1
      <4>2. CASE count = Size    BY <3>2, <4>2
      <4> QED BY <3>2, <4>1, <4>2
    <3> QED BY <3>2, <3>3
  <2>2. \A j \in 0 .. count - 1 :
          buf[Back(j)] = [name |-> emits[recorded[Len(recorded) - j]].name,
                          data |-> recorded[Len(recorded) - j]]
    BY DEF WindowsInv, RingInv
  <2>3. buf[Back(m)].data = recorded[i] /\ buf[Back(m)].name = emits[recorded[i]].name
    <3>1. buf[Back(m)] = [name |-> emits[recorded[Len(recorded) - m]].name,
                          data |-> recorded[Len(recorded) - m]]
      BY <2>1, <2>2
    <3>2. buf[Back(m)] = [name |-> emits[recorded[i]].name, data |-> recorded[i]]
      BY <2>1, <3>1
    <3> QED BY <3>2
  <2>4. CASE \E j \in 0 .. m - 1 : buf[Back(j)].name = buf[Back(m)].name
    <3>1. PICK j \in 0 .. m - 1 : buf[Back(j)].name = buf[Back(m)].name
      BY <2>4
    <3>2. j \in 0 .. count - 1 /\ Len(recorded) - j \in i + 1 .. Len(recorded)
      BY <1>3, <2>1
    <3>3. buf[Back(j)].name = emits[recorded[Len(recorded) - j]].name
      <4>1. buf[Back(j)] = [name |-> emits[recorded[Len(recorded) - j]].name,
                            data |-> recorded[Len(recorded) - j]]
        BY <2>2, <3>2
      <4> QED BY <4>1
    <3>4. emits[recorded[Len(recorded) - j]].name = emits[recorded[i]].name
      BY <2>3, <3>1, <3>3
    <3> QED BY <3>2, <3>4
  <2>5. CASE \A j \in 0 .. m - 1 : buf[Back(j)].name # buf[Back(m)].name
    <3> HIDE DEF m
    <3>1. buf[Back(m)] \in Latest
      BY <2>1, <2>5 DEF Latest
    <3> QED BY <2>3, <3>1
  <2> QED BY <2>4, <2>5
<1>8. ASSUME NEW v \in joined, v # w, NEW i \in DOMAIN recorded
      PROVE  NotMissed(v, i)'
  <2>1. NotMissed(v, i)
    BY DEF WindowsInv, JoinedInv
  <2>2. v \in WindowIDs
    BY <1>3
  <2> QED BY <1>1, <1>3, <1>8, <2>1, <2>2 DEF NotMissed, Has
<1>9. JoinedInv'
  BY <1>1, <1>7, <1>8 DEF JoinedInv
<1> QED BY <1>2, <1>4, <1>5, <1>6, <1>9 DEF WindowsInv

\* An event is recorded: the others are one further back.
LEMMA RecordEventKeeps ==
  ASSUME WindowsInv, NEW k \in DOMAIN emits, RecordEvent(k)
  PROVE  WindowsInv'
<1>1. /\ emits[k].at = "record" /\ Advance(k, "done")
      /\ recorded' = Append(recorded, k)
      /\ UNCHANGED <<joinVars, got, early>>
  BY DEF RecordEvent
<1>2. PICK e : e = [name |-> emits[k].name, data |-> k] /\ HistoryRecord(e)
  BY DEF RecordEvent, EmitID
<1>3. /\ emits \in Seq(Calls) /\ Len(emits) <= MaxEmits /\ Len(emits) \in Nat
      /\ DOMAIN emits = 1 .. Len(emits)
      /\ recorded \in Seq(Nat) /\ Len(recorded) \in Nat /\ DOMAIN recorded = 1 .. Len(recorded)
      /\ \A i \in DOMAIN recorded : recorded[i] \in DOMAIN emits
      /\ HistoryTypeOK /\ count \in 0 .. Size /\ Size \in Nat \ {0}
  BY SizeAssumption DEF WindowsInv, WindowsTypeInv, HistoryTypeOK
<1>4. e \in Event
  <2>1. k \in Payloads
    BY <1>3, WindowsAssumption
  <2>2. emits[k].name \in EventNames
    <3>1. emits[k] \in Calls
      BY <1>3
    <3> QED BY <3>1 DEF Calls
  <2> QED BY <1>2, <2>1, <2>2 DEF Event
<1>5. /\ count' = (IF count < Size THEN count + 1 ELSE count)
      /\ buf'[Back(0)'] = e
      /\ \A i \in 1 .. count' - 1 : /\ i - 1 \in 0 .. count - 1
                                    /\ buf'[Back(i)'] = buf[Back(i - 1)]
  BY <1>2, <1>3, <1>4, RecordShifts
<1>6. HistoryTypeOK'
  BY <1>2, <1>3, <1>4, RecordImplements
<1>7. /\ emits' \in Seq(Calls) /\ Len(emits') = Len(emits) /\ DOMAIN emits' = DOMAIN emits
      /\ emits'[k].at = "done"
      /\ \A j \in DOMAIN emits :
           /\ emits'[j].name = emits[j].name /\ emits'[j].to = emits[j].to
           /\ j # k => emits'[j].at = emits[j].at
  BY <1>1, <1>3, Advanced
<1>8. /\ recorded' \in Seq(Nat) /\ Len(recorded') = Len(recorded) + 1
      /\ DOMAIN recorded' = 1 .. Len(recorded) + 1
      /\ recorded'[Len(recorded) + 1] = k
      /\ \A i \in DOMAIN recorded : recorded'[i] = recorded[i]
  BY <1>1, <1>3
<1>9. /\ \A i \in DOMAIN recorded' : recorded'[i] \in DOMAIN emits'
      /\ \A j \in DOMAIN emits' : emits'[j].at = "look" => emits'[j].to # Everyone
  <2>1. ASSUME NEW i \in DOMAIN recorded' PROVE recorded'[i] \in DOMAIN emits'
    <3>1. i \in DOMAIN recorded \/ i = Len(recorded) + 1
      BY <1>3, <1>8
    <3> QED BY <1>3, <1>7, <1>8, <3>1
  <2>2. \A j \in DOMAIN emits : emits[j].at = "look" => emits[j].to # Everyone
    BY DEF WindowsInv, WindowsTypeInv
  <2>3. \A j \in DOMAIN emits' : emits'[j].at = "look" => emits'[j].to # Everyone
    BY <1>7, <2>2
  <2> QED BY <2>1, <2>3
<1>10. WindowsTypeInv'
  BY <1>1, <1>3, <1>6, <1>7, <1>8, <1>9 DEF WindowsInv, WindowsTypeInv, joinVars, replayVars
<1>11. RingInv'
  <2>1. count <= Len(recorded) /\ (count < Size => count = Len(recorded))
        /\ \A i \in 0 .. count - 1 :
             buf[Back(i)] = [name |-> emits[recorded[Len(recorded) - i]].name,
                             data |-> recorded[Len(recorded) - i]]
    BY DEF WindowsInv, RingInv
  <2>2. count' <= Len(recorded') /\ (count' < Size => count' = Len(recorded'))
    BY <1>3, <1>5, <1>8, <2>1
  <2>3. ASSUME NEW i \in 0 .. count' - 1
        PROVE  buf'[Back(i)'] = [name |-> emits'[recorded'[Len(recorded') - i]].name,
                                 data |-> recorded'[Len(recorded') - i]]
    <3>1. CASE i = 0
      BY <1>2, <1>5, <1>7, <1>8, <3>1
    <3>2. CASE i # 0
      <4>1. i \in 1 .. count' - 1 /\ i - 1 \in 0 .. count - 1
        BY <1>3, <1>5, <3>2
      <4>2. Len(recorded') - i = Len(recorded) - (i - 1)
            /\ Len(recorded') - i \in DOMAIN recorded
        BY <1>3, <1>8, <2>1, <4>1
      <4>3. recorded'[Len(recorded') - i] = recorded[Len(recorded) - (i - 1)]
            /\ recorded[Len(recorded) - (i - 1)] \in DOMAIN emits
        BY <1>3, <1>8, <4>2
      <4>4. emits'[recorded'[Len(recorded') - i]].name
              = emits[recorded[Len(recorded) - (i - 1)]].name
        BY <1>7, <4>3
      <4>5. buf'[Back(i)'] = buf[Back(i - 1)]
        BY <1>5, <4>1
      <4> QED BY <2>1, <4>1, <4>3, <4>4, <4>5
    <3> QED BY <3>1, <3>2
  <2> QED BY <2>2, <2>3 DEF RingInv
<1>12. JoinInv'
  BY <1>1 DEF WindowsInv, JoinInv, joinVars, replayVars
<1>13. SentInv'
  <2>1. \A j \in DOMAIN emits' : emits'[j].at = "record" =>
          j \in DOMAIN emits /\ emits[j].at = "record" /\ emits'[j].to = emits[j].to
    BY <1>7
  <2> QED BY <1>1, <2>1 DEF WindowsInv, SentInv, joinVars, replayVars
<1>14. JoinedInv'
  <2> SUFFICES ASSUME NEW w \in joined', NEW i \in DOMAIN recorded'
               PROVE  NotMissed(w, i)'
    BY DEF JoinedInv
  <2>1. /\ w \in joined /\ w \in windows /\ w \in open /\ w \in WindowIDs
        /\ got' = got /\ early' = early /\ rest' = rest
    BY <1>1 DEF joinVars, replayVars, WindowsInv, WindowsTypeInv, JoinInv
  <2>2. CASE i \in DOMAIN recorded
    <3>1. NotMissed(w, i) /\ recorded'[i] = recorded[i] /\ recorded[i] \in DOMAIN emits
      BY <1>3, <1>8, <2>1, <2>2 DEF WindowsInv, JoinedInv
    <3>2. emits'[recorded'[i]].name = emits[recorded[i]].name
          /\ emits'[recorded'[i]].to = emits[recorded[i]].to
      BY <1>7, <3>1
    <3>3. ASSUME NEW j \in i + 1 .. Len(recorded)
          PROVE  /\ j \in i + 1 .. Len(recorded')
                 /\ emits'[recorded'[j]].name = emits[recorded[j]].name
      <4>1. j \in DOMAIN recorded /\ j \in i + 1 .. Len(recorded')
        BY <1>3, <1>8, <2>2
      <4>2. recorded'[j] = recorded[j] /\ recorded[j] \in DOMAIN emits
        BY <1>3, <1>8, <4>1
      <4> QED BY <1>7, <4>1, <4>2
    <3>4. Len(recorded) - i >= Size => Len(recorded') - i >= Size
      BY <1>3, <1>8, <2>2
    <3> QED BY <2>1, <3>1, <3>2, <3>3, <3>4 DEF NotMissed, Has
  <2>3. CASE i \notin DOMAIN recorded
    <3>1. recorded'[i] = k
      BY <1>3, <1>8, <2>3
    <3>2. emits[k].to \in {w, Everyone} => k \in got[w] \cup early[w]
      BY <1>1, <2>1 DEF WindowsInv, SentInv
    <3>3. emits'[k].to = emits[k].to
      BY <1>7
    <3> QED BY <2>1, <3>1, <3>2, <3>3 DEF NotMissed, Has
  <2> QED BY <2>2, <2>3
<1> QED BY <1>10, <1>11, <1>12, <1>13, <1>14 DEF WindowsInv

LEMMA WindowsInvStep == WindowsInv /\ [WindowsNext]_windowsVars => WindowsInv'
<1> SUFFICES ASSUME WindowsInv, [WindowsNext]_windowsVars PROVE WindowsInv'
  OBVIOUS
<1>1. CASE UNCHANGED windowsVars
  <2>1. UNCHANGED <<emits, recorded, historyVars, open, windows, replay, rest, joined, got, early>>
    BY <1>1 DEF windowsVars, joinVars, replayVars
  <2>2. HistoryTypeOK'
    BY <2>1, RingKept DEF WindowsInv
  <2>3. WindowsTypeInv' /\ JoinInv' /\ SentInv'
    BY <2>1, <2>2 DEF WindowsInv, WindowsTypeInv, JoinInv, SentInv
  <2>4. \A v \in joined', k \in DOMAIN emits : Has(v, k) => Has(v, k)'
    BY <2>1 DEF Has
  <2> QED BY <2>1, <2>3, <2>4, JoinKeeps
<1> QED
  BY <1>1, CallKeeps, RecordEventKeeps, JoinStepKeeps, ReplayAllReadsKeeps DEF WindowsNext

\* However sending and recording interleave with a window that opens, is registered and
\* asks for what it has missed, it has been given, or is about to be, the newest event
\* of each name that the history has room for; only one that was between its sending
\* and its record when the window came may be missing (events.go:66-150).
THEOREM WindowsNothingMissed == WindowsSpec => []NothingMissed
<1>1. WindowsInv => NothingMissed
  BY DEF WindowsInv, JoinedInv, NotMissed, Has, NothingMissed
<1> QED BY <1>1, WindowsInvInit, WindowsInvStep, PTL DEF WindowsSpec
=============================================================================
