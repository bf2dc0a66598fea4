------------------------- MODULE EventHistoryProofs -------------------------
(***************************************************************************)
(* Proofs about module EventHistory, for a ring of any size: what the slots *)
(* of the ring are after a record, and that the ring implements BoundedLog. *)
(***************************************************************************)
EXTENDS EventHistory, TLAPS

LEMMA ModSmall ==
  ASSUME NEW s \in Nat \ {0}, NEW x \in 0 .. s - 1
  PROVE  x % s = x
  BY Z3

LEMMA ModWrap ==
  ASSUME NEW s \in Nat \ {0}, NEW x \in s .. 2 * s - 1
  PROVE  x % s = x - s
  BY Z3

\* The slot i records before the newest, without the remainder.
LEMMA RingSlot ==
  ASSUME NEW s \in Nat \ {0}, NEW p \in 0 .. s - 1, NEW i \in 0 .. s - 1
  PROVE  (p - 1 - i + s) % s = IF i < p THEN p - 1 - i ELSE p - 1 - i + s
<1>1. CASE i < p
  <2>1. p - 1 - i + s \in s .. 2 * s - 1
    BY <1>1
  <2>2. (p - 1 - i + s) % s = p - 1 - i + s - s
    BY <2>1, ModWrap
  <2>3. QED
    BY <1>1, <2>2
<1>2. CASE ~(i < p)
  <2>1. p - 1 - i + s \in 0 .. s - 1
    BY <1>2
  <2>2. QED
    BY <1>2, <2>1, ModSmall
<1>3. QED
  BY <1>1, <1>2

LEMMA NextSlot ==
  ASSUME NEW s \in Nat \ {0}, NEW p \in 0 .. s - 1
  PROVE  (p + 1) % s = IF p + 1 < s THEN p + 1 ELSE 0
<1>1. CASE p + 1 < s
  BY <1>1, ModSmall
<1>2. CASE ~(p + 1 < s)
  <2>1. p + 1 = s /\ s \in s .. 2 * s - 1
    BY <1>2
  <2>2. s % s = s - s
    BY <2>1, ModWrap
  <2>3. QED
    BY <1>2, <2>1, <2>2
<1>3. QED
  BY <1>1, <1>2

\* After a record, the newest slot is the one just written and every other slot
\* is one record older than it was; none of those that count is overwritten.
LEMMA RecordShifts ==
  ASSUME HistoryTypeOK, NEW e \in Event, HistoryRecord(e)
  PROVE  /\ pos' \in 0 .. Size - 1
         /\ count' = (IF count < Size THEN count + 1 ELSE count)
         /\ buf' \in [0 .. Size - 1 -> Event \cup {Zero}]
         /\ buf'[Back(0)'] = e
         /\ \A i \in 1 .. count' - 1 : /\ i - 1 \in 0 .. count - 1
                                       /\ buf'[Back(i)'] = buf[Back(i - 1)]
<1>1. Size \in Nat \ {0} /\ pos \in 0 .. Size - 1 /\ count \in 0 .. Size
  BY SizeAssumption DEF HistoryTypeOK
<1>2. pos' = (pos + 1) % Size
  BY DEF HistoryRecord
<1>3. pos' = IF pos + 1 < Size THEN pos + 1 ELSE 0
  BY <1>1, <1>2, NextSlot
<1>4. pos' \in 0 .. Size - 1
  BY <1>1, <1>3
<1>5. /\ buf \in [0 .. Size - 1 -> Event \cup {Zero}]
      /\ buf' = [buf EXCEPT ![pos] = e]
      /\ count' = IF count < Size THEN count + 1 ELSE count
  BY DEF HistoryRecord, HistoryTypeOK
<1>6. ASSUME NEW i \in 0 .. Size - 1
      PROVE  /\ Back(i) = IF i < pos THEN pos - 1 - i ELSE pos - 1 - i + Size
             /\ Back(i)' = IF i < pos' THEN pos' - 1 - i ELSE pos' - 1 - i + Size
  <2>1. Back(i) = (pos - 1 - i + Size) % Size
        /\ Back(i)' = (pos' - 1 - i + Size) % Size
    BY DEF Back
  <2>2. (pos - 1 - i + Size) % Size = IF i < pos THEN pos - 1 - i ELSE pos - 1 - i + Size
    BY <1>1, RingSlot
  <2>3. (pos' - 1 - i + Size) % Size =
          IF i < pos' THEN pos' - 1 - i ELSE pos' - 1 - i + Size
    BY <1>1, <1>4, RingSlot
  <2>4. QED
    BY <2>1, <2>2, <2>3
<1>7. buf'[Back(0)'] = e
  <2>1. Back(0)' = pos
    BY <1>1, <1>3, <1>6
  <2>2. QED
    BY <1>1, <1>5, <2>1
<1>8. ASSUME NEW i \in 1 .. count' - 1
      PROVE  i - 1 \in 0 .. count - 1 /\ buf'[Back(i)'] = buf[Back(i - 1)]
  <2>1. i \in 1 .. Size - 1 /\ i - 1 \in 0 .. count - 1 /\ i - 1 \in 0 .. Size - 1
    BY <1>1, <1>5
  <2>2. Back(i - 1) = IF i - 1 < pos THEN pos - i ELSE pos - i + Size
    BY <1>1, <1>6, <2>1
  <2>3. Back(i)' = IF i < pos' THEN pos' - 1 - i ELSE pos' - 1 - i + Size
    BY <1>6, <2>1
  <2>4. Back(i)' = Back(i - 1) /\ Back(i - 1) # pos /\ Back(i - 1) \in 0 .. Size - 1
    BY <1>1, <1>3, <2>1, <2>2, <2>3
  <2>5. QED
    BY <1>5, <2>1, <2>4
<1>9. QED
  BY <1>1, <1>4, <1>5, <1>7, <1>8

\* The ring, read in order, changes as BoundedLog says, and keeps its type.
LEMMA RecordImplements ==
  ASSUME HistoryTypeOK, NEW e \in Event, HistoryRecord(e)
  PROVE  HistoryTypeOK' /\ Log!Record(e)
<1>1. /\ pos' \in 0 .. Size - 1
      /\ count' = (IF count < Size THEN count + 1 ELSE count)
      /\ buf' \in [0 .. Size - 1 -> Event \cup {Zero}]
      /\ buf'[Back(0)'] = e
      /\ \A i \in 1 .. count' - 1 : /\ i - 1 \in 0 .. count - 1
                                    /\ buf'[Back(i)'] = buf[Back(i - 1)]
  BY RecordShifts
<1>2. /\ Size \in Nat \ {0} /\ count \in 0 .. Size
      /\ \A i \in 0 .. count - 1 : buf[Back(i)] \in Event
  BY SizeAssumption DEF HistoryTypeOK
<1>3. HistoryTypeOK'
  <2>1. ASSUME NEW i \in 0 .. count' - 1 PROVE buf'[Back(i)'] \in Event
    <3>1. CASE i = 0
      BY <1>1, <3>1
    <3>2. CASE i # 0
      BY <1>1, <1>2, <3>2
    <3>3. QED
      BY <3>1, <3>2
  <2>2. QED
    BY <1>1, <1>2, <2>1 DEF HistoryTypeOK
<1>4. HistoryLog \in Seq(Event) /\ Len(HistoryLog) = count
  BY <1>2 DEF HistoryLog
<1>5. HistoryLog' \in Seq(Event) /\ Len(HistoryLog') = count'
  BY <1>1, <1>2, <1>3 DEF HistoryLog, HistoryTypeOK
<1>6. \A k \in 1 .. count : HistoryLog[k] = buf[Back(count - k)]
  BY DEF HistoryLog
<1>7. ASSUME NEW k \in 1 .. count', NEW j \in Int, j = count' - k
      PROVE  HistoryLog'[k] = buf'[Back(j)']
  BY <1>7 DEF HistoryLog, Back
<1>8. HistoryLog'[count'] = e
  <2>1. count' \in 1 .. count' /\ 0 = count' - count'
    <3>1. \A c \in Nat \ {0} : c \in 1 .. c /\ 0 = c - c
      OBVIOUS
    <3>2. count' \in Nat \ {0}
      BY <1>1, <1>2
    <3>3. QED
      BY <3>1, <3>2, Zenon
  <2>2. PICK k \in 1 .. count' : k = count' /\ 0 = count' - k
    BY <2>1, Zenon
  <2>3. HistoryLog'[k] = buf'[Back(0)']
    BY <1>7, <2>2, 0 \in Int
  <2>4. QED
    BY <1>1, <2>2, <2>3
<1>9. HistoryLog' = Log!Kept(Append(HistoryLog, e))
  <2>1. CASE count < Size
    <3>1. count' = count + 1
      BY <1>1, <2>1
    <3>2. ASSUME NEW k \in 1 .. count PROVE HistoryLog'[k] = HistoryLog[k]
      <4>1. PICK j \in 1 .. count' - 1 : j = count' - k /\ j - 1 = count - k
        BY <1>2, <3>1
      <4>2. HistoryLog'[k] = buf'[Back(j)']
        BY <1>2, <1>7, <3>1, <4>1
      <4>3. QED
        BY <1>1, <1>6, <4>1, <4>2
    <3>3. HistoryLog' = Append(HistoryLog, e)
      BY <1>2, <1>4, <1>5, <1>8, <3>1, <3>2
    <3>4. QED
      BY <1>2, <1>4, <2>1, <3>3 DEF Log!Kept
  <2>2. CASE ~(count < Size)
    <3>1. count' = Size /\ count = Size
      BY <1>1, <1>2, <2>2
    <3>2. ASSUME NEW k \in 1 .. Size - 1 PROVE HistoryLog'[k] = HistoryLog[k + 1]
      <4>1. PICK j \in 1 .. count' - 1 : j = count' - k /\ j - 1 = count - (k + 1)
        BY <1>2, <3>1
      <4>2. HistoryLog'[k] = buf'[Back(j)']
        BY <1>2, <1>7, <3>1, <4>1
      <4>3. k + 1 \in 1 .. count
        BY <1>2, <3>1
      <4>4. QED
        BY <1>1, <1>6, <4>1, <4>2, <4>3
    <3>3. DEFINE s == Append(HistoryLog, e)
    <3>4. s \in Seq(Event) /\ Len(s) = Size + 1 /\ s[Size + 1] = e
          /\ \A k \in 1 .. Size : s[k] = HistoryLog[k]
      BY <1>2, <1>4, <3>1
    <3>5. Log!Kept(s) = SubSeq(s, 2, Size + 1)
      BY <1>2, <3>4 DEF Log!Kept
    <3>6. HistoryLog' = SubSeq(s, 2, Size + 1)
      BY <1>2, <1>5, <1>8, <3>1, <3>2, <3>4
    <3>7. QED
      BY <3>5, <3>6
  <2>3. QED
    BY <2>1, <2>2
<1>10. QED
  BY <1>3, <1>9 DEF Log!Record

LEMMA HistoryStarts == HistoryInit => HistoryTypeOK /\ Log!Init
<1> SUFFICES ASSUME HistoryInit PROVE HistoryTypeOK /\ Log!Init
  OBVIOUS
<1>1. HistoryTypeOK
  BY SizeAssumption DEF HistoryInit, HistoryTypeOK
<1>2. HistoryLog = <<>>
  BY DEF HistoryInit, HistoryLog
<1>3. QED
  BY <1>1, <1>2 DEF Log!Init

LEMMA HistoryStutters ==
  ASSUME UNCHANGED historyVars PROVE UNCHANGED HistoryLog /\ (HistoryTypeOK' <=> HistoryTypeOK)
  BY DEF historyVars, HistoryLog, HistoryTypeOK, Back

\* The history keeps its type: every slot that counts holds an event.
THEOREM HistoryTypeCorrect == HistorySpec => []HistoryTypeOK
<1>1. HistoryInit => HistoryTypeOK
  BY HistoryStarts
<1>2. HistoryTypeOK /\ [HistoryNext]_historyVars => HistoryTypeOK'
  BY RecordImplements, HistoryStutters DEF HistoryNext
<1>3. QED
  BY <1>1, <1>2, PTL DEF HistorySpec

\* For a ring of any size, the history (history.go) is the last Size events.
THEOREM HistoryImplements == HistorySpec => ImplementsBoundedLog
<1>1. HistoryInit => Log!Init
  BY HistoryStarts
<1>2. HistoryTypeOK /\ [HistoryNext]_historyVars => [Log!Next]_HistoryLog
  BY RecordImplements, HistoryStutters DEF HistoryNext, Log!Next
<1>3. QED
  BY <1>1, <1>2, HistoryTypeCorrect, PTL DEF HistorySpec, ImplementsBoundedLog, Log!Spec
=============================================================================
