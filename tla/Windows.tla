------------------------------- MODULE Windows -------------------------------
(***************************************************************************)
(* The windows of an Emitter (events/events.go): Emit and EmitTo, each     *)
(* call in a goroutine of its own, which send an event and record it in    *)
(* the history in two steps, and a window that joins: it opens, and from   *)
(* then on gets what is broadcast; it is registered, and gets what is sent *)
(* to it; and Replay or ReplayAll give it what it has missed.  Middleware *)
(* and handlers have modules of their own.                                 *)
(***************************************************************************)
EXTENDS EventHistory

CONSTANTS
  WindowIDs,   \* windows that are opened
  Elsewhere,   \* one that is not
  Everyone,    \* stands for a broadcast: the empty ID
  MaxEmits     \* bound: the calls of Emit and EmitTo, which are the payloads

ASSUME WindowsAssumption ==
  /\ MaxEmits \in Nat /\ Payloads = 1 .. MaxEmits
  /\ {Elsewhere, Everyone} \cap WindowIDs = {} /\ Elsewhere # Everyone

VARIABLES
  emits,     \* the calls of Emit and EmitTo: name, window and how far each is
  open,      \* windows that get what is broadcast
  windows,   \* e.windows
  replay,    \* window -> where its Replay or ReplayAll is
  rest,      \* window -> the records it is about to be given
  joined,    \* history: windows registered since a ReplayAll read the history
  got,       \* history: window -> the payloads it was given
  recorded,  \* history: the payloads in the order in which they were recorded
  early      \* history: window -> those sent but not recorded when it came

replayVars == <<replay, rest, joined>>
joinVars == <<open, windows, replayVars>>
windowsVars == <<emits, joinVars, got, recorded, early, historyVars>>

WindowsInit ==
  /\ HistoryInit
  /\ emits = <<>>
  /\ open = {} /\ windows = {}
  /\ replay = [w \in WindowIDs |-> "none"]
  /\ rest = [w \in WindowIDs |-> {}]
  /\ joined = {}
  /\ got = [w \in WindowIDs |-> {}]
  /\ recorded = <<>>
  /\ early = [w \in WindowIDs |-> {}]

EmitID(k) == [name |-> emits[k].name, data |-> k]

\* The backend of all windows, or of one, gets the event.
Sent(e, to) ==
  got' = [w \in WindowIDs |->
    IF w = to \/ (to = Everyone /\ w \in open) THEN got[w] \cup {e.data} ELSE got[w]]

Advance(k, at) == emits' = [emits EXCEPT ![k].at = at]
-----------------------------------------------------------------------------
(* Emit and EmitTo *)

\* A goroutine calls one of them.
CallEmit ==
  /\ Len(emits) < MaxEmits
  /\ \E n \in EventNames, to \in WindowIDs \cup {Elsewhere, Everyone} :
       emits' = Append(emits, [name |-> n, to |-> to,
                               at |-> IF to = Everyone THEN "send" ELSE "look"])
  /\ UNCHANGED <<joinVars, got, recorded, early, historyVars>>

\* EmitTo looks the window up under the lock, and sends the event after releasing it.
LookUp(k) ==
  /\ emits[k].at = "look"
  /\ Advance(k, IF emits[k].to \in windows THEN "send" ELSE "record")
  /\ UNCHANGED <<joinVars, got, recorded, early, historyVars>>

Send(k) ==
  /\ emits[k].at = "send"
  /\ Sent(EmitID(k), emits[k].to)
  /\ Advance(k, "record")
  /\ UNCHANGED <<joinVars, recorded, early, historyVars>>

\* Mutant of RecordEvent: an event for a window that is not there is not recorded.
RecordUnlessDropped(k) ==
  /\ emits[k].at = "record"
  /\ IF emits[k].to \in windows \cup {Everyone} THEN HistoryRecord(EmitID(k))
                                                 ELSE UNCHANGED historyVars
  /\ recorded' = Append(recorded, k)
  /\ Advance(k, "done")
  /\ UNCHANGED <<joinVars, got, early>>

RecordEvent(k) ==
  /\ emits[k].at = "record"
  /\ HistoryRecord(EmitID(k))
  /\ recorded' = Append(recorded, k)
  /\ Advance(k, "done")
  /\ UNCHANGED <<joinVars, got, early>>
-----------------------------------------------------------------------------
(* A window that joins *)

\* The events that are between their sending and their record.
Between == {k \in DOMAIN emits : emits[k].at = "record"}
Came(w) == early' = [early EXCEPT ![w] = @ \cup Between]

Open(w) ==
  /\ w \notin open
  /\ open' = open \cup {w}
  /\ Came(w)
  /\ UNCHANGED <<emits, windows, replayVars, got, recorded, historyVars>>

RegisterWindow(w) ==
  /\ w \in open \ windows
  /\ windows' = windows \cup {w}
  /\ Came(w)
  /\ UNCHANGED <<emits, open, replayVars, got, recorded, historyVars>>

UnregisterWindow(w) ==
  /\ w \in windows
  /\ windows' = windows \ {w}
  /\ joined' = joined \ {w}
  /\ UNCHANGED <<emits, open, replay, rest, got, recorded, early, historyVars>>

\* Replay finds the newest record of a name, and looks the window up after that.
Replay(w) ==
  /\ replay[w] = "none"
  /\ \E n \in EventNames : Last(n) # {} /\ rest' = [rest EXCEPT ![w] = Last(n)]
  /\ replay' = [replay EXCEPT ![w] = "found"]
  /\ UNCHANGED <<emits, open, windows, joined, got, recorded, early, historyVars>>

ReplayLooksUp(w) ==
  /\ replay[w] = "found"
  /\ IF w \in windows
     THEN replay' = [replay EXCEPT ![w] = "giving"] /\ UNCHANGED rest
     ELSE /\ replay' = [replay EXCEPT ![w] = "none"]
          /\ rest' = [rest EXCEPT ![w] = {}]
  /\ UNCHANGED <<emits, open, windows, joined, got, recorded, early, historyVars>>

\* ReplayAll looks the window up, and reads the history after that.
ReplayAll(w) ==
  /\ replay[w] = "none"
  /\ w \in windows
  /\ replay' = [replay EXCEPT ![w] = "all"]
  /\ UNCHANGED <<emits, open, windows, rest, joined, got, recorded, early, historyVars>>

ReplayAllReads(w) ==
  /\ replay[w] = "all"
  /\ replay' = [replay EXCEPT ![w] = "giving"]
  /\ rest' = [rest EXCEPT ![w] = Latest]
  /\ joined' = joined \cup ({w} \cap windows)
  /\ UNCHANGED <<emits, open, windows, got, recorded, early, historyVars>>

\* The records are given in any order, a map's.
Give(w) ==
  /\ replay[w] = "giving"
  /\ \E e \in rest[w] :
       /\ Sent(e, w)
       /\ rest' = [rest EXCEPT ![w] = @ \ {e}]
  /\ UNCHANGED <<emits, open, windows, replay, joined, recorded, early, historyVars>>

ReplayEnds(w) ==
  /\ replay[w] = "giving" /\ rest[w] = {}
  /\ replay' = [replay EXCEPT ![w] = "none"]
  /\ UNCHANGED <<emits, open, windows, rest, joined, got, recorded, early, historyVars>>
-----------------------------------------------------------------------------
WindowsNext ==
  \/ CallEmit
  \/ \E k \in DOMAIN emits : LookUp(k) \/ Send(k) \/ RecordEvent(k)
  \/ \E w \in WindowIDs :
       \/ Open(w) \/ RegisterWindow(w) \/ UnregisterWindow(w)
       \/ Replay(w) \/ ReplayLooksUp(w)
       \/ ReplayAll(w) \/ ReplayAllReads(w)
       \/ Give(w) \/ ReplayEnds(w)

WindowsSpec == WindowsInit /\ [][WindowsNext]_windowsVars
-----------------------------------------------------------------------------
(* Properties *)

\* A window that joined has got, or is about to be given, the newest event of each name
\* that the history has room for and that is broadcast or for this window; only one
\* that was between its sending and its record when the window came may be missing.
NothingMissed ==
  \A w \in joined : \A i \in DOMAIN recorded :
    LET k == recorded[i] IN
      \/ emits[k].to \notin {w, Everyone}
      \/ k \in got[w] \cup {e.data : e \in rest[w]} \cup early[w]
      \/ Len(recorded) - i >= Size
      \/ \E j \in i + 1 .. Len(recorded) : emits[recorded[j]].name = emits[k].name
=============================================================================
