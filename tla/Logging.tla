------------------------------ MODULE Logging ------------------------------
(***************************************************************************)
(* The logger (logging/logger.go) and the handler that redacts sensitive   *)
(* fields (logging/redact.go): the global logger, which Init sets and the  *)
(* first Get initializes when nobody has, and the loggers that WithFields  *)
(* and WithGroup derive from it.  The fields of a derived logger are a Go  *)
(* slice: an array, which other loggers may share, and a length.  A field  *)
(* is a key and a value, a line is the fields it shows; levels, rotation   *)
(* and the JSON of a line are left out.                                    *)
(***************************************************************************)
EXTENDS Integers, Sequences

CONSTANTS
  Loggers,        \* the loggers the application derives, each once
  Root,           \* stands for what Get returns
  Derivation,     \* logger -> the one it comes from, and its fields or a group
  Keys, Values,   \* what fields have; "" is the empty text
  SensitiveKeys,  \* config.SensitiveKeys
  Records,        \* the fields that a call of Info brings along
  MaxLogged        \* bound: the lines logged

Field == [key : Keys, value : Values \cup {"[REDACTED]"}]

ASSUME LoggingAssumption ==
  /\ Root \notin Loggers
  /\ SensitiveKeys \subseteq Keys
  /\ Records \subseteq Seq([key : Keys, value : Values])
  /\ Derivation \in [Loggers -> [from : Loggers \cup {Root}, group : BOOLEAN,
                                 fields : Seq([key : Keys, value : Values])]]
  /\ MaxLogged \in Nat

VARIABLES
  global,    \* defaultLogger
  once,      \* where the first Get is: initOnce
  inited,    \* history: Init has returned, the last time with sensitive keys
  raced,     \* history: it did so last between Get's test and Get's own Init
  handler,   \* logger -> its handler, once derived
  slots,     \* logger -> the array that was allocated when it was derived
  asked,     \* history: logger -> the fields it and its parents were given
  governed,  \* history: loggers got when inited and not raced
  log        \* the lines of app.log

\* What a logger writes to: app.log through the redacting handler or not, or stderr.
Kinds == {"none", "redacting", "plain", "stderr"}

globalVars == <<global, once, inited, raced>>
handlerVars == <<handler, slots, asked, governed>>
loggingVars == <<globalVars, handlerVars, log>>

\* No handler: the logger is not derived yet.
Underived == [kind |-> "none", array |-> Root, len |-> 0, cap |-> 0, groups |-> -1]
Derived == {l \in Loggers : handler[l] # Underived}

LoggingInit ==
  /\ global = "none" /\ once = "new" /\ inited = FALSE /\ raced = FALSE
  /\ handler = [l \in Loggers |-> Underived]
  /\ slots = [l \in Loggers |-> <<>>]
  /\ asked = [l \in Loggers |-> <<>>]
  /\ governed = {}
  /\ log = <<>>
-----------------------------------------------------------------------------
(* The global logger *)

\* Init, with the sensitive keys or with none, at any time and again; it may fail before
\* it sets any.
AppInit ==
  /\ \/ global' = "redacting" /\ inited' = TRUE
     \/ global' = "plain" /\ inited' = FALSE
  /\ raced' = (once = "tested")
  /\ UNCHANGED <<once, handlerVars, log>>

\* Mutant of GetTests: the first Get does not ask.
GetDoesNotTest ==
  /\ once = "new"
  /\ once' = "tested"
  /\ UNCHANGED <<global, inited, raced, handlerVars, log>>

\* The first Get, inside initOnce.Do: is there a logger already?
GetTests ==
  /\ once = "new"
  /\ once' = IF global = "none" THEN "tested" ELSE "done"
  /\ UNCHANGED <<global, inited, raced, handlerVars, log>>

\* There was none: Get's own Init, without sensitive keys, or, when that fails,
\* slog's default logger, which writes no file.
GetInits ==
  /\ once = "tested"
  /\ global' \in {"plain", "stderr"}
  /\ once' = "done"
  /\ UNCHANGED <<inited, raced, handlerVars, log>>
-----------------------------------------------------------------------------
(* Derived loggers *)

\* Mutant of redactAttr: a sensitive value is hidden only when it is long.
redactAttrLong(f) ==
  IF f.key \in SensitiveKeys /\ f.value \notin {"", "short"}
  THEN [f EXCEPT !.value = "[REDACTED]"] ELSE f

redactAttr(f) ==
  IF f.key \in SensitiveKeys /\ f.value # ""
  THEN [f EXCEPT !.value = "[REDACTED]"] ELSE f

redactAll(fields) == [k \in DOMAIN fields |-> redactAttr(fields[k])]

\* The handler of the global logger: it has no fields.
RootHandler ==
  [kind |-> global, array |-> Root, len |-> 0, cap |-> 0, groups |-> 0]

Parent(l) ==
  LET p == Derivation[l].from IN IF p = Root THEN RootHandler ELSE handler[p]

Ready(l) ==
  /\ handler[l] = Underived
  /\ IF Derivation[l].from = Root THEN once = "done" ELSE Derivation[l].from \in Derived

\* The logger comes from a Get that such an Init came before, or from a logger that did.
Governed(l) ==
  LET p == Derivation[l].from IN IF p = Root THEN inited /\ ~ raced ELSE p \in governed

\* What a logger has by the logger it is derived from, and the fields it is given.
Remember(l, fields) ==
  LET p == Derivation[l].from
  IN  /\ asked' = [asked EXCEPT ![l] = (IF p = Root THEN <<>> ELSE asked[p]) \o fields]
      /\ governed' = governed \cup {k \in {l} : Governed(k)}

\* The fields that a slice shows.
Shown(h) == IF h.len = 0 THEN <<>> ELSE SubSeq(slots[h.array], 1, h.len)

\* The fields a logger is given, and the length of its slice with them.
Given(l) ==
  IF Parent(l).kind = "redacting" THEN redactAll(Derivation[l].fields) ELSE Derivation[l].fields
Needed(l) == Parent(l).len + Len(Given(l))

\* append while the capacity lasts: the fields go into the parent's array.
AppendInPlace(l) ==
  LET p == Parent(l)
  IN  /\ Ready(l) /\ ~ Derivation[l].group
      /\ p.kind = "redacting" /\ Needed(l) <= p.cap
      /\ slots' = [slots EXCEPT ![p.array] = SubSeq(@, 1, p.len) \o Given(l)
                                               \o SubSeq(@, Needed(l) + 1, Len(@))]
      /\ handler' = [handler EXCEPT ![l] = [p EXCEPT !.len = Needed(l)]]
      /\ Remember(l, Given(l))
      /\ UNCHANGED <<globalVars, log>>

\* append beyond the capacity: the fields are copied into an array at least twice as
\* large.  slog's own handlers, which do not redact, always copy.
AppendCopies(l) ==
  LET p == Parent(l)
  IN  /\ Ready(l) /\ ~ Derivation[l].group
      /\ p.kind # "redacting" \/ Needed(l) > p.cap
      /\ slots' = [slots EXCEPT ![l] = Shown(p) \o Given(l)]
      /\ handler' = [handler EXCEPT ![l] =
           [p EXCEPT !.array = l, !.len = Needed(l),
                     !.cap = IF Needed(l) > 2 * @ THEN Needed(l) ELSE 2 * @]]
      /\ Remember(l, Given(l))
      /\ UNCHANGED <<globalVars, log>>

\* The inner handler opens the group, so that it holds earlier fields as well.
WithGroup(l) ==
  /\ Ready(l)
  /\ Derivation[l].group
  /\ handler' = [handler EXCEPT ![l] = [Parent(l) EXCEPT !.groups = @ + 1]]
  /\ Remember(l, <<>>)
  /\ UNCHANGED <<globalVars, slots, log>>

\* Mutant of Line: the fields of the call are not looked at.
LineUnseen(l, record) ==
  [by |-> l, groups |-> handler[l].groups, fields |-> Shown(handler[l]) \o record]

\* Handle: the logger's fields, redacted before, and those of the call.
Line(l, record) ==
  [by |-> l, groups |-> handler[l].groups,
   fields |-> Shown(handler[l]) \o
                IF handler[l].kind = "redacting" THEN redactAll(record) ELSE record]

Info(l, record) ==
  /\ l \in Derived
  /\ Len(log) < MaxLogged
  /\ log' = IF handler[l].kind = "stderr" THEN log ELSE Append(log, Line(l, record))
  /\ UNCHANGED <<globalVars, handlerVars>>

LoggingNext ==
  \/ AppInit \/ GetTests \/ GetInits
  \/ \E l \in Loggers :
       \/ AppendInPlace(l) \/ AppendCopies(l) \/ WithGroup(l)
       \/ \E record \in Records : Info(l, record)

LoggingSpec == LoggingInit /\ [][LoggingNext]_loggingVars
-----------------------------------------------------------------------------
(* Properties *)

Handler == [kind : Kinds, array : Loggers \cup {Root}, len : Nat, cap : Nat,
            groups : Nat \cup {-1}]

LoggingTypeOK ==
  /\ global \in Kinds
  /\ once \in {"new", "tested", "done"}
  /\ inited \in BOOLEAN /\ raced \in BOOLEAN
  /\ handler \in [Loggers -> Handler]
  /\ slots \in [Loggers -> Seq(Field)]
  /\ asked \in [Loggers -> Seq(Field)]
  /\ governed \subseteq Loggers
  /\ log \in Seq([by : Loggers, groups : Nat, fields : Seq(Field)])

\* A field that shows what it should not.
Exposed(f) == f.key \in SensitiveKeys /\ f.value \notin {"", "[REDACTED]"}

\* No line of a logger that comes from a Get after an Init with sensitive keys, the last
\* Init there was, shows a sensitive value, whatever loggers share their fields with it,
\* unless the first Get of all was between its test and its own Init when that Init set
\* the logger: Get then puts a logger that redacts nothing in its place.
NoSecretLogged ==
  \A i \in DOMAIN log : log[i].by \in governed =>
    \A k \in DOMAIN log[i].fields : ~ Exposed(log[i].fields[k])

\* "WithFields returns a new logger with preset fields" (logger.go:144): a logger
\* shows the fields it was derived with.
FieldsKept == \A l \in Derived : Shown(handler[l]) = asked[l]
=============================================================================
