-------------------------- MODULE DiagnosticsProofs --------------------------
(***************************************************************************)
(* Proofs about the logger, module Logging, for any loggers, however       *)
(* derived from each other, any fields and any sensitive keys; and about   *)
(* the bundles that hold its logs, modules Bundle and Webhook, for any     *)
(* limits and any number of bundles and retries.                           *)
(***************************************************************************)
EXTENDS Logging, Bundle, Webhook, FiniteSetTheorems, SequenceTheorems, TLAPS

(* Logging: no logger of a Get that Init came before shows a sensitive value. *)

CleanField == {f \in Field : ~ Exposed(f)}

\* Once Init has returned the global logger redacts, unless the first Get was between
\* its test and its own Init.
GlobalInv ==
  /\ once = "done" => global # "none"
  /\ inited => global # "none"
  /\ inited /\ once = "tested" => raced
  /\ inited /\ ~ raced => global = "redacting"

\* What is said of a logger's handler: the fields it shows are in its array, and an array
\* that redacting loggers share holds nothing sensitive, up to its end.
GoodHandler(h) ==
  /\ h.kind # "none" /\ h.groups \in Nat
  /\ h.array \in Derived \cup {Root}
  /\ h.array = Root => h.len = 0 /\ h.cap = 0
  /\ h.array # Root => h.len <= Len(slots[h.array])
  /\ h.array # Root /\ h.kind = "redacting" => slots[h.array] \in Seq(CleanField)

HandlersInv == \A l \in Loggers : handler[l] # Underived => GoodHandler(handler[l])

GovernedInv == \A l \in governed : handler[l] # Underived /\ handler[l].kind = "redacting"

LogInv ==
  \A i \in DOMAIN log :
    /\ handler[log[i].by] # Underived
    /\ log[i].by \in governed => log[i].fields \in Seq(CleanField)

LoggingInv == LoggingTypeOK /\ GlobalInv /\ HandlersInv /\ GovernedInv /\ LogInv

LEMMA LoggingInvInit == LoggingInit => LoggingInv
<1> SUFFICES ASSUME LoggingInit PROVE LoggingInv
  OBVIOUS
<1>1. LoggingTypeOK
  <2>1. Underived \in Handler
    BY DEF Underived, Handler, Kinds
  <2>2. handler \in [Loggers -> Handler]
    BY <2>1 DEF LoggingInit
  <2>3. slots \in [Loggers -> Seq(Field)] /\ asked \in [Loggers -> Seq(Field)]
    BY DEF LoggingInit
  <2>4. log \in Seq([by : Loggers, groups : Nat, fields : Seq(Field)])
    BY DEF LoggingInit
  <2> QED BY <2>2, <2>3, <2>4 DEF LoggingInit, LoggingTypeOK, Kinds
<1>2. GlobalInv /\ HandlersInv /\ GovernedInv /\ LogInv
  BY DEF LoggingInit, GlobalInv, HandlersInv, GovernedInv, LogInv
<1> QED BY <1>1, <1>2 DEF LoggingInv

-----------------------------------------------------------------------------
(* Fields *)

LEMMA SeqOfMore ==
  ASSUME NEW S, NEW T, S \subseteq T
  PROVE  Seq(S) \subseteq Seq(T)
OBVIOUS

LEMMA RedactedIsClean ==
  ASSUME NEW fs \in Seq([key : Keys, value : Values])
  PROVE  redactAll(fs) \in Seq(CleanField) /\ Len(redactAll(fs)) = Len(fs)
<1>1. ASSUME NEW f \in [key : Keys, value : Values]
      PROVE  redactAttr(f) \in CleanField
  <2>1. CASE f.key \in SensitiveKeys /\ f.value # ""
    <3>1. redactAttr(f) = [key |-> f.key, value |-> "[REDACTED]"]
      BY <2>1 DEF redactAttr
    <3>2. redactAttr(f) \in Field /\ redactAttr(f).value = "[REDACTED]"
      BY <3>1 DEF Field
    <3> QED BY <3>2 DEF CleanField, Exposed
  <2>2. CASE ~ (f.key \in SensitiveKeys /\ f.value # "")
    <3>1. redactAttr(f) = f
      BY <2>2 DEF redactAttr
    <3> QED BY <2>2, <3>1 DEF CleanField, Exposed, Field
  <2> QED BY <2>1, <2>2
<1>2. \A k \in 1 .. Len(fs) : fs[k] \in [key : Keys, value : Values]
  BY ElementOfSeq
<1>3. redactAll(fs) = [k \in 1 .. Len(fs) |-> redactAttr(fs[k])]
  BY DEF redactAll
<1>4. \A k \in 1 .. Len(fs) : redactAttr(fs[k]) \in CleanField
  BY <1>1, <1>2
<1> HIDE DEF redactAttr
<1> QED BY <1>3, <1>4

LEMMA GivenFields ==
  ASSUME NEW l \in Loggers
  PROVE  /\ Given(l) \in Seq(Field)
         /\ Parent(l).kind = "redacting" => Given(l) \in Seq(CleanField)
<1>1. Derivation[l].fields \in Seq([key : Keys, value : Values])
  BY LoggingAssumption
<1>2. redactAll(Derivation[l].fields) \in Seq(CleanField)
  BY <1>1, RedactedIsClean
<1>3. [key : Keys, value : Values] \subseteq Field /\ CleanField \subseteq Field
  BY DEF Field, CleanField
<1>4. /\ Seq([key : Keys, value : Values]) \subseteq Seq(Field)
      /\ Seq(CleanField) \subseteq Seq(Field)
  BY <1>3, SeqOfMore
<1> QED BY <1>1, <1>2, <1>4 DEF Given

\* What a slice shows of its array.
LEMMA PrefixTyped ==
  ASSUME NEW S, NEW s \in Seq(S), NEW n \in Nat, n <= Len(s)
  PROVE  SubSeq(s, 1, n) \in Seq(S) /\ Len(SubSeq(s, 1, n)) = n
<1>1. \A i \in 1 .. n : s[i] \in S
  BY ElementOfSeq
<1> QED BY <1>1, SubSeqProperties

\* What append does to an array when it does not copy.
LEMMA Overwritten ==
  ASSUME NEW S, NEW s \in Seq(S), NEW t \in Seq(S), NEW n \in Nat, n <= Len(s)
  PROVE  LET r == SubSeq(s, 1, n) \o t \o SubSeq(s, n + Len(t) + 1, Len(s))
         IN  r \in Seq(S) /\ Len(r) >= Len(s) /\ Len(r) >= n + Len(t)
<1>1. PICK a : a = SubSeq(s, 1, n)
  OBVIOUS
<1>2. PICK b : b = SubSeq(s, n + Len(t) + 1, Len(s))
  OBVIOUS
<1>3. a \in Seq(S) /\ Len(a) = n
  BY <1>1, PrefixTyped
<1>4. /\ b \in Seq(S)
      /\ Len(b) = IF n + Len(t) + 1 <= Len(s) THEN Len(s) - (n + Len(t) + 1) + 1 ELSE 0
  <2>1. \A i \in n + Len(t) + 1 .. Len(s) : s[i] \in S
    BY ElementOfSeq
  <2>2. n + Len(t) + 1 \in Int /\ Len(s) \in Int
    OBVIOUS
  <2> QED BY <1>2, <2>1, <2>2, SubSeqProperties
<1>5. a \o t \o b \in Seq(S) /\ Len(a \o t \o b) = Len(a) + Len(t) + Len(b)
  <2>1. a \in Seq(S) /\ t \in Seq(S) /\ b \in Seq(S)
    BY <1>3, <1>4
  <2>2. PICK c : c = a \o t
    OBVIOUS
  <2>3. c \in Seq(S) /\ Len(c) = Len(a) + Len(t)
    BY <2>1, <2>2, ConcatProperties
  <2>4. c \o b \in Seq(S) /\ Len(c \o b) = Len(c) + Len(b)
    BY <2>1, <2>3, ConcatProperties
  <2> QED BY <2>2, <2>3, <2>4
<1>6. Len(a) + Len(t) + Len(b) >= Len(s) /\ Len(a) + Len(t) + Len(b) >= n + Len(t)
  <2>1. Len(t) \in Nat /\ Len(s) \in Nat
    OBVIOUS
  <2>2. CASE n + Len(t) + 1 <= Len(s)
    BY <1>3, <1>4, <2>1, <2>2
  <2>3. CASE ~ (n + Len(t) + 1 <= Len(s))
    BY <1>3, <1>4, <2>1, <2>3
  <2> QED BY <2>2, <2>3
<1> QED BY <1>1, <1>2, <1>5, <1>6
-----------------------------------------------------------------------------
(* Steps *)

\* The logger that another is derived from.
LEMMA ParentFacts ==
  ASSUME LoggingInv, NEW l \in Loggers, Ready(l)
  PROVE  /\ Parent(l) \in Handler /\ GoodHandler(Parent(l))
         /\ Governed(l) => Parent(l).kind = "redacting"
<1> DEFINE p == Derivation[l].from
<1>0. p \in Loggers \cup {Root}
  BY LoggingAssumption
<1>1. CASE p = Root
  <2>1. once = "done" /\ Parent(l) = RootHandler
    BY <1>1 DEF Ready, Parent
  <2>2. global \in Kinds /\ global # "none"
    BY <2>1 DEF LoggingInv, GlobalInv, LoggingTypeOK
  <2>3. RootHandler \in Handler /\ RootHandler.kind = global /\ RootHandler.groups = 0
        /\ RootHandler.array = Root /\ RootHandler.len = 0 /\ RootHandler.cap = 0
    BY <2>2 DEF RootHandler, Handler
  <2>4. GoodHandler(RootHandler)
    BY <2>2, <2>3 DEF GoodHandler
  <2>5. Governed(l) => global = "redacting"
    BY <1>1 DEF Governed, LoggingInv, GlobalInv
  <2> QED BY <2>1, <2>3, <2>4, <2>5
<1>2. CASE p # Root
  <2>1. /\ p \in Loggers /\ handler[p] # Underived /\ Parent(l) = handler[p]
        /\ Governed(l) => p \in governed
    BY <1>0, <1>2 DEF Ready, Parent, Derived, Governed
  <2>2. handler[p] \in Handler
    BY <2>1 DEF LoggingInv, LoggingTypeOK
  <2>3. GoodHandler(handler[p])
    BY <2>1 DEF LoggingInv, HandlersInv
  <2>4. Governed(l) => handler[p].kind = "redacting"
    BY <2>1 DEF LoggingInv, GovernedInv
  <2> QED BY <2>1, <2>2, <2>3, <2>4
<1> QED BY <1>1, <1>2

\* A logger is derived: its handler is good with the arrays there are now, which the
\* loggers before it still find their fields in.
LEMMA DeriveKeeps ==
  ASSUME LoggingInv, NEW l \in Loggers, Ready(l),
         NEW h \in Handler, handler' = [handler EXCEPT ![l] = h],
         h.kind = Parent(l).kind, h.kind # "none", h.groups \in Nat,
         h.array \in Derived \cup {l, Root},
         h.array = Root => h.len = 0 /\ h.cap = 0,
         h.array # Root => h.len <= Len(slots'[h.array]),
         h.array # Root /\ h.kind = "redacting" => slots'[h.array] \in Seq(CleanField),
         slots' \in [Loggers -> Seq(Field)],
         \A a \in Derived : /\ Len(slots'[a]) >= Len(slots[a])
                            /\ slots[a] \in Seq(CleanField) => slots'[a] \in Seq(CleanField),
         NEW fs \in Seq(Field), Remember(l, fs),
         UNCHANGED <<globalVars, log>>
  PROVE  LoggingInv'
<1>1. /\ handler \in [Loggers -> Handler] /\ slots \in [Loggers -> Seq(Field)]
      /\ asked \in [Loggers -> Seq(Field)] /\ governed \subseteq Loggers
      /\ log \in Seq([by : Loggers, groups : Nat, fields : Seq(Field)])
  BY DEF LoggingInv, LoggingTypeOK
<1>2. handler[l] = Underived /\ h # Underived
  BY DEF Ready, Underived
<1>3. /\ handler' \in [Loggers -> Handler] /\ handler'[l] = h
      /\ \A k \in Loggers : k # l => handler'[k] = handler[k]
      /\ \A k \in Loggers : handler[k] # Underived => k # l /\ handler'[k] # Underived
  BY <1>1, <1>2
<1>4. Derived' = Derived \cup {l}
  BY <1>2, <1>3 DEF Derived
<1>5. asked' \in [Loggers -> Seq(Field)]
  <2>1. PICK s : s = IF Derivation[l].from = Root THEN <<>> ELSE asked[Derivation[l].from]
    OBVIOUS
  <2>2. Derivation[l].from \in Loggers \cup {Root} /\ <<>> \in Seq(Field)
    BY LoggingAssumption
  <2>3. s \in Seq(Field)
    BY <1>1, <2>1, <2>2
  <2>4. s \o fs \in Seq(Field)
    BY <2>3, ConcatProperties
  <2>5. asked' = [asked EXCEPT ![l] = s \o fs]
    BY <2>1 DEF Remember
  <2> QED BY <1>1, <2>4, <2>5
<1>6. governed \subseteq governed' /\ governed' \subseteq governed \cup {k \in {l} : Governed(k)}
  BY DEF Remember
<1>7. LoggingTypeOK'
  BY <1>1, <1>3, <1>5, <1>6 DEF LoggingInv, LoggingTypeOK, globalVars
<1>8. GlobalInv'
  BY DEF LoggingInv, GlobalInv, globalVars
<1>9. HandlersInv'
  <2> SUFFICES ASSUME NEW k \in Loggers, handler'[k] # Underived
               PROVE  /\ handler'[k].kind # "none" /\ handler'[k].groups \in Nat
                      /\ handler'[k].array \in Derived' \cup {Root}
                      /\ handler'[k].array = Root =>
                           handler'[k].len = 0 /\ handler'[k].cap = 0
                      /\ handler'[k].array # Root =>
                           handler'[k].len <= Len(slots'[handler'[k].array])
                      /\ handler'[k].array # Root /\ handler'[k].kind = "redacting" =>
                           slots'[handler'[k].array] \in Seq(CleanField)
    BY DEF HandlersInv, GoodHandler, Underived
  <2>1. CASE k = l
    BY <1>3, <1>4, <2>1
  <2>2. CASE k # l
    <3>1. handler'[k] = handler[k] /\ GoodHandler(handler[k]) /\ handler[k] \in Handler
      BY <1>1, <1>3, <2>2 DEF LoggingInv, HandlersInv
    <3>2. CASE handler[k].array = Root
      BY <3>1, <3>2 DEF GoodHandler
    <3>3. CASE handler[k].array # Root
      <4>1. PICK a \in Derived : a = handler[k].array
        BY <3>1, <3>3 DEF GoodHandler
      <4>2. /\ handler[k].len \in Nat /\ Len(slots[a]) \in Nat /\ Len(slots'[a]) \in Nat
            /\ handler[k].len <= Len(slots[a])
        BY <1>1, <3>1, <3>3, <4>1 DEF GoodHandler, Handler, Derived
      <4>3. handler[k].len <= Len(slots'[a])
        BY <4>1, <4>2
      <4>4. handler[k].kind = "redacting" => slots'[a] \in Seq(CleanField)
        BY <3>1, <3>3, <4>1 DEF GoodHandler
      <4> QED BY <1>4, <3>1, <3>3, <4>1, <4>3, <4>4 DEF GoodHandler
    <3> QED BY <3>2, <3>3
  <2> QED BY <2>1, <2>2
<1>10. GovernedInv'
  <2> SUFFICES ASSUME NEW k \in governed'
               PROVE  handler'[k] # Underived /\ handler'[k].kind = "redacting"
    BY DEF GovernedInv, Underived
  <2>1. CASE k \in governed
    BY <1>1, <1>3, <2>1 DEF LoggingInv, GovernedInv
  <2>2. CASE k = l /\ Governed(l)
    BY <1>2, <1>3, <2>2, ParentFacts
  <2> QED BY <1>6, <2>1, <2>2
<1>11. LogInv'
  <2> SUFFICES ASSUME NEW i \in DOMAIN log
               PROVE  /\ handler'[log[i].by] # Underived
                      /\ log[i].by \in governed' => log[i].fields \in Seq(CleanField)
    BY DEF LogInv, Underived
  <2>1. log[i].by \in Loggers
    <3>1. PICK T : T = [by : Loggers, groups : Nat, fields : Seq(Field)]
      OBVIOUS
    <3>2. log \in Seq(T)
      BY <1>1, <3>1
    <3>3. log[i] \in T
      BY <3>2
    <3> QED BY <3>1, <3>3
  <2>2. /\ handler[log[i].by] # Underived
        /\ log[i].by \in governed => log[i].fields \in Seq(CleanField)
    BY DEF LoggingInv, LogInv
  <2> QED BY <1>3, <1>6, <2>1, <2>2
<1> QED BY <1>7, <1>8, <1>9, <1>10, <1>11 DEF LoggingInv

LEMMA AppendInPlaceKeeps ==
  ASSUME LoggingInv, NEW l \in Loggers, AppendInPlace(l)
  PROVE  LoggingInv'
<1>1. PICK p : p = Parent(l)
  OBVIOUS
<1>2. PICK g : g = Given(l)
  OBVIOUS
<1>3. /\ Ready(l) /\ p.kind = "redacting" /\ p.len + Len(g) <= p.cap
      /\ slots' = [slots EXCEPT ![p.array] =
           SubSeq(slots[p.array], 1, p.len) \o g
             \o SubSeq(slots[p.array], p.len + Len(g) + 1, Len(slots[p.array]))]
      /\ handler' = [handler EXCEPT ![l] = [p EXCEPT !.len = p.len + Len(g)]]
      /\ Remember(l, g) /\ UNCHANGED <<globalVars, log>>
  BY <1>1, <1>2 DEF AppendInPlace, Needed
<1>4. p \in Handler /\ GoodHandler(p)
  BY <1>1, <1>3, ParentFacts
<1>5. g \in Seq(CleanField) /\ g \in Seq(Field) /\ Len(g) \in Nat /\ p.len \in Nat
  BY <1>1, <1>2, <1>3, <1>4, GivenFields DEF Handler
<1>6. slots \in [Loggers -> Seq(Field)]
  BY DEF LoggingInv, LoggingTypeOK
<1>7. PICK h : h = [p EXCEPT !.len = p.len + Len(g)]
  OBVIOUS
<1>8. /\ h \in Handler /\ h.kind = p.kind /\ h.array = p.array /\ h.cap = p.cap
      /\ h.groups = p.groups /\ h.len = p.len + Len(g)
  BY <1>4, <1>5, <1>7 DEF Handler
<1>9. CASE p.array = Root
  <2>1. slots' = slots
    BY <1>3, <1>6, <1>9, LoggingAssumption
  <2>2. h.len = 0 /\ h.cap = 0
    BY <1>3, <1>4, <1>5, <1>8, <1>9 DEF GoodHandler
  <2>3. \A a \in Derived : /\ Len(slots'[a]) >= Len(slots[a])
                           /\ slots[a] \in Seq(CleanField) => slots'[a] \in Seq(CleanField)
    BY <1>6, <2>1 DEF Derived
  <2>4. /\ handler' = [handler EXCEPT ![l] = h] /\ h.kind = Parent(l).kind /\ h.kind # "none"
        /\ h.groups \in Nat /\ h.array = Root /\ slots' \in [Loggers -> Seq(Field)]
    BY <1>1, <1>3, <1>4, <1>6, <1>7, <1>8, <1>9, <2>1 DEF GoodHandler
  <2> QED
    BY <1>3, <1>5, <1>8, <2>2, <2>3, <2>4, DeriveKeeps
<1>10. CASE p.array # Root
  <2>1. /\ p.array \in Derived /\ p.array \in Loggers
        /\ slots[p.array] \in Seq(CleanField) /\ p.len <= Len(slots[p.array])
    BY <1>3, <1>4, <1>10 DEF GoodHandler, Derived
  <2>2. PICK s : s = slots[p.array]
    OBVIOUS
  <2>3. PICK r : r = SubSeq(s, 1, p.len) \o g \o SubSeq(s, p.len + Len(g) + 1, Len(s))
    OBVIOUS
  <2>4. slots' = [slots EXCEPT ![p.array] = r]
    BY <1>3, <2>2, <2>3
  <2>5. /\ r \in Seq(CleanField)
        /\ Len(r) >= Len(s) /\ Len(r) >= p.len + Len(g)
    BY <1>5, <2>1, <2>2, <2>3, Overwritten
  <2>6. r \in Seq(Field)
    BY <2>5 DEF CleanField
  <2>7. slots' \in [Loggers -> Seq(Field)] /\ slots'[p.array] = r
        /\ \A a \in Loggers : a # p.array => slots'[a] = slots[a]
    BY <1>6, <2>1, <2>4, <2>6
  <2>8. \A a \in Derived : /\ Len(slots'[a]) >= Len(slots[a])
                           /\ slots[a] \in Seq(CleanField) => slots'[a] \in Seq(CleanField)
    <3> SUFFICES ASSUME NEW a \in Derived
                 PROVE  /\ Len(slots'[a]) >= Len(slots[a])
                        /\ slots[a] \in Seq(CleanField) => slots'[a] \in Seq(CleanField)
      OBVIOUS
    <3>1. a \in Loggers /\ Len(slots[a]) \in Nat
      BY <1>6 DEF Derived
    <3>2. CASE a = p.array
      BY <2>2, <2>5, <2>7, <3>2
    <3>3. CASE a # p.array
      BY <2>7, <3>1, <3>3
    <3> QED BY <3>2, <3>3
  <2>9. h.len <= Len(slots'[h.array]) /\ slots'[h.array] \in Seq(CleanField)
    BY <1>8, <2>5, <2>7
  <2>10. /\ handler' = [handler EXCEPT ![l] = h] /\ h.kind = Parent(l).kind /\ h.kind # "none"
         /\ h.groups \in Nat /\ h.array \in Derived /\ h.array # Root
    BY <1>1, <1>3, <1>4, <1>7, <1>8, <1>10, <2>1 DEF GoodHandler
  <2>11. slots' \in [Loggers -> Seq(Field)]
    BY <2>7
  <2> QED
    BY <1>3, <1>5, <1>8, <2>8, <2>9, <2>10, <2>11, DeriveKeeps
<1> QED BY <1>9, <1>10

LEMMA AppendCopiesKeeps ==
  ASSUME LoggingInv, NEW l \in Loggers, AppendCopies(l)
  PROVE  LoggingInv'
<1>1. PICK p : p = Parent(l)
  OBVIOUS
<1>2. PICK g : g = Given(l)
  OBVIOUS
<1>3. PICK n : n = IF p.len + Len(g) > 2 * p.cap THEN p.len + Len(g) ELSE 2 * p.cap
  OBVIOUS
<1>4. PICK s : s = Shown(p)
  OBVIOUS
<1>5. /\ Ready(l)
      /\ slots' = [slots EXCEPT ![l] = s \o g]
      /\ handler' = [handler EXCEPT ![l] =
                       [p EXCEPT !.array = l, !.len = p.len + Len(g), !.cap = n]]
      /\ Remember(l, g) /\ UNCHANGED <<globalVars, log>>
  BY <1>1, <1>2, <1>3, <1>4 DEF AppendCopies, Needed
<1>6. p \in Handler /\ GoodHandler(p)
  BY <1>1, <1>5, ParentFacts
<1>7. /\ g \in Seq(Field) /\ Len(g) \in Nat /\ p.len \in Nat /\ p.cap \in Nat /\ n \in Nat
      /\ p.kind = "redacting" => g \in Seq(CleanField)
  BY <1>1, <1>2, <1>3, <1>6, GivenFields DEF Handler
<1>8. slots \in [Loggers -> Seq(Field)]
  BY DEF LoggingInv, LoggingTypeOK
<1>9. /\ s \in Seq(Field) /\ Len(s) = p.len
      /\ p.kind = "redacting" => s \in Seq(CleanField)
  <2>1. CASE p.len = 0
    BY <1>4, <2>1 DEF Shown
  <2>2. CASE p.len # 0
    <3>1. p.array \in Loggers /\ p.len <= Len(slots[p.array])
          /\ (p.kind = "redacting" => slots[p.array] \in Seq(CleanField))
      BY <1>6, <2>2 DEF GoodHandler, Derived
    <3>2. PICK t : t = slots[p.array]
      OBVIOUS
    <3>3. s = SubSeq(t, 1, p.len) /\ t \in Seq(Field)
      BY <1>4, <1>8, <2>2, <3>1, <3>2 DEF Shown
    <3> QED BY <1>7, <3>1, <3>2, <3>3, PrefixTyped
  <2> QED BY <2>1, <2>2
<1>10. /\ s \o g \in Seq(Field) /\ Len(s \o g) = p.len + Len(g)
       /\ p.kind = "redacting" => s \o g \in Seq(CleanField)
  BY <1>7, <1>9, ConcatProperties
<1>11. PICK h : h = [p EXCEPT !.array = l, !.len = p.len + Len(g), !.cap = n]
  OBVIOUS
<1>12. /\ h \in Handler /\ h.kind = p.kind /\ h.array = l /\ h.groups = p.groups
       /\ h.len = p.len + Len(g)
  <2>1. h = [kind |-> p.kind, array |-> l, len |-> p.len + Len(g), cap |-> n,
             groups |-> p.groups]
    BY <1>6, <1>11 DEF Handler
  <2>2. p.len + Len(g) \in Nat /\ p.kind \in Kinds /\ p.groups \in Nat \cup {-1}
    BY <1>6, <1>7 DEF Handler
  <2> QED BY <1>7, <2>1, <2>2 DEF Handler
<1>13. /\ slots' \in [Loggers -> Seq(Field)] /\ slots'[l] = s \o g
       /\ \A a \in Loggers : a # l => slots'[a] = slots[a]
  BY <1>5, <1>8, <1>10
<1>14. \A a \in Derived : /\ Len(slots'[a]) >= Len(slots[a])
                          /\ slots[a] \in Seq(CleanField) => slots'[a] \in Seq(CleanField)
  BY <1>5, <1>8, <1>13 DEF Derived, Ready
<1>15. /\ h.array # Root /\ h.len <= Len(slots'[h.array])
       /\ h.kind = "redacting" => slots'[h.array] \in Seq(CleanField)
  BY <1>7, <1>10, <1>12, <1>13, LoggingAssumption
<1> QED
  BY <1>1, <1>5, <1>6, <1>7, <1>11, <1>12, <1>13, <1>14, <1>15, DeriveKeeps DEF GoodHandler

LEMMA WithGroupKeeps ==
  ASSUME LoggingInv, NEW l \in Loggers, WithGroup(l)
  PROVE  LoggingInv'
<1>1. PICK p : p = Parent(l)
  OBVIOUS
<1>2. PICK h : h = [p EXCEPT !.groups = p.groups + 1]
  OBVIOUS
<1>3. /\ Ready(l) /\ slots' = slots
      /\ handler' = [handler EXCEPT ![l] = h]
      /\ Remember(l, <<>>) /\ UNCHANGED <<globalVars, log>>
  BY <1>1, <1>2 DEF WithGroup
<1>4. p \in Handler /\ GoodHandler(p)
  BY <1>1, <1>3, ParentFacts
<1>5. /\ h \in Handler /\ h.kind = p.kind /\ h.array = p.array /\ h.cap = p.cap
      /\ h.groups \in Nat /\ h.len = p.len
  BY <1>2, <1>4 DEF Handler, GoodHandler
<1>6. slots \in [Loggers -> Seq(Field)] /\ <<>> \in Seq(Field)
  BY DEF LoggingInv, LoggingTypeOK
<1>7. \A a \in Derived : /\ Len(slots'[a]) >= Len(slots[a])
                         /\ slots[a] \in Seq(CleanField) => slots'[a] \in Seq(CleanField)
  BY <1>3, <1>6 DEF Derived
<1> QED BY <1>1, <1>3, <1>4, <1>5, <1>6, <1>7, DeriveKeeps DEF GoodHandler

LEMMA InfoKeeps ==
  ASSUME LoggingInv, NEW l \in Loggers, NEW record \in Records, Info(l, record)
  PROVE  LoggingInv'
<1>1. /\ handler[l] # Underived /\ UNCHANGED <<globalVars, handlerVars>>
      /\ log' = IF handler[l].kind = "stderr" THEN log ELSE Append(log, Line(l, record))
  BY DEF Info, Derived
<1>2. GlobalInv' /\ HandlersInv' /\ GovernedInv'
  BY <1>1 DEF LoggingInv, GlobalInv, HandlersInv, GovernedInv, GoodHandler, Derived,
    Underived, globalVars, handlerVars
<1>3. PICK T : T = [by : Loggers, groups : Nat, fields : Seq(Field)]
  OBVIOUS
<1>4. log \in Seq(T)
  BY <1>3 DEF LoggingInv, LoggingTypeOK
<1>5. PICK h : h = handler[l]
  OBVIOUS
<1>6. h \in Handler /\ GoodHandler(h)
  BY <1>1, <1>5 DEF LoggingInv, LoggingTypeOK, HandlersInv
<1>7. /\ Shown(h) \in Seq(Field)
      /\ h.kind = "redacting" => Shown(h) \in Seq(CleanField)
  <2>1. CASE h.len = 0
    BY <2>1 DEF Shown
  <2>2. CASE h.len # 0
    <3>1. /\ h.array \in Loggers /\ h.len <= Len(slots[h.array]) /\ h.len \in Nat
          /\ h.kind = "redacting" => slots[h.array] \in Seq(CleanField)
      BY <1>6, <2>2 DEF GoodHandler, Derived, Handler
    <3>2. PICK t : t = slots[h.array]
      OBVIOUS
    <3>3. Shown(h) = SubSeq(t, 1, h.len) /\ t \in Seq(Field)
      BY <2>2, <3>1, <3>2 DEF Shown, LoggingInv, LoggingTypeOK
    <3> QED BY <3>1, <3>2, <3>3, PrefixTyped
  <2> QED BY <2>1, <2>2
<1>8. PICK g : g = IF h.kind = "redacting" THEN redactAll(record) ELSE record
  OBVIOUS
<1>9. g \in Seq(Field) /\ (h.kind = "redacting" => g \in Seq(CleanField))
  <2>1. record \in Seq([key : Keys, value : Values])
    BY LoggingAssumption
  <2>2. redactAll(record) \in Seq(CleanField)
    BY <2>1, RedactedIsClean
  <2>3. [key : Keys, value : Values] \subseteq Field /\ CleanField \subseteq Field
    BY DEF Field, CleanField
  <2>4. record \in Seq(Field) /\ redactAll(record) \in Seq(Field)
    BY <2>1, <2>2, <2>3, SeqOfMore
  <2> QED BY <1>8, <2>2, <2>4
<1>10. PICK fs : fs = Shown(h) \o g
  OBVIOUS
<1>11. fs \in Seq(Field) /\ (h.kind = "redacting" => fs \in Seq(CleanField))
  BY <1>7, <1>9, <1>10, ConcatProperties
<1>12. PICK x : x = [by |-> l, groups |-> h.groups, fields |-> fs]
  OBVIOUS
<1>13. x \in T /\ Line(l, record) = x /\ x.by = l /\ x.fields = fs
  BY <1>3, <1>5, <1>6, <1>8, <1>10, <1>11, <1>12 DEF Line, GoodHandler
<1>14. /\ log' \in Seq(T)
       /\ \A i \in DOMAIN log' : log'[i] = x \/ (i \in DOMAIN log /\ log'[i] = log[i])
  <2>1. CASE log' = log
    BY <1>4, <2>1
  <2>2. CASE log' = Append(log, x)
    BY <1>4, <1>13, <2>2
  <2> QED BY <1>1, <1>13, <2>1, <2>2
<1>15. LoggingTypeOK'
  BY <1>1, <1>3, <1>14 DEF LoggingInv, LoggingTypeOK, globalVars, handlerVars
<1>16. LogInv'
  <2> SUFFICES ASSUME NEW i \in DOMAIN log'
               PROVE  /\ handler[log'[i].by] # Underived
                      /\ log'[i].by \in governed => log'[i].fields \in Seq(CleanField)
    BY <1>1 DEF LogInv, Underived, handlerVars
  <2>1. CASE log'[i] = x
    BY <1>1, <1>5, <1>11, <1>13, <2>1 DEF LoggingInv, GovernedInv
  <2>2. CASE i \in DOMAIN log /\ log'[i] = log[i]
    BY <2>2 DEF LoggingInv, LogInv
  <2> QED BY <1>14, <2>1, <2>2
<1> QED BY <1>2, <1>15, <1>16 DEF LoggingInv

\* Init and Get change the global logger only.
LEMMA GlobalKeeps ==
  ASSUME LoggingInv, AppInit \/ GetTests \/ GetInits \/ UNCHANGED loggingVars
  PROVE  LoggingInv'
<1>1. UNCHANGED <<handlerVars, log>>
  BY DEF AppInit, GetTests, GetInits, loggingVars
<1>2. /\ global' \in Kinds /\ once' \in {"new", "tested", "done"}
      /\ inited' \in BOOLEAN /\ raced' \in BOOLEAN
  BY DEF LoggingInv, LoggingTypeOK, AppInit, GetTests, GetInits, loggingVars, globalVars, Kinds
<1>3. LoggingTypeOK'
  BY <1>1, <1>2 DEF LoggingInv, LoggingTypeOK, handlerVars
<1>4. GlobalInv'
  <2>1. CASE AppInit
    BY <2>1 DEF AppInit, GlobalInv
  <2>2. CASE GetTests
    BY <2>2 DEF GetTests, LoggingInv, GlobalInv
  <2>3. CASE GetInits
    BY <2>3 DEF GetInits, LoggingInv, GlobalInv
  <2>4. CASE UNCHANGED loggingVars
    BY <2>4 DEF loggingVars, globalVars, LoggingInv, GlobalInv
  <2> QED BY <2>1, <2>2, <2>3, <2>4
<1>5. HandlersInv' /\ GovernedInv' /\ LogInv'
  BY <1>1 DEF LoggingInv, HandlersInv, GovernedInv, LogInv, GoodHandler, Derived, Underived,
    handlerVars
<1> QED BY <1>3, <1>4, <1>5 DEF LoggingInv

LEMMA LoggingInvStep == LoggingInv /\ [LoggingNext]_loggingVars => LoggingInv'
BY GlobalKeeps, AppendInPlaceKeeps, AppendCopiesKeeps, WithGroupKeeps, InfoKeeps DEF LoggingNext

\* Every variable has its type: in particular the slices of the loggers lie in arrays
\* of fields, and every line is of a derived logger.
THEOREM LoggingTypeCorrect == LoggingSpec => []LoggingTypeOK
<1>1. LoggingInv => LoggingTypeOK
  BY DEF LoggingInv
<1> QED BY <1>1, LoggingInvInit, LoggingInvStep, PTL DEF LoggingSpec

\* No logger of a Get that Init came before, nor any derived from it, logs a sensitive
\* value, though loggers derived from the same one may write over each other's fields
\* (redact.go:29-51), unless Init ran inside the first Get (logger.go:127-138).
THEOREM LoggingNoSecretLogged == LoggingSpec => []NoSecretLogged
<1>1. LoggingInv => NoSecretLogged
  <2> SUFFICES ASSUME LoggingInv, NEW i \in DOMAIN log, log[i].by \in governed,
                      NEW k \in DOMAIN log[i].fields
               PROVE  ~ Exposed(log[i].fields[k])
    BY DEF NoSecretLogged
  <2>1. log[i].fields \in Seq(CleanField)
    BY DEF LoggingInv, LogInv
  <2>2. log[i].fields[k] \in CleanField
    BY <2>1
  <2> QED BY <2>2 DEF CleanField
<1> QED BY <1>1, LoggingInvInit, LoggingInvStep, PTL DEF LoggingSpec
-----------------------------------------------------------------------------
(* Webhook: what a success means, and when a bundle is sent again. *)

\* The types that the proofs need.
SubmitTypeInv ==
  /\ limit \in Int
  /\ post \in {"idle", "try", "sending", "backoff", "ok", "failed"}
  /\ outcomes \in Seq({"2xx", "4xx", "other", "error"})
  /\ writes \in Nat /\ reading \in Nat
  /\ received \subseteq BOOLEAN

\* What CreateBundle has done to the file: one that was announced and is written again
\* has been emptied.
FileInv ==
  /\ writing \in BOOLEAN /\ sound \in BOOLEAN /\ told \in BOOLEAN /\ spoiled \in BOOLEAN
  /\ AnnouncedIsSound /\ (told /\ writing => spoiled)

\* While the bundle is submitted, the history tells of every call of CreateBundle that
\* emptied it, also of one that has ended since the attempt opened the file.
SubmitInv ==
  /\ Submitting => told
  /\ Submitting /\ spoiled => disturbed
  /\ post = "sending" /\ reading # writes => disturbed

\* What the server has read was sound, or the file was disturbed.
ReceivedInv ==
  /\ post = "idle" => received = {}
  /\ arrived => received # {}
  /\ FALSE \in received => disturbed

\* While the bundle is submitted no attempt was answered for certain.
RetryInv ==
  /\ post = "idle" => outcomes = <<>>
  /\ post \in {"sending", "backoff"} => Len(outcomes) < limit
  /\ post \notin Ended => \A k \in DOMAIN outcomes : outcomes[k] \notin {"2xx", "4xx"}

WebhookInv ==
  /\ SubmitTypeInv /\ FileInv /\ SubmitInv /\ ReceivedInv /\ RetryInv
  /\ SubmittedWasReceived /\ RetriesJustified

LEMMA FileInvStep == FileInv /\ [FileNext]_fileVars => FileInv'
<1> SUFFICES ASSUME FileInv, [FileNext]_fileVars PROVE FileInv'
  OBVIOUS
<1> USE DEF FileInv, AnnouncedIsSound
<1>1. CASE Begin
  <2>1. CASE told' = FALSE /\ spoiled' = FALSE
    BY <1>1, <2>1 DEF Begin
  <2>2. CASE spoiled' = told /\ UNCHANGED told
    <3>1. spoiled' \in BOOLEAN /\ told' \in BOOLEAN /\ writing' \in BOOLEAN /\ sound' \in BOOLEAN
      BY <1>1, <2>2 DEF Begin
    <3>2. told' => spoiled'
      BY <2>2, Zenon
    <3> QED BY <3>1, <3>2
  <2> QED BY <1>1, <2>1, <2>2 DEF Begin
<1>2. CASE Finish
  BY <1>2 DEF Finish
<1>3. CASE Fail
  <2>1. UNCHANGED <<told, spoiled>> /\ sound' \in BOOLEAN /\ writing' = FALSE /\ writing
    BY <1>3 DEF Fail
  <2>2. (told => spoiled) => (told' => spoiled')
    BY <2>1
  <2>3. told => spoiled
    BY <2>1
  <2> QED BY <2>1, <2>2, <2>3
<1>4. CASE UNCHANGED fileVars
  BY <1>4 DEF fileVars
<1> QED BY <1>1, <1>2, <1>3, <1>4 DEF FileNext

LEMMA WebhookInvInit == FileInit /\ WebhookInit => WebhookInv
<1> SUFFICES ASSUME FileInit, WebhookInit PROVE WebhookInv
  OBVIOUS
<1>1. FileInv
  BY DEF FileInit, FileInv, AnnouncedIsSound
<1>2. SubmitTypeInv
  BY DEF WebhookInit, SubmitTypeInv
<1>3. SubmitInv /\ ReceivedInv /\ SubmittedWasReceived
  BY DEF WebhookInit, SubmitInv, Submitting, Ended, ReceivedInv, SubmittedWasReceived
<1>4. RetryInv /\ RetriesJustified
  BY DEF WebhookInit, RetryInv, RetriesJustified
<1> QED BY <1>1, <1>2, <1>3, <1>4 DEF WebhookInv

\* What an attempt's outcome does to the outcomes and to their properties.
LEMMA OutcomeAdded ==
  ASSUME WebhookInv, NEW o \in {"2xx", "4xx", "other", "error"},
         post = "sending", outcomes' = Append(outcomes, o), limit' = limit,
         o = "2xx" => post' = "ok", o = "4xx" => post' = "failed",
         o \in {"other", "error"} => Again
  PROVE  /\ outcomes' \in Seq({"2xx", "4xx", "other", "error"})
         /\ RetryInv' /\ RetriesJustified'
<1>1. /\ outcomes \in Seq({"2xx", "4xx", "other", "error"})
      /\ limit \in Int /\ Len(outcomes) \in Nat /\ Len(outcomes) < limit
  BY DEF WebhookInv, SubmitTypeInv, RetryInv
<1>2. /\ outcomes' \in Seq({"2xx", "4xx", "other", "error"})
      /\ Len(outcomes') = Len(outcomes) + 1 /\ outcomes' # <<>>
      /\ DOMAIN outcomes' = 1 .. Len(outcomes) + 1
      /\ outcomes'[Len(outcomes) + 1] = o
      /\ \A k \in 1 .. Len(outcomes) : outcomes'[k] = outcomes[k]
  BY <1>1
<1>3. \A k \in 1 .. Len(outcomes) : outcomes'[k] \notin {"2xx", "4xx"}
  BY <1>1, <1>2 DEF WebhookInv, RetryInv, Ended
<1>4. post' \in {"ok", "failed", "backoff", "try"}
  BY DEF Again
<1>5. RetryInv'
  BY <1>1, <1>2, <1>3, <1>4 DEF RetryInv, Again, Ended
<1>6. RetriesJustified'
  BY <1>1, <1>2, <1>3, <1>4 DEF RetriesJustified, Again
<1> QED BY <1>2, <1>5, <1>6

LEMMA WebhookInvStep == WebhookInv /\ [WebhookNext]_webhookVars => WebhookInv'
<1> SUFFICES ASSUME WebhookInv, [WebhookNext]_webhookVars PROVE WebhookInv'
  OBVIOUS
<1> USE DEF WebhookInv, SubmitTypeInv, Submitting, Ended, callVars, attemptVars, fileVars
<1>1. CASE SubmitBundle /\ UNCHANGED <<fileVars, writes>>
  <2>1. limit' \in Int
    BY <1>1, WebhookAssumption DEF SubmitBundle
  <2>2. RetryInv' /\ RetriesJustified'
    BY <1>1 DEF SubmitBundle, RetryInv, RetriesJustified
  <2> QED
    BY <1>1, <2>1, <2>2 DEF SubmitBundle, FileInv, AnnouncedIsSound, SubmitInv, ReceivedInv,
      SubmittedWasReceived
<1>2. CASE Cancel /\ UNCHANGED <<fileVars, writes>>
  BY <1>2 DEF Cancel, FileInv, AnnouncedIsSound, SubmitInv, ReceivedInv, RetryInv,
    SubmittedWasReceived, RetriesJustified
<1>3. CASE GiveUp /\ UNCHANGED <<fileVars, writes>>
  BY <1>3 DEF GiveUp, FileInv, AnnouncedIsSound, SubmitInv, ReceivedInv, RetryInv,
    SubmittedWasReceived, RetriesJustified
<1>4. CASE OpenFails /\ UNCHANGED <<fileVars, writes>>
  BY <1>4 DEF OpenFails, FileInv, AnnouncedIsSound, SubmitInv, ReceivedInv, RetryInv,
    SubmittedWasReceived, RetriesJustified
<1>5. CASE OpenBundle /\ UNCHANGED <<fileVars, writes>>
  BY <1>5 DEF OpenBundle, FileInv, AnnouncedIsSound, SubmitInv, ReceivedInv, RetryInv,
    SubmittedWasReceived, RetriesJustified
<1>6. CASE NoAnswer /\ UNCHANGED <<fileVars, writes>>
  <2>1. RetryInv' /\ RetriesJustified' /\ outcomes' \in Seq({"2xx", "4xx", "other", "error"})
    BY <1>6, OutcomeAdded DEF NoAnswer, AttemptEnds
  <2> QED
    BY <1>6, <2>1 DEF NoAnswer, Again, AttemptEnds, FileInv, AnnouncedIsSound, SubmitInv,
      ReceivedInv, SubmittedWasReceived
<1>7. CASE BackoffEnds /\ UNCHANGED <<fileVars, writes>>
  BY <1>7 DEF BackoffEnds, FileInv, AnnouncedIsSound, SubmitInv, ReceivedInv, RetryInv,
    SubmittedWasReceived, RetriesJustified
<1>8. CASE CancelledInBackoff /\ UNCHANGED <<fileVars, writes>>
  BY <1>8 DEF CancelledInBackoff, FileInv, AnnouncedIsSound, SubmitInv, ReceivedInv, RetryInv,
    SubmittedWasReceived, RetriesJustified
<1>9. CASE ServerReads /\ UNCHANGED <<fileVars, writes>>
  <2>1. PICK s \in BOOLEAN : /\ reading = writes /\ ~ writing => s = sound
                             /\ received' = received \cup {s}
    BY <1>9 DEF ServerReads
  <2>2. s \/ disturbed
    BY <1>9, <2>1 DEF ServerReads, FileInv, AnnouncedIsSound, SubmitInv
  <2> QED
    BY <1>9, <2>1, <2>2 DEF ServerReads, FileInv, AnnouncedIsSound, SubmitInv, ReceivedInv,
      RetryInv, SubmittedWasReceived, RetriesJustified
<1>10. CASE Answered /\ UNCHANGED <<fileVars, writes>>
  <2>1. PICK status \in {"2xx", "4xx", "other"} :
          /\ status = "2xx" => arrived
          /\ CASE status = "2xx" -> post' = "ok"
               [] status = "4xx" -> post' = "failed"
               [] OTHER -> Again
          /\ AttemptEnds(status)
    BY <1>10 DEF Answered
  <2>2. /\ status = "2xx" => post' = "ok"
        /\ status = "4xx" => post' = "failed"
        /\ status = "other" => Again
    BY <2>1
  <2>3. RetryInv' /\ RetriesJustified' /\ outcomes' \in Seq({"2xx", "4xx", "other", "error"})
    BY <2>1, <2>2, OutcomeAdded DEF AttemptEnds
  <2>4. post' \in {"ok", "failed", "backoff", "try"} /\ (post' = "ok" => arrived)
    BY <2>1, <2>2 DEF Again
  <2> QED
    BY <1>10, <2>1, <2>3, <2>4 DEF AttemptEnds, FileInv, AnnouncedIsSound, SubmitInv,
      ReceivedInv, SubmittedWasReceived
<1>11. CASE (\E k \in Attempts : WriterEnds(k)) /\ UNCHANGED <<fileVars, writes>>
  <2>1. UNCHANGED <<fileVars, writes, callVars, cancelled, post, outcomes, attemptVars>>
    BY <1>11 DEF WriterEnds
  <2> QED BY <2>1 DEF FileInv, AnnouncedIsSound, SubmitInv, ReceivedInv, RetryInv,
    SubmittedWasReceived, RetriesJustified
<1>12. CASE WriteFile
  <2>1. UNCHANGED <<callVars, cancelled, post, outcomes, reading, arrived, received, writers>>
    BY <1>12 DEF WriteFile
  <2>2. RetryInv' /\ RetriesJustified'
    BY <2>1 DEF RetryInv, RetriesJustified
  <2>3. disturbed => disturbed'
    BY <1>12, ZenonT(30) DEF WriteFile
  <2>4. ReceivedInv' /\ SubmittedWasReceived'
    BY <2>1, <2>3 DEF ReceivedInv, SubmittedWasReceived
  <2>5. CASE Begin /\ writes' = writes + 1
    <3>1. FileInv'
      BY <2>5, FileInvStep DEF FileNext
    <3>2. /\ Submitting' => told'
          /\ Submitting' /\ spoiled' => disturbed'
      BY <1>12, <2>1, ZenonT(30) DEF WriteFile
    <3>3. Submitting => spoiled'
      <4> SUFFICES ASSUME Submitting PROVE spoiled'
        OBVIOUS
      <4>1. told /\ told'
        BY <1>12, Zenon DEF WriteFile, SubmitInv
      <4> QED BY <2>5, <4>1 DEF Begin, FileInv
    <3>4. post' = "sending" => disturbed'
      BY <1>12, <2>1, <3>3, ZenonT(30) DEF WriteFile
    <3> QED BY <1>12, <2>1, <2>2, <2>4, <2>5, <3>1, <3>2, <3>4 DEF WriteFile, SubmitInv
  <2>6. CASE (Finish \/ Fail) /\ UNCHANGED writes
    <3>1. FileInv'
      BY <2>6, FileInvStep DEF FileNext
    <3>2. /\ Submitting' => told'
          /\ Submitting' /\ spoiled' => disturbed'
      BY <1>12, <2>1, ZenonT(30) DEF WriteFile
    <3>3. post' = "sending" /\ reading' # writes' => disturbed'
      BY <2>1, <2>3, <2>6 DEF SubmitInv
    <3> QED BY <1>12, <2>1, <2>2, <2>4, <2>6, <3>1, <3>2, <3>3 DEF WriteFile, SubmitInv
  <2> QED BY <1>12, <2>5, <2>6 DEF WriteFile
<1>13. CASE UNCHANGED webhookVars
  BY <1>13 DEF webhookVars, submitVars, FileInv, AnnouncedIsSound, SubmitInv, ReceivedInv,
    RetryInv, SubmittedWasReceived, RetriesJustified
<1> QED
  BY <1>1, <1>2, <1>3, <1>4, <1>5, <1>6, <1>7, <1>8, <1>9, <1>10, <1>11, <1>12, <1>13
  DEF WebhookNext, SubmitStep

LEMMA WebhookInvariant == WebhookSpec => []WebhookInv
BY WebhookInvInit, WebhookInvStep, PTL DEF WebhookSpec

\* Whatever the server, the network, the timers and CreateBundle do, SubmitBundle reports
\* success only when the server has read the bundle, sound unless CreateBundle had
\* emptied its file (webhook.go:51).
THEOREM WebhookSubmittedWasReceived == WebhookSpec => []SubmittedWasReceived
<1>1. WebhookInv => SubmittedWasReceived
  BY DEF WebhookInv
<1> QED BY <1>1, WebhookInvariant, PTL

\* The bundle is sent again only when the attempt before it was not answered for
\* certain, and at most as often as was configured (webhook.go:40-78).
THEOREM WebhookRetriesJustified == WebhookSpec => []RetriesJustified
<1>1. WebhookInv => RetriesJustified
  BY DEF WebhookInv
<1> QED BY <1>1, WebhookInvariant, PTL

\* What CreateBundle announces is sound unless a call in the same second empties it.
THEOREM AnnouncedBundleIsSound == FileSpec => []AnnouncedIsSound
<1>1. FileInit => FileInv
  BY DEF FileInit, FileInv, AnnouncedIsSound
<1>2. FileInv => AnnouncedIsSound
  BY DEF FileInv
<1> QED BY <1>1, <1>2, FileInvStep, PTL DEF FileSpec
-----------------------------------------------------------------------------
(* Bundle: the logs of a bundle within their cap, and what CreateBundle announces. *)

CollectorNames == {Collectors[k] : k \in DOMAIN Collectors}
EntryNames ==
  LogNames \cup {<<"system", 0>>, <<"settings", 0>>} \cup {<<c, 0>> : c \in CollectorNames}
ZipEntry == [name : EntryNames, whole : BOOLEAN]
Sanitized ==
  {sanitizeSettings(values) :
     values \in SettingsValues \cup {[k \in {"_error"} |-> "error"]}}

BundleTypeOK ==
  /\ size \in [LogNames -> Int]
  /\ step \in {"idle", "system", "settings", "list", "logs", "collectors", "close"}
  /\ names \in Seq(EntryNames)
  /\ DOMAIN logs \subseteq LogNames
  /\ \A n \in DOMAIN logs : logs[n] \in Nat
  /\ total \in Nat /\ copied \in Nat /\ failed \in Nat /\ grown \in Nat
  /\ collect \in Seq(CollectorNames)
  /\ zip \in [entries : Seq(ZipEntry), settings : SUBSET Sanitized,
              manifest : Seq(EntryNames), closed : BOOLEAN]
  /\ announced \in BOOLEAN /\ reopened \in BOOLEAN

\* The crash logs are there in the order of their numbers.
CrashLogsInOrder ==
  \E last \in 0 .. CrashLogs : \A k \in 1 .. CrashLogs : There(Crash(k)) <=> k <= last

\* By how much a log that is yet to be visited has grown since it was measured.
Excess(n) == IF n \in DOMAIN logs /\ size[n] > logs[n] THEN size[n] - logs[n] ELSE 0

\* Of the logs yet to be visited only app.log, the log that is being compressed and the
\* newest crash log can be longer than they were measured; and what was copied exceeds the
\* sizes measured by no more than the lines gained since that these do not have.
GrownSince(last) ==
  /\ \A k \in 1 .. last : There(Crash(k))
  /\ \A k \in 1 .. CrashLogs : Crash(k) \in DOMAIN logs =>
       k <= last /\ (k < last => size[Crash(k)] <= logs[Crash(k)])
  /\ Rotated \in DOMAIN logs => size[Rotated] # Absent /\ size[Rotated] <= logs[Rotated]
  /\ copied + Excess(App) + Excess(Packed) + Excess(Crash(last)) <= total + failed + grown

GrowthCounted == step = "logs" => \E last \in 0 .. CrashLogs : GrownSince(last)

CapKept ==
  /\ total <= MaxLogSize
  /\ copied <= total + failed + grown
  /\ step # "logs" => total = 0 /\ copied = 0 /\ failed = 0

CapInv == CrashLogsInOrder /\ GrowthCounted /\ CapKept

\* While a bundle is being made the archive is open, and the manifest that is gathered
\* lists what the archive has whole, from the information about the system on.
ArchiveInv ==
  /\ step = "idle" => names = <<>>
  /\ step # "idle" =>
       /\ ~ zip.closed
       /\ ListsWhole(names, zip.entries)
       /\ step # "system" => names # <<>>
       /\ step = "close" => zip.manifest = names

LEMMA LogNameCases ==
  /\ {App, Packed, Rotated} \subseteq LogNames
  /\ App # Rotated /\ App # Packed /\ Packed # Rotated
  /\ \A k \in 1 .. CrashLogs : Crash(k) \in LogNames
  /\ \A k : Crash(k) \notin {App, Packed, Rotated}
  /\ \A j, k : Crash(j) = Crash(k) => j = k
  /\ \A n \in LogNames : n \in {App, Packed, Rotated} \/ \E k \in 1 .. CrashLogs : n = Crash(k)
  /\ Crash(0) \notin LogNames
<1>1. /\ {App, Packed, Rotated} \subseteq LogNames
      /\ \A k \in 1 .. CrashLogs : Crash(k) \in LogNames
      /\ \A n \in LogNames :
           n \in {App, Packed, Rotated} \/ \E k \in 1 .. CrashLogs : n = Crash(k)
  BY DEF LogNames
<1>2. /\ App # Rotated /\ App # Packed /\ Packed # Rotated
      /\ \A k : Crash(k) \notin {App, Packed, Rotated}
  BY DEF App, Packed, Rotated, Crash
<1>3. \A j, k : Crash(j) = Crash(k) => j = k
  BY DEF Crash
<1>4. 0 \notin 1 .. CrashLogs
  BY BundleAssumption
<1>5. Crash(0) \notin LogNames
  BY <1>1, <1>2, <1>3, <1>4
<1>6. QED
  BY <1>1, <1>2, <1>3, <1>5

LEMMA BundleTypeInit == BundleInit => BundleTypeOK
<1> SUFFICES ASSUME BundleInit PROVE BundleTypeOK
  OBVIOUS
<1>1. zip \in [entries : Seq(ZipEntry), settings : SUBSET Sanitized,
               manifest : Seq(EntryNames), closed : BOOLEAN]
  BY DEF BundleInit, NoFile
<1>2. DOMAIN logs = {}
  BY DEF BundleInit
<1>3. size \in [LogNames -> Int]
  BY DEF BundleInit, Absent
<1>4. names \in Seq(EntryNames) /\ collect \in Seq(CollectorNames)
  BY DEF BundleInit
<1>5. /\ step = "idle" /\ total = 0 /\ copied = 0 /\ failed = 0 /\ grown = 0
      /\ announced \in BOOLEAN /\ reopened \in BOOLEAN
  BY DEF BundleInit
<1>6. QED
  BY <1>1, <1>2, <1>3, <1>4, <1>5 DEF BundleTypeOK

\* What Add does to the archive and the list keeps their types.
LEMMA AddType ==
  ASSUME BundleTypeOK, NEW n \in EntryNames, NEW whole \in BOOLEAN, Add(n, whole)
  PROVE  /\ names' \in Seq(EntryNames)
         /\ zip' \in [entries : Seq(ZipEntry), settings : SUBSET Sanitized,
                      manifest : Seq(EntryNames), closed : BOOLEAN]
<1> DEFINE e == [name |-> n, whole |-> whole]
<1>1. e \in ZipEntry
  BY DEF ZipEntry
<1> HIDE DEF e
<1>2. zip' = [zip EXCEPT !.entries = Append(zip.entries, e)]
  BY DEF Add, e
<1>3. zip.entries \in Seq(ZipEntry)
  BY DEF BundleTypeOK
<1>4. Append(zip.entries, e) \in Seq(ZipEntry)
  BY <1>1, <1>3
<1>5. names' \in Seq(EntryNames)
  BY DEF Add, BundleTypeOK
<1>6. QED
  BY <1>2, <1>4, <1>5 DEF BundleTypeOK

LEMMA VisitType ==
  ASSUME BundleTypeOK, NEW n \in LogNames, VisitLog(n)
  PROVE  /\ step = "logs" /\ n \in DOMAIN logs /\ logs[n] \in Nat
         /\ DOMAIN logs' = DOMAIN logs \ {n}
         /\ \A m \in DOMAIN logs' : logs'[m] = logs[m] /\ logs'[m] \in Nat
BY DEF VisitLog, BundleTypeOK

LEMMA BundleTypeStep ==
  ASSUME BundleTypeOK, [BundleNext]_bundleVars
  PROVE  BundleTypeOK'
<1> USE DEF BundleTypeOK
<1>1. CASE Log \/ Rotate \/ CompressBegins \/ CompressWrites \/ CompressEnds \/ Prune
  <2>1. /\ UNCHANGED <<step, names, logs, total, copied, failed, collect, zip, announced,
                       reopened>>
        /\ grown' \in Nat
    BY <1>1 DEF Log, Rotate, CompressBegins, CompressWrites, CompressEnds, Prune, Grow,
       idleVars, logsVars, toldVars
  <2>2. size' \in [LogNames -> Int]
    <3>1. /\ {App, Packed, Rotated} \subseteq LogNames /\ Deleted \in Int /\ Absent \in Int
          /\ size[App] \in Int /\ size[Packed] \in Int
      BY LogNameCases DEF Deleted, Absent
    <3>2. \/ \E n \in {App, Packed, Rotated}, l \in Int : size' = [size EXCEPT ![n] = l]
          \/ size' = [size EXCEPT ![Rotated] = size[App], ![App] = 0]
      BY <1>1, <3>1 DEF Log, Rotate, CompressBegins, CompressWrites, CompressEnds, Prune
    <3>3. QED
      BY <3>1, <3>2
  <2>3. QED
    BY <2>1, <2>2
<1>2. CASE RecoverAndLog
  <2>1. /\ UNCHANGED <<step, names, logs, total, copied, failed, collect, zip, announced,
                       reopened>>
        /\ grown' \in Nat
    BY <1>2 DEF RecoverAndLog, Grow, idleVars, logsVars, toldVars
  <2>2. size' \in [LogNames -> Int]
    BY <1>2, LogNameCases DEF RecoverAndLog
  <2>3. QED
    BY <2>1, <2>2
<1>3. CASE CreateBundle
  <2>1. zip' \in [entries : Seq(ZipEntry), settings : SUBSET Sanitized,
                  manifest : Seq(EntryNames), closed : BOOLEAN]
    BY <1>3 DEF CreateBundle, NoFile
  <2>2. QED
    BY <1>3, <2>1 DEF CreateBundle, logsVars
<1>4. CASE writeSystemInfo
  <2>1. <<"system", 0>> \in EntryNames
    BY DEF EntryNames
  <2>2. QED
    BY <1>4, <2>1, AddType DEF writeSystemInfo, logsVars, toldVars
<1>5. CASE writeSettings
  <2>1. <<"settings", 0>> \in EntryNames
    BY DEF EntryNames
  <2> DEFINE e == [name |-> <<"settings", 0>>, whole |-> TRUE]
  <2>2. e \in ZipEntry
    BY <2>1 DEF ZipEntry
  <2> HIDE DEF e
  <2>3. PICK s \in Sanitized :
          zip' = [zip EXCEPT !.settings = {s}, !.entries = Append(zip.entries, e)]
    BY <1>5 DEF writeSettings, Sanitized, e
  <2>4. Append(zip.entries, e) \in Seq(ZipEntry) /\ {s} \in SUBSET Sanitized
    <3>1. zip.entries \in Seq(ZipEntry)
      OBVIOUS
    <3>2. QED
      BY <2>2, <3>1
  <2>5. zip' \in [entries : Seq(ZipEntry), settings : SUBSET Sanitized,
                  manifest : Seq(EntryNames), closed : BOOLEAN]
    BY <2>3, <2>4
  <2>6. names' \in Seq(EntryNames)
    BY <1>5, <2>1 DEF writeSettings
  <2>7. QED
    BY <1>5, <2>5, <2>6 DEF writeSettings, logsVars, toldVars
<1>6. CASE listLogs
  <2>1. /\ DOMAIN logs' = {m \in LogNames : There(m)}
        /\ \A n \in DOMAIN logs' : logs'[n] = size[n]
    BY <1>6 DEF listLogs
  <2>2. QED
    BY <1>6, <2>1 DEF listLogs, toldVars, There
<1>7. ASSUME NEW n \in LogNames, skipLog(n)
      PROVE  BundleTypeOK'
  BY <1>7, VisitType DEF skipLog, toldVars
<1>8. ASSUME NEW n \in LogNames, addFileToZip(n)
      PROVE  BundleTypeOK'
  <2>1. n \in EntryNames
    BY DEF EntryNames
  <2>2. names' \in Seq(EntryNames)
        /\ zip' \in [entries : Seq(ZipEntry), settings : SUBSET Sanitized,
                     manifest : Seq(EntryNames), closed : BOOLEAN]
    BY <1>8, <2>1, AddType DEF addFileToZip
  <2>3. /\ logs[n] \in Nat /\ size[n] \in Nat
        /\ DOMAIN logs' = DOMAIN logs \ {n}
        /\ \A m \in DOMAIN logs' : logs'[m] \in Nat
    <3>1. size[n] \in Int /\ size[n] >= 0
      BY <1>8 DEF addFileToZip, There
    <3>2. QED
      BY <1>8, <3>1, VisitType DEF addFileToZip, VisitLog
  <2>4. total' \in Nat /\ copied' \in Nat
    BY <1>8, <2>3 DEF addFileToZip
  <2>5. QED
    BY <1>8, <2>2, <2>3, <2>4 DEF addFileToZip, toldVars
<1>9. ASSUME NEW n \in LogNames, addFileInPart(n)
      PROVE  BundleTypeOK'
  <2>1. n \in EntryNames
    BY DEF EntryNames
  <2>2. names' \in Seq(EntryNames)
        /\ zip' \in [entries : Seq(ZipEntry), settings : SUBSET Sanitized,
                     manifest : Seq(EntryNames), closed : BOOLEAN]
    BY <1>9, <2>1, AddType DEF addFileInPart
  <2>3. /\ DOMAIN logs' = DOMAIN logs \ {n} /\ \A m \in DOMAIN logs' : logs'[m] \in Nat
        /\ logs[n] \in Nat /\ size[n] \in Int
    BY <1>9, VisitType DEF addFileInPart
  <2>4. copied' \in Nat /\ failed' \in Nat
    BY <1>9, <2>3 DEF addFileInPart
  <2>5. QED
    BY <1>9, <2>2, <2>3, <2>4 DEF addFileInPart, toldVars
<1>10. CASE logsWritten
  <2>1. logs' = <<>> /\ DOMAIN logs' = {}
    BY <1>10 DEF logsWritten
  <2>2. collect' \in Seq(CollectorNames)
    BY <1>10, BundleAssumption DEF logsWritten, CollectorNames
  <2>3. QED
    BY <1>10, <2>1, <2>2 DEF logsWritten, toldVars
<1>11. CASE writeCollector
  <2>1. Head(collect) \in CollectorNames /\ Tail(collect) \in Seq(CollectorNames)
    BY <1>11 DEF writeCollector
  <2>2. <<Head(collect), 0>> \in EntryNames
    BY <2>1 DEF EntryNames
  <2>3. names' \in Seq(EntryNames)
        /\ zip' \in [entries : Seq(ZipEntry), settings : SUBSET Sanitized,
                     manifest : Seq(EntryNames), closed : BOOLEAN]
    BY <1>11, <2>2, AddType DEF writeCollector
  <2>4. QED
    BY <1>11, <2>1, <2>3 DEF writeCollector, logsVars, toldVars
<1>12. CASE writeManifest
  BY <1>12 DEF writeManifest, logsVars, toldVars
<1>13. CASE finishBundle \/ failBundle
  <2>1. /\ step' = "idle" /\ names' = <<>> /\ logs' = <<>> /\ total' = 0 /\ copied' = 0
        /\ failed' = 0 /\ grown' = 0 /\ collect' = <<>> /\ UNCHANGED size
        /\ announced' \in BOOLEAN /\ reopened' \in BOOLEAN
        /\ \E closed \in BOOLEAN : zip' = [zip EXCEPT !.closed = closed]
    BY <1>13 DEF finishBundle, failBundle, Return
  <2>2. DOMAIN logs' = {}
    BY <2>1
  <2>3. zip' \in [entries : Seq(ZipEntry), settings : SUBSET Sanitized,
                  manifest : Seq(EntryNames), closed : BOOLEAN]
    BY <2>1
  <2>4. names' \in Seq(EntryNames) /\ collect' \in Seq(CollectorNames)
    BY <2>1
  <2>5. /\ size' \in [LogNames -> Int] /\ step' = "idle"
        /\ total' = 0 /\ copied' = 0 /\ failed' = 0 /\ grown' = 0
        /\ announced' \in BOOLEAN /\ reopened' \in BOOLEAN
    BY <2>1
  <2>6. QED
    BY <2>2, <2>3, <2>4, <2>5
<1>14. CASE UNCHANGED bundleVars
  BY <1>14 DEF bundleVars, logsVars, toldVars
<1>15. QED
  BY <1>1, <1>2, <1>3, <1>4, <1>5, <1>6, <1>7, <1>8, <1>9, <1>10, <1>11, <1>12, <1>13,
     <1>14 DEF BundleNext

\* A log is as long as it was measured unless it has grown.
LEMMA ExcessNat ==
  ASSUME BundleTypeOK, NEW n
  PROVE  /\ Excess(n) \in Nat
         /\ n \notin DOMAIN logs => Excess(n) = 0
         /\ n \in DOMAIN logs => size[n] <= logs[n] + Excess(n)
<1> USE DEF BundleTypeOK, Excess
<1>1. CASE n \in DOMAIN logs
  <2>1. size[n] \in Int /\ logs[n] \in Nat
    BY <1>1
  <2>2. QED
    BY <1>1, <2>1
<1>2. CASE n \notin DOMAIN logs
  BY <1>2
<1>3. QED
  BY <1>1, <1>2

\* A file gains lines, others shrink: what they have gained is counted.
LEMMA FilesGrow ==
  ASSUME BundleTypeOK, BundleTypeOK', NEW last \in 0 .. CrashLogs, GrownSince(last),
         UNCHANGED <<logs, total, copied, failed>>,
         NEW n \in LogNames, NEW lines \in Nat,
         grown' = IF n \in DOMAIN logs THEN grown + lines ELSE grown,
         n \in DOMAIN logs => size'[n] <= size[n] + lines \/ size'[n] <= lines,
         \A m \in DOMAIN logs : m # n => size'[m] <= size[m] \/ size'[m] <= 0
  PROVE  (copied + Excess(App) + Excess(Packed) + Excess(Crash(last)) <= total + failed + grown)'
<1>1. ASSUME NEW m, m \in DOMAIN logs
      PROVE  logs[m] \in Nat /\ size[m] \in Int /\ size'[m] \in Int
  BY <1>1 DEF BundleTypeOK
<1>2. ASSUME NEW m, m # n
      PROVE  Excess(m)' \in Nat /\ Excess(m) \in Nat /\ Excess(m)' <= Excess(m)
  <2>1. CASE m \in DOMAIN logs
    BY <1>1, <1>2, <2>1 DEF Excess
  <2>2. CASE m \notin DOMAIN logs
    BY <2>2 DEF Excess
  <2>3. QED
    BY <2>1, <2>2
<1>3. /\ Excess(n)' \in Nat /\ Excess(n) \in Nat /\ grown \in Nat
      /\ Excess(n)' + grown <= Excess(n) + grown'
  <2>1. grown \in Nat
    BY DEF BundleTypeOK
  <2>2. CASE n \in DOMAIN logs
    <3>1. logs[n] \in Nat /\ size[n] \in Int /\ size'[n] \in Int
      BY <1>1, <2>2
    <3>2. /\ grown' = grown + lines
          /\ size'[n] <= size[n] + lines \/ size'[n] <= lines
      BY <2>2
    <3>3. /\ Excess(n) = IF size[n] > logs[n] THEN size[n] - logs[n] ELSE 0
          /\ Excess(n)' = IF size'[n] > logs[n] THEN size'[n] - logs[n] ELSE 0
      BY <2>2 DEF Excess
    <3>4. QED
      BY <2>1, <3>1, <3>2, <3>3
  <2>3. CASE n \notin DOMAIN logs
    <3>1. grown' = grown /\ Excess(n) = 0 /\ Excess(n)' = 0
      BY <2>3 DEF Excess
    <3>2. QED
      BY <2>1, <3>1
  <2>4. QED
    BY <2>2, <2>3
<1>4. App # Packed /\ App # Crash(last) /\ Packed # Crash(last)
  BY LogNameCases
<1>5. /\ grown' \in Nat /\ grown <= grown' /\ copied \in Nat /\ total \in Nat /\ failed \in Nat
      /\ copied' = copied /\ total' = total /\ failed' = failed
      /\ copied + Excess(App) + Excess(Packed) + Excess(Crash(last)) <= total + failed + grown
  BY DEF BundleTypeOK, GrownSince
<1>6. PICK a \in Nat, a1 \in Nat, p \in Nat, p1 \in Nat, c \in Nat, c1 \in Nat, g \in Nat,
           g1 \in Nat, k \in Nat, t \in Nat, f \in Nat :
        /\ a = Excess(App) /\ p = Excess(Packed) /\ c = Excess(Crash(last))
        /\ a1 = Excess(App)' /\ p1 = Excess(Packed)' /\ c1 = Excess(Crash(last))'
        /\ g = grown /\ g1 = grown' /\ k = copied /\ t = total /\ f = failed
  <2>1. \A m : Excess(m) \in Nat /\ Excess(m)' \in Nat
    BY <1>2, <1>3
  <2>2. QED
    BY <1>3, <1>5, <2>1
<1>7. \/ a1 + g <= a + g1 /\ p1 <= p /\ c1 <= c
      \/ a1 <= a /\ p1 + g <= p + g1 /\ c1 <= c
      \/ a1 <= a /\ p1 <= p /\ c1 + g <= c + g1
      \/ a1 <= a /\ p1 <= p /\ c1 <= c /\ g <= g1
  <2>1. CASE n = App
    <3>1. a1 + g <= a + g1
      BY <1>3, <1>6, <2>1
    <3>2. p1 <= p /\ c1 <= c
      BY <1>2, <1>4, <1>6, <2>1
    <3>3. QED
      BY <3>1, <3>2
  <2>2. CASE n = Packed
    <3>1. p1 + g <= p + g1
      BY <1>3, <1>6, <2>2
    <3>2. a1 <= a /\ c1 <= c
      BY <1>2, <1>4, <1>6, <2>2
    <3>3. QED
      BY <3>1, <3>2
  <2>3. CASE n = Crash(last)
    <3>1. c1 + g <= c + g1
      BY <1>3, <1>6, <2>3
    <3>2. a1 <= a /\ p1 <= p
      BY <1>2, <1>4, <1>6, <2>3
    <3>3. QED
      BY <3>1, <3>2
  <2>4. CASE n \notin {App, Packed, Crash(last)}
    <3>1. a1 <= a /\ p1 <= p /\ c1 <= c
      BY <1>2, <1>6, <2>4
    <3>2. g <= g1
      BY <1>5, <1>6
    <3>3. QED
      BY <3>1, <3>2
  <2>5. QED
    BY <2>1, <2>2, <2>3, <2>4
<1>8. k + a + p + c <= t + f + g
  BY <1>5, <1>6
<1>9. k + a1 + p1 + c1 <= t + f + g1
  BY ONLY <1>7, <1>8, k \in Nat, t \in Nat, f \in Nat, a \in Nat, a1 \in Nat, p \in Nat,
     p1 \in Nat, c \in Nat, c1 \in Nat, g \in Nat, g1 \in Nat
<1>10. QED
  BY <1>5, <1>6, <1>9

\* The logger appends to app.log, renames it, compresses or deletes what it renamed.
LEMMA LoggerGrows ==
  ASSUME BundleTypeOK, BundleTypeOK', NEW last \in 0 .. CrashLogs, GrownSince(last),
         Log \/ Rotate \/ CompressBegins \/ CompressWrites \/ CompressEnds \/ Prune
  PROVE  GrownSince(last)'
<1>1. /\ UNCHANGED <<logs, total, copied, failed>>
      /\ {App, Packed, Rotated} \subseteq LogNames
      /\ App # Rotated /\ App # Packed /\ Packed # Rotated
      /\ size \in [LogNames -> Int] /\ DOMAIN logs \subseteq LogNames /\ grown \in Nat
      /\ Rotated \in DOMAIN logs => size[Rotated] # Absent /\ size[Rotated] <= logs[Rotated]
  BY LogNameCases DEF Log, Rotate, CompressBegins, CompressWrites, CompressEnds, Prune,
     idleVars, logsVars, BundleTypeOK, GrownSince
<1>2. \E n \in LogNames, lines \in Nat :
        /\ grown' = IF n \in DOMAIN logs THEN grown + lines ELSE grown
        /\ n \in DOMAIN logs => size'[n] <= size[n] + lines \/ size'[n] <= lines
        /\ \A m \in DOMAIN logs : m # n => size'[m] <= size[m] \/ size'[m] <= 0
  <2>1. CASE Log
    <3>1. /\ grown' = IF App \in DOMAIN logs THEN grown + 1 ELSE grown
          /\ size'[App] <= size[App] + 1 \/ size'[App] <= 1
          /\ \A m \in DOMAIN logs : m # App => size'[m] <= size[m]
      BY <1>1, <2>1 DEF Log, Grow
    <3>2. QED
      BY <1>1, <3>1
  <2>2. CASE CompressWrites
    <3>1. /\ grown' = IF Packed \in DOMAIN logs THEN grown + 1 ELSE grown
          /\ size'[Packed] <= size[Packed] + 1
          /\ \A m \in DOMAIN logs : m # Packed => size'[m] <= size[m]
      BY <1>1, <2>2 DEF CompressWrites, Grow
    <3>2. QED
      BY <1>1, <3>1
  <2>3. CASE Rotate \/ CompressBegins \/ CompressEnds \/ Prune
    <3>1. /\ grown' = IF App \in DOMAIN logs THEN grown + 0 ELSE grown
          /\ \A m \in DOMAIN logs : size'[m] <= size[m] \/ size'[m] <= 0
      BY <1>1, <2>3 DEF Rotate, CompressBegins, CompressEnds, Prune, Absent, Deleted
    <3>2. QED
      BY <1>1, <3>1
  <2>4. QED
    BY <2>1, <2>2, <2>3
<1>3. (copied + Excess(App) + Excess(Packed) + Excess(Crash(last)) <= total + failed + grown)'
  BY <1>1, <1>2, FilesGrow
<1>4. \A k \in 1 .. CrashLogs : size'[Crash(k)] = size[Crash(k)]
  <2>1. \A k \in 1 .. CrashLogs : Crash(k) \in LogNames /\ Crash(k) \notin {App, Packed, Rotated}
    BY LogNameCases
  <2>2. QED
    BY <1>1, <2>1 DEF Log, Rotate, CompressBegins, CompressWrites, CompressEnds, Prune
<1>5. 1 .. last \subseteq 1 .. CrashLogs
  BY BundleAssumption
<1>6. Rotated \in DOMAIN logs => size'[Rotated] # Absent /\ size'[Rotated] <= logs[Rotated]
  <2>1. SUFFICES ASSUME Rotated \in DOMAIN logs
                 PROVE  size'[Rotated] # Absent /\ size'[Rotated] <= logs[Rotated]
    OBVIOUS
  <2>2. size'[Rotated] \in {size[Rotated], Deleted}
    BY <1>1, <2>1 DEF Log, Rotate, CompressBegins, CompressWrites, CompressEnds, Prune
  <2>3. logs[Rotated] \in Nat
    BY <2>1 DEF BundleTypeOK
  <2>4. QED
    BY <1>1, <2>1, <2>2, <2>3 DEF Absent, Deleted
<1>7. QED
  BY <1>1, <1>3, <1>4, <1>5, <1>6 DEF GrownSince, There

\* A panic is logged: in the newest crash log, or in one more.
LEMMA PanicGrows ==
  ASSUME BundleTypeOK, BundleTypeOK', NEW last \in 0 .. CrashLogs, GrownSince(last),
         RecoverAndLog
  PROVE  GrownSince(last)'
<1>1. PICK k \in 1 .. CrashLogs, n \in {0, 1} :
        /\ \A j \in k + 1 .. CrashLogs : ~ There(Crash(j))
        /\ size' = [size EXCEPT ![Crash(k)] = n]
        /\ grown' = IF Crash(k) \in DOMAIN logs THEN grown + n ELSE grown
        /\ UNCHANGED <<logs, total, copied, failed>>
  BY DEF RecoverAndLog, Grow, idleVars, logsVars
<1>2. /\ Crash(k) \in LogNames /\ Crash(k) \notin {App, Packed, Rotated}
      /\ size \in [LogNames -> Int] /\ DOMAIN logs \subseteq LogNames
      /\ Rotated \in LogNames /\ n \in Nat
      /\ \A j \in 1 .. CrashLogs : Crash(j) \in LogNames /\ (j # k => Crash(j) # Crash(k))
  <2>1. /\ \A j \in 1 .. CrashLogs : Crash(j) \in LogNames
        /\ Crash(k) \notin {App, Packed, Rotated} /\ Rotated \in LogNames
    BY LogNameCases
  <2>2. \A j \in 1 .. CrashLogs : j # k => Crash(j) # Crash(k)
    BY DEF Crash
  <2>3. n \in Nat
    OBVIOUS
  <2>4. QED
    BY <2>1, <2>2, <2>3 DEF BundleTypeOK
<1>3. /\ \A m \in LogNames : m # Crash(k) => size'[m] = size[m]
      /\ size'[Crash(k)] = n
  BY <1>1, <1>2
<1>4. k >= last
  <2>1. SUFFICES ASSUME k < last PROVE FALSE
    BY BundleAssumption
  <2>2. last \in k + 1 .. CrashLogs /\ last \in 1 .. last
    BY <2>1, BundleAssumption
  <2>3. QED
    BY <1>1, <2>2 DEF GrownSince
<1>5. (copied + Excess(App) + Excess(Packed) + Excess(Crash(last)) <= total + failed + grown)'
  <2>1. /\ Crash(k) \in DOMAIN logs => size'[Crash(k)] <= n
        /\ \A m \in DOMAIN logs : m # Crash(k) => size'[m] <= size[m]
    BY <1>2, <1>3
  <2>2. QED
    BY <1>1, <1>2, <2>1, FilesGrow
<1>7. \A j \in 1 .. last : There(Crash(j))'
  <2>1. SUFFICES ASSUME NEW j \in 1 .. last PROVE size'[Crash(j)] >= 0
    BY DEF There
  <2>2. j \in 1 .. CrashLogs
    BY BundleAssumption
  <2>3. CASE j = k
    BY <1>3, <2>3
  <2>4. CASE j # k
    BY <1>2, <1>3, <2>2, <2>4 DEF GrownSince, There
  <2>5. QED
    BY <2>3, <2>4
<1>8. \A j \in 1 .. CrashLogs : Crash(j) \in DOMAIN logs =>
        j <= last /\ (j < last => size'[Crash(j)] <= logs[Crash(j)])
  <2>1. SUFFICES ASSUME NEW j \in 1 .. CrashLogs, Crash(j) \in DOMAIN logs
                 PROVE  j <= last /\ (j < last => size'[Crash(j)] <= logs[Crash(j)])
    OBVIOUS
  <2>2. j < last => j # k
    BY <1>4, BundleAssumption
  <2>3. QED
    BY <1>2, <1>3, <2>1, <2>2 DEF GrownSince
<1>9. size'[Rotated] = size[Rotated]
  BY <1>2, <1>3
<1>10. QED
  BY <1>1, <1>5, <1>7, <1>8, <1>9 DEF GrownSince, There

\* The next log is passed over, or copied as it is now, in part at least, and counted or
\* booked as failed with the size that was measured.
LEMMA VisitGrows ==
  ASSUME BundleTypeOK, BundleTypeOK', NEW last \in 0 .. CrashLogs, GrownSince(last),
         NEW n \in LogNames, VisitLog(n), UNCHANGED <<size, grown>>,
         \/ UNCHANGED <<total, copied, failed>>
         \/ /\ There(n) /\ copied' <= copied + size[n]
            /\ total' + failed' = total + failed + logs[n]
  PROVE  GrownSince(last)'
<1>1. /\ n \in DOMAIN logs /\ logs[n] \in Nat /\ size[n] \in Int
      /\ DOMAIN logs' = DOMAIN logs \ {n}
      /\ \A m \in DOMAIN logs' : logs'[m] = logs[m]
  BY VisitType DEF BundleTypeOK
<1>2. Excess(n)' = 0 /\ Excess(n) \in Nat /\ size[n] <= logs[n] + Excess(n)
  BY <1>1, ExcessNat DEF Excess
<1>3. \A m : Excess(m) \in Nat /\ (m # n => Excess(m)' = Excess(m))
  BY <1>1, ExcessNat DEF Excess
<1>4. App # Packed /\ App # Crash(last) /\ Packed # Crash(last)
  BY LogNameCases
<1>5. n \notin {App, Packed, Crash(last)} => size[n] <= logs[n]
  <2>1. SUFFICES ASSUME n \notin {App, Packed, Crash(last)} PROVE size[n] <= logs[n]
    OBVIOUS
  <2>2. CASE n = Rotated
    BY <1>1, <2>2 DEF GrownSince
  <2>3. CASE \E k \in 1 .. CrashLogs : n = Crash(k)
    <3>1. PICK k \in 1 .. CrashLogs : n = Crash(k)
      BY <2>3
    <3>2. k <= last /\ k # last
      BY <1>1, <2>1, <3>1 DEF GrownSince
    <3>3. k < last
      BY <3>2, BundleAssumption
    <3>4. QED
      BY <1>1, <3>1, <3>3 DEF GrownSince
  <2>4. QED
    BY <2>1, <2>2, <2>3, LogNameCases
<1>6. (copied + Excess(App) + Excess(Packed) + Excess(Crash(last)) <= total + failed + grown)'
  <2>1. /\ copied \in Nat /\ total \in Nat /\ failed \in Nat /\ grown \in Nat
        /\ copied' \in Nat /\ total' \in Nat /\ failed' \in Nat /\ grown' = grown
        /\ copied + Excess(App) + Excess(Packed) + Excess(Crash(last)) <= total + failed + grown
        /\ copied' <= copied + size[n] \/ copied' = copied
        /\ \/ copied' = copied /\ total' = total /\ failed' = failed
           \/ /\ copied' <= copied + size[n]
              /\ total' + failed' = total + failed + logs[n]
    BY DEF BundleTypeOK, GrownSince
  <2>2. CASE n = App
    BY <1>1, <1>2, <1>3, <1>4, <2>1, <2>2
  <2>3. CASE n = Packed
    BY <1>1, <1>2, <1>3, <1>4, <2>1, <2>3
  <2>4. CASE n = Crash(last)
    BY <1>1, <1>2, <1>3, <1>4, <2>1, <2>4
  <2>5. CASE n \notin {App, Packed, Crash(last)}
    BY <1>1, <1>3, <1>5, <2>1, <2>5
  <2>6. QED
    BY <2>2, <2>3, <2>4, <2>5
<1>7. QED
  BY <1>1, <1>6 DEF GrownSince, There

\* Nothing has grown when the files have just been measured.
LEMMA ListGrows ==
  ASSUME BundleTypeOK, CrashLogsInOrder, listLogs, total = 0, copied = 0, failed = 0
  PROVE  \E last \in 0 .. CrashLogs : GrownSince(last)'
<1> USE DEF BundleTypeOK
<1>1. PICK last \in 0 .. CrashLogs : \A k \in 1 .. CrashLogs : There(Crash(k)) <=> k <= last
  BY DEF CrashLogsInOrder
<1>2. /\ DOMAIN logs' = {m \in LogNames : There(m)}
      /\ \A m \in DOMAIN logs' : logs'[m] = size[m]
      /\ UNCHANGED <<size, total, copied, failed>> /\ grown' = 0
  BY DEF listLogs
<1>3. \A m : Excess(m)' = 0
  <2>1. SUFFICES ASSUME NEW m PROVE Excess(m)' = 0
    OBVIOUS
  <2>2. CASE m \in DOMAIN logs'
    <3>1. size[m] \in Int
      BY <1>2, <2>2
    <3>2. QED
      BY <1>2, <2>2, <3>1 DEF Excess
  <2>3. CASE m \notin DOMAIN logs'
    BY <2>3 DEF Excess
  <2>4. QED
    BY <2>2, <2>3
<1>4. (copied + Excess(App) + Excess(Packed) + Excess(Crash(last)) <= total + failed + grown)'
  BY <1>2, <1>3
<1>5. \A k \in 1 .. last : There(Crash(k))'
  BY <1>1, <1>2, BundleAssumption DEF There
<1>6. \A k \in 1 .. CrashLogs : Crash(k) \in DOMAIN logs' =>
        k <= last /\ (k < last => size'[Crash(k)] <= logs'[Crash(k)])
  BY <1>1, <1>2
<1>7. Rotated \in DOMAIN logs' => size'[Rotated] # Absent /\ size'[Rotated] <= logs'[Rotated]
  BY <1>2 DEF There, Absent
<1>8. QED
  BY <1>4, <1>5, <1>6, <1>7 DEF GrownSince

LEMMA CrashLogsStep ==
  ASSUME BundleTypeOK, CrashLogsInOrder, [BundleNext]_bundleVars
  PROVE  CrashLogsInOrder'
<1>1. CASE \A k \in 1 .. CrashLogs : size'[Crash(k)] = size[Crash(k)]
  BY <1>1 DEF CrashLogsInOrder, There
<1>2. CASE RecoverAndLog
  <2>1. PICK k \in 1 .. CrashLogs, n \in {0, 1} :
          /\ \A j \in 1 .. k - 1 : There(Crash(j))
          /\ \A j \in k + 1 .. CrashLogs : ~ There(Crash(j))
          /\ size' = [size EXCEPT ![Crash(k)] = n]
    BY <1>2 DEF RecoverAndLog
  <2>2. /\ size'[Crash(k)] = n
        /\ \A j \in 1 .. CrashLogs : j # k => size'[Crash(j)] = size[Crash(j)]
    BY <2>1, LogNameCases DEF BundleTypeOK
  <2>3. ASSUME NEW j \in 1 .. CrashLogs PROVE There(Crash(j))' <=> j <= k
    <3>1. CASE j = k
      BY <2>2, <3>1 DEF There
    <3>2. CASE j < k
      <4>1. j \in 1 .. k - 1
        BY <3>2
      <4>2. QED
        BY <2>1, <2>2, <3>2, <4>1 DEF There
    <3>3. CASE j > k
      <4>1. j \in k + 1 .. CrashLogs
        BY <3>3
      <4>2. QED
        BY <2>1, <2>2, <3>3, <4>1 DEF There
    <3>4. QED
      BY <3>1, <3>2, <3>3, BundleAssumption
  <2>4. k \in 0 .. CrashLogs
    OBVIOUS
  <2>5. QED
    BY <2>3, <2>4 DEF CrashLogsInOrder
<1>3. CASE Log \/ Rotate
  BY <1>1, <1>3, LogNameCases DEF Log, Rotate, BundleTypeOK
<1>4. CASE CompressBegins \/ CompressWrites \/ CompressEnds
  BY <1>1, <1>4, LogNameCases DEF CompressBegins, CompressWrites, CompressEnds, BundleTypeOK
<1>5. CASE Prune
  BY <1>1, <1>5, LogNameCases DEF Prune, BundleTypeOK
<1>6. CASE UNCHANGED size
  BY <1>1, <1>6
<1>7. QED
  BY <1>2, <1>3, <1>4, <1>5, <1>6
     DEF BundleNext, CreateBundle, writeSystemInfo, writeSettings, listLogs, skipLog,
         addFileToZip, addFileInPart, logsWritten, writeCollector, writeManifest,
         finishBundle, failBundle, Return, bundleVars

LEMMA GrowthStep ==
  ASSUME BundleTypeOK, BundleTypeOK', CapInv, [BundleNext]_bundleVars
  PROVE  GrowthCounted'
<1> USE DEF CapInv
<1>1. SUFFICES ASSUME step' = "logs" PROVE \E last \in 0 .. CrashLogs : GrownSince(last)'
  BY DEF GrowthCounted
<1>2. CASE Log \/ Rotate \/ CompressBegins \/ CompressWrites \/ CompressEnds \/ Prune
             \/ RecoverAndLog
  <2>1. step = "logs"
    BY <1>1, <1>2 DEF Log, Rotate, CompressBegins, CompressWrites, CompressEnds, Prune,
       RecoverAndLog, idleVars
  <2>2. PICK last \in 0 .. CrashLogs : GrownSince(last)
    BY <2>1 DEF GrowthCounted
  <2>3. GrownSince(last)' \/ RecoverAndLog
    BY <1>2, <2>2, LoggerGrows
  <2>4. QED
    BY <2>2, <2>3, PanicGrows
<1>3. CASE listLogs
  BY <1>3, ListGrows DEF listLogs, CapKept
<1>4. ASSUME NEW n \in LogNames, skipLog(n) \/ addFileToZip(n) \/ addFileInPart(n)
      PROVE  \E last \in 0 .. CrashLogs : GrownSince(last)'
  <2>1. /\ VisitLog(n) /\ UNCHANGED <<size, grown>> /\ step = "logs"
        /\ \/ UNCHANGED <<total, copied, failed>>
           \/ /\ There(n) /\ copied' <= copied + size[n]
              /\ total' + failed' = total + failed + logs[n]
    <3>1. CASE skipLog(n)
      BY <3>1 DEF skipLog, VisitLog
    <3>2. CASE addFileToZip(n) \/ addFileInPart(n)
      <4>1. /\ VisitLog(n) /\ UNCHANGED <<size, grown>> /\ step = "logs" /\ There(n)
            /\ \/ /\ copied' = copied + size[n] /\ total' = total + logs[n]
                  /\ failed' = failed
               \/ /\ \E part \in 0 .. size[n] : copied' = copied + part
                  /\ failed' = failed + logs[n] /\ total' = total
        BY <3>2 DEF addFileToZip, addFileInPart, VisitLog
      <4>2. /\ logs[n] \in Nat /\ size[n] \in Int
            /\ copied \in Nat /\ total \in Nat /\ failed \in Nat
        BY <4>1, VisitType DEF BundleTypeOK
      <4>3. QED
        BY <4>1, <4>2
    <3>3. QED
      BY <1>4, <3>1, <3>2
  <2>2. PICK last \in 0 .. CrashLogs : GrownSince(last)
    BY <2>1 DEF GrowthCounted
  <2>3. GrownSince(last)'
    BY <2>1, <2>2, VisitGrows
  <2>4. QED
    BY <2>3
<1>5. CASE UNCHANGED bundleVars
  <2>1. PICK last \in 0 .. CrashLogs : GrownSince(last)
    BY <1>1, <1>5 DEF GrowthCounted, bundleVars
  <2>2. GrownSince(last)'
    BY <1>5, <2>1 DEF GrownSince, Excess, There, bundleVars, logsVars
  <2>3. QED
    BY <2>2
<1>6. QED
  BY <1>1, <1>2, <1>3, <1>4, <1>5
     DEF BundleNext, CreateBundle, writeSystemInfo, writeSettings, logsWritten,
         writeCollector, writeManifest, finishBundle, failBundle, Return

LEMMA CapStep ==
  ASSUME BundleTypeOK, CapInv, GrowthCounted', BundleTypeOK', [BundleNext]_bundleVars
  PROVE  CapKept'
<1> USE DEF CapInv, CapKept
<1>1. CASE step' = "logs"
  <2>1. copied' <= total' + failed' + grown'
    <3>1. PICK last \in 0 .. CrashLogs : GrownSince(last)'
      BY <1>1 DEF GrowthCounted
    <3>2. copied' + Excess(App)' + Excess(Packed)' + Excess(Crash(last))'
            <= total' + failed' + grown'
      BY <3>1 DEF GrownSince
    <3>3. Excess(App)' \in Nat /\ Excess(Packed)' \in Nat /\ Excess(Crash(last))' \in Nat
      <4>1. /\ (DOMAIN logs)' \subseteq LogNames
            /\ \A n \in (DOMAIN logs)' : logs'[n] \in Nat /\ size'[n] \in Int
        BY DEF BundleTypeOK
      <4>2. QED
        BY <4>1 DEF Excess
    <3>4. copied' \in Nat /\ total' \in Nat /\ failed' \in Nat /\ grown' \in Nat
      BY DEF BundleTypeOK
    <3>5. PICK c \in Nat, t \in Nat, f \in Nat, g \in Nat :
            c = copied' /\ t = total' /\ f = failed' /\ g = grown'
      BY <3>4
    <3>6. PICK a \in Nat, p \in Nat, b \in Nat : c + a + p + b <= t + f + g
      BY <3>2, <3>3, <3>5
    <3>7. c <= t + f + g
      BY ONLY <3>6
    <3>8. QED
      BY <3>5, <3>7
  <2>2. CASE \E n \in LogNames : addFileToZip(n)
    <3>1. total' <= MaxLogSize
      BY <2>2 DEF addFileToZip, Fits
    <3>2. QED
      BY <1>1, <2>1, <3>1
  <2>3. CASE UNCHANGED total
    BY <1>1, <2>1, <2>3
  <2>4. QED
    BY <1>1, <2>2, <2>3
       DEF BundleNext, Log, Rotate, CompressBegins, CompressWrites, CompressEnds, Prune,
           RecoverAndLog, idleVars, CreateBundle, writeSystemInfo, writeSettings, listLogs,
           skipLog, addFileInPart, logsWritten,
           writeCollector, writeManifest, finishBundle, failBundle, Return, bundleVars,
           logsVars
<1>2. CASE step' # "logs"
  <2>1. CASE finishBundle \/ failBundle \/ logsWritten
    BY <2>1, BundleAssumption DEF finishBundle, failBundle, logsWritten, Return
  <2>2. CASE UNCHANGED <<total, copied, failed>> /\ step # "logs"
    <3>1. total' = 0 /\ copied' = 0 /\ failed' = 0
      BY <2>2
    <3>2. PICK g \in Nat : g = grown'
      BY DEF BundleTypeOK
    <3>3. 0 <= 0 + 0 + g
      BY ONLY g \in Nat
    <3>4. copied' <= total' + failed' + grown'
      BY ONLY <3>1, <3>2, <3>3
    <3>5. total' <= MaxLogSize
      BY <3>1, BundleAssumption
    <3>6. QED
      BY <3>1, <3>4, <3>5
  <2>3. CASE \/ Log \/ Rotate \/ CompressBegins \/ CompressWrites \/ CompressEnds \/ Prune
             \/ RecoverAndLog \/ UNCHANGED bundleVars
    <3>1. UNCHANGED <<step, total, copied, failed>>
      BY <2>3 DEF Log, Rotate, CompressBegins, CompressWrites, CompressEnds, Prune,
         RecoverAndLog, idleVars, bundleVars, logsVars
    <3>2. QED
      BY <1>2, <2>2, <3>1
  <2>4. CASE \/ CreateBundle \/ writeSystemInfo \/ writeSettings \/ writeCollector
             \/ writeManifest
    BY <2>2, <2>4
       DEF CreateBundle, writeSystemInfo, writeSettings, writeCollector, writeManifest,
           logsVars
  <2>5. CASE \/ listLogs
             \/ \E n \in LogNames : skipLog(n) \/ addFileToZip(n) \/ addFileInPart(n)
    <3>1. step' = "logs"
      BY <2>5 DEF listLogs, skipLog, addFileToZip, addFileInPart, VisitLog
    <3>2. QED
      BY <1>2, <3>1
  <2>6. QED
    BY <2>1, <2>3, <2>4, <2>5 DEF BundleNext
<1>3. QED
  BY <1>1, <1>2

LEMMA CapInvStep == BundleTypeOK /\ CapInv /\ [BundleNext]_bundleVars => CapInv'
<1> SUFFICES ASSUME BundleTypeOK, CapInv, [BundleNext]_bundleVars PROVE CapInv'
  OBVIOUS
<1>1. CrashLogsInOrder'
  BY CrashLogsStep DEF CapInv
<1>2. GrowthCounted' /\ BundleTypeOK'
  BY GrowthStep, BundleTypeStep
<1>3. QED
  BY <1>1, <1>2, CapStep DEF CapInv

LEMMA CapInvInit == BundleInit => CapInv
<1> SUFFICES ASSUME BundleInit PROVE CapInv
  OBVIOUS
<1>1. CrashLogsInOrder
  <2>1. \A k \in 1 .. CrashLogs : ~ There(Crash(k)) /\ ~ (k <= 0)
    BY LogNameCases DEF BundleInit, There, Absent
  <2>2. 0 \in 0 .. CrashLogs
    BY BundleAssumption
  <2>3. QED
    BY <2>1, <2>2 DEF CrashLogsInOrder
<1>2. QED
  BY <1>1, BundleAssumption DEF BundleInit, CapInv, GrowthCounted, CapKept

\* What a bundle has of logs exceeds the size cap by no more than what they gained between
\* their measuring and their copy, and the sizes of those that were copied in part:
\* addFileToZip copies what a file has grown to, and writeLogs counts what it measured,
\* of the files whose copy did not fail.
THEOREM BundleLogsWithinCap == BundleSpec => []LogsWithinCap
<1>1. BundleInit => BundleTypeOK /\ CapInv
  BY BundleTypeInit, CapInvInit
<1>2. BundleTypeOK /\ CapInv /\ [BundleNext]_bundleVars => BundleTypeOK' /\ CapInv'
  BY BundleTypeStep, CapInvStep
<1>3. BundleTypeOK /\ CapInv => LogsWithinCap
  BY BundleAssumption DEF BundleTypeOK, CapInv, CapKept, LogsWithinCap
<1>4. QED
  BY <1>1, <1>2, <1>3, PTL DEF BundleSpec

\* The positions of the whole entries, and how many of them there are up to one.
Whole(entries) == {i \in DOMAIN entries : entries[i].whole}
Rank(entries, i) == Cardinality({j \in Whole(entries) : j <= i})

LEMMA ListsWholeIs ==
  ASSUME NEW list, NEW entries
  PROVE  ListsWhole(list, entries) <=>
           /\ Len(list) = Cardinality(Whole(entries))
           /\ \A i \in Whole(entries) : list[Rank(entries, i)] = entries[i].name
BY DEF ListsWhole, Whole, Rank

LEMMA WholeFinite ==
  ASSUME NEW entries \in Seq(ZipEntry)
  PROVE  /\ IsFiniteSet(Whole(entries)) /\ Cardinality(Whole(entries)) \in Nat
         /\ \A i \in Whole(entries) : i \in 1 .. Len(entries)
         /\ \A i \in Whole(entries) : Rank(entries, i) \in 1 .. Cardinality(Whole(entries))
<1>1. \A i \in Whole(entries) : i \in 1 .. Len(entries)
  BY DEF Whole
<1>2. IsFiniteSet(1 .. Len(entries))
  BY FS_Interval
<1>3. IsFiniteSet(Whole(entries)) /\ Cardinality(Whole(entries)) \in Nat
  BY <1>1, <1>2, FS_Subset, FS_CardinalityType
<1>4. ASSUME NEW i \in Whole(entries)
      PROVE  Rank(entries, i) \in 1 .. Cardinality(Whole(entries))
  <2> DEFINE upto == {j \in Whole(entries) : j <= i}
  <2>1. upto \subseteq Whole(entries) /\ i \in upto
    BY <1>1
  <2>2. IsFiniteSet(upto) /\ Cardinality(upto) \in Nat
        /\ Cardinality(upto) <= Cardinality(Whole(entries))
    BY <1>3, <2>1, FS_Subset, FS_CardinalityType
  <2>3. Cardinality(upto) # 0
    BY <2>1, <2>2, FS_EmptySet
  <2>4. Rank(entries, i) = Cardinality(upto)
    BY DEF Rank
  <2> HIDE DEF upto
  <2>5. QED
    BY <1>3, <2>2, <2>3, <2>4
<1>5. QED
  BY <1>1, <1>3, <1>4

LEMMA ListsNone == ListsWhole(<<>>, <<>>)
<1>1. Whole(<<>>) = {}
  BY DEF Whole
<1>2. Len(<<>>) = 0 /\ Cardinality({}) = 0
  BY FS_EmptySet
<1>3. QED
  BY <1>1, <1>2, ListsWholeIs

\* The list gains the name of an entry that is added whole, and no other.
LEMMA ListsAdded ==
  ASSUME NEW list \in Seq(EntryNames), NEW entries \in Seq(ZipEntry), NEW e \in ZipEntry,
         ListsWhole(list, entries)
  PROVE  ListsWhole(IF e.whole THEN Append(list, e.name) ELSE list, Append(entries, e))
<1> DEFINE n == Len(entries)
           new == Append(entries, e)
<1>1. /\ n \in Nat /\ DOMAIN entries = 1 .. n /\ DOMAIN new = 1 .. n + 1
      /\ new[n + 1] = e /\ \A i \in 1 .. n : new[i] = entries[i]
      /\ new \in Seq(ZipEntry)
  OBVIOUS
<1>2. /\ IsFiniteSet(Whole(entries)) /\ Cardinality(Whole(entries)) \in Nat
      /\ \A i \in Whole(entries) : i \in 1 .. n
      /\ \A i \in Whole(entries) : Rank(entries, i) \in 1 .. Cardinality(Whole(entries))
  BY WholeFinite
<1>3. /\ Len(list) = Cardinality(Whole(entries))
      /\ \A i \in Whole(entries) : list[Rank(entries, i)] = entries[i].name
  BY ListsWholeIs
<1> HIDE DEF n, new
<1>4. \A i \in 1 .. n : i \in Whole(new) <=> i \in Whole(entries)
  BY <1>1 DEF Whole
<1>5. \A i \in Whole(new) : i \in 1 .. n + 1
  BY <1>1 DEF Whole
<1>6. n + 1 \in Whole(new) <=> e.whole
  BY <1>1 DEF Whole
<1>7. ASSUME NEW i \in Whole(entries) PROVE Rank(new, i) = Rank(entries, i)
  <2>1. {j \in Whole(new) : j <= i} = {j \in Whole(entries) : j <= i}
    <3>1. ASSUME NEW j \in Whole(new), j <= i PROVE j \in Whole(entries)
      BY <1>1, <1>2, <1>4, <1>5, <1>7, <3>1
    <3>2. ASSUME NEW j \in Whole(entries) PROVE j \in Whole(new)
      BY <1>2, <1>4, <3>2
    <3>3. QED
      BY <3>1, <3>2
  <2>2. QED
    BY <2>1 DEF Rank
<1>8. CASE ~ e.whole
  <2>1. Whole(new) = Whole(entries)
    <3>1. \A i \in Whole(entries) : i \in Whole(new)
      BY <1>2, <1>4
    <3>2. ASSUME NEW i \in Whole(new) PROVE i \in Whole(entries)
      <4>1. i \in 1 .. n + 1 /\ i # n + 1
        BY <1>5, <1>6, <1>8
      <4>2. i \in 1 .. n
        BY <1>1, <4>1
      <4>3. QED
        BY <1>4, <4>2
    <3>3. QED
      BY <3>1, <3>2
  <2>2. \A i \in Whole(new) : list[Rank(new, i)] = new[i].name
    BY <1>1, <1>2, <1>3, <1>7, <2>1
  <2>3. ListsWhole(list, new)
    BY <1>3, <2>1, <2>2, ListsWholeIs
  <2>4. QED
    BY <1>8, <2>3 DEF new
<1>9. CASE e.whole
  <2> DEFINE longer == Append(list, e.name)
  <2>1. Whole(new) = Whole(entries) \cup {n + 1} /\ n + 1 \notin Whole(entries)
    BY <1>1, <1>2, <1>4, <1>5, <1>6, <1>9
  <2>2. Cardinality(Whole(new)) = Cardinality(Whole(entries)) + 1
    BY <1>2, <2>1, FS_AddElement
  <2>3. e.name \in EntryNames
    BY DEF ZipEntry
  <2>4. /\ Len(longer) = Len(list) + 1 /\ longer[Len(list) + 1] = e.name
        /\ \A i \in 1 .. Len(list) : longer[i] = list[i]
    BY <2>3
  <2> HIDE DEF longer
  <2>5. Rank(new, n + 1) = Cardinality(Whole(new))
    <3>1. {j \in Whole(new) : j <= n + 1} = Whole(new)
      BY <1>1, <1>5
    <3>2. QED
      BY <3>1 DEF Rank
  <2>6. ASSUME NEW i \in Whole(new) PROVE longer[Rank(new, i)] = new[i].name
    <3>1. CASE i = n + 1
      BY <1>1, <1>3, <2>2, <2>4, <2>5, <3>1
    <3>2. CASE i \in Whole(entries)
      <4>1. Rank(new, i) \in 1 .. Len(list) /\ list[Rank(new, i)] = new[i].name
        BY <1>1, <1>2, <1>3, <1>7, <3>2
      <4>2. QED
        BY <2>4, <4>1
    <3>3. QED
      BY <2>1, <3>1, <3>2
  <2>7. ListsWhole(longer, new)
    BY <1>3, <2>2, <2>4, <2>6, ListsWholeIs
  <2>8. QED
    BY <1>9, <2>7 DEF new, longer
<1>10. QED
  BY <1>8, <1>9 DEF ZipEntry

LEMMA AddLists ==
  ASSUME BundleTypeOK, ListsWhole(names, zip.entries), ~ zip.closed,
         NEW n \in EntryNames, NEW whole \in BOOLEAN, Add(n, whole)
  PROVE  /\ ListsWhole(names', zip'.entries) /\ ~ zip'.closed
         /\ names # <<>> \/ whole => names' # <<>>
<1> DEFINE e == [name |-> n, whole |-> whole]
<1>1. e \in ZipEntry /\ e.name = n /\ e.whole = whole
  BY DEF ZipEntry
<1> HIDE DEF e
<1>2. /\ zip' = [zip EXCEPT !.entries = Append(zip.entries, e)]
      /\ names' = IF e.whole THEN Append(names, e.name) ELSE names
  BY <1>1 DEF Add, e
<1>3. names \in Seq(EntryNames) /\ zip.entries \in Seq(ZipEntry)
  BY DEF BundleTypeOK
<1>4. ListsWhole(IF e.whole THEN Append(names, e.name) ELSE names, Append(zip.entries, e))
  BY <1>1, <1>3, ListsAdded
<1>5. zip'.entries = Append(zip.entries, e) /\ zip'.closed = zip.closed
  BY <1>2 DEF BundleTypeOK
<1>6. whole => names' # <<>>
  BY <1>1, <1>2, <1>3
<1>7. ~ whole => names' = names
  BY <1>1, <1>2
<1>8. QED
  BY <1>2, <1>4, <1>5, <1>6, <1>7

LEMMA ArchiveInvStep ==
  ASSUME BundleTypeOK, ArchiveInv, [BundleNext]_bundleVars
  PROVE  ArchiveInv'
<1>1. CASE \/ Log \/ Rotate \/ CompressBegins \/ CompressWrites \/ CompressEnds \/ Prune
           \/ RecoverAndLog \/ UNCHANGED bundleVars
  <2>1. UNCHANGED <<step, names, zip>>
    BY <1>1 DEF Log, Rotate, CompressBegins, CompressWrites, CompressEnds, Prune,
       RecoverAndLog, idleVars, bundleVars
  <2>2. QED
    BY <2>1 DEF ArchiveInv
<1>2. CASE CreateBundle
  <2>1. step' = "system" /\ names' = names /\ zip' = NoFile
    BY <1>2 DEF CreateBundle
  <2>2. names = <<>>
    BY <1>2 DEF CreateBundle, ArchiveInv
  <2>3. QED
    BY <2>1, <2>2, ListsNone DEF ArchiveInv, NoFile
<1>3. CASE writeSystemInfo
  <2>1. Add(<<"system", 0>>, TRUE) /\ <<"system", 0>> \in EntryNames
    BY <1>3 DEF writeSystemInfo, EntryNames
  <2>2. ListsWhole(names', zip'.entries) /\ ~ zip'.closed /\ names' # <<>>
    BY <1>3, <2>1, AddLists DEF writeSystemInfo, ArchiveInv
  <2>3. QED
    BY <1>3, <2>2 DEF writeSystemInfo, ArchiveInv
<1>4. CASE writeSettings
  <2> DEFINE n == <<"settings", 0>>
             e == [name |-> n, whole |-> TRUE]
  <2>1. e \in ZipEntry /\ e.whole = TRUE /\ e.name = n /\ n \in EntryNames
    BY DEF ZipEntry, EntryNames
  <2>2. /\ zip'.entries = Append(zip.entries, e) /\ zip'.closed = zip.closed
        /\ names' = Append(names, n) /\ step' = "list"
    BY <1>4 DEF writeSettings, BundleTypeOK
  <2> HIDE DEF e, n
  <2>3. names \in Seq(EntryNames) /\ zip.entries \in Seq(ZipEntry)
    BY DEF BundleTypeOK
  <2>4. ListsWhole(names, zip.entries) /\ ~ zip.closed
    BY <1>4 DEF writeSettings, ArchiveInv
  <2>5. ListsWhole(names', zip'.entries)
    BY <2>1, <2>2, <2>3, <2>4, ListsAdded
  <2>6. names' # <<>>
    BY <2>1, <2>2, <2>3
  <2>7. QED
    BY <2>2, <2>4, <2>5, <2>6 DEF ArchiveInv
<1>5. ASSUME NEW n \in LogNames, addFileToZip(n) \/ addFileInPart(n)
      PROVE  ArchiveInv'
  <2>1. PICK whole \in BOOLEAN : Add(n, whole)
    BY <1>5 DEF addFileToZip, addFileInPart
  <2>2. step = "logs" /\ step' = "logs"
    BY <1>5 DEF addFileToZip, addFileInPart, VisitLog
  <2>3. ListsWhole(names, zip.entries) /\ ~ zip.closed /\ names # <<>>
    BY <2>2 DEF ArchiveInv
  <2>4. n \in EntryNames
    BY DEF EntryNames
  <2>5. ListsWhole(names', zip'.entries) /\ ~ zip'.closed /\ names' # <<>>
    BY <2>1, <2>3, <2>4, AddLists
  <2>6. QED
    BY <2>2, <2>5 DEF ArchiveInv
<1>6. CASE writeCollector
  <2>1. step = "collectors" /\ step' = "collectors"
    BY <1>6 DEF writeCollector
  <2>2. ListsWhole(names, zip.entries) /\ ~ zip.closed /\ names # <<>>
    BY <2>1 DEF ArchiveInv
  <2>3. CASE UNCHANGED <<zip, names>>
    BY <2>1, <2>2, <2>3 DEF ArchiveInv
  <2>4. CASE Add(<<Head(collect), 0>>, TRUE)
    <3>1. Head(collect) \in CollectorNames
      BY <1>6 DEF writeCollector, BundleTypeOK
    <3>2. <<Head(collect), 0>> \in EntryNames
      BY <3>1 DEF EntryNames
    <3>3. ListsWhole(names', zip'.entries) /\ ~ zip'.closed /\ names' # <<>>
      BY <2>2, <2>4, <3>2, AddLists
    <3>4. QED
      BY <2>1, <3>3 DEF ArchiveInv
  <2>5. QED
    BY <1>6, <2>3, <2>4 DEF writeCollector
<1>7. CASE writeManifest
  <2>1. step = "collectors" /\ step' = "close" /\ names' = names
    BY <1>7 DEF writeManifest
  <2>2. zip'.manifest = names /\ zip'.entries = zip.entries /\ zip'.closed = zip.closed
    BY <1>7 DEF writeManifest, BundleTypeOK
  <2>3. QED
    BY <2>1, <2>2 DEF ArchiveInv
<1>8. CASE finishBundle \/ failBundle
  BY <1>8 DEF finishBundle, failBundle, Return, ArchiveInv
<1>9. CASE listLogs \/ logsWritten \/ \E n \in LogNames : skipLog(n)
  <2>1. /\ UNCHANGED <<names, zip>>
        /\ step \in {"list", "logs"} /\ step' \in {"logs", "collectors"}
    BY <1>9 DEF listLogs, logsWritten, skipLog, VisitLog
  <2>2. QED
    BY <2>1 DEF ArchiveInv
<1>10. QED
  BY <1>1, <1>2, <1>3, <1>4, <1>5, <1>6, <1>7, <1>8, <1>9 DEF BundleNext

\* The settings of a bundle show no password.
LEMMA SanitizedMasked == \A values \in Sanitized : Masked(values)
BY DEF Sanitized, sanitizeSettings, Masked

\* A step of CreateBundle, and of what runs beside it, is one of BundleFile or none.
LEMMA BundleFileStep ==
  ASSUME BundleTypeOK, BundleTypeOK', ArchiveInv, ArchiveInv', [BundleNext]_bundleVars
  PROVE  [File!FileNext]_File!fileVars
<1>1. CASE UNCHANGED <<step, zip, announced, reopened>>
  BY <1>1 DEF File!fileVars, Sound
<1>2. CASE CreateBundle
  <2>1. File!Begin
    BY <1>2 DEF CreateBundle, File!Begin, Sound, NoFile
  <2>2. QED
    BY <2>1 DEF File!FileNext
<1>3. CASE step # "idle" /\ step' # "idle" /\ UNCHANGED <<announced, reopened>>
  <2>1. ~ Sound(zip) /\ ~ Sound(zip)'
    BY <1>3 DEF ArchiveInv, Sound
  <2>2. QED
    BY <1>3, <2>1 DEF File!fileVars, Sound
<1>4. CASE finishBundle
  <2>1. /\ zip.manifest = names /\ names # <<>> /\ ListsWhole(names, zip.entries)
        /\ step = "close"
    BY <1>4 DEF finishBundle, ArchiveInv
  <2>2. /\ zip'.closed /\ zip'.manifest = zip.manifest /\ zip'.entries = zip.entries
        /\ zip'.settings = zip.settings /\ zip.settings \subseteq Sanitized
    BY <1>4 DEF finishBundle, BundleTypeOK
  <2>3. Sound(zip')
    BY <2>1, <2>2, SanitizedMasked DEF Sound
  <2>4. File!Finish
    BY <1>4, <2>1, <2>3 DEF finishBundle, Return, File!Finish, Sound
  <2>5. QED
    BY <2>4 DEF File!FileNext
<1>5. CASE failBundle
  <2>1. File!Fail
    BY <1>5 DEF failBundle, Return, File!Fail, Sound
  <2>2. QED
    BY <2>1 DEF File!FileNext
<1>6. QED
  BY <1>1, <1>2, <1>3, <1>4, <1>5
     DEF BundleNext, Log, Rotate, CompressBegins, CompressWrites, CompressEnds, Prune,
         RecoverAndLog, idleVars, bundleVars, toldVars, writeSystemInfo, writeSettings,
         listLogs, skipLog, addFileToZip, addFileInPart, VisitLog, logsWritten,
         writeCollector, writeManifest

\* What CreateBundle announces is what module BundleFile promises of the file
\* (Bundle.ImplementsBundleFile): an archive that is closed, whose manifest lists exactly
\* what it holds whole, and whose settings are masked, whatever logs and collectors fail.
\* What it holds in part it does not list (addFileToZip fails after the entry was made).
THEOREM BundleImplementsBundleFile == BundleSpec => ImplementsBundleFile
<1>1. BundleInit => BundleTypeOK /\ ArchiveInv
  BY BundleTypeInit DEF BundleInit, ArchiveInv
<1>2. BundleTypeOK /\ ArchiveInv /\ [BundleNext]_bundleVars => BundleTypeOK' /\ ArchiveInv'
  BY BundleTypeStep, ArchiveInvStep
<1>3. BundleInit => File!FileInit
  BY DEF BundleInit, File!FileInit, Sound, NoFile
<1>4. BundleTypeOK /\ BundleTypeOK' /\ ArchiveInv /\ ArchiveInv' /\ [BundleNext]_bundleVars
        => [File!FileNext]_File!fileVars
  BY BundleFileStep
<1>5. QED
  BY <1>1, <1>2, <1>3, <1>4, PTL DEF BundleSpec, ImplementsBundleFile, File!FileSpec

\* What BundleFile promises of a file, while it is written and after.
AnnouncedInv ==
  /\ announced => Sound(zip) \/ reopened
  /\ step # "idle" /\ announced => reopened

\* The archive that CreateBundle announced is sound, through all that is logged, rotated
\* and written afterwards, unless another call in the same second emptied its file
\* (diagnostics.go: os.Create on the name of an earlier bundle).
THEOREM BundleAnnouncedIsSound == BundleSpec => []File!AnnouncedIsSound
<1>1. BundleInit => BundleTypeOK /\ ArchiveInv /\ AnnouncedInv
  BY BundleTypeInit DEF BundleInit, ArchiveInv, AnnouncedInv
<1>2. ASSUME BundleTypeOK, ArchiveInv, AnnouncedInv, [BundleNext]_bundleVars
      PROVE  BundleTypeOK' /\ ArchiveInv' /\ AnnouncedInv'
  <2>1. BundleTypeOK' /\ ArchiveInv'
    BY <1>2, BundleTypeStep, ArchiveInvStep
  <2>2. [File!FileNext]_File!fileVars
    BY <1>2, <2>1, BundleFileStep
  <2>3. CASE UNCHANGED File!fileVars
    BY <1>2, <2>1, <2>3 DEF File!fileVars, AnnouncedInv
  <2>4. CASE File!FileNext
    BY <1>2, <2>1, <2>4 DEF File!FileNext, File!Begin, File!Finish, File!Fail, AnnouncedInv
  <2>5. QED
    BY <2>1, <2>2, <2>3, <2>4
<1>3. AnnouncedInv => File!AnnouncedIsSound
  BY DEF AnnouncedInv, File!AnnouncedIsSound
<1>4. QED
  BY <1>1, <1>2, <1>3, PTL DEF BundleSpec
=============================================================================
