------------------------- MODULE ContextWindowProofs -------------------------
(***************************************************************************)
(* Proofs about module ContextWindow, for any window, any budgets and      *)
(* tokens and conversations of any length: that uses of tools stay with    *)
(* their results, and that the window is the longest that fits.            *)
(***************************************************************************)
EXTENDS ContextWindow, WellFoundedInduction, TLAPS

WindowTypeOK ==
  /\ counter \in BOOLEAN
  /\ budget \in Budgets
  /\ messages \in Seq(Message)
  /\ stage \in {"idle", "walk", "adjust", "cut", "built"}
  /\ used \in Nat
  /\ next \in Int
  /\ windowStart \in -1 .. Len(messages)
  /\ head \in {<<>>, <<"user">>, <<"user", "assistant">>}

\* Results come after a message of the assistant.
ResultsFollow ==
  \A k \in 1 .. Len(messages) :
    HasResults(messages[k]) => k > 1 /\ messages[k - 1].role = "assistant"

Bounded == ~ (counter /\ budget <= 0)

\* The walk has seen the messages that the window has, and their tokens.
Walking ==
  stage = "walk" =>
    /\ counter /\ budget > 0
    /\ next \in -1 .. Len(messages) - 1
    /\ windowStart = next + 1
    /\ used = TokensFrom[windowStart]
    /\ used <= budget

\* The window begins at a message, if there is one.
StartsInside ==
  stage \in {"adjust", "cut"} =>
    IF messages = <<>> THEN windowStart \in {-1, 0} ELSE windowStart \in 0 .. Len(messages) - 1

\* What is adjusted is the longest window.
AdjustsLongest ==
  stage = "adjust" => Bounded /\ From = Longest

\* From the adjustment on, the two properties hold.
Adjusted ==
  stage \in {"cut", "built"} /\ Bounded =>
    /\ From > 0 => ~ HasResults(messages[From + 1])
    /\ \/ From = Longest
       \/ From = Longest - 1 /\ HasResults(messages[Longest + 1])

WindowInv ==
  WindowTypeOK /\ ResultsFollow /\ Walking /\ StartsInside /\ AdjustsLongest /\ Adjusted
-----------------------------------------------------------------------------
(* The sums of tokens. *)

\* A nonempty set of naturals has a least one.
LEMMA LeastNat ==
  ASSUME NEW T \in SUBSET Nat, T # {}
  PROVE  \E i \in T : \A j \in T : i <= j
<1>1. PICK i \in T : \A j \in T : ~(<<j, i>> \in OpToRel(<, Nat))
  BY NatLessThanWellFounded, WFMin
<1>2. ASSUME NEW j \in T PROVE i <= j
  <2>1. i \in Nat /\ j \in Nat
    BY <1>1
  <2>2. ~(j < i)
    BY <1>1, <2>1 DEF OpToRel
  <2>3. QED
    BY <2>1, <2>2
<1>3. QED
  BY <1>2

\* f has the sums of the tokens of the messages from m on, and of fewer.
SumsFrom(f, m) ==
  f = [s \in m .. Len(messages) |->
         IF s = Len(messages) THEN 0 ELSE messages[s + 1].tokens + f[s + 1]]

\* There are such sums, whatever the messages: one message more at a time.
LEMMA SumsExist ==
  ASSUME messages \in Seq(Message)
  PROVE  \E f : SumsFrom(f, 0)
<1> DEFINE n == Len(messages)
           T == {d \in 0 .. n : ~ \E f : SumsFrom(f, n - d)}
<1>1. n \in Nat
  OBVIOUS
<1> HIDE DEF n
<1>2. SUFFICES ASSUME T # {} PROVE FALSE
  <2>1. n \in 0 .. n /\ n - n = 0
    BY <1>1
  <2>2. QED
    BY <2>1
<1>3. PICK d \in T : \A e \in T : d <= e
  <2>1. T \in SUBSET Nat
    BY <1>1
  <2>2. QED
    BY <1>2, <2>1, LeastNat
<1>4. CASE d = 0
  <2> DEFINE f == [s \in {n} |-> 0]
  <2>1. n .. n = {n} /\ n - d = n
    BY <1>1, <1>4
  <2>2. SumsFrom(f, n)
    BY <2>1 DEF SumsFrom, n
  <2>3. QED
    BY <1>3, <2>1, <2>2
<1>5. CASE d # 0
  <2>1. d - 1 \in 0 .. n /\ d - 1 \notin T
    BY <1>1, <1>3, <1>5
  <2>2. PICK f : SumsFrom(f, n - (d - 1))
    BY <2>1
  <2> DEFINE m == n - d
             g == [s \in m .. n |-> IF s = m THEN messages[s + 1].tokens + f[s + 1] ELSE f[s]]
  <2>3. m \in Nat /\ m < n /\ n - (d - 1) = m + 1
    BY <1>1, <1>3, <1>5
  <2> HIDE DEF m
  <2>4. f = [s \in m + 1 .. n |-> IF s = n THEN 0 ELSE messages[s + 1].tokens + f[s + 1]]
    BY <2>2, <2>3 DEF SumsFrom, n
  <2>5. ASSUME NEW s \in m .. n
        PROVE  g[s] = IF s = n THEN 0 ELSE messages[s + 1].tokens + g[s + 1]
    <3>1. CASE s = m
      <4>1. s + 1 \in m .. n /\ s + 1 # m /\ s # n
        BY <1>1, <2>3, <3>1
      <4>2. QED
        BY <3>1, <4>1
    <3>2. CASE s # m
      <4>1. s \in m + 1 .. n
        BY <1>1, <2>3, <3>2
      <4>2. g[s] = IF s = n THEN 0 ELSE messages[s + 1].tokens + f[s + 1]
        BY <2>4, <3>2, <4>1
      <4>3. s # n => s + 1 \in m .. n /\ s + 1 # m
        BY <1>1, <2>3, <4>1
      <4>4. QED
        BY <4>2, <4>3
    <3>3. QED
      BY <3>1, <3>2
  <2>6. g = [s \in m .. n |-> IF s = n THEN 0 ELSE messages[s + 1].tokens + g[s + 1]]
    BY <2>5
  <2>7. SumsFrom(g, m)
    BY <2>6 DEF SumsFrom, n
  <2>8. QED
    BY <1>3, <2>7 DEF m
<1>6. QED
  BY <1>4, <1>5

LEMMA TokensUnfold ==
  ASSUME messages \in Seq(Message), NEW s \in 0 .. Len(messages)
  PROVE  TokensFrom[s] = IF s = Len(messages) THEN 0
                         ELSE messages[s + 1].tokens + TokensFrom[s + 1]
<1>1. TokensFrom = CHOOSE f : SumsFrom(f, 0)
  BY DEF TokensFrom, SumsFrom
<1>2. SumsFrom(TokensFrom, 0)
  BY <1>1, SumsExist
<1>3. QED
  BY <1>2 DEF SumsFrom

\* The sums are numbers, and fall from one message to the next.
LEMMA TokensNat ==
  ASSUME messages \in Seq(Message), NEW s \in 0 .. Len(messages)
  PROVE  TokensFrom[s] \in Nat
<1> DEFINE n == Len(messages)
           T == {d \in 0 .. n : TokensFrom[n - d] \notin Nat}
<1>1. n \in Nat
  OBVIOUS
<1>2. SUFFICES ASSUME T # {} PROVE FALSE
  <2>1. n - s \in 0 .. n /\ n - (n - s) = s
    BY <1>1
  <2>2. QED
    BY <2>1
<1>3. PICK d \in T : \A e \in T : d <= e
  <2>1. T \in SUBSET Nat
    BY <1>1
  <2>2. QED
    BY <1>2, <2>1, LeastNat
<1>4. TokensFrom[n - d] = IF n - d = n THEN 0
                          ELSE messages[n - d + 1].tokens + TokensFrom[n - d + 1]
  <2>1. n - d \in 0 .. n
    BY <1>1, <1>3
  <2>2. QED
    BY <2>1, TokensUnfold
<1>5. d # 0
  BY <1>1, <1>3, <1>4
<1>6. TokensFrom[n - (d - 1)] \in Nat
  BY <1>1, <1>3, <1>5
<1>7. messages[n - d + 1].tokens \in Nat
  <2>1. n - d + 1 \in 1 .. n
    BY <1>1, <1>3, <1>5
  <2>2. messages[n - d + 1] \in Message
    BY <2>1
  <2>3. QED
    BY <2>2, ContextAssumption DEF Message
<1>8. n - (d - 1) = n - d + 1 /\ n - d # n
  BY <1>1, <1>3, <1>5
<1>9. QED
  BY <1>3, <1>4, <1>6, <1>7, <1>8

LEMMA TokensFall ==
  ASSUME messages \in Seq(Message), NEW t \in 0 .. Len(messages), NEW s \in 0 .. t
  PROVE  TokensFrom[s] >= TokensFrom[t]
<1> DEFINE T == {d \in 0 .. t : ~(TokensFrom[t - d] >= TokensFrom[t])}
<1>1. Len(messages) \in Nat /\ t \in Nat
  OBVIOUS
<1>2. SUFFICES ASSUME T # {} PROVE FALSE
  <2>1. t - s \in 0 .. t /\ t - (t - s) = s
    BY <1>1
  <2>2. QED
    BY <2>1
<1>3. PICK d \in T : \A e \in T : d <= e
  <2>1. T \in SUBSET Nat
    BY <1>1
  <2>2. QED
    BY <1>2, <2>1, LeastNat
<1>4. d # 0
  <2>1. TokensFrom[t] \in Nat /\ t - 0 = t
    BY <1>1, TokensNat
  <2>2. QED
    BY <1>3, <2>1
<1>5. /\ t - d \in 0 .. Len(messages) /\ t - d # Len(messages) /\ t - d + 1 = t - (d - 1)
      /\ t - d + 1 \in 0 .. Len(messages) /\ t - d + 1 \in 1 .. Len(messages)
  BY <1>1, <1>3, <1>4
<1>6. TokensFrom[t - (d - 1)] >= TokensFrom[t]
  <2>1. d - 1 \in 0 .. t /\ ~(d <= d - 1)
    BY <1>1, <1>3, <1>4
  <2>2. QED
    BY <1>3, <2>1
<1>7. TokensFrom[t - d] = messages[t - d + 1].tokens + TokensFrom[t - d + 1]
  BY <1>5, TokensUnfold
<1>8. messages[t - d + 1].tokens \in Nat
  <2>1. messages[t - d + 1] \in Message
    BY <1>5
  <2>2. QED
    BY <2>1, ContextAssumption DEF Message
<1>9. TokensFrom[t - d + 1] \in Nat /\ TokensFrom[t] \in Nat
  BY <1>5, TokensNat
<1>10. QED
  BY <1>3, <1>5, <1>6, <1>7, <1>8, <1>9
-----------------------------------------------------------------------------
(* The longest window. *)

LEMMA MinIs ==
  ASSUME NEW S \in SUBSET Int, NEW m \in S, \A x \in S : m <= x
  PROVE  Min(S) = m
<1>1. \A x \in S : (\A y \in S : x <= y) => x = m
  OBVIOUS
<1>2. QED
  BY <1>1 DEF Min

LEMMA MaxOfTwo ==
  ASSUME NEW x \in Int, NEW y \in Int
  PROVE  Max({x, y}) = IF x >= y THEN x ELSE y
<1> DEFINE m == IF x >= y THEN x ELSE y
<1>1. m \in {x, y} /\ \A z \in {x, y} : m >= z
  OBVIOUS
<1>2. \A z \in {x, y} : (\A w \in {x, y} : z >= w) => z = m
  OBVIOUS
<1> HIDE DEF m
<1>3. Max({x, y}) = m
  BY <1>1, <1>2 DEF Max
<1>4. QED
  BY <1>3 DEF m

\* With a token counter: where the messages from m on fit and those before do not, the
\* longest window begins, but the last message is always in it.
LEMMA LongestByTokens ==
  ASSUME messages \in Seq(Message), counter, budget \in Int,
         NEW m \in 0 .. Len(messages), TokensFrom[m] <= budget,
         m > 0 => TokensFrom[m - 1] > budget
  PROVE  Longest = IF messages = <<>> THEN 0
                   ELSE IF m = Len(messages) THEN m - 1 ELSE m
<1> DEFINE n == Len(messages)
           fitting == {s \in 0 .. n : TokensFrom[s] <= budget}
<1>1. n \in Nat /\ (messages = <<>> <=> n = 0) /\ m \in 0 .. n
  OBVIOUS
<1>2. \A s \in 0 .. n : TokensFrom[s] \in Nat
  BY TokensNat
<1>3. ASSUME NEW s \in m .. n PROVE TokensFrom[s] <= budget
  <2>1. s \in 0 .. n /\ m \in 0 .. s
    BY <1>1
  <2>2. TokensFrom[m] >= TokensFrom[s]
    BY <2>1, TokensFall
  <2>3. QED
    BY <1>1, <1>2, <2>1, <2>2
<1>4. ASSUME NEW s \in 0 .. m - 1 PROVE ~(TokensFrom[s] <= budget)
  <2>1. m > 0 /\ m - 1 \in 0 .. n /\ s \in 0 .. m - 1 /\ s \in 0 .. n
    BY <1>1
  <2>2. TokensFrom[s] >= TokensFrom[m - 1]
    BY <2>1, TokensFall
  <2>3. QED
    BY <1>2, <2>1, <2>2
<1>5. \A s \in fitting : s \in m .. n
  <2>1. \A s \in 0 .. n : s \in m .. n \/ s \in 0 .. m - 1
    BY <1>1
  <2>2. QED
    BY <1>4, <2>1
<1>6. m .. n \subseteq fitting
  BY <1>1, <1>3
<1>7. Max({n - 1, 0}) = IF n = 0 THEN 0 ELSE n - 1
  BY <1>1, MaxOfTwo
<1>8. Longest = Min(fitting \cup {IF n = 0 THEN 0 ELSE n - 1})
  BY <1>7 DEF Longest
<1>9. fitting \cup {IF n = 0 THEN 0 ELSE n - 1} \in SUBSET Int
  BY <1>1
<1> HIDE DEF fitting, n
<1>10. CASE n = 0
  <2>1. 0 \in fitting \cup {IF n = 0 THEN 0 ELSE n - 1}
        /\ \A s \in fitting \cup {IF n = 0 THEN 0 ELSE n - 1} : 0 <= s
    BY <1>1, <1>5, <1>10
  <2>2. QED
    BY <1>1, <1>8, <1>9, <1>10, <2>1, MinIs
<1>11. CASE n # 0 /\ m = n
  <2>1. n - 1 \in fitting \cup {IF n = 0 THEN 0 ELSE n - 1}
        /\ \A s \in fitting \cup {IF n = 0 THEN 0 ELSE n - 1} : n - 1 <= s
    BY <1>1, <1>5, <1>11
  <2>2. Longest = n - 1
    BY <1>8, <1>9, <2>1, MinIs
  <2>3. QED
    BY <1>1, <1>11, <2>2 DEF n
<1>12. CASE n # 0 /\ m # n
  <2>1. m \in fitting
    BY <1>1, <1>6
  <2>2. \A s \in fitting \cup {IF n = 0 THEN 0 ELSE n - 1} : m <= s
    BY <1>1, <1>5, <1>12
  <2>3. Longest = m
    BY <1>8, <1>9, <2>1, <2>2, MinIs
  <2>4. QED
    BY <1>1, <1>12, <2>3 DEF n
<1>13. QED
  BY <1>10, <1>11, <1>12

\* Without one: the last messages.
LEMMA LongestByCount ==
  ASSUME messages \in Seq(Message), ~counter
  PROVE  Longest = IF Len(messages) >= WindowSize THEN Len(messages) - WindowSize ELSE 0
<1>1. Len(messages) \in Nat /\ WindowSize \in Nat
  BY ContextAssumption
<1>2. Longest = Max({Len(messages) - WindowSize, 0})
  BY DEF Longest
<1>3. Longest = IF Len(messages) - WindowSize >= 0 THEN Len(messages) - WindowSize ELSE 0
  BY <1>1, <1>2, MaxOfTwo
<1>4. QED
  BY <1>1, <1>3
-----------------------------------------------------------------------------
(* The invariant. *)

LEMMA WindowInitInv == WindowInit => WindowInv
BY DEF WindowInit, WindowInv, WindowTypeOK, ResultsFollow, Walking, StartsInside,
   AdjustsLongest, Adjusted

\* What is said of the window depends on the messages, the budget and where it begins.
LEMMA SameMessages ==
  ASSUME UNCHANGED <<counter, budget, messages>>
  PROVE  /\ TokensFrom' = TokensFrom /\ Longest' = Longest /\ Bounded' = Bounded
         /\ \A k : HasResults(messages[k])' = HasResults(messages[k])
         /\ windowStart' = windowStart => From' = From
BY DEF TokensFrom, Longest, Bounded, HasResults, From

\* The conversation goes on as it does: results follow their uses.
LEMMA ConverseInv ==
  ASSUME WindowInv, NEW m \in Message, Converse(m)
  PROVE  WindowInv'
<1> USE DEF WindowInv, WindowTypeOK
<1> PICK n : n = Len(messages)
  OBVIOUS
<1>1. /\ stage = "idle" /\ stage' = "idle" /\ messages' = Append(messages, m)
      /\ UNCHANGED <<counter, budget, used, next, windowStart, head>>
      /\ n \in Nat /\ windowStart \in -1 .. n
  BY DEF Converse, setup
<1>2. /\ messages' \in Seq(Message) /\ Len(messages') = n + 1 /\ messages'[n + 1] = m
      /\ \A k \in 1 .. n : messages'[k] = messages[k]
  BY <1>1
<1>3. WindowTypeOK'
  BY <1>1, <1>2
<1>4. ResultsFollow'
  <2>1. SUFFICES ASSUME NEW k \in 1 .. n + 1, HasResults(messages'[k])
                 PROVE  k > 1 /\ messages'[k - 1].role = "assistant"
    BY <1>2 DEF ResultsFollow, HasResults
  <2>2. CASE k \in 1 .. n
    <3>1. k > 1 /\ messages[k - 1].role = "assistant"
      BY <1>2, <2>1, <2>2 DEF ResultsFollow
    <3>2. k - 1 \in 1 .. n
      BY <1>1, <2>2, <3>1
    <3>3. QED
      BY <1>2, <3>1, <3>2
  <2>3. CASE k = n + 1
    <3>1. m.role = "user" /\ m.tools
      BY <1>2, <2>1, <2>3 DEF HasResults
    <3>2. messages # <<>> /\ messages[n].role # "user"
      BY <3>1 DEF Converse, Follows
    <3>3. n > 0 /\ n \in 1 .. n
      BY <1>1, <3>2
    <3>4. messages[n].role = "assistant"
      <4>1. messages[n] \in Message
        BY <3>3
      <4>2. QED
        BY <3>2, <4>1 DEF Message
    <3>5. QED
      BY <1>1, <1>2, <2>3, <3>3, <3>4
  <2>4. QED
    BY <1>1, <2>2, <2>3
<1>5. Walking' /\ StartsInside' /\ AdjustsLongest' /\ Adjusted'
  BY <1>1 DEF Walking, StartsInside, AdjustsLongest, Adjusted
<1>6. QED
  BY <1>3, <1>4, <1>5

LEMMA WindowInvStep ==
  ASSUME WindowInv, [WindowNext]_windowVars
  PROVE  WindowInv'
<1> USE DEF WindowInv, WindowTypeOK
<1> PICK n : n = Len(messages)
  OBVIOUS
<1>1. /\ n \in Nat /\ (messages = <<>> <=> n = 0) /\ WindowSize \in Nat \ {0} /\ budget \in Int
      /\ windowStart \in -1 .. n
  BY ContextAssumption
<1>2. CASE \E m \in Message : Converse(m)
  BY <1>2, ConverseInv
<1>3. ASSUME messages' = messages, UNCHANGED setup
      PROVE  /\ Len(messages') = n /\ Longest' = Longest /\ TokensFrom' = TokensFrom
             /\ Bounded' = Bounded /\ ResultsFollow'
             /\ \A k : HasResults(messages'[k]) = HasResults(messages[k])
             /\ windowStart' = windowStart => From' = From
  BY <1>3, SameMessages DEF setup, ResultsFollow, HasResults
<1>4. CASE AllFit
  <2>1. /\ ~counter /\ n <= WindowSize /\ windowStart' = 0 /\ head' = <<>> /\ stage' = "built"
        /\ UNCHANGED <<setup, counter, budget, messages, used, next>>
    BY <1>4 DEF AllFit, setup
  <2>2. From' = 0 /\ Longest = 0
    BY <1>1, <2>1, LongestByCount DEF From
  <2>3. WindowTypeOK'
    BY <1>1, <2>1
  <2>4. QED
    BY <1>3, <2>1, <2>2, <2>3 DEF Walking, StartsInside, AdjustsLongest, Adjusted
<1>5. CASE LastMessages
  <2>1. /\ ~counter /\ n > WindowSize /\ windowStart' = n - WindowSize /\ stage' = "adjust"
        /\ UNCHANGED <<setup, counter, budget, messages, used, next, head>>
    BY <1>5 DEF LastMessages, setup
  <2>2. windowStart' \in 0 .. n - 1 /\ n # 0 /\ From' = windowStart'
    BY <1>1, <2>1 DEF From
  <2>3. Longest = n - WindowSize /\ Bounded
    BY <1>1, <2>1, LongestByCount DEF Bounded
  <2>4. WindowTypeOK'
    BY <1>1, <2>1, <2>2
  <2>5. QED
    BY <1>1, <1>3, <2>1, <2>2, <2>3, <2>4
       DEF Walking, StartsInside, AdjustsLongest, Adjusted
<1>6. CASE NoBudget
  <2>1. /\ counter /\ budget <= 0 /\ windowStart' = IF messages = <<>> THEN 0 ELSE n - 1
        /\ stage' = "cut" /\ UNCHANGED <<setup, counter, budget, messages, used, next, head>>
    BY <1>6 DEF NoBudget, setup
  <2>2. ~Bounded
    BY <2>1 DEF Bounded
  <2>3. WindowTypeOK' /\ StartsInside'
    BY <1>1, <2>1 DEF StartsInside
  <2>4. QED
    BY <1>3, <2>1, <2>2, <2>3 DEF Walking, AdjustsLongest, Adjusted
<1>7. CASE BeginWalk
  <2>1. /\ counter /\ budget > 0 /\ used' = 0 /\ next' = n - 1 /\ windowStart' = n
        /\ stage' = "walk" /\ UNCHANGED <<setup, counter, budget, messages, head>>
    BY <1>7 DEF BeginWalk, setup
  <2>2. TokensFrom[n] = 0
    BY <1>1, TokensUnfold
  <2>3. WindowTypeOK' /\ Walking'
    BY <1>1, <1>3, <2>1, <2>2 DEF Walking
  <2>4. QED
    BY <1>3, <2>1, <2>3 DEF StartsInside, AdjustsLongest, Adjusted
<1>8. CASE Walk
  <2>1. /\ stage = "walk" /\ next >= 0 /\ used + messages[next + 1].tokens <= budget
        /\ used' = used + messages[next + 1].tokens /\ windowStart' = next
        /\ next' = next - 1 /\ UNCHANGED <<setup, counter, budget, messages, stage, head>>
    BY <1>8 DEF Walk, Fits, setup
  <2>2. /\ next \in 0 .. n - 1 /\ windowStart = next + 1 /\ used = TokensFrom[next + 1]
        /\ counter /\ budget > 0
    BY <1>1, <2>1 DEF Walking
  <2>3. TokensFrom[next] = messages[next + 1].tokens + TokensFrom[next + 1]
    BY <1>1, <2>2, TokensUnfold
  <2>4. messages[next + 1].tokens \in Nat
    <3>1. messages[next + 1] \in Message
      BY <1>1, <2>2
    <3>2. QED
      BY <3>1, ContextAssumption DEF Message
  <2>5. used' = TokensFrom[next] /\ used' \in Nat
    BY <2>1, <2>2, <2>3, <2>4
  <2>6. WindowTypeOK'
    BY <1>1, <2>1, <2>2, <2>5
  <2>7. Walking'
    BY <1>1, <1>3, <2>1, <2>2, <2>5 DEF Walking
  <2>8. QED
    BY <1>3, <2>1, <2>6, <2>7 DEF StartsInside, AdjustsLongest, Adjusted
<1>9. CASE WalkEnds
  <2>1. /\ stage = "walk" /\ ~Fits /\ stage' = "adjust"
        /\ windowStart' = IF windowStart >= n THEN n - 1 ELSE windowStart
        /\ UNCHANGED <<setup, counter, budget, messages, used, next, head>>
    BY <1>9 DEF WalkEnds, setup
  <2>2. /\ counter /\ budget > 0 /\ next \in -1 .. n - 1 /\ windowStart = next + 1
        /\ used = TokensFrom[windowStart] /\ used <= budget /\ windowStart \in 0 .. n
    BY <1>1, <2>1 DEF Walking
  <2>3. windowStart > 0 => TokensFrom[windowStart - 1] > budget
    <3>1. SUFFICES ASSUME windowStart > 0 PROVE TokensFrom[windowStart - 1] > budget
      OBVIOUS
    <3>2. next \in 0 .. n - 1 /\ windowStart - 1 = next
      BY <2>2, <3>1
    <3>3. TokensFrom[next] = messages[next + 1].tokens + used
      BY <1>1, <2>2, <3>2, TokensUnfold
    <3>4. messages[next + 1] \in Message
      BY <1>1, <3>2
    <3>5. messages[next + 1].tokens \in Nat
      BY <3>4, ContextAssumption DEF Message
    <3>6. QED
      BY <1>1, <2>1, <3>2, <3>3, <3>5 DEF Fits
  <2>4. Longest = IF messages = <<>> THEN 0
                  ELSE IF windowStart = n THEN windowStart - 1 ELSE windowStart
    BY <1>1, <2>2, <2>3, LongestByTokens
  <2>5. WindowTypeOK' /\ StartsInside'
    BY <1>1, <2>1, <2>2 DEF StartsInside
  <2>6. From' = Longest
    BY <1>1, <2>1, <2>2, <2>4 DEF From
  <2>7. Bounded
    BY <2>2, <1>1 DEF Bounded
  <2>8. QED
    BY <1>3, <2>1, <2>5, <2>6, <2>7 DEF Walking, AdjustsLongest, Adjusted
<1>10. CASE Adjust
  <2>1. /\ stage = "adjust" /\ stage' = "cut"
        /\ windowStart' = IF windowStart > 0 /\ HasResults(messages[windowStart + 1])
                          THEN windowStart - 1 ELSE windowStart
        /\ UNCHANGED <<setup, counter, budget, messages, used, next, head>>
    BY <1>10 DEF Adjust, setup
  <2>2. Bounded /\ From = Longest
    BY <2>1 DEF AdjustsLongest
  <2>3. WindowTypeOK' /\ StartsInside'
    BY <1>1, <2>1 DEF StartsInside
  <2>4. CASE windowStart > 0 /\ HasResults(messages[windowStart + 1])
    <3>1. /\ From = windowStart /\ From' = windowStart - 1 /\ windowStart \in 1 .. n - 1
          /\ windowStart + 1 \in 1 .. n /\ (windowStart + 1) - 1 = windowStart
      BY <1>1, <2>1, <2>4 DEF From, StartsInside
    <3>2. messages[windowStart].role = "assistant"
      BY <1>1, <2>4, <3>1 DEF ResultsFollow
    <3>3. ~HasResults(messages[windowStart])
      BY <3>2 DEF HasResults
    <3>4. /\ ~HasResults(messages[From' + 1])
          /\ From' = Longest - 1 /\ HasResults(messages[Longest + 1])
      BY <2>2, <2>4, <3>1, <3>3
    <3>5. QED
      BY <1>3, <2>1, <2>3, <3>4 DEF Walking, AdjustsLongest, Adjusted
  <2>5. CASE ~(windowStart > 0 /\ HasResults(messages[windowStart + 1]))
    <3>1. From' = From /\ (From > 0 => From = windowStart)
      BY <1>1, <2>1, <2>5 DEF From
    <3>2. From > 0 => ~HasResults(messages[From + 1])
      BY <2>5, <3>1
    <3>3. QED
      BY <1>3, <2>1, <2>2, <2>3, <3>1, <3>2 DEF Walking, AdjustsLongest, Adjusted
  <2>6. QED
    BY <2>4, <2>5
<1>11. CASE Cut
  <2>1. /\ stage = "cut" /\ stage' = "built"
        /\ head' \in {<<>>, <<"user">>, <<"user", "assistant">>}
        /\ UNCHANGED <<setup, counter, budget, messages, used, next, windowStart>>
    BY <1>11 DEF Cut, setup
  <2>2. WindowTypeOK'
    BY <1>1, <2>1
  <2>3. Adjusted'
    BY <1>3, <2>1 DEF Adjusted
  <2>4. QED
    BY <1>3, <2>1, <2>2, <2>3 DEF Walking, StartsInside, AdjustsLongest
<1>12. CASE Send
  <2>1. /\ stage' = "idle"
        /\ UNCHANGED <<setup, counter, budget, messages, used, next, windowStart, head>>
    BY <1>12 DEF Send, setup
  <2>2. QED
    BY <1>1, <1>3, <2>1 DEF Walking, StartsInside, AdjustsLongest, Adjusted
<1>13. CASE UNCHANGED windowVars
  <2>1. UNCHANGED <<setup, counter, budget, messages, stage, used, next, windowStart, head>>
    BY <1>13 DEF windowVars, setup
  <2>2. QED
    BY <1>1, <1>3, <2>1 DEF Walking, StartsInside, AdjustsLongest, Adjusted
<1>14. QED
  BY <1>2, <1>4, <1>5, <1>6, <1>7, <1>8, <1>9, <1>10, <1>11, <1>12, <1>13 DEF WindowNext

LEMMA WindowInvariant == WindowSpec => []WindowInv
BY WindowInitInv, WindowInvStep, PTL DEF WindowSpec

\* Tool uses and their results are on the same side of the window's beginning, for any
\* window, budget and conversation, unless prompt and reply leave no tokens.
THEOREM WindowKeepsPairs == WindowSpec => []PairsKept
<1>1. WindowInv => PairsKept
  BY DEF WindowInv, Adjusted, PairsKept, Bounded
<1>2. QED
  BY <1>1, WindowInvariant, PTL

\* BuildMessages sends as many of the last messages as fit, and one more only when it
\* has the uses of tools whose results would begin the window.
THEOREM WindowLongest == WindowSpec => []WindowIsLongest
<1>1. WindowInv => WindowIsLongest
  BY DEF WindowInv, Adjusted, WindowIsLongest, Bounded
<1>2. QED
  BY <1>1, WindowInvariant, PTL
=============================================================================
