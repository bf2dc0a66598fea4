--------------------------- MODULE ContextWindow ---------------------------
(***************************************************************************)
(* ContextBuilder.BuildMessages (llm/context.go): the window of a          *)
(* conversation that is sent to the model, by the number of messages or,   *)
(* with a token counter, by their tokens, one action per iteration of its  *)
(* loop.  Between two calls the conversation goes on: users and the model  *)
(* take turns, and the results of the tools the model uses follow in one   *)
(* message of the user's.  What a message or the summary says is left out. *)
(***************************************************************************)
EXTENDS Integers, Sequences, FiniteSetsExt

CONSTANTS
  WindowSize,   \* cb.WindowSize
  Budgets,      \* the tokens that system prompt and reply leave to messages
  Tokens,       \* the tokens a message can have
  MaxMessages   \* bound: the length of the conversation

ASSUME ContextAssumption ==
  /\ WindowSize \in Nat \ {0}
  /\ Budgets \subseteq Int
  /\ Tokens \subseteq Nat
  /\ MaxMessages \in Nat

VARIABLES
  counter,      \* whether there is a token counter
  budget,       \* with a counter, what is left to messages
  messages,     \* the conversation
  stage,        \* where BuildMessages is
  used, next,   \* the walk: the tokens of the messages seen, the next one
  windowStart,  \* the number of messages that are summarized
  head          \* the synthetic messages before the window

windowVars == <<counter, budget, messages, stage, used, next, windowStart, head>>
setup == <<counter, budget>>

Message == [role : {"user", "assistant"}, tools : BOOLEAN, tokens : Tokens]

\* A message of the user with tools has ToolResults, one of the assistant ToolUses.
HasResults(m) == m.role = "user" /\ m.tools

WindowInit ==
  /\ counter \in BOOLEAN
  /\ budget \in Budgets
  /\ messages = <<>>
  /\ stage = "idle"
  /\ used = 0 /\ next = 0 /\ windowStart = 0
  /\ head = <<>>

\* The turns alternate, the user begins, and results follow their uses.
Follows(m) ==
  IF messages = <<>> THEN m.role = "user" /\ ~ m.tools
  ELSE LET last == messages[Len(messages)]
       IN  /\ m.role # last.role
           /\ m.role = "user" => m.tools = last.tools

Converse(m) ==
  /\ stage = "idle"
  /\ Len(messages) < MaxMessages
  /\ Follows(m)
  /\ messages' = Append(messages, m)
  /\ UNCHANGED <<setup, stage, used, next, windowStart, head>>
-----------------------------------------------------------------------------
(* computeWindowStart *)

\* There are no more messages than the window has.
AllFit ==
  /\ stage = "idle"
  /\ ~ counter /\ Len(messages) <= WindowSize
  /\ windowStart' = 0
  /\ head' = <<>>
  /\ stage' = "built"
  /\ UNCHANGED <<setup, messages, used, next>>

LastMessages ==
  /\ stage = "idle"
  /\ ~ counter /\ Len(messages) > WindowSize
  /\ windowStart' = Len(messages) - WindowSize
  /\ stage' = "adjust"
  /\ UNCHANGED <<setup, messages, used, next, head>>

\* Prompt and reply leave no tokens: the last message is kept, as it is.
NoBudget ==
  /\ stage = "idle"
  /\ counter /\ budget <= 0
  /\ windowStart' = IF messages = <<>> THEN 0 ELSE Len(messages) - 1
  /\ stage' = "cut"
  /\ UNCHANGED <<setup, messages, used, next, head>>

BeginWalk ==
  /\ stage = "idle"
  /\ counter /\ budget > 0
  /\ used' = 0
  /\ next' = Len(messages) - 1
  /\ windowStart' = Len(messages)
  /\ stage' = "walk"
  /\ UNCHANGED <<setup, messages, head>>

\* Message next, counted from 0, fits.
Fits == next >= 0 /\ used + messages[next + 1].tokens <= budget

\* Mutant of Walk: a message that does not fit is passed over.
WalkSkips ==
  /\ stage = "walk"
  /\ next >= 0
  /\ used' = IF Fits THEN used + messages[next + 1].tokens ELSE used
  /\ windowStart' = IF Fits THEN next ELSE windowStart
  /\ next' = next - 1
  /\ UNCHANGED <<setup, messages, stage, head>>

Walk ==
  /\ stage = "walk"
  /\ Fits
  /\ used' = used + messages[next + 1].tokens
  /\ windowStart' = next
  /\ next' = next - 1
  /\ UNCHANGED <<setup, messages, stage, head>>

\* The last message is kept also when it does not fit.
WalkEnds ==
  /\ stage = "walk"
  /\ ~ Fits
  /\ windowStart' = IF windowStart >= Len(messages) THEN Len(messages) - 1
                    ELSE windowStart
  /\ stage' = "adjust"
  /\ UNCHANGED <<setup, messages, used, next, head>>

\* Mutant of Adjust: the message before the window is looked at.
AdjustLate ==
  /\ stage = "adjust"
  /\ windowStart' = IF windowStart > 0 /\ HasResults(messages[windowStart])
                    THEN windowStart - 1 ELSE windowStart
  /\ stage' = "cut"
  /\ UNCHANGED <<setup, messages, used, next, head>>

\* adjustForToolPairs: results take the message with their uses along.
Adjust ==
  /\ stage = "adjust"
  /\ windowStart' = IF windowStart > 0 /\ HasResults(messages[windowStart + 1])
                    THEN windowStart - 1 ELSE windowStart
  /\ stage' = "cut"
  /\ UNCHANGED <<setup, messages, used, next, head>>

\* The summary, and a bridge before a window that the assistant begins.
Cut ==
  /\ stage = "cut"
  /\ head' = IF windowStart <= 0 THEN <<>>
             ELSE IF messages[windowStart + 1].role = "user" THEN <<"user">>
             ELSE <<"user", "assistant">>
  /\ stage' = "built"
  /\ UNCHANGED <<setup, messages, used, next, windowStart>>

\* The request is sent, and the conversation goes on.
Send ==
  /\ stage = "built"
  /\ stage' = "idle"
  /\ UNCHANGED <<setup, messages, used, next, windowStart, head>>

WindowNext ==
  \/ \E m \in Message : Converse(m)
  \/ AllFit \/ LastMessages \/ NoBudget
  \/ BeginWalk \/ Walk \/ WalkEnds
  \/ Adjust \/ Cut \/ Send

WindowSpec == WindowInit /\ [][WindowNext]_windowVars
-----------------------------------------------------------------------------
(* Properties *)

\* The messages that are sent as they are.
From == IF windowStart < 0 THEN 0 ELSE windowStart

\* Tool uses and their results are never on different sides of the window's
\* beginning, unless the prompt and the reply leave no tokens.
PairsKept ==
  stage = "built" /\ From > 0 /\ ~ (counter /\ budget <= 0) =>
    ~ HasResults(messages[From + 1])

\* The tokens of the messages from s on, counted from 0.
TokensFrom[s \in 0 .. Len(messages)] ==
  IF s = Len(messages) THEN 0 ELSE messages[s + 1].tokens + TokensFrom[s + 1]

\* The longest window whose tokens fit, or the last message, or the last messages.
Longest ==
  LET n == Len(messages)
      fitting == {s \in 0 .. n : TokensFrom[s] <= budget}
  IN  IF counter THEN Min(fitting \cup {Max({n - 1, 0})}) ELSE Max({n - WindowSize, 0})

\* The window has as many of the last messages as fit, and one more only when that
\* is the use of tools whose results begin it.
WindowIsLongest ==
  stage = "built" /\ ~ (counter /\ budget <= 0) =>
    \/ From = Longest
    \/ From = Longest - 1 /\ HasResults(messages[Longest + 1])

\* "Ensure alternating roles": in a request on the user's turn, users and the
\* assistant take turns in what is sent.
RolesAlternate ==
  /\ stage = "built" /\ messages # <<>> /\ messages[Len(messages)].role = "user"
  /\ counter => budget > 0
  => LET roles == head \o [k \in 1 .. Len(messages) - From |-> messages[From + k].role]
     IN  \A k \in 1 .. Len(roles) - 1 : roles[k] # roles[k + 1]
=============================================================================
