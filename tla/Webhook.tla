------------------------------ MODULE Webhook ------------------------------
(***************************************************************************)
(* Service.SubmitBundle (diagnostics/webhook.go): the bundle is sent to a  *)
(* server, streamed by a goroutine of its own, and sent again after a      *)
(* backoff when there is no answer, or one that says nothing for certain.  *)
(* The server may answer late, after the timeout, or never.  Of the file   *)
(* only what CreateBundle promises is known (module BundleFile): it may be *)
(* emptied and written anew meanwhile.  A bundle of another name does not  *)
(* concern the one that is sent, and is left out during a submission.      *)
(***************************************************************************)
EXTENDS Integers, Sequences, BundleFile

CONSTANTS
  RetryLimits,  \* the values of WithWebhookMaxRetries, 0 for none
  MaxWrites     \* bound: the calls of CreateBundle

ASSUME WebhookAssumption ==
  RetryLimits \subseteq Int /\ (\A n \in RetryLimits : n <= 3) /\ MaxWrites \in Nat

VARIABLES
  limit,       \* maxRetries
  badURL,      \* webhookURL is malformed
  cancelled,   \* ctx is cancelled
  post,        \* where SubmitBundle is, or how it ended
  outcomes,    \* what each attempt so far came to
  writes,      \* the calls of CreateBundle so far
  reading,     \* those there were when this attempt opened the file
  arrived,     \* the server has read the whole body of this attempt
  received,    \* history: whether what it read was a sound bundle, each time
  disturbed,   \* history: CreateBundle had emptied the file, before or meanwhile
  writers      \* attempt -> where the goroutine that writes its body is

callVars == <<limit, badURL>>
attemptVars == <<reading, arrived, received, disturbed>>
submitVars == <<callVars, cancelled, post, outcomes, attemptVars, writers>>
webhookVars == <<fileVars, writes, submitVars>>

Attempts == 1 .. 3

WebhookInit ==
  /\ limit = 0 /\ badURL = FALSE
  /\ cancelled = FALSE
  /\ post = "idle"
  /\ outcomes = <<>>
  /\ writes = 0
  /\ reading = 0 /\ arrived = FALSE /\ received = {} /\ disturbed = FALSE
  /\ writers = [k \in Attempts |-> "none"]
-----------------------------------------------------------------------------
(* SubmitBundle *)

SubmitBundle ==
  /\ post = "idle"
  /\ told
  /\ post' = "try"
  /\ \E n \in RetryLimits : limit' = IF n = 0 THEN 3 ELSE n
  /\ badURL' \in BOOLEAN
  /\ disturbed' = spoiled
  /\ UNCHANGED <<cancelled, outcomes, reading, arrived, received, writers>>

Cancel ==
  /\ post \in {"try", "sending", "backoff"}
  /\ cancelled' = TRUE
  /\ UNCHANGED <<callVars, post, outcomes, attemptVars, writers>>

\* The loop is over.
GiveUp ==
  /\ post = "try"
  /\ Len(outcomes) >= limit
  /\ post' = "failed"
  /\ UNCHANGED <<callVars, cancelled, outcomes, attemptVars, writers>>

\* The file cannot be opened.
OpenFails ==
  /\ post = "try"
  /\ Len(outcomes) < limit
  /\ post' = "failed"
  /\ UNCHANGED <<callVars, cancelled, outcomes, attemptVars, writers>>

\* doSubmit until the request is on its way: the file is open, and a goroutine writes
\* it into the pipe the request reads from.  With a malformed URL nobody will read.
OpenBundle ==
  /\ post = "try"
  /\ Len(outcomes) < limit
  /\ reading' = writes
  /\ arrived' = FALSE
  /\ writers' = [writers EXCEPT ![Len(outcomes) + 1] = "writing"]
  /\ post' = IF badURL THEN "failed" ELSE "sending"
  /\ UNCHANGED <<callVars, cancelled, outcomes, received, disturbed>>

\* doSubmit returns.
AttemptEnds(outcome) ==
  /\ post = "sending"
  /\ outcomes' = Append(outcomes, outcome)
  /\ reading' = 0 /\ arrived' = FALSE
  /\ UNCHANGED <<callVars, cancelled, received, disturbed, writers>>

\* Where the loop goes on when an attempt came to nothing for certain.
Again == post' = IF Len(outcomes) + 1 < limit THEN "backoff" ELSE "try"

\* Mutant of Answered: every answer below 500 is final, and a success.
AnsweredBelow500 ==
  \E status \in {"2xx", "4xx", "other"} :
    /\ status = "2xx" => arrived
    /\ IF status = "other" THEN Again ELSE post' = "ok"
    /\ AttemptEnds(status)

\* Mutant of Answered: an answer of 4xx is tried again like one of 5xx.
AnsweredRetries4xx ==
  \E status \in {"2xx", "4xx", "other"} :
    /\ status = "2xx" => arrived
    /\ IF status = "2xx" THEN post' = "ok" ELSE Again
    /\ AttemptEnds(status)

\* The answer arrives: the server says 2xx only to what it has read, and the other
\* answers at any time.  With 2xx the event is emitted.
Answered ==
  \E status \in {"2xx", "4xx", "other"} :
    /\ status = "2xx" => arrived
    /\ CASE status = "2xx" -> post' = "ok"
         [] status = "4xx" -> post' = "failed"
         [] OTHER -> Again
    /\ AttemptEnds(status)

\* Mutant of NoAnswer: there is no timeout, only the caller's context ends an attempt.
NoAnswerUnlessCancelled == cancelled /\ Again /\ AttemptEnds("error")

\* The timeout, a network error or the cancelled context, be the body read or not.
NoAnswer == Again /\ AttemptEnds("error")

BackoffEnds ==
  /\ post = "backoff"
  /\ post' = "try"
  /\ UNCHANGED <<callVars, cancelled, outcomes, attemptVars, writers>>

CancelledInBackoff ==
  /\ post = "backoff" /\ cancelled
  /\ post' = "failed"
  /\ UNCHANGED <<callVars, cancelled, outcomes, attemptVars, writers>>
-----------------------------------------------------------------------------
(* The server and the writers *)

\* What the server gets is the file, or anything when that was written meanwhile.
ServerReads ==
  /\ post = "sending" /\ ~ arrived
  /\ arrived' = TRUE
  /\ \E s \in BOOLEAN :
       /\ reading = writes /\ ~ writing => s = sound
       /\ received' = received \cup {s}
  /\ UNCHANGED <<callVars, cancelled, post, outcomes, reading, disturbed, writers>>

\* An attempt's goroutine ends when its body was read, or when the request is over,
\* which closes the pipe; for a request that was never made nobody closes it.
WriterEnds(k) ==
  /\ writers[k] = "writing"
  /\ ~ badURL
  /\ k <= Len(outcomes) \/ arrived
  /\ writers' = [writers EXCEPT ![k] = "ended"]
  /\ UNCHANGED <<callVars, cancelled, post, outcomes, attemptVars>>

\* What SubmitBundle does when the server says nothing.
SubmitStep ==
  \/ GiveUp \/ OpenFails \/ OpenBundle \/ NoAnswer
  \/ BackoffEnds \/ CancelledInBackoff

Ended == {"ok", "failed"}
Submitting == post \notin {"idle"} \cup Ended

\* CreateBundle, under the name that is submitted.
WriteFile ==
  /\ \/ writes < MaxWrites /\ Begin /\ writes' = writes + 1
     \/ (Finish \/ Fail) /\ UNCHANGED writes
  /\ Submitting => told'
  /\ disturbed' = (disturbed \/ (Submitting /\ spoiled'))
  /\ UNCHANGED <<callVars, cancelled, post, outcomes, reading, arrived, received,
                 writers>>

WebhookNext ==
  \/ /\ \/ SubmitBundle \/ Cancel \/ SubmitStep
        \/ ServerReads \/ Answered
        \/ \E k \in Attempts : WriterEnds(k)
     /\ UNCHANGED <<fileVars, writes>>
  \/ WriteFile

\* Goroutines run, and the timers of the timeout and of the backoff expire; the server
\* and the application owe nothing.
WebhookFairness ==
  /\ WF_submitVars(SubmitStep)
  /\ \A k \in Attempts : WF_submitVars(WriterEnds(k))

WebhookSpec ==
  FileInit /\ WebhookInit /\ [][WebhookNext]_webhookVars /\ WebhookFairness
-----------------------------------------------------------------------------
(* Properties *)

\* SubmitBundle reports success, and emits its event, only when the server read the
\* bundle, sound unless CreateBundle had emptied the file, and said so; answers that
\* were lost or late make no difference.
SubmittedWasReceived ==
  post = "ok" => received # {} /\ (TRUE \in received \/ disturbed)

\* The bundle is sent again only when the attempt before was not answered for certain,
\* and never more often than allowed.
RetriesJustified ==
  /\ outcomes # <<>> => Len(outcomes) <= limit
  /\ \A k \in DOMAIN outcomes : outcomes[k] \in {"2xx", "4xx"} =>
       /\ k = Len(outcomes)
       /\ post = IF outcomes[k] = "2xx" THEN "ok" ELSE "failed"

\* Whatever the server does, SubmitBundle returns, and the goroutines that wrote the
\* bodies end, unless the URL is malformed: then one waits for a reader forever.
SubmitEnds ==
  post # "idle" ~> post \in Ended /\ (badURL \/ \A k \in Attempts : writers[k] # "writing")
=============================================================================
