----------------------------- MODULE Lifecycle -----------------------------
(***************************************************************************)
(* lifecycle.Manager: NewManager (module TopoSort), then Startup with its  *)
(* rollback, and Shutdown, called one at a time by one goroutine of the    *)
(* application (the Manager has no lock and promises none).                *)
(*                                                                         *)
(* With a timeout, OnStartup and OnShutdown run in a goroutine of their    *)
(* own, and the manager waits for the result or the deadline, whichever    *)
(* the select takes; a call it gives up on goes on running.  Cancelling    *)
(* the context given to Startup closes the same channel as the deadline    *)
(* and differs from it only in the error's text and in EventTimeout.       *)
(* The application calls Startup only when nothing is started: a second    *)
(* Startup would forget the services of the first (lifecycle.go:197).      *)
(***************************************************************************)
EXTENDS TopoSort

CONSTANT MaxStartups   \* bound: calls of Startup in a behaviour

ASSUME MaxStartupsAssumption == MaxStartups \in Nat

VARIABLES
  global,     \* m.timeout > 0
  pc,         \* where the manager is
  started,    \* m.started
  live,       \* how many of started the stop loop still has to visit
  call,       \* the service call the manager waits for
  errors,     \* services whose error the running operation has collected
  result,     \* what the last operation returned
  startups,   \* calls of Startup so far
  up,         \* the services that are really running
  late,       \* <<name, kind>> -> calls given up on and still running
  abandoned,  \* history: every <<name, kind>> ever given up on
  refused,    \* history: services whose OnShutdown returned an error
  told        \* name -> what the last lifecycle event says of it

managerVars == <<global, pc, started, live, call, errors, result, startups>>
serviceVars == <<up, late>>
historyVars == <<abandoned, refused, told>>
vars == <<sortVars, managerVars, serviceVars, historyVars>>

Kinds == {"start", "stop"}
PCs == {"idle", "starting", "start_call", "rolling", "roll_call",
        "stopping", "stop_call"}

Init ==
  /\ SortInit
  /\ global \in BOOLEAN
  /\ pc = "idle"
  /\ started = <<>>
  /\ live = 0
  /\ call = "none"
  /\ errors = {}
  /\ result = "none"
  /\ startups = 0
  /\ up = {}
  /\ late = [k \in Names \X Kinds |-> 0]
  /\ abandoned = {}
  /\ refused = {}
  /\ told = [n \in Names |-> "unknown"]

NewManager == SortNext /\ UNCHANGED <<managerVars, serviceVars, historyVars>>
-----------------------------------------------------------------------------
\* serviceTimeout(e) > 0, of the entry that entryMap keeps for n: the last one.
Timed(n) ==
  \E i \in Index : /\ entries[i].name = n
                   /\ \A j \in Index : entries[j].name = n => j <= i
                   /\ entries[i].timeout \/ global

\* Mutant of Starting: the services are started in reverse.
StartingLast == order[Len(order) - Len(started)]

\* Mutant of Stopping: the services are stopped in the order they were started.
StoppingFirst == started[Len(started) - live + 1]

Starting == order[Len(started) + 1]    \* the service Startup is at
Stopping == started[live]              \* the service a stop loop is at

\* The call the manager waits for is made, or has returned, or is given up on.
Invoke(to) == call = "none" /\ call' = "running" /\ pc' = to
Answered(n, r, to) == call = r /\ call' = "none" /\ pc' = to
Abandon(n, kind, to) ==
  /\ Timed(n)
  /\ call # "none"
  /\ call' = "none"
  /\ pc' = to
  /\ late' = [late EXCEPT ![<<n, kind>>] =
                          @ + (IF call = "running" THEN 1 ELSE 0)]
  /\ abandoned' = abandoned \cup {<<n, kind>>}
-----------------------------------------------------------------------------
(* Startup *)

CallStartup ==
  /\ phase = "built"
  /\ pc = "idle"
  /\ started = <<>>
  /\ startups < MaxStartups
  /\ startups' = startups + 1
  /\ started' = <<>>
  /\ live' = 0
  /\ errors' = {}
  /\ pc' = "starting"
  /\ UNCHANGED <<sortVars, global, call, result, serviceVars, historyVars>>

InvokeStart ==
  /\ pc = "starting"
  /\ Len(started) < Len(order)
  /\ Invoke("start_call")
  /\ UNCHANGED <<sortVars, global, started, live, errors, result, startups,
                 serviceVars, historyVars>>

StartSucceeded ==
  /\ pc = "start_call"
  /\ Answered(Starting, "ok", "starting")
  /\ started' = Append(started, Starting)
  /\ live' = live + 1
  /\ told' = [told EXCEPT ![Starting] = "started"]
  /\ UNCHANGED <<sortVars, global, errors, result, startups, serviceVars,
                 abandoned, refused>>

\* Mutant of StartFailed: the rollback starts one service too low.
StartFailedSkipsOne ==
  /\ pc = "start_call"
  /\ Answered(Starting, "err", "rolling")
  /\ told' = [told EXCEPT ![Starting] = "error"]
  /\ live' = IF live > 0 THEN live - 1 ELSE 0
  /\ UNCHANGED <<sortVars, global, started, errors, result, startups,
                 serviceVars, abandoned, refused>>

\* EventError, then rollback.
StartFailed ==
  /\ pc = "start_call"
  /\ Answered(Starting, "err", "rolling")
  /\ told' = [told EXCEPT ![Starting] = "error"]
  /\ UNCHANGED <<sortVars, global, started, live, errors, result, startups,
                 serviceVars, abandoned, refused>>

\* startCtx.Done() is taken, though the result may be waiting in the channel.
StartTimedOut ==
  /\ pc = "start_call"
  /\ Abandon(Starting, "start", "rolling")
  /\ told' = [told EXCEPT ![Starting] = "error"]
  /\ UNCHANGED <<sortVars, global, started, live, errors, result, startups,
                 up, refused>>

StartupSucceeds ==
  /\ pc = "starting"
  /\ Len(started) = Len(order)
  /\ result' = "ok"
  /\ pc' = "idle"
  /\ UNCHANGED <<sortVars, global, started, live, call, errors, startups,
                 serviceVars, historyVars>>
-----------------------------------------------------------------------------
(* rollback: OnShutdown is called directly, with no timeout. *)

InvokeRollback ==
  /\ pc = "rolling"
  /\ live > 0
  /\ Invoke("roll_call")
  /\ UNCHANGED <<sortVars, global, started, live, errors, result, startups,
                 serviceVars, historyVars>>

RolledBack ==
  /\ pc = "roll_call"
  /\ \E r \in {"ok", "err"} :
       /\ Answered(Stopping, r, "rolling")
       /\ errors' = IF r = "err" THEN errors \cup {Stopping} ELSE errors
  /\ live' = live - 1
  /\ UNCHANGED <<sortVars, global, started, result, startups, serviceVars,
                 historyVars>>

\* Mutant of StartupFails: EventRollback is emitted after m.started is reset.
StartupFailsNamesNone ==
  /\ pc = "rolling"
  /\ live = 0
  /\ started' = <<>>
  /\ result' = "err"
  /\ pc' = "idle"
  /\ UNCHANGED <<sortVars, global, live, call, errors, startups, serviceVars,
                 historyVars>>

\* EventRollback names every service that was rolled back.
StartupFails ==
  /\ pc = "rolling"
  /\ live = 0
  /\ told' = [n \in Names |-> IF \E i \in DOMAIN started : started[i] = n
                              THEN "rolledback" ELSE told[n]]
  /\ started' = <<>>
  /\ result' = "err"
  /\ pc' = "idle"
  /\ UNCHANGED <<sortVars, global, live, call, errors, startups, serviceVars,
                 abandoned, refused>>
-----------------------------------------------------------------------------
(* Shutdown *)

CallShutdown ==
  /\ phase = "built"
  /\ pc = "idle"
  /\ errors' = {}
  /\ pc' = "stopping"
  /\ UNCHANGED <<sortVars, global, started, live, call, result, startups,
                 serviceVars, historyVars>>

InvokeStop ==
  /\ pc = "stopping"
  /\ live > 0
  /\ Invoke("stop_call")
  /\ UNCHANGED <<sortVars, global, started, live, errors, result, startups,
                 serviceVars, historyVars>>

StopSucceeded ==
  /\ pc = "stop_call"
  /\ Answered(Stopping, "ok", "stopping")
  /\ live' = live - 1
  /\ told' = [told EXCEPT ![Stopping] = "stopped"]
  /\ UNCHANGED <<sortVars, global, started, errors, result, startups,
                 serviceVars, abandoned, refused>>

StopFailed ==
  /\ pc = "stop_call"
  /\ Answered(Stopping, "err", "stopping")
  /\ live' = live - 1
  /\ errors' = errors \cup {Stopping}
  /\ told' = [told EXCEPT ![Stopping] = "error"]
  /\ UNCHANGED <<sortVars, global, started, result, startups, serviceVars,
                 abandoned, refused>>

\* Mutant of StopTimedOut: stopService waits for the result alone.
StopNeverTimesOut == FALSE

StopTimedOut ==
  /\ pc = "stop_call"
  /\ Abandon(Stopping, "stop", "stopping")
  /\ live' = live - 1
  /\ errors' = errors \cup {Stopping}
  /\ told' = [told EXCEPT ![Stopping] = "error"]
  /\ UNCHANGED <<sortVars, global, started, result, startups, up, refused>>

ShutdownReturns ==
  /\ pc = "stopping"
  /\ live = 0
  /\ started' = <<>>
  /\ result' = IF errors = {} THEN "ok" ELSE "err"
  /\ pc' = "idle"
  /\ UNCHANGED <<sortVars, global, live, call, errors, startups, serviceVars,
                 historyVars>>
-----------------------------------------------------------------------------
(* The services: a call may succeed, fail or never return. *)

\* What a finished call leaves of the service.  One whose OnStartup failed is as
\* it was; one whose OnShutdown failed may still be running.
Finish(n, kind, r) ==
  IF kind = "start"
  THEN /\ up' = IF r = "ok" THEN up \cup {n} ELSE up
       /\ UNCHANGED refused
  ELSE /\ up' = IF r = "ok" THEN up \ {n} ELSE up
       /\ refused' = IF r = "err" THEN refused \cup {n} ELSE refused

\* The call the manager waits for returns.
Return(r) ==
  /\ call = "running"
  /\ call' = r
  /\ IF pc = "start_call" THEN Finish(Starting, "start", r)
                          ELSE Finish(Stopping, "stop", r)
  /\ UNCHANGED <<sortVars, global, pc, started, live, errors, result, startups,
                 late, abandoned, told>>

\* A call the manager gave up on returns after all.
LateReturn(n, kind, r) ==
  /\ late[<<n, kind>>] > 0
  /\ late' = [late EXCEPT ![<<n, kind>>] = @ - 1]
  /\ Finish(n, kind, r)
  /\ UNCHANGED <<sortVars, managerVars, abandoned, told>>

ManagerNext ==
  \/ CallStartup \/ InvokeStart \/ StartSucceeded \/ StartFailed
  \/ StartTimedOut \/ StartupSucceeds
  \/ InvokeRollback \/ RolledBack \/ StartupFails
  \/ CallShutdown \/ InvokeStop \/ StopSucceeded \/ StopFailed
  \/ StopTimedOut \/ ShutdownReturns

ServiceNext ==
  \/ \E r \in {"ok", "err"} : Return(r)
  \/ \E n \in Names, kind \in Kinds, r \in {"ok", "err"} : LateReturn(n, kind, r)

Next == NewManager \/ ManagerNext \/ ServiceNext

\* What the manager's own goroutine does next, once it has been called: the
\* Go scheduler runs it, and a deadline passes whatever the services do.
ManagerStep ==
  \/ InvokeStart \/ StartSucceeded \/ StartFailed \/ StartTimedOut
  \/ StartupSucceeds \/ InvokeRollback \/ RolledBack \/ StartupFails
  \/ InvokeStop \/ StopSucceeded \/ StopFailed \/ StopTimedOut
  \/ ShutdownReturns

Spec == Init /\ [][Next]_vars /\ WF_vars(ManagerStep)
-----------------------------------------------------------------------------
(* Properties *)

TypeOK ==
  /\ SortTypeOK
  /\ global \in BOOLEAN
  /\ pc \in PCs
  /\ started \in Seq(Names)
  /\ live \in 0 .. Len(started)
  /\ call \in {"none", "running", "ok", "err"}
  /\ errors \in SUBSET Names
  /\ result \in {"none", "ok", "err"}
  /\ startups \in 0 .. MaxStartups
  /\ up \in SUBSET Names
  /\ late \in [Names \X Kinds -> Nat]
  /\ abandoned \in SUBSET (Names \X Kinds)
  /\ refused \in SUBSET Names
  /\ told \in [Names -> {"unknown", "started", "stopped", "rolledback", "error"}]

\* Excuses for a service that the manager's books have wrong.
StopLost(n) == <<n, "stop">> \in abandoned \/ n \in refused
StartLost(n) == <<n, "start">> \in abandoned

\* OnStartup of a service runs only while everything it depends on is really
\* running: Startup goes in order, and no stop has been sent to a dependency
\* since.  Only a stop that an earlier Shutdown gave up on, and that ends late,
\* can take a dependency away.
StartsOnLiveDependencies ==
  pc = "start_call" /\ call = "running" =>
    \A d \in Deps(Starting) : d \in up \/ <<d, "stop">> \in abandoned

\* OnShutdown of a service runs only when nothing that depends on it is still
\* running, in Shutdown and in a rollback alike, except a dependent whose own
\* OnShutdown failed or was given up on, or whose OnStartup was given up on.
StopsAfterDependents ==
  pc \in {"stop_call", "roll_call"} /\ call = "running" =>
    \A n \in up : Stopping \in Deps(n) => StopLost(n) \/ StartLost(n)

\* Between operations the manager's books agree with the services: what it
\* lists as started runs, what it does not list does not, except for calls that
\* failed to stop a service or that the manager gave up on.
BooksMatchServices ==
  pc = "idle" =>
    \A n \in Names :
      /\ n \in up => (\E i \in DOMAIN started : started[i] = n)
                        \/ StartLost(n) \/ StopLost(n)
      /\ (\E i \in DOMAIN started : started[i] = n) =>
           n \in up \/ <<n, "stop">> \in abandoned

\* Between operations a listener that only follows the lifecycle events knows
\* exactly the services the manager (and Health) lists as started, and those are
\* all of them, each once, or none.
EventsMatchBooks ==
  pc = "idle" =>
    /\ {n \in Names : told[n] = "started"} = {started[i] : i \in DOMAIN started}
    /\ started # <<>> => started = order

\* The services counted as started and not yet stopped.
Active == {started[i] : i \in 1 .. live}

Abstract == INSTANCE DependencyOrder
              WITH deps <- [n \in Names |-> Deps(n)], active <- Active

\* The manager implements DependencyOrder: every start and every stop, in
\* Startup, Shutdown and rollback, keeps the started services closed under
\* dependencies.
ImplementsDependencyOrder == Abstract!Spec

EveryServiceTimed == \A n \in Registered : Timed(n)

\* With timeouts on every service, Shutdown returns whatever the services do.
ShutdownEnds == EveryServiceTimed /\ pc = "stopping" ~> pc = "idle"

\* With timeouts on every service, Startup returns whatever the services do:
\* what the "global timeout for service startup and shutdown" is for.
StartupEnds == EveryServiceTimed /\ pc = "starting" ~> pc = "idle"
=============================================================================
