---------------------------- MODULE DatabaseTool ----------------------------
(***************************************************************************)
(* The on-demand phpMyAdmin container of one site (cmd/worker/main.go):    *)
(* /database requests open and close it under executionMu, and a timer     *)
(* removes it when its session is over.  The timer's callback runs outside *)
(* executionMu and takes toolsMu only to forget itself, so it interleaves  *)
(* with the steps of a request.                                            *)
(***************************************************************************)
EXTENDS Naturals

CONSTANTS
    MaxTimers,   \* bound on the sessions ever opened
    MaxFailures  \* bound on failing Docker commands and worker crashes

ASSUME MaxTimersAssumption == MaxTimers \in Nat
ASSUME MaxFailuresAssumption == MaxFailures \in Nat

VARIABLES
    alive,       \* the worker is running
    tool,        \* the container wph-pma-<id> exists
    request,     \* the next step of the request holding executionMu
    timers,      \* timers[k]: the k-th timer made by time.AfterFunc
    registered,  \* toolTimers[id], 0 when there is none
    session,     \* timer of the session last opened and not yet ended, or 0
    failures     \* failures so far

toolVars == <<alive, tool, request, timers, registered, session, failures>>

Timers == 1..MaxTimers

ToolTypeOK ==
    /\ alive \in BOOLEAN
    /\ tool \in BOOLEAN
    /\ request \in {"none", "up", "check", "schedule", "unregister", "remove"}
    /\ timers \in [Timers -> {"unused", "armed",
                              "fired",    \* the callback is about to remove
                              "removed",  \* ... and then to forget itself
                              "over"}]
    /\ registered \in Timers \cup {0}
    /\ session \in Timers \cup {0}
    /\ failures \in 0..MaxFailures

ToolInit ==
    /\ alive = TRUE
    /\ tool = FALSE
    /\ request = "none"
    /\ timers = [k \in Timers |-> "unused"]
    /\ registered = 0
    /\ session = 0
    /\ failures = 0

Failure == failures < MaxFailures /\ failures' = failures + 1

-----------------------------------------------------------------------------
(* databaseAction: start *)

Open ==
    /\ alive /\ request = "none"
    /\ \E k \in Timers : timers[k] = "unused"
    /\ request' = "up"
    /\ UNCHANGED <<alive, tool, timers, registered, session, failures>>

\* compose up -d phpmyadmin; a failing one may have started the container.
ComposeUpTool ==
    /\ request = "up"
    /\ session' = 0
    /\ \/ tool' = TRUE /\ request' = "check" /\ UNCHANGED failures
       \/ Failure /\ tool' \in {tool, TRUE} /\ request' = "none"
    /\ UNCHANGED <<alive, timers, registered>>

\* Up to 30 attempts to reach the tool, then an error.
CheckReady ==
    /\ request = "check"
    /\ \/ tool /\ request' = "schedule" /\ UNCHANGED failures
       \/ ~tool /\ request' = "none" /\ UNCHANGED failures
       \/ tool /\ Failure /\ request' = "none"
    /\ UNCHANGED <<alive, tool, timers, registered, session>>

\* timer.Stop: a timer whose callback has begun is not affected.
Stopped(k) == [timers EXCEPT ![k] = IF @ = "armed" THEN "over" ELSE @]

Cancelled == IF registered = 0 THEN timers ELSE Stopped(registered)

\* scheduleDatabaseStop: the registered timer is stopped and replaced.
ScheduleDatabaseStop ==
    /\ request = "schedule"
    /\ request' = "none"
    /\ \E k \in Timers :
         /\ timers[k] = "unused"
         /\ \A j \in 1..(k - 1) : timers[j] # "unused"
         /\ timers' = [Cancelled EXCEPT ![k] = "armed"]
         /\ registered' = k
         /\ session' = IF tool THEN k ELSE 0
    /\ UNCHANGED <<alive, tool, failures>>

-----------------------------------------------------------------------------
(* databaseAction: stop *)

Close ==
    /\ alive /\ request = "none"
    /\ request' = "unregister"
    /\ UNCHANGED <<alive, tool, timers, registered, session, failures>>

Unregister ==
    /\ request = "unregister"
    /\ request' = "remove"
    /\ timers' = Cancelled
    /\ registered' = 0
    /\ UNCHANGED <<alive, tool, session, failures>>

\* compose rm -sf phpmyadmin.
RemoveTool ==
    /\ request = "remove"
    /\ request' = "none"
    /\ \/ tool' = FALSE /\ session' = 0 /\ UNCHANGED failures
       \/ Failure /\ UNCHANGED <<tool, session>>
    /\ UNCHANGED <<alive, timers, registered>>

-----------------------------------------------------------------------------
(* The timer's callback *)

\* databaseToolLifetime is over.
Fire(k) ==
    /\ timers[k] = "armed"
    /\ timers' = [timers EXCEPT ![k] = "fired"]
    /\ UNCHANGED <<alive, tool, request, registered, session, failures>>

\* compose rm -sf phpmyadmin; an error is only logged.
ExpireIfRegistered(k) ==
    /\ timers[k] = "fired"
    /\ timers' = [timers EXCEPT ![k] = "removed"]
    /\ tool' = (tool /\ registered # k)
    /\ UNCHANGED <<alive, request, registered, session, failures>>
Expire(k) ==
    /\ timers[k] = "fired"
    /\ timers' = [timers EXCEPT ![k] = "removed"]
    /\ \/ tool' = FALSE /\ session' = 0 /\ UNCHANGED failures
       \/ Failure /\ UNCHANGED <<tool, session>>
    /\ UNCHANGED <<alive, request, registered>>

\* delete(toolTimers, id), whichever timer is registered by now.
Forget(k) ==
    /\ timers[k] = "removed"
    /\ timers' = [timers EXCEPT ![k] = "over"]
    /\ registered' = 0
    /\ UNCHANGED <<alive, tool, request, session, failures>>

-----------------------------------------------------------------------------
(* The life of the process *)

CrashTool ==
    /\ alive
    /\ Failure
    /\ alive' = FALSE
    /\ request' = "none"
    /\ timers' = [k \in Timers |-> IF timers[k] = "unused" THEN "unused" ELSE "over"]
    /\ registered' = 0
    /\ session' = 0
    /\ UNCHANGED tool

\* removeStaleDatabaseTools, before the worker listens.
BootTool ==
    /\ ~alive
    /\ alive' = TRUE
    /\ tool' = FALSE
    /\ UNCHANGED <<request, timers, registered, session, failures>>

RequestStep ==
    ComposeUpTool \/ CheckReady \/ ScheduleDatabaseStop \/ Unregister \/ RemoveTool

CallbackStep(k) == Fire(k) \/ Expire(k) \/ Forget(k)

ToolNext ==
    \/ Open \/ Close
    \/ RequestStep
    \/ \E k \in Timers : CallbackStep(k)
    \/ CrashTool \/ BootTool

\* Timers expire, handlers and callbacks are scheduled, Docker restarts the
\* worker.
ToolSpec ==
    /\ ToolInit /\ [][ToolNext]_toolVars
    /\ WF_toolVars(RequestStep)
    /\ WF_toolVars(BootTool)
    /\ \A k \in Timers : WF_toolVars(CallbackStep(k))

-----------------------------------------------------------------------------
(* Properties *)

\* As long as no command fails an open tool is removed in the end, however
\* requests and the callbacks of older timers interleave.  README: the tool "is
\* automatically removed after 15 minutes".
ToolCloses == (tool /\ failures = 0) ~> (~tool \/ failures > 0)

\* A session is ended by its own timer only, never by an older one.
\* README: "Opening it again starts a fresh 15-minute session".
FreshSession ==
    [][\A k \in Timers :
         timers[k] = "fired" /\ timers'[k] = "removed" /\ session # 0 => session = k]_toolVars
=============================================================================
