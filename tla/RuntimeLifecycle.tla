--------------------------- MODULE RuntimeLifecycle ---------------------------
(***************************************************************************)
(* src/src/openxr/runtime_lifecycle.h: the coordinator behind the exported *)
(* VR_InitInternal and VR_ShutdownInternal.  Any number of threads may     *)
(* call init and shutdown; the backend is started and stopped outside the  *)
(* mutex, and the state under the mutex decides which caller does it.      *)
(*                                                                         *)
(* The backend is external: a start or a stop in flight ends with any      *)
(* answer.  One critical section of mutex_ is one action.  getInterface,   *)
(* token and running only read what PublishedIsUp and DeadTokensStayDead   *)
(* are about.                                                              *)
(***************************************************************************)
EXTENDS Integers

CONSTANTS Callers,
          MaxToken,      \* numeric_limits<uint32_t>::max
          InitialToken   \* the constructor's token

VARIABLES state,         \* state_
          token,         \* token_
          cancelled,     \* cancelled_
          interfaces,    \* interfaces_: 0, or the attempt that published them
          pc,            \* where each caller is
          attempt,       \* the local of init
          startResult,   \* the local result of init
          returned, error, \* what a caller's last init returned
          \* history
          live,          \* the backend has been started and not been stopped
          stopFailed,    \* backend stop has answered false
          handed,        \* tokens a successful init has returned
          doomed         \* callers whose start a shutdown found in flight

code == <<state, token, cancelled, interfaces>>
local == <<attempt, startResult>>
history == <<live, stopFailed, handed, doomed>>
vars == <<code, pc, local, returned, error, history>>

States == {"Idle", "Starting", "Running", "Stopping", "Failed"}

StartErrors == {"None", "HmdNotFound"}

Errors == StartErrors \cup {"NotSupported", "Retry", "ShuttingDown", "Internal",
                            "TooManyObjects", "InterfaceNotFound"}

\* The locals of init end with it.
LocalsEnd(c) == /\ attempt' = [attempt EXCEPT ![c] = 0]
                /\ startResult' = [startResult EXCEPT ![c] = "None"]

Init == /\ state = "Idle" /\ token = InitialToken
        /\ cancelled = FALSE /\ interfaces = 0
        /\ pc = [c \in Callers |-> "out"]
        /\ attempt = [c \in Callers |-> 0]
        /\ startResult = [c \in Callers |-> "None"]
        /\ returned = [c \in Callers |-> 0]
        /\ error = [c \in Callers |-> "None"]
        /\ live = FALSE /\ stopFailed = FALSE /\ handed = {} /\ doomed = {}

(***************************************************************************)
(* init                                                                    *)
(***************************************************************************)

\* ++token_ on a uint32_t.
Succ(t) == (t + 1) % (MaxToken + 1)

ExhaustedAtMax == token > MaxToken - 1

Exhausted == token > MaxToken - 2

\* Why init turns a caller away.
Refusal(scene) ==
  CASE ~scene -> "NotSupported"
    [] scene /\ state = "Starting" -> "Retry"
    [] scene /\ state = "Stopping" -> "ShuttingDown"
    [] scene /\ state = "Failed" -> "Internal"
    [] scene /\ state = "Idle" /\ Exhausted -> "TooManyObjects"
    [] OTHER -> "None"

InitRefused(c, scene) ==
  /\ pc[c] = "out"
  /\ Refusal(scene) # "None"
  /\ returned' = [returned EXCEPT ![c] = 0]
  /\ error' = [error EXCEPT ![c] = Refusal(scene)]
  /\ doomed' = doomed \ {c}
  /\ UNCHANGED <<code, pc, local, live, stopFailed, handed>>

\* A second init of a running module shares the first one's token.
InitShared(c) ==
  /\ pc[c] = "out"
  /\ Refusal(TRUE) = "None" /\ state = "Running"
  /\ returned' = [returned EXCEPT ![c] = token]
  /\ error' = [error EXCEPT ![c] = "None"]
  /\ handed' = handed \cup {token}
  /\ doomed' = doomed \ {c}
  /\ UNCHANGED <<code, pc, local, live, stopFailed>>

InitBegins(c) ==
  /\ pc[c] = "out"
  /\ Refusal(TRUE) = "None" /\ state # "Running"
  /\ token' = Succ(token)
  /\ attempt' = [attempt EXCEPT ![c] = Succ(token)]
  /\ cancelled' = FALSE
  /\ state' = "Starting"
  /\ live' = TRUE
  /\ doomed' = doomed \ {c}
  /\ pc' = [pc EXCEPT ![c] = "starting"]
  /\ UNCHANGED <<interfaces, startResult, returned, error, stopFailed, handed>>

\* backend_.start returns or throws; it may miss the cancellation.
StartReturns(c) ==
  /\ pc[c] = "starting"
  /\ \E e \in StartErrors \cup {"ShuttingDown", "Internal"} :
       startResult' = [startResult EXCEPT ![c] = e]
  /\ pc' = [pc EXCEPT ![c] = "started"]
  /\ UNCHANGED <<code, attempt, returned, error, history>>

MayPublish(c, complete) ==
  state = "Starting" /\ startResult[c] = "None" /\ complete

\* complete: all four interfaces were filled in.
Publish(c) ==
  /\ pc[c] = "started"
  /\ MayPublish(c, TRUE)
  /\ interfaces' = attempt[c]
  /\ state' = "Running"
  /\ returned' = [returned EXCEPT ![c] = token]
  /\ error' = [error EXCEPT ![c] = "None"]
  /\ handed' = handed \cup {token}
  /\ pc' = [pc EXCEPT ![c] = "out"]
  /\ LocalsEnd(c)
  /\ UNCHANGED <<token, cancelled, live, stopFailed, doomed>>

\* What a start that is not published is reported as.
Failure(c) == CASE cancelled -> "ShuttingDown"
                [] ~cancelled /\ startResult[c] = "None" -> "InterfaceNotFound"
                [] OTHER -> startResult[c]

\* The initializer alone owns the cleanup of a start that is not published.
GiveUp(c, complete) ==
  /\ pc[c] = "started"
  /\ ~MayPublish(c, complete)
  /\ startResult' = [startResult EXCEPT ![c] = Failure(c)]
  /\ state' = "Stopping" /\ interfaces' = 0
  /\ pc' = [pc EXCEPT ![c] = "cleaning"]
  /\ UNCHANGED <<token, cancelled, attempt, returned, error, history>>

(***************************************************************************)
(* The two calls of backend_.stop, by init (cleaning) and by shutdown      *)
(* (closing), and the critical section after each.                         *)
(***************************************************************************)

StopReturns(c, stopped) ==
  /\ pc[c] \in {"cleaning", "closing"}
  /\ pc' = [pc EXCEPT ![c] =
       CASE pc[c] = "cleaning" /\ stopped -> "cleaned"
         [] pc[c] = "cleaning" /\ ~stopped -> "cleanupFailed"
         [] pc[c] = "closing" /\ stopped -> "closed"
         [] OTHER -> "closeFailed"]
  /\ live' = FALSE
  /\ stopFailed' = (stopFailed \/ ~stopped)
  /\ UNCHANGED <<code, local, returned, error, handed, doomed>>

AfterStopForgotten(stopped) == IF stopped THEN "Idle" ELSE state

AfterStop(stopped) == IF stopped THEN "Idle" ELSE "Failed"

InitFails(c) ==
  /\ pc[c] \in {"cleaned", "cleanupFailed"}
  /\ state' = AfterStop(pc[c] = "cleaned")
  /\ returned' = [returned EXCEPT ![c] = 0]
  /\ error' = [error EXCEPT ![c] = startResult[c]]
  /\ pc' = [pc EXCEPT ![c] = "out"]
  /\ LocalsEnd(c)
  /\ UNCHANGED <<token, cancelled, interfaces, history>>

(***************************************************************************)
(* shutdown                                                                *)
(***************************************************************************)

\* Shutdown's ++token_.
InvalidatedToken == Succ(token)

Starters == {c \in Callers : pc[c] \in {"starting", "started"}}

\* Shutdown finds a start in flight and leaves the cleanup to it.
ShutdownCancels(c) ==
  /\ pc[c] = "out"
  /\ state = "Starting"
  /\ state' = "Stopping" /\ interfaces' = 0
  /\ token' = InvalidatedToken
  /\ cancelled' = TRUE
  /\ doomed' = doomed \cup Starters
  /\ UNCHANGED <<pc, local, returned, error, live, stopFailed, handed>>

MayStopStarting == state \in {"Running", "Starting"}

MayStop == state = "Running"

ShutdownStops(c) ==
  /\ pc[c] = "out"
  /\ MayStop
  /\ state' = "Stopping" /\ interfaces' = 0
  /\ token' = InvalidatedToken
  /\ cancelled' = TRUE
  /\ pc' = [pc EXCEPT ![c] = "closing"]
  /\ UNCHANGED <<local, returned, error, history>>

ShutdownReturns(c) ==
  /\ pc[c] \in {"closed", "closeFailed"}
  /\ state' = AfterStop(pc[c] = "closed")
  /\ pc' = [pc EXCEPT ![c] = "out"]
  /\ UNCHANGED <<token, cancelled, interfaces, local, returned, error, history>>

Step(c) == \/ StartReturns(c)
           \/ Publish(c)
           \/ \E complete \in BOOLEAN : GiveUp(c, complete)
           \/ \E stopped \in BOOLEAN : StopReturns(c, stopped)
           \/ InitFails(c)
           \/ ShutdownReturns(c)

InitCall(c) == \/ \E scene \in BOOLEAN : InitRefused(c, scene)
               \/ InitShared(c)
               \/ InitBegins(c)

Shutdown(c) == ShutdownCancels(c) \/ ShutdownStops(c)

Next == \E c \in Callers : InitCall(c) \/ Shutdown(c) \/ Step(c)

Spec == Init /\ [][Next]_vars

(***************************************************************************)
(* Properties                                                              *)
(***************************************************************************)

TypeOK == /\ state \in States
          /\ token \in 0 .. MaxToken
          /\ cancelled \in BOOLEAN
          /\ interfaces \in 0 .. MaxToken
          /\ pc \in [Callers -> {"out", "starting", "started", "cleaning", "cleaned",
                                 "cleanupFailed", "closing", "closed", "closeFailed"}]
          /\ attempt \in [Callers -> 0 .. MaxToken]
          /\ startResult \in [Callers -> Errors]
          /\ returned \in [Callers -> 0 .. MaxToken]
          /\ error \in [Callers -> Errors]
          /\ live \in BOOLEAN /\ stopFailed \in BOOLEAN
          /\ handed \subseteq 1 .. MaxToken
          /\ doomed \subseteq Callers

\* The callers that are inside backend_.start or backend_.stop, or that have
\* yet to report how the call ended.
Users == {c \in Callers : pc[c] # "out"}

\* runtime_lifecycle.h:58-76: whatever init and shutdown calls race, at most one
\* thread is inside the backend, and nobody is once the state says so: start
\* never overlaps stop and a partial start is not torn down twice.
BackendHasOneUser ==
  /\ \A c, d \in Users : c = d
  /\ state \in {"Idle", "Running", "Failed"} => Users = {}

\* Every started backend is stopped exactly once before it is idle again: it is
\* live while running, and neither left running by a cancelled start (:74) nor
\* stopped while it is not live.
StartedIsStopped ==
  /\ state \in {"Idle", "Failed"} => ~live
  /\ state = "Running" => live
  /\ \A c \in Users : live <=> pc[c] \in {"starting", "started", "cleaning", "closing"}

\* Types; one thread at a time in the backend, every start stopped once.
Consistent == TypeOK /\ BackendHasOneUser /\ StartedIsStopped

\* :54, :73: getInterface's pointers are those of the start that the current
\* token names, and there are none before it is published or once its shutdown
\* has begun.
PublishedIsUp ==
  /\ state = "Running" <=> interfaces # 0
  /\ state = "Running" => interfaces = token

\* :46, :73: a token an init returned is the current one only while that start
\* is running; shutdown invalidates it for good, because the last token is kept
\* for the invalidation and the counter never wraps.
DeadTokensStayDead == token \in handed => state = "Running"

\* :56, :73-76: an init whose start a shutdown found in flight publishes nothing
\* and reports ShuttingDown, even when the backend started successfully.
CancelledInitFails ==
  \A c \in doomed : pc[c] = "out" => returned[c] = 0 /\ error[c] = "ShuttingDown"

\* runtime_lifecycle.h:20 "false permanently blocks restart": once a stop
\* failed the backend is never entered or published again.
FailedStopBlocksRestart ==
  stopFailed => /\ interfaces = 0
                /\ \A c \in Callers : pc[c] \notin {"starting", "started", "closing"}

\* What init promises whoever holds a token or a pointer, whatever shutdowns
\* race it: pointers and tokens of a running backend only, an honest answer to a
\* cancelled start, and no way back into a backend that could not be stopped.
InitContract == /\ PublishedIsUp /\ DeadTokensStayDead
                /\ CancelledInitFails /\ FailedStopBlocksRestart

\* init and shutdown return, and a shutdown that only cancelled is followed by
\* the initializer's cleanup.
StoppingEnds == state = "Stopping" ~> state \in {"Idle", "Failed"}
===============================================================================
