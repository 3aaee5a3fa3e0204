------------------------------- MODULE FrameLoop -------------------------------
(***************************************************************************)
(* The OpenXR frame loop of one session: src/src/openxr/session_state.h    *)
(* (SessionState), frame_boundary.h (FrameBoundary) and frame_pacer.h      *)
(* (FramePacer), with the entry points of native_runtime_host.h that drive *)
(* them: waitPoses, submitEye, clearSubmitted, resetSeated,                *)
(* loadingBoundary, pumpEvents and close.                                  *)
(*                                                                         *)
(* Every host entry point runs on the owner thread, so one is in progress  *)
(* at a time: op is the entry point, fn the FrameBoundary function it is   *)
(* in, pc the step.  A step ends at each call into the OpenXR runtime and  *)
(* at each FramePacer::take, where the pacer's worker may run.  The worker *)
(* is the other actor; it calls nothing but xrWaitFrame.                   *)
(*                                                                         *)
(* The runtime is external: every call may succeed, fail or report a       *)
(* pending session loss, and xrWaitFrame does not return while the frame   *)
(* of the previous wait has not begun.  Its predicted times are arbitrary  *)
(* in 0 .. MaxTime; 0 is a time noteReal refuses.  The display period is 1.*)
(* Eye pixels, poses and layers are left out: whether a frame has anything *)
(* to show, and whether composing it works, is any choice.  So is the      *)
(* floor admitFrame puts under the time the game is given, which no guard  *)
(* here reads.                                                             *)
(***************************************************************************)
EXTENDS Integers

CONSTANT MaxTime   \* bound on the runtime's predicted display times

ASSUME TimeAssumption == MaxTime \in Nat \ {0}

VARIABLES
  \* SessionState
  state,           \* state_: the last session state polled
  running,         \* running_
  status,          \* terminal_, hardFailure_ and the lifecycle of a loss
  frameOpen,       \* frameOpen_
  sessionDeferred, \* deferred_
  frameTime,       \* frameTime_: the displayTime xrEndFrame will be given
  \* FrameBoundary
  deferred,        \* deferred_
  failed,          \* failed_
  turbo,           \* turbo_
  accepted,        \* accepted_, the set of eyes
  geometryReady,   \* geometryReady_
  lastReal,        \* lastReal_
  \* FramePacer
  pending, done,   \* pending_, done_
  result,          \* result_ and state_
  worker,          \* the thread: "none", "idle" or in "xrWaitFrame"
  \* NativeRuntimeHost
  serviceFailed, serviceStopped,
  gateStopped,     \* RuntimeGate: requestStop was called
  op, fn, pc, waited, \* the owner's call in progress and its locals
  \* the runtime
  waitReturned,    \* time of a wait that returned and was not begun, or None
  begun            \* time of the frame begun and not ended, or None

session == <<state, running, status, frameOpen, sessionDeferred, frameTime>>
frame == <<frameOpen, sessionDeferred, frameTime>>
eyes == <<accepted, geometryReady>>
pacer == <<pending, done, result, worker>>
service == <<serviceFailed, serviceStopped, gateStopped>>
owner == <<op, fn, pc, waited>>
runtime == <<waitReturned, begun>>
vars == <<session, deferred, failed, turbo, eyes, lastReal, pacer, service, owner, runtime>>

Eyes == {"left", "right"}
None == -1
Times == 0 .. MaxTime

\* A call's XrResult: success, XR_SESSION_LOSS_PENDING, or anything that
\* SessionState treats as a failure.
Results == {"ok", "loss", "fail"}
Waits == [r : Results, time : Times]
NoWait == [r |-> "ok", time |-> 0]

Init ==
  /\ state = "unknown" /\ running = FALSE /\ status = "ok"
  /\ frameOpen = FALSE /\ sessionDeferred = FALSE /\ frameTime = 0
  /\ deferred = FALSE /\ failed = FALSE /\ turbo = FALSE
  /\ accepted = {} /\ geometryReady = FALSE
  /\ lastReal = 0
  /\ pending = FALSE /\ done = FALSE /\ result = NoWait /\ worker = "none"
  /\ serviceFailed = FALSE /\ serviceStopped = FALSE /\ gateStopped = FALSE
  /\ op = "none" /\ fn = "none" /\ pc = "idle" /\ waited = NoWait
  /\ waitReturned = None /\ begun = None

(***************************************************************************)
(* Shared pieces                                                           *)
(***************************************************************************)

Goto(f, p) == fn' = f /\ pc' = p

\* The entry point returns; the owner is free for the next request.
Return == op' = "none" /\ fn' = "none" /\ pc' = "idle" /\ waited' = NoWait

publishFatalFailure ==
  serviceFailed' = TRUE /\ serviceStopped' = FALSE /\ gateStopped' = TRUE

\* SessionState::note and fail: what a call's result does to the session, and
\* what the caller of note sees.
note(r) == status' = CASE r = "fail" -> "hard"
                       [] r = "loss" /\ status = "ok" -> "loss"
                       [] OTHER -> status
Noted(r) == IF r = "ok" /\ status = "loss" THEN "loss" ELSE r

clearFrame == frameOpen' = FALSE /\ sessionDeferred' = FALSE /\ frameTime' = 0

\* What waitAndBegin, beginWaited and openDeferred all check first.
Admissible == /\ status = "ok" /\ ~frameOpen /\ running
              /\ state \notin {"stopping", "idle"}

\* The boundary, or the session under it, has failed.  close goes on to destroy
\* the session; resetSeated answers false and says nothing of it; every other
\* entry point publishes the failure.
FailedReturn ==
  IF op = "close"
    THEN Goto("none", "release") /\ UNCHANGED <<op, waited, service>>
    ELSE Return /\ IF op = "reset" THEN UNCHANGED service ELSE publishFatalFailure

noteReal(w) == lastReal' = IF w.r # "fail" /\ w.time > 0 THEN w.time ELSE lastReal

canSynthesize == lastReal > 0

(***************************************************************************)
(* pumpEvents                                                              *)
(***************************************************************************)

PumpMay == pc = "idle" /\ ~serviceFailed /\ ~gateStopped /\ status = "ok"

\* The gate admits nobody after a close that could not be completed.
PumpRefused ==
  /\ pc = "idle" /\ ~serviceFailed /\ gateStopped
  /\ publishFatalFailure
  /\ UNCHANGED <<session, deferred, failed, turbo, eyes, lastReal, pacer, owner, runtime>>

\* The session states the runtime moves to next.  One event is delivered per
\* pump: the ones pollEvents goes on polling after need nothing done.
NextStates == CASE state = "unknown" -> {"idle"}
                [] state = "idle" -> {"ready"}
                [] state = "ready" /\ running -> {"active"}
                [] state = "active" -> {"stopping"}
                [] state = "stopping" /\ ~running -> {"idle"}
                [] OTHER -> {}

\* IDLE, and SYNCHRONIZED, VISIBLE or FOCUSED.
PumpQuiet ==
  /\ PumpMay
  /\ \E s \in NextStates \ {"ready", "stopping"} : state' = s
  /\ UNCHANGED <<running, status, frame, deferred, failed, turbo, eyes, lastReal, pacer,
                 service, owner, runtime>>

\* READY, the first time or after an ended session: startIfReady.
PumpReady ==
  /\ PumpMay
  /\ "ready" \in NextStates /\ ~running
  /\ state' = "ready"
  /\ \E r \in Results :
       /\ note(r)
       /\ running' = (r # "fail")
       /\ \/ r = "ok" /\ serviceStopped' = FALSE /\ UNCHANGED <<serviceFailed, gateStopped>>
          \/ r # "ok" /\ publishFatalFailure
  /\ clearFrame
  /\ waitReturned' = None /\ begun' = None
  /\ UNCHANGED <<deferred, failed, turbo, eyes, lastReal, pacer, owner>>

\* STOPPING: drain the boundary, then end the session.
PumpStopping ==
  /\ PumpMay
  /\ "stopping" \in NextStates /\ running
  /\ state' = "stopping"
  /\ op' = "pump" /\ Goto("drain", "clear")
  /\ UNCHANGED <<running, status, frame, deferred, failed, turbo, eyes, lastReal, pacer,
                 service, waited, runtime>>

\* EXITING, a loss of the session or the instance, or a failed poll.
PumpTerminal ==
  /\ PumpMay
  /\ \E s \in {"loss", "gone", "hard"} : status' = s
  /\ publishFatalFailure
  /\ UNCHANGED <<state, running, frame, deferred, failed, turbo, eyes, lastReal, pacer,
                 owner, runtime>>

PumpSilent ==
  /\ pc = "idle" /\ ~serviceFailed /\ ~gateStopped /\ status # "ok"
  /\ UNCHANGED vars

\* A session that is terminal already: pollEvents returns at once, and the pump
\* publishes what resetSeated left.
PumpFailed ==
  /\ pc = "idle" /\ ~serviceFailed /\ ~gateStopped /\ status # "ok"
  /\ publishFatalFailure
  /\ UNCHANGED <<session, deferred, failed, turbo, eyes, lastReal, pacer, owner, runtime>>

\* SessionState::stop.  Drain has closed the open frame, so there is none to end.
Stop ==
  /\ pc = "stop"
  /\ \E r \in Results :
       /\ note(r)
       /\ running' = (r = "fail")
       /\ IF r = "fail" THEN UNCHANGED frame ELSE clearFrame
       /\ IF Noted(r) = "ok"
            THEN serviceStopped' = TRUE /\ UNCHANGED <<serviceFailed, gateStopped>>
            ELSE publishFatalFailure
  /\ Return
  /\ UNCHANGED <<state, deferred, failed, turbo, eyes, lastReal, pacer, runtime>>

(***************************************************************************)
(* waitPoses, loadingBoundary, submitEye, clearSubmitted, resetSeated      *)
(***************************************************************************)

ServiceMay == pc = "idle" /\ ~gateStopped /\ ~serviceFailed /\ ~serviceStopped

WaitPoses ==
  /\ ServiceMay /\ running /\ status = "ok" /\ ~failed
  /\ op' = "wait" /\ Goto("waitAndBegin", "clear")
  /\ UNCHANGED <<session, deferred, failed, turbo, eyes, lastReal, pacer, service, waited,
                 runtime>>

LoadingBoundary ==
  /\ ServiceMay /\ running /\ ~frameOpen /\ ~failed
  /\ op' = "load" /\ Goto("waitAndBegin", "clear")
  /\ UNCHANGED <<session, deferred, failed, turbo, eyes, lastReal, pacer, service, waited,
                 runtime>>

\* A submit, a clear or a loading frame that finds the boundary failed already.
FailedEntry ==
  /\ ServiceMay /\ failed
  /\ publishFatalFailure
  /\ UNCHANGED <<session, deferred, failed, turbo, eyes, lastReal, pacer, owner, runtime>>

ClearSubmitted ==
  /\ ServiceMay /\ ~failed
  /\ op' = "clear" /\ Goto("clear", "clear")
  /\ UNCHANGED <<session, deferred, failed, turbo, eyes, lastReal, pacer, service, waited,
                 runtime>>

\* The game's reset of the seated origin ends a partial pair first.  It reads
\* neither serviceStopped nor serviceFailed, and what it does to the space is
\* Publications' part.  closeDiagnosticFrame, whose failure ends the start that
\* called it, is this clear too.
ResetSeated ==
  /\ pc = "idle" /\ ~gateStopped /\ running /\ status = "ok" /\ ~failed
  /\ op' = "reset" /\ Goto("clear", "clear")
  /\ UNCHANGED <<session, deferred, failed, turbo, eyes, lastReal, pacer, service, waited,
                 runtime>>

\* A submit of an eye already in, or without an open frame, or whose capture
\* fails, changes nothing.
SubmitEye(eye) ==
  /\ ServiceMay
  /\ ~failed /\ frameOpen /\ eye \notin accepted
  /\ accepted' = accepted \cup {eye}
  /\ IF accepted' = Eyes
       THEN op' = "submit" /\ Goto("finish", IF deferred THEN "take" ELSE "compose")
       ELSE UNCHANGED <<op, fn, pc>>
  /\ UNCHANGED <<session, deferred, failed, turbo, geometryReady, lastReal, pacer, service,
                 waited, runtime>>

\* What the host does with a frame that was admitted.
\* loadingStep's and waitPoses' failures either close the frame at once (soft)
\* or leave it to the next clear (hard).
AdmittedWait ==
  /\ pc = "admitted" /\ op = "wait"
  /\ \/ Goto("clear", "clear") /\ UNCHANGED <<op, waited, geometryReady>>
     \/ status = "ok" /\ Return /\ geometryReady' \in BOOLEAN
  /\ UNCHANGED <<session, deferred, failed, turbo, accepted, lastReal, pacer, service,
                 runtime>>

AdmittedLoad ==
  /\ pc = "admitted" /\ op = "load"
  /\ \/ Goto("clear", "clear") /\ UNCHANGED <<op, waited, geometryReady, service>>
     \/ /\ status = "ok"
        /\ \/ Goto("finish", "compose") /\ geometryReady' \in BOOLEAN
              /\ UNCHANGED <<op, waited, service>>
           \/ Goto("giveUp", "clear") /\ UNCHANGED <<op, waited, geometryReady, service>>
           \/ Return /\ publishFatalFailure /\ UNCHANGED geometryReady
  /\ UNCHANGED <<session, deferred, failed, turbo, accepted, lastReal, pacer, runtime>>

(***************************************************************************)
(* FrameBoundary::waitAndBegin                                             *)
(***************************************************************************)

KickLost == UNCHANGED <<pending, done, result, worker>>

\* FramePacer::kick.
kick == /\ pending' = TRUE /\ done' = FALSE
        /\ worker' = IF worker = "none" THEN "idle" ELSE worker
        /\ UNCHANGED result

\* A synthesized time is one to two periods after the last real one.
OpenDeferred ==
  IF Admissible
    THEN \E step \in 1 .. 2 :
           /\ frameOpen' = TRUE /\ sessionDeferred' = TRUE /\ deferred' = TRUE
           /\ frameTime' = lastReal + step
           /\ pc' = "admitted"
           /\ UNCHANGED <<failed, op, fn, waited, service>>
    ELSE /\ failed' = TRUE /\ FailedReturn
         /\ UNCHANGED <<frame, deferred>>

Turbo(t) == t => op = "wait"

\* The pacer still has a wait out: hand the game a synthesized time.
ChooseSynthesize ==
  /\ pc = "choose" /\ fn = "waitAndBegin"
  /\ pending /\ ~done /\ canSynthesize
  /\ Turbo(TRUE) /\ turbo' = TRUE
  /\ OpenDeferred
  /\ UNCHANGED <<state, running, status, eyes, lastReal, pacer, runtime>>

ChooseTake ==
  /\ pc = "choose" /\ fn = "waitAndBegin"
  /\ pending
  /\ \E t \in BOOLEAN : /\ Turbo(t) /\ turbo' = t
                        /\ ~(t /\ ~done /\ canSynthesize)
  /\ pc' = "take"
  /\ UNCHANGED <<session, deferred, failed, eyes, lastReal, pacer, service, op, fn, waited,
                 runtime>>

ChooseKick ==
  /\ pc = "choose" /\ fn = "waitAndBegin"
  /\ ~pending /\ canSynthesize
  /\ Turbo(TRUE) /\ turbo' = TRUE
  /\ kick
  /\ OpenDeferred
  /\ UNCHANGED <<state, running, status, eyes, lastReal, runtime>>

ChooseWait ==
  /\ pc = "choose" /\ fn = "waitAndBegin"
  /\ ~pending
  /\ \E t \in BOOLEAN : Turbo(t) /\ turbo' = t /\ ~(t /\ canSynthesize)
  /\ pc' = "xrWaitFrame"
  /\ UNCHANGED <<session, deferred, failed, eyes, lastReal, pacer, service, op, fn, waited,
                 runtime>>

\* SessionState::waitAndBegin up to the begin: the owner blocks in xrWaitFrame.
WaitFrame ==
  /\ pc = "xrWaitFrame"
  /\ waitReturned = None
  /\ \E w \in Waits :
       IF Admissible /\ w.r # "fail"
         THEN /\ waited' = w /\ waitReturned' = w.time /\ pc' = "xrBeginFrame"
              /\ UNCHANGED <<status, failed, op, fn, service>>
         ELSE /\ failed' = TRUE /\ FailedReturn
              /\ IF Admissible THEN note("fail") ELSE UNCHANGED status
              /\ UNCHANGED waitReturned
  /\ UNCHANGED <<state, running, frame, deferred, turbo, eyes, lastReal, pacer, begun>>

(***************************************************************************)
(* FrameBoundary::clear, drain and finish                                  *)
(***************************************************************************)

\* Where a clear() that found or left nothing open returns to.
Cleared ==
  CASE fn = "waitAndBegin" -> /\ pc' = "choose"
                              /\ UNCHANGED <<failed, op, fn, waited, service>>
    [] fn = "drain" -> pc' = "drain" /\ UNCHANGED <<failed, op, fn, waited, service>>
    [] fn = "clear" -> Return /\ UNCHANGED <<failed, service>>
    [] fn = "giveUp" -> Return /\ publishFatalFailure /\ UNCHANGED failed
    [] fn = "abort" -> failed' = TRUE /\ Return /\ publishFatalFailure

ForgetEyes == accepted' = {} /\ geometryReady' = FALSE

ClearWithoutBegin ==
  /\ pc = "clear"
  /\ IF frameOpen
       THEN pc' = "xrEndEmpty" /\ UNCHANGED <<failed, eyes, op, fn, waited, service>>
       ELSE ForgetEyes /\ Cleared
  /\ UNCHANGED <<session, deferred, turbo, lastReal, pacer, runtime>>

\* clear() of an open frame: end it empty, after its real begin if that is
\* still to come.
Clear ==
  /\ pc = "clear"
  /\ IF frameOpen
       THEN /\ pc' = IF deferred THEN "take" ELSE "xrEndEmpty"
            /\ UNCHANGED <<failed, eyes, op, fn, waited, service>>
       ELSE ForgetEyes /\ Cleared
  /\ UNCHANGED <<session, deferred, turbo, lastReal, pacer, runtime>>

\* drain() returns success.
Drained == Goto("none", IF op = "close" THEN "release" ELSE "stop")

\* drain() after its clear(): a wait that was only ever kicked is taken too.
Drain ==
  /\ pc = "drain"
  /\ IF pending THEN Goto("settle", "take") ELSE Drained
  /\ UNCHANGED <<session, deferred, failed, turbo, eyes, lastReal, pacer, service, op, waited,
                 runtime>>

Take == /\ pc = "take"
        /\ pending /\ done
        /\ pending' = FALSE /\ done' = FALSE
        /\ UNCHANGED <<result, worker>>

\* finish() and clear() of a deferred frame: beginDeferred.
TakeDeferred ==
  /\ Take /\ deferred
  /\ deferred' = FALSE /\ sessionDeferred' = FALSE
  /\ noteReal(result)
  /\ IF result.r = "fail"
       THEN /\ failed' = TRUE /\ FailedReturn /\ note("fail")
            /\ frameOpen' = FALSE /\ frameTime' = 0
       ELSE /\ pc' = "xrBeginFrame" /\ waited' = result
            /\ UNCHANGED <<failed, op, fn, service, status, frameOpen, frameTime>>
  /\ UNCHANGED <<state, running, turbo, eyes, runtime>>

\* waitAndBegin finds the wait's result there: beginWaited.
TakeWaited ==
  /\ Take /\ ~deferred /\ fn = "waitAndBegin"
  /\ noteReal(result)
  /\ IF Admissible /\ result.r # "fail"
       THEN /\ pc' = "xrBeginFrame" /\ waited' = result
            /\ UNCHANGED <<failed, op, fn, service, status>>
       ELSE /\ failed' = TRUE /\ FailedReturn
            /\ IF Admissible THEN note("fail") ELSE UNCHANGED status
  /\ UNCHANGED <<state, running, frame, deferred, turbo, eyes, runtime>>

\* drain() settles the wait nobody opened a frame for; beginWaited refuses it
\* in a session that is stopping.
TakeSettled ==
  /\ Take /\ ~deferred /\ fn = "settle"
  /\ IF running /\ status = "ok" /\ result.r # "fail"
       THEN noteReal(result) ELSE UNCHANGED lastReal
  /\ IF Admissible /\ result.r # "fail"
       THEN pc' = "xrBeginFrame" /\ waited' = result /\ UNCHANGED <<op, fn>>
       ELSE Drained /\ UNCHANGED <<op, waited>>
  /\ UNCHANGED <<session, deferred, failed, turbo, eyes, service, runtime>>

\* The frame being begun is the one waitAndBegin was asked for, not a deferred
\* one it found open and is clearing first.
Admitting == fn = "waitAndBegin" /\ ~frameOpen

\* xrBeginFrame, in beginDeferred or beginFromWait.
BeginFrame ==
  /\ pc = "xrBeginFrame"
  /\ waitReturned' = None
  /\ \E r \in Results \cup {"discarded"} :
       /\ note(IF "loss" \in {waited.r, r} /\ r # "fail" THEN "loss" ELSE r)
       /\ IF r = "fail"
            THEN /\ failed' = (fn # "settle" \/ failed)
                 /\ FailedReturn /\ clearFrame
                 /\ UNCHANGED <<lastReal, begun>>
            ELSE /\ begun' = waitReturned
                 /\ frameOpen' = TRUE /\ frameTime' = waited.time
                 /\ IF Admitting THEN noteReal(waited) ELSE UNCHANGED lastReal
                 /\ CASE Admitting -> pc' = "admitted" /\ UNCHANGED fn
                      [] fn = "finish" -> pc' = "compose" /\ UNCHANGED fn
                      [] fn = "settle" /\ {waited.r, r} # {"ok"} -> Drained
                      [] OTHER -> pc' = "xrEndEmpty" /\ UNCHANGED fn
                 /\ UNCHANGED <<failed, op, waited, sessionDeferred, service>>
  /\ UNCHANGED <<state, running, deferred, turbo, eyes, pacer>>

\* An end without layers: clear(), or the frame drain() settles.
EndEmpty ==
  /\ pc = "xrEndEmpty"
  /\ begun' = None
  /\ clearFrame
  /\ \E r \in Results :
       /\ note(r)
       /\ CASE Noted(r) # "ok" -> /\ failed' = (fn # "settle" \/ r = "fail" \/ failed)
                                  /\ FailedReturn /\ UNCHANGED eyes
            [] Noted(r) = "ok" /\ fn = "settle" ->
                 Drained /\ UNCHANGED <<failed, eyes, op, waited, service>>
            [] OTHER -> ForgetEyes /\ Cleared
  /\ UNCHANGED <<state, running, deferred, turbo, lastReal, pacer, waitReturned>>

\* finish(): compose the layer.  There may be nothing to show; a composition
\* that fails softly is cleared, one that fails hard leaves the frame alone.
Compose ==
  /\ pc = "compose"
  /\ \/ pc' = "xrEndFrame" /\ UNCHANGED <<failed, op, fn, waited, service>>
     \/ /\ geometryReady /\ status = "ok"
        /\ \/ Goto("abort", "clear") /\ UNCHANGED <<failed, op, waited, service>>
           \/ failed' = TRUE /\ FailedReturn
  /\ UNCHANGED <<session, deferred, turbo, eyes, lastReal, pacer, runtime>>

\* finish(): end the frame, then kick the next one's wait.
EndFrame ==
  /\ pc = "xrEndFrame"
  /\ begun' = None
  /\ clearFrame
  /\ \E r \in Results :
       /\ note(r)
       /\ IF Noted(r) = "ok"
            THEN /\ Return /\ UNCHANGED <<failed, service>>
                 /\ IF turbo /\ ~pending THEN kick ELSE UNCHANGED pacer
            ELSE failed' = TRUE /\ FailedReturn /\ UNCHANGED pacer
  /\ UNCHANGED <<state, running, deferred, turbo, eyes, lastReal, waitReturned>>

(***************************************************************************)
(* close                                                                   *)
(***************************************************************************)

\* The gate is stopped; what can still be ended is ended.
Close ==
  /\ pc = "idle"
  /\ op' = "close"
  /\ gateStopped' = TRUE
  /\ IF running /\ status = "ok" /\ ~failed THEN Goto("drain", "clear")
                                             ELSE Goto("none", "release")
  /\ UNCHANGED <<session, deferred, failed, turbo, eyes, lastReal, pacer, serviceFailed,
                 serviceStopped, waited, runtime>>

\* The providers and the GPU resources go first.  When one of them cannot be let
\* go of, close keeps the session and reports it; it may be called again.
CloseReleases ==
  /\ pc = "release"
  /\ \/ pc' = "join" /\ UNCHANGED <<op, fn, waited>>
     \/ Return
  /\ UNCHANGED <<session, deferred, failed, turbo, eyes, lastReal, pacer, service, runtime>>

\* FramePacer::stop: a worker that is not in xrWaitFrame sees quit_ and ends.
Join ==
  /\ pc = "join"
  /\ worker # "xrWaitFrame"
  /\ worker' = "none" /\ pending' = FALSE /\ done' = FALSE /\ result' = NoWait
  /\ pc' = "xrDestroySession"
  /\ UNCHANGED <<session, deferred, failed, turbo, eyes, lastReal, service, op, fn, waited,
                 runtime>>

\* xrDestroySession, then abandonAfterOwnerDestruction.
Destroy ==
  /\ pc = "xrDestroySession"
  /\ pc' = "closed"
  /\ state' = "unknown" /\ running' = FALSE /\ status' = "ok" /\ clearFrame
  /\ waitReturned' = None /\ begun' = None
  /\ UNCHANGED <<deferred, failed, turbo, eyes, lastReal, pacer, service, op, fn, waited>>

(***************************************************************************)
(* The pacer's worker: FramePacer::run                                     *)
(***************************************************************************)

WorkerCalls ==
  /\ worker = "idle" /\ pending /\ ~done
  /\ worker' = "xrWaitFrame"
  /\ UNCHANGED <<session, deferred, failed, turbo, eyes, lastReal, pending, done, result,
                 service, owner, runtime>>

WorkerForgetsDone ==
  /\ worker = "xrWaitFrame"
  /\ waitReturned = None
  /\ \E w \in Waits : /\ result' = w
                       /\ waitReturned' = IF w.r = "fail" THEN None ELSE w.time
  /\ worker' = "idle"
  /\ UNCHANGED <<session, deferred, failed, turbo, eyes, lastReal, pending, done, service,
                 owner, begun>>

WorkerReturns ==
  /\ worker = "xrWaitFrame"
  /\ waitReturned = None
  /\ \E w \in Waits : /\ result' = w
                       /\ waitReturned' = IF w.r = "fail" THEN None ELSE w.time
  /\ done' = TRUE /\ worker' = "idle"
  /\ UNCHANGED <<session, deferred, failed, turbo, eyes, lastReal, pending, service, owner,
                 begun>>

OwnerEnters == \/ PumpRefused \/ PumpQuiet \/ PumpReady \/ PumpStopping \/ PumpTerminal
               \/ PumpFailed \/ WaitPoses \/ LoadingBoundary \/ ClearSubmitted
               \/ ResetSeated \/ FailedEntry \/ Close
               \/ \E eye \in Eyes : SubmitEye(eye)

OwnerSteps == \/ Stop \/ AdmittedWait \/ AdmittedLoad
              \/ ChooseSynthesize \/ ChooseTake \/ ChooseKick \/ ChooseWait \/ WaitFrame
              \/ Clear \/ Drain \/ TakeDeferred \/ TakeWaited \/ TakeSettled
              \/ BeginFrame \/ EndEmpty \/ Compose \/ EndFrame
              \/ CloseReleases \/ Join \/ Destroy

WorkerSteps == WorkerCalls \/ WorkerReturns

Next == OwnerEnters \/ OwnerSteps \/ WorkerSteps

Spec == Init /\ [][Next]_vars

\* The owner and the worker keep running, an xrWaitFrame that the runtime may
\* answer is answered, and the owner pumps on its 5 ms cadence whatever the game
\* calls or does not call.
FairSpec == /\ Spec
            /\ WF_vars(OwnerSteps) /\ WF_vars(WorkerSteps)
            /\ WF_vars(PumpFailed)

(***************************************************************************)
(* Properties                                                              *)
(***************************************************************************)

TypeOK ==
  /\ state \in {"unknown", "idle", "ready", "active", "stopping"}
  /\ running \in BOOLEAN /\ status \in {"ok", "loss", "gone", "hard"}
  /\ frameOpen \in BOOLEAN /\ sessionDeferred \in BOOLEAN /\ frameTime \in 0 .. MaxTime + 2
  /\ deferred \in BOOLEAN /\ failed \in BOOLEAN /\ turbo \in BOOLEAN
  /\ accepted \in SUBSET Eyes /\ geometryReady \in BOOLEAN
  /\ lastReal \in Times
  /\ pending \in BOOLEAN /\ done \in BOOLEAN /\ result \in Waits
  /\ worker \in {"none", "idle", "xrWaitFrame"}
  /\ serviceFailed \in BOOLEAN /\ serviceStopped \in BOOLEAN /\ gateStopped \in BOOLEAN
  /\ op \in {"none", "pump", "wait", "load", "clear", "submit", "reset", "close"}
  /\ fn \in {"none", "waitAndBegin", "finish", "clear", "drain", "settle", "giveUp", "abort"}
  /\ pc \in {"idle", "stop", "admitted", "choose", "xrWaitFrame", "clear", "drain", "take",
             "xrBeginFrame", "xrEndEmpty", "compose", "xrEndFrame", "release", "join",
             "xrDestroySession", "closed"}
  /\ waited \in Waits
  /\ waitReturned \in Times \cup {None} /\ begun \in Times \cup {None}

\* A frame whose begin was put off is open, in both records, and its wait is
\* with the pacer: finish() and clear() always have a result to take
\* (frame_boundary.h:216, :278).
DeferredHasItsWait ==
  pc \notin {"xrDestroySession", "closed"}
    => /\ deferred = sessionDeferred
       /\ deferred => frameOpen /\ pending

\* The session's idea of its frame is the runtime's: a frame is begun exactly
\* when it is open and not deferred.
FrameIsBegun == (frameOpen /\ ~deferred) => begun # None \/ pc = "xrBeginFrame"

Consistent == TypeOK /\ DeferredHasItsWait /\ FrameIsBegun

\* The order the runtime requires of its callers, at each call, with the pacer
\* thread wherever it may be: one xrWaitFrame at a time and none while the last
\* one's frame has not begun; a begin for a wait that returned; an end for a
\* begun frame, with the time the runtime predicted for it and never a
\* synthesized one (session_state.h:181-186); no frame or wait out when the
\* session ends; the worker gone before the session is destroyed
\* (frame_pacer.h:10-15, native_runtime_host.h:2140-2144).
CallOrder ==
  /\ pc = "xrWaitFrame" => worker # "xrWaitFrame" /\ ~pending /\ waitReturned = None
  /\ pc = "xrBeginFrame" => waitReturned = waited.time /\ begun = None
  /\ pc \in {"xrEndFrame", "xrEndEmpty"} => begun = frameTime
  /\ pc = "stop" => worker # "xrWaitFrame" /\ ~pending /\ begun = None
  /\ pc = "xrDestroySession" => worker = "none"
  /\ worker = "xrWaitFrame" => waitReturned = None

\* A session that has ended, and that the service did not give up, has left
\* nothing behind: READY starts it again from scratch.
EndedIsQuiet ==
  (pc = "idle" /\ ~running /\ ~serviceFailed)
     => ~frameOpen /\ begun = None /\ ~pending /\ worker # "xrWaitFrame"

\* frame_boundary.h:345-347 "A failed boundary has consumed an uncertain XR
\* operation ... Callers must retire their native publications before admitting
\* another frame": once it has failed no frame call is made again, and an entry
\* point that returned without telling the service (resetSeated) has left no
\* frame, and a session every later entry point refuses to run frames on.
FailureIsContained ==
  /\ failed => pc \notin {"choose", "xrWaitFrame", "xrBeginFrame", "xrEndFrame", "xrEndEmpty"}
  /\ (pc = "idle" /\ (failed \/ status # "ok") /\ ~gateStopped)
       => failed /\ status # "ok" /\ ~frameOpen /\ begun = None

\* What the frame loop owes the runtime, with the pacer's thread wherever it may
\* be: its calls in order, nothing left of a session that ended, and no call on
\* a session or a boundary that failed.
SessionContract == CallOrder /\ EndedIsQuiet /\ FailureIsContained

\* native_runtime_host.h:739-741 "the game must observe the same quit path
\* instead of rendering forever on invalidated publications": a failed boundary
\* or a terminal session is published, whichever entry point met it and whether
\* or not the game calls again, unless the host is being closed.
FailureIsPublished == (failed \/ status # "ok") ~> (serviceFailed \/ gateStopped)

\* No entry point blocks for ever in a wait nobody will return or a result
\* nobody will store.
CallsReturn == pc \notin {"idle", "closed"} ~> pc \in {"idle", "closed"}

\* frame_boundary.h:299-302 "A wait that comes back admitting a real frame is
\* begun and ended with zero layers", before the session is ended.
DrainedWaitIsBegun == pc = "stop" => waitReturned = None
===============================================================================
