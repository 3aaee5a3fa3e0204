---------------------------- MODULE ModuleBackend ----------------------------
(***************************************************************************)
(* src/src/openxr/native_module.cpp: ModuleBackend starts and stops a      *)
(* generation, which is one owner service, render dispatcher, render       *)
(* binding and host; with render_route.h, render_shutdown.h and            *)
(* render_shutdown_coordinator.h, which carry its calls to the render      *)
(* thread and to the owner, and the parts of native_runtime_host.h that    *)
(* start, pump and close the host.                                         *)
(*                                                                         *)
(* Four threads: the driver, whom RuntimeLifecycle lets into start or stop *)
(* (the render thread itself, or another), a game thread that submits, the *)
(* game's render thread, and the owner.  The parts have modules of their   *)
(* own (PresentWorkQueue, OwnerService, RenderThreadDispatcher,            *)
(* RenderBoundary); here a call on one of them is one step, and a call     *)
(* that waits is one step on each side of the wait.  A frame is open, and  *)
(* a Submit completes a pair, whenever the session runs: the sequences of  *)
(* frames are FrameLoop's.                                                 *)
(***************************************************************************)
EXTENDS Integers, Sequences

CONSTANT MaxAttempts       \* the code's 16

ASSUME ModuleBackendAssumption == MaxAttempts \in Nat \ {0}

Users == {"driver", "client"}   \* who puts requests into the present queue

VARIABLES
  separateDevice,      \* of options_: the host draws on a device of its own
  pc, caller,          \* where the driver is, and on which thread
  attempts,            \* attempts_
  stopped, retained, loadingAdmitted, \* of the current generation
  lease,               \* of the binding: none, held, closed or released
  bound, failed,       \* its ready_, and its failed_ with the queue's closed_
  queue, reply,        \* its PresentWorkQueue, and what each user's invoke knows
  dBound, dClosed,     \* of the dispatcher
  render,              \* where the render thread is
  rv,                  \* its rendezvous: the dispatcher's boundary
  graphics,            \* the graphics job of that rendezvous
  owner, job, final,   \* the owner service, the job it runs, its finalizer
  host,                \* none, up (objects exist) or destroyed
  session,             \* state.running()
  serviceStopped, serviceFailed,
  gpuPending,          \* stereo.gpuPending_
  startOk, drainOk, cleaned, \* locals of start and stop that jobs assign
  fenced               \* history: the drain of this generation has succeeded

call == <<separateDevice, caller, attempts>>
driver == <<call, pc>>
flags == <<stopped, retained, loadingAdmitted>>
admission == <<lease, bound, failed>>
binding == <<admission, queue, reply>>
gate == <<dBound, dClosed>>
dispatcher == <<gate, rv, graphics>>
service == <<owner, job, final>>
serving == <<serviceStopped, serviceFailed>>
hostVars == <<host, session, serving, gpuPending>>
results == <<startOk, drainOk, cleaned, fenced>>
vars == <<driver, flags, binding, dispatcher, render, service, hostVars, results>>

NoRendezvous == [job |-> "none", for |-> "none", state |-> "none",
                 cancelled |-> FALSE, ok |-> FALSE]

Init ==
  /\ separateDevice \in BOOLEAN
  /\ pc = "idle" /\ caller = "foreign" /\ attempts = 0
  /\ stopped = FALSE /\ retained = FALSE /\ loadingAdmitted = FALSE
  /\ lease = "none" /\ bound = FALSE /\ failed = FALSE
  /\ queue = <<>> /\ reply = [u \in Users |-> "none"]
  /\ dBound = FALSE /\ dClosed = FALSE
  /\ rv = NoRendezvous /\ graphics = "none" /\ render = "out"
  /\ owner = "none" /\ job = "none" /\ final = "none"
  /\ host = "none" /\ session = FALSE
  /\ serviceStopped = FALSE /\ serviceFailed = FALSE /\ gpuPending = FALSE
  /\ startOk = FALSE /\ drainOk = FALSE /\ cleaned = TRUE /\ fenced = FALSE

Resting == {"idle", "up", "dead"}

\* The driver holds the render thread, which then is in no Present.
DriverRenders == caller = "render" /\ pc \notin Resting

InCallback == render \notin {"out", "direct", "driving", "closing"}

DriverGoes(p) ==
  /\ pc' = p
  /\ UNCHANGED <<call, flags, binding, dispatcher, render, service, hostVars, results>>

RenderGoes(r) ==
  /\ render' = r
  /\ UNCHANGED <<driver, flags, binding, dispatcher, service, hostVars, results>>

(***************************************************************************)
(* Calls on the parts                                                      *)
(***************************************************************************)

\* work().invoke: refused before binding and after close.
Enqueue(u, what) ==
  IF bound /\ ~failed
  THEN /\ queue' = Append(queue, [user |-> u, what |-> what])
       /\ reply' = [reply EXCEPT ![u] = "queued"]
  ELSE /\ reply' = [reply EXCEPT ![u] = "failed"]
       /\ UNCHANGED queue

\* work_.close: the requests still queued are cancelled.
CloseWork ==
  /\ failed' = TRUE
  /\ queue' = <<>>
  /\ reply' = [u \in Users |-> IF reply[u] = "queued" THEN "failed" ELSE reply[u]]

CloseBinding ==
  /\ lease' = IF lease = "held" THEN "closed" ELSE lease
  /\ CloseWork

CloseDispatcher ==
  /\ dClosed' = TRUE
  /\ rv' = IF rv.state \in {"queued", "executing"}
           THEN [rv EXCEPT !.cancelled = TRUE] ELSE rv
  /\ graphics' = IF graphics = "asked" THEN "cancelled" ELSE graphics

\* dispatcher.invokeOwner on the render thread gets as far as its wait.
MayPark == dBound /\ ~dClosed /\ owner = "running"

Park(j, for) ==
  rv' = [job |-> j, for |-> for, state |-> "queued",
         cancelled |-> FALSE, ok |-> FALSE]

\* owner.stop closes admission and cancels what is queued.
StopOwner(f, boundary) ==
  /\ owner' = IF owner = "running" THEN "stopping" ELSE owner
  /\ final' = f
  /\ rv' = IF boundary.state = "queued" /\ owner = "running"
           THEN [boundary EXCEPT !.state = "done"] ELSE boundary

(***************************************************************************)
(* start                                                                   *)
(***************************************************************************)

StartRefused(t) ==
  /\ pc = "idle" /\ attempts = MaxAttempts
  /\ t = "render" => render = "out"
  /\ caller' = t /\ pc' = "failing"
  /\ UNCHANGED <<separateDevice, attempts, flags, binding, dispatcher, render,
                 service, hostVars, results>>

\* A new generation: every object is a fresh one.
Start(t) ==
  /\ pc = "idle" /\ attempts < MaxAttempts
  /\ t = "render" => render = "out"
  /\ caller' = t /\ pc' = "acquire" /\ attempts' = attempts + 1
  /\ stopped' = FALSE /\ retained' = FALSE /\ loadingAdmitted' = FALSE
  /\ lease' = "none" /\ bound' = FALSE /\ failed' = FALSE /\ queue' = <<>>
  /\ dBound' = FALSE /\ dClosed' = FALSE
  /\ owner' = "none" /\ final' = "none"
  /\ host' = "none" /\ session' = FALSE
  /\ serviceStopped' = FALSE /\ serviceFailed' = FALSE /\ gpuPending' = FALSE
  /\ startOk' = FALSE /\ drainOk' = FALSE /\ cleaned' = TRUE /\ fenced' = FALSE
  /\ UNCHANGED <<separateDevice, reply, rv, graphics, render, job>>

\* The manifest, the cancellation, acquire, the wait for a Present or the
\* creation of the worker ends the start.
StartFails ==
  /\ pc \in {"acquire", "waitRender", "bound"}
  /\ DriverGoes("failing")

Acquire ==
  /\ pc = "acquire"
  /\ lease' = "held"
  /\ pc' = "waitRender"
  /\ UNCHANGED <<call, flags, bound, failed, queue, reply, dispatcher, render,
                 service, hostVars, results>>

\* waitForRender sees the first callback; route.bind goes to the render thread.
RenderSeen ==
  /\ pc = "waitRender" /\ bound /\ ~failed
  /\ Enqueue("driver", "bind")
  /\ pc' = "bind"
  /\ UNCHANGED <<call, flags, admission, dispatcher, render, service, hostVars, results>>

Answered == reply["driver"] \in {"ok", "failed"}

BindAnswered ==
  /\ pc = "bind" /\ Answered
  /\ DriverGoes(IF reply["driver"] = "ok" THEN "bound" ELSE "failing")

StartOwner ==
  /\ pc = "bound"
  /\ owner' = "running"
  /\ Enqueue("driver", "start")
  /\ pc' = "start"
  /\ UNCHANGED <<call, flags, admission, dispatcher, render, job, final, hostVars, results>>

AdmitsAlways(ok) == TRUE

AdmitsLoading(ok) == ok

StartAnswered ==
  /\ pc = "start" /\ Answered
  /\ LET ok == reply["driver"] = "ok" /\ startOk
     IN /\ loadingAdmitted' = AdmitsLoading(ok)
        /\ pc' = IF ok THEN "up" ELSE "failing"
  /\ UNCHANGED <<call, stopped, retained, binding, dispatcher, render, service,
                 hostVars, results>>

(***************************************************************************)
(* stop                                                                    *)
(***************************************************************************)

\* RuntimeLifecycle: the initializer cleans up its own failed start; any
\* thread may shut a running module down.
MayStop(t) == \/ pc = "failing" /\ t = caller
              \/ pc = "up" /\ (t = "render" => render = "out")

\* The generation was stopped before: only after StartRefused.
StopAgain(t) ==
  /\ MayStop(t) /\ stopped
  /\ DriverGoes(IF retained THEN "dead" ELSE "idle")

StopBegins(t) ==
  /\ MayStop(t) /\ ~stopped
  /\ caller' = t
  /\ loadingAdmitted' = FALSE
  /\ pc' = CASE owner = "running" /\ separateDevice -> "sepClose"
             [] owner = "running" /\ ~separateDevice -> "askDrain"
             [] owner # "running" /\ host # "none" -> "retain"
             [] OTHER -> "close"
  /\ UNCHANGED <<separateDevice, attempts, stopped, retained, binding, dispatcher,
                 render, service, hostVars, results>>

\* runRenderShutdown, first step: route.invoke carries the drain to the
\* render thread, or parks right here when this is the render thread.
AskDrain ==
  /\ pc = "askDrain"
  /\ pc' = "drain"
  /\ IF caller = "foreign"
     THEN Enqueue("driver", "drain") /\ UNCHANGED <<rv, render>>
     ELSE /\ UNCHANGED queue
          /\ IF MayPark
             THEN /\ Park("drain", "driver") /\ render' = "driving"
                  /\ reply' = [reply EXCEPT !["driver"] = "running"]
             ELSE /\ reply' = [reply EXCEPT !["driver"] = "failed"]
                  /\ UNCHANGED <<rv, render>>
  /\ UNCHANGED <<call, flags, admission, gate, graphics, service, hostVars, results>>

DrainAnswered ==
  /\ pc = "drain" /\ Answered
  /\ pc' = IF reply["driver"] = "ok" /\ drainOk THEN "askFinish" ELSE "retain"
  /\ fenced' = (reply["driver"] = "ok" /\ drainOk)
  /\ UNCHANGED <<call, flags, binding, dispatcher, render, service, hostVars,
                 startOk, drainOk, cleaned>>

\* finish of shutdownAtRenderBoundary, up to the join: the idle pump, the only
\* owner work between its two calls, does not use the dispatcher.
Finish ==
  /\ dClosed' = TRUE
  /\ graphics' = IF graphics = "asked" THEN "cancelled" ELSE graphics
  /\ StopOwner("stop", IF rv.state \in {"queued", "executing"}
                       THEN [rv EXCEPT !.cancelled = TRUE] ELSE rv)

\* The second step: at a Present, or right here on the render thread.
AskFinish ==
  /\ pc = "askFinish"
  /\ pc' = "finish"
  /\ IF caller = "foreign"
     THEN /\ Enqueue("driver", "finish")
          /\ UNCHANGED <<dClosed, graphics, owner, final, rv, render>>
     ELSE /\ Finish /\ render' = "closing"
          /\ reply' = [reply EXCEPT !["driver"] = "running"]
          /\ UNCHANGED queue
  /\ UNCHANGED <<call, flags, admission, dBound, job, hostVars, results>>

FinishAnswered ==
  /\ pc = "finish" /\ Answered
  /\ DriverGoes(IF reply["driver"] = "ok" /\ cleaned THEN "close" ELSE "retain")

\* render.close(), in the separate-device branch, before release, in retain.
StopClosesDispatcher ==
  /\ pc \in {"sepClose", "close", "retain"}
  /\ CloseDispatcher
  /\ IF pc = "retain"
     THEN retained' = TRUE /\ stopped' = TRUE /\ loadingAdmitted' = FALSE
     ELSE UNCHANGED flags
  /\ pc' = CASE pc = "sepClose" -> "sepStop"
             [] pc = "close" -> "release"
             [] OTHER -> "retainStop"
  /\ UNCHANGED <<call, binding, dBound, render, service, hostVars, results>>

\* binding.close(); owner.stop(...), in the separate-device branch and in retain.
StopClosesBinding ==
  /\ pc \in {"sepStop", "retainStop"}
  /\ CloseBinding
  /\ StopOwner(IF pc = "sepStop" THEN "stop" ELSE "none", rv)
  /\ pc' = IF pc = "sepStop" THEN "sepJoin" ELSE "retainJoin"
  /\ UNCHANGED <<call, flags, bound, gate, graphics, render, job, hostVars, results>>

Joined == owner \in {"none", "gone"}

StopJoins ==
  /\ pc \in {"sepJoin", "retainJoin"} /\ Joined
  /\ DriverGoes(CASE pc = "retainJoin" -> "dead"
                 [] pc = "sepJoin" /\ cleaned -> "close"
                 [] OTHER -> "retain")

\* E_PENDING: the presenting thread is still in the callback.
Pending == lease \in {"held", "closed"} /\ InCallback

\* binding.release(), tried again while it answers E_PENDING.
Release ==
  /\ pc = "release"
  /\ CloseWork
  /\ IF Pending
     THEN /\ lease' = "closed" /\ UNCHANGED <<pc, stopped>>
     ELSE /\ lease' = "released" /\ stopped' = TRUE /\ pc' = "idle"
  /\ UNCHANGED <<call, retained, loadingAdmitted, bound, dispatcher, render,
                 service, hostVars, results>>

ReleaseGivesUp ==
  /\ pc = "release" /\ lease = "closed" /\ Pending
  /\ DriverGoes("retain")

(***************************************************************************)
(* The present queue's users                                               *)
(***************************************************************************)

\* Submit on another thread than the render thread goes through the route.
ClientSubmits ==
  /\ startOk /\ reply["client"] = "none"
  /\ Enqueue("client", "submit")
  /\ UNCHANGED <<driver, flags, admission, dispatcher, render, service, hostVars, results>>

ClientReturns ==
  /\ reply["client"] \in {"ok", "failed"}
  /\ reply' = [reply EXCEPT !["client"] = "none"]
  /\ UNCHANGED <<driver, flags, admission, queue, dispatcher, render, service,
                 hostVars, results>>

\* queue_.erase of the i-th element.
Erase(s, i) == [j \in 1 .. (Len(s) - 1) |-> IF j < i THEN s[j] ELSE s[j + 1]]

ExpiresNever(u) == FALSE

\* Five seconds passed and the request is still queued.
Expires(u) == reply[u] = "queued"

Timeout(u) ==
  /\ Expires(u)
  /\ \E i \in 1 .. Len(queue) : queue[i].user = u /\ queue' = Erase(queue, i)
  /\ reply' = [reply EXCEPT ![u] = "failed"]
  /\ UNCHANGED <<driver, flags, admission, dispatcher, render, service, hostVars, results>>

(***************************************************************************)
(* The render thread                                                       *)
(***************************************************************************)

PresentEnters ==
  /\ render = "out" /\ ~DriverRenders
  /\ lease = "held"
  /\ RenderGoes("entering")

\* The callback's prologue binds the queue, or turns the Present away.
CallbackBegins ==
  /\ render = "entering"
  /\ render' = IF failed THEN "leaving" ELSE "entered"
  /\ bound' = (bound \/ ~failed)
  /\ UNCHANGED <<driver, flags, lease, failed, queue, reply, dispatcher, service,
                 hostVars, results>>

PumpFindsNothing ==
  /\ render = "entered" /\ queue = <<>>
  /\ RenderGoes("pumped")

PumpBinds ==
  /\ render = "entered" /\ queue # <<>> /\ Head(queue).what = "bind"
  /\ dBound' = TRUE
  /\ queue' = Tail(queue)
  /\ reply' = [reply EXCEPT !["driver"] = "ok"]
  /\ render' = "pumped"
  /\ UNCHANGED <<driver, flags, admission, dClosed, rv, graphics, service, hostVars,
                 results>>

PumpParks ==
  /\ render = "entered" /\ queue # <<>>
  /\ Head(queue).what \in {"start", "submit", "drain"}
  /\ queue' = Tail(queue)
  /\ IF MayPark
     THEN /\ Park(Head(queue).what, Head(queue).user)
          /\ reply' = [reply EXCEPT ![Head(queue).user] = "running"]
          /\ render' = "parked"
     ELSE /\ reply' = [reply EXCEPT ![Head(queue).user] = "failed"]
          /\ render' = "pumped"
          /\ UNCHANGED rv
  /\ UNCHANGED <<driver, flags, admission, gate, graphics, service, hostVars, results>>

PumpFinishes ==
  /\ render = "entered" /\ queue # <<>> /\ Head(queue).what = "finish"
  /\ queue' = Tail(queue)
  /\ reply' = [reply EXCEPT !["driver"] = "running"]
  /\ Finish
  /\ render' = "finishing"
  /\ UNCHANGED <<driver, flags, admission, dBound, job, hostVars, results>>

\* owner.stop joined the worker inside finish.
FinishJoins ==
  /\ render \in {"finishing", "closing"} /\ Joined
  /\ reply' = [reply EXCEPT !["driver"] = "ok"]
  /\ render' = IF render = "finishing" THEN "pumped" ELSE "out"
  /\ UNCHANGED <<driver, flags, admission, queue, dispatcher, service, hostVars, results>>

\* The frame work of the callback reads loadingAdmitted ...
FrameWork ==
  /\ render = "pumped"
  /\ RenderGoes(IF ~failed /\ loadingAdmitted THEN "framing" ELSE "leaving")

\* ... and then goes to the owner; an exception closes the binding's queue.
FrameParks ==
  /\ render = "framing"
  /\ IF MayPark
     THEN /\ Park("loading", "frame") /\ render' = "parked"
          /\ UNCHANGED <<failed, queue, reply>>
     ELSE /\ CloseWork /\ render' = "leaving" /\ UNCHANGED rv
  /\ UNCHANGED <<driver, flags, lease, bound, gate, graphics, service, hostVars, results>>

\* The game submits on the render thread, outside any Present.
RenderSubmits ==
  /\ render = "out" /\ ~DriverRenders
  /\ startOk /\ MayPark
  /\ Park("submit", "game") /\ render' = "direct"
  /\ UNCHANGED <<driver, flags, binding, gate, graphics, service, hostVars, results>>

RenderTakesGraphics ==
  /\ render \in {"parked", "direct", "driving"} /\ graphics = "asked"
  /\ graphics' = "running"
  /\ UNCHANGED <<driver, flags, binding, gate, rv, render, service, hostVars, results>>

\* The callback on the context: start's calls, the commands of a pair on the
\* shared device, the fence of drain (complete, or the device removed, or
\* not complete within its five seconds).
RenderRunsGraphics ==
  /\ graphics = "running"
  /\ graphics' = "done"
  /\ CASE job = "drain" ->
            \/ gpuPending' = FALSE /\ drainOk' \in BOOLEAN
            \/ gpuPending' = TRUE /\ drainOk' = FALSE
       [] job \in {"submit", "loading"} /\ ~separateDevice ->
            gpuPending' = TRUE /\ UNCHANGED drainOk
       [] OTHER -> UNCHANGED <<gpuPending, drainOk>>
  /\ UNCHANGED <<driver, flags, binding, gate, rv, render, service, host, session,
                 serving, startOk, cleaned, fenced>>

RenderUnparks ==
  /\ render \in {"parked", "direct", "driving"} /\ rv.state = "done"
  /\ rv' = NoRendezvous
  /\ render' = CASE render \in {"direct", "driving"} -> "out"
                 [] render = "parked" /\ rv.for = "frame" -> "leaving"
                 [] OTHER -> "pumped"
  /\ IF rv.for = "frame" /\ ~rv.ok
     THEN CloseWork
     ELSE /\ reply' = IF rv.for \in Users
                      THEN [reply EXCEPT ![rv.for] = IF rv.ok THEN "ok" ELSE "failed"]
                      ELSE reply
          /\ UNCHANGED <<failed, queue>>
  /\ UNCHANGED <<driver, flags, lease, bound, gate, graphics, service, hostVars, results>>

CallbackReturns ==
  /\ render = "leaving"
  /\ RenderGoes("out")

(***************************************************************************)
(* The owner                                                               *)
(***************************************************************************)

OwnerTakes ==
  /\ owner = "running" /\ job = "none" /\ rv.state = "queued"
  /\ IF dClosed
     THEN rv' = [rv EXCEPT !.state = "done"] /\ UNCHANGED job
     ELSE rv' = [rv EXCEPT !.state = "executing"] /\ job' = rv.job
  /\ UNCHANGED <<driver, flags, binding, gate, graphics, render, owner, final,
                 hostVars, results>>

\* The callback and its completion are over.
JobEnds ==
  /\ job' = "none" /\ graphics' = "none"
  /\ rv' = [rv EXCEPT !.state = "done", !.ok = ~rv.cancelled]

\* CountedGraphics: the dispatcher may already refuse.
AsksGraphics == ~dClosed /\ graphics' = "asked" /\ UNCHANGED <<job, rv>>

Answer == graphics \in {"done", "cancelled"}

\* The host is made and opened; start may fail before its first graphics job.
StartJobOpens ==
  /\ job = "start" /\ graphics = "none"
  /\ host' = "up"
  /\ AsksGraphics \/ JobEnds
  /\ UNCHANGED <<driver, flags, binding, gate, render, owner, final, session,
                 serving, gpuPending, results>>

StartJobEnds ==
  /\ job = "start" /\ Answer
  /\ session' \in BOOLEAN
  /\ startOk' \in {FALSE, session' /\ graphics = "done"}
  /\ JobEnds
  /\ UNCHANGED <<driver, flags, binding, gate, render, owner, final, host, serving,
                 gpuPending, drainOk, cleaned, fenced>>

Admitted == session /\ ~serviceStopped /\ ~serviceFailed

\* loadingBoundary and submitEye turned away at their first lines.
FrameJobRefused ==
  /\ job \in {"loading", "submit"} /\ graphics = "none"
  /\ ~Admitted
  /\ JobEnds
  /\ UNCHANGED <<driver, flags, binding, gate, render, owner, final, hostVars, results>>

\* Eyes are captured, and on the shared device composed, on the render thread.
FrameJobAsks ==
  /\ job = "submit" \/ (job = "loading" /\ ~separateDevice)
  /\ graphics = "none" /\ Admitted
  /\ AsksGraphics
  /\ UNCHANGED <<driver, flags, binding, gate, render, owner, final, hostVars, results>>

FatalFailure == serviceFailed' = TRUE /\ serviceStopped' = FALSE

\* On its own device the owner composes by itself.  A failure of a loading
\* frame is fatal, that of a Submit when it breaks the frame boundary.
FrameJobEnds ==
  /\ job \in {"loading", "submit"} /\ Admitted
  /\ \/ Answer
     \/ graphics = "none" /\ (dClosed \/ (job = "loading" /\ separateDevice))
  /\ \/ FatalFailure
     \/ /\ job = "submit" \/ graphics = "done" \/ separateDevice
        /\ UNCHANGED <<serving>>
  /\ gpuPending' = (gpuPending \/ (separateDevice /\ (job = "loading" \/ graphics = "done")))
  /\ JobEnds
  /\ UNCHANGED <<driver, flags, binding, gate, render, owner, final, host, session,
                 results>>

\* stop's drain job: nothing pending needs no fence.
DrainJobBegins ==
  /\ job = "drain" /\ graphics = "none"
  /\ serviceStopped' = (serviceStopped \/ host # "none")
  /\ IF gpuPending /\ ~dClosed
     THEN AsksGraphics /\ UNCHANGED drainOk
     ELSE drainOk' = ~gpuPending /\ JobEnds
  /\ UNCHANGED <<driver, flags, binding, gate, render, owner, final, host, session,
                 serviceFailed, gpuPending, startOk, cleaned, fenced>>

DrainJobEnds ==
  /\ job = "drain" /\ Answer
  /\ JobEnds
  /\ UNCHANGED <<driver, flags, binding, gate, render, owner, final, hostVars, results>>

\* The idle callback, between jobs as well: pumpEvents.
MayPump == owner = "running" /\ job = "none" /\ host = "up" /\ ~serviceFailed

PumpRestarts ==
  /\ MayPump /\ ~session
  /\ session' = TRUE /\ serviceStopped' = FALSE
  /\ UNCHANGED <<driver, flags, binding, dispatcher, render, service, host,
                 serviceFailed, gpuPending, results>>

PumpEndsSession ==
  /\ MayPump /\ session
  /\ session' = FALSE /\ serviceStopped' = TRUE
  /\ UNCHANGED <<driver, flags, binding, dispatcher, render, service, host,
                 serviceFailed, gpuPending, results>>

PumpFails ==
  /\ MayPump
  /\ FatalFailure
  /\ UNCHANGED <<driver, flags, binding, dispatcher, render, service, host, session,
                 gpuPending, results>>

Outcome(h, pending, clean) == [host |-> h, pending |-> pending, clean |-> clean]

ClosedUnfenced ==
  IF host # "up" THEN {Outcome(host, gpuPending, TRUE)}
  ELSE {Outcome("destroyed", gpuPending, TRUE)}

\* host->stop() and the close() under it, in the finalizer: it may end before
\* the graphics, the fence on its own device may fail, on the shared device
\* the closed dispatcher refuses a fence, and once nothing is pending a call
\* that destroys an object may still fail.
Closed ==
  IF host # "up" THEN {Outcome(host, gpuPending, TRUE)}
  ELSE {Outcome("up", gpuPending, FALSE)}
       \cup (IF separateDevice
             THEN {Outcome("up", FALSE, FALSE)}
                  \cup {Outcome("destroyed", FALSE, c) : c \in BOOLEAN}
             ELSE IF gpuPending THEN {}
                  ELSE {Outcome("destroyed", FALSE, c) : c \in BOOLEAN})

OwnerFinishes ==
  /\ owner = "stopping" /\ job = "none"
  /\ serviceStopped' = (serviceStopped \/ (separateDevice /\ final = "stop" /\ host # "none"))
  /\ IF final = "stop"
     THEN \E o \in Closed :
            /\ host' = o.host /\ gpuPending' = o.pending /\ cleaned' = o.clean
            /\ session' = (session /\ o.host = "up")
     ELSE UNCHANGED <<host, gpuPending, cleaned, session>>
  /\ owner' = "gone"
  /\ UNCHANGED <<driver, flags, binding, dispatcher, render, job, final,
                 serviceFailed, startOk, drainOk, fenced>>

-----------------------------------------------------------------------------

DriverStep ==
  \/ StartFails \/ Acquire \/ RenderSeen \/ BindAnswered \/ StartOwner
  \/ StartAnswered \/ AskDrain \/ DrainAnswered \/ AskFinish \/ FinishAnswered
  \/ StopClosesDispatcher \/ StopClosesBinding \/ StopJoins \/ Release \/ ReleaseGivesUp

RenderStep ==
  \/ CallbackBegins \/ PumpFindsNothing \/ PumpBinds \/ PumpParks \/ PumpFinishes
  \/ FinishJoins \/ FrameWork \/ FrameParks \/ RenderTakesGraphics
  \/ RenderRunsGraphics \/ RenderUnparks \/ CallbackReturns

OwnerStep ==
  \/ OwnerTakes \/ StartJobOpens \/ StartJobEnds \/ FrameJobRefused \/ FrameJobAsks
  \/ FrameJobEnds \/ DrainJobBegins \/ DrainJobEnds \/ OwnerFinishes

IdlePump == PumpRestarts \/ PumpEndsSession \/ PumpFails

Cleanup == pc = "failing" /\ \E t \in {"foreign", "render"} : StopAgain(t) \/ StopBegins(t)

Next ==
  \/ \E t \in {"foreign", "render"} : StartRefused(t) \/ Start(t) \/ StopAgain(t) \/ StopBegins(t)
  \/ DriverStep
  \/ \E u \in Users : Timeout(u)
  \/ ClientSubmits \/ ClientReturns
  \/ PresentEnters \/ RenderSubmits \/ RenderStep
  \/ OwnerStep \/ IdlePump

Spec == Init /\ [][Next]_vars

\* Threads inside these calls keep running and an idle pump returns; nobody
\* has to Present, to submit or to shut down.
FairSpec == /\ Spec
            /\ WF_vars(DriverStep) /\ WF_vars(RenderStep) /\ WF_vars(OwnerStep)
            /\ WF_vars(Cleanup)
            /\ \A u \in Users : WF_vars(Timeout(u))
(***************************************************************************)
(* Properties                                                              *)
(***************************************************************************)

Jobs == {"start", "loading", "submit", "drain"}

TypeOK ==
  /\ separateDevice \in BOOLEAN /\ attempts \in 0 .. MaxAttempts
  /\ caller \in {"foreign", "render"}
  /\ lease \in {"none", "held", "closed", "released"}
  /\ graphics \in {"none", "asked", "running", "done", "cancelled"}
  /\ owner \in {"none", "running", "stopping", "gone"}
  /\ job \in Jobs \cup {"none"} /\ host \in {"none", "up", "destroyed"}
  /\ {stopped, retained, loadingAdmitted, bound, failed, dBound, dClosed, session,
      serviceStopped, serviceFailed, gpuPending, startOk, drainOk, cleaned, fenced}
       \subseteq BOOLEAN

\* The threads agree on who is where: a job of the owner is the one rendezvous
\* the render thread waits in, graphics runs for it alone, and a request is
\* queued exactly while its user waits for it.  (render_route.h:30-45, the
\* invoke of the dispatcher inside that of the queue.)
Consistent ==
  /\ TypeOK
  /\ (rv.state # "none") = (render \in {"parked", "direct", "driving"})
  /\ job # "none" => /\ owner \in {"running", "stopping"}
                     /\ rv.state = "executing" /\ rv.job = job
  /\ graphics # "none" => job # "none"
  /\ \A u \in Users : (reply[u] = "queued") = (\E i \in 1 .. Len(queue) : queue[i].user = u)

\* The jobs that use the host without asking find it: the Present callback,
\* which looks at loadingAdmitted only, and a Submit never reach a generation
\* whose host was not made or has been closed.  (native_module.cpp:40-44, 95-96.)
HostIsThere == job \in {"loading", "submit"} => host = "up"

\* Both: the threads agree, and what they work on exists.
ThreadsAgree == Consistent /\ HostIsThere

\* The session and its images are destroyed only when the GPU has finished with
\* them, on either device and whatever was submitted, timed out or restarted
\* during the shutdown.  (d3d11_stereo.cpp:183-189, native_runtime_host.h:2238.)
DestroyedIsDrained == host = "destroyed" => ~gpuPending

\* When stop has answered TRUE, and a new generation may begin, the worker has
\* been joined, the host is gone, admission is closed and no Present is in the
\* callback any more.  When it has answered FALSE the generation is kept, but it
\* is closed and joined all the same: nothing runs on it again.
\* (native_module.cpp:100-168, 187-199.)
StopIsFinal ==
  /\ pc = "idle" /\ attempts > 0 =>
       Joined /\ host # "up" /\ lease = "released" /\ ~InCallback /\ dClosed /\ failed
  /\ pc = "dead" =>
       Joined /\ job = "none" /\ lease # "held" /\ dClosed /\ failed /\ ~loadingAdmitted

\* What a shutdown leaves behind, whichever of its steps failed or timed out.
ShutdownContract == DestroyedIsDrained /\ StopIsFinal

\* Once the drain of a shutdown has succeeded no further GPU work is submitted:
\* native_module.cpp:127, "Disable idle frame activity before the final GPU
\* fence."  A READY event taken by the idle pump enables it again.
FenceIsFinal == fenced => ~gpuPending

\* start and stop return, whichever thread calls them and whether or not the
\* game ever Presents again.  (render_shutdown.h:28-46.)
CallsReturn == pc \notin Resting ~> pc \in Resting
=============================================================================
