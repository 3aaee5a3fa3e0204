---------------------------- MODULE FrameEndOverlap ----------------------------
(***************************************************************************)
(* frame_end_overlap, src/src/openxr/native_runtime_host.h: the Submit     *)
(* that completes a pair of eyes may return before the pair is composed    *)
(* and ended, leaving that to a job it queues on its own owner thread.     *)
(* Until the job runs, pendingFrameEndFinish is set and the frame is open. *)
(*                                                                         *)
(* Game threads call waitPoses, submitEye, clearSubmitted and resetSeated; *)
(* the render thread's Present calls loadingBoundary; all of them wait in  *)
(* the owner's FIFO queue.  The owner runs one job at a time, pumps events *)
(* in between and, once the service is stopped, closes the host.  The      *)
(* queue itself is OwnerService and the steps inside a frame are           *)
(* FrameLoop: here one job is one action.                                  *)
(***************************************************************************)
EXTENDS Integers, Sequences

CONSTANTS Games,      \* the game's threads
          Presenter,  \* the render thread
          Capacity,   \* kQueueCapacity
          MaxFrames   \* bound on the frames begun

VARIABLES queue,         \* queue_: what is asked, and by whom
          calling,       \* threads waiting for their request
          service,       \* the owner: "up", "stopping" or "closed"
          running,       \* the session runs
          terminal,      \* the session is lost
          frame,         \* the open frame, 0 if none
          frames,        \* frames begun
          accepted,      \* accepted_: the eyes that are in
          pendingFinish, \* pendingFrameEndFinish: 0, or the pair's frame
          serviceFailed, gateStopped,
          \* history
          lost,          \* pairs that were in and whose frame was ended without them
          refused        \* a finish job the gate turned away

boundary == <<running, terminal, frame, frames, accepted>>
fatal == <<serviceFailed, gateStopped>>
history == <<lost, refused>>
vars == <<queue, calling, service, boundary, pendingFinish, fatal, history>>

Threads == Games \cup {Presenter}
Eyes == {"left", "right"}
Requests == {"wait", "clear", "reset", "load", "finish"} \cup Eyes
NoThread == "none"

Init == /\ queue = <<>> /\ calling = {} /\ service = "up"
        /\ running = TRUE /\ terminal = FALSE
        /\ frame = 0 /\ frames = 0 /\ accepted = {}
        /\ pendingFinish = 0
        /\ serviceFailed = FALSE /\ gateStopped = FALSE
        /\ lost = {} /\ refused = FALSE

(***************************************************************************)
(* The callers                                                             *)
(***************************************************************************)

Asks(t) == IF t = Presenter THEN {"load"} ELSE {"wait", "clear", "reset"} \cup Eyes

\* invoke() of a full queue or a stopping service returns false at once.
Call(t) ==
  /\ t \notin calling
  /\ service = "up" /\ Len(queue) < Capacity
  /\ \E a \in Asks(t) : queue' = Append(queue, [asked |-> a, by |-> t])
  /\ calling' = calling \cup {t}
  /\ UNCHANGED <<service, boundary, pendingFinish, fatal, history>>

\* OwnerService::stop: what is queued is cancelled.
StopService ==
  /\ service = "up"
  /\ service' = "stopping" /\ queue' = <<>> /\ calling' = {}
  /\ UNCHANGED <<boundary, pendingFinish, fatal, history>>

(***************************************************************************)
(* Jobs                                                                    *)
(***************************************************************************)

Asked(a) == service = "up" /\ queue # <<>> /\ Head(queue).asked = a

TakeJob == queue' = Tail(queue) /\ calling' = calling \ {Head(queue).by}

Admits == ~gateStopped /\ ~serviceFailed

publishFatalFailure == serviceFailed' = TRUE /\ gateStopped' = TRUE

\* Whether the frame now open holds a complete pair nobody has ended.
PairIn == frame # 0 /\ accepted = Eyes

EndsWithoutPair == lost' = IF PairIn THEN lost \cup {frame} ELSE lost

\* FrameBoundary::clear in a request.  A failure of the runtime is terminal.
Clears(ok) ==
  /\ EndsWithoutPair
  /\ frame' = 0
  /\ IF ok THEN accepted' = {} /\ UNCHANGED <<terminal, fatal>>
           ELSE terminal' = TRUE /\ publishFatalFailure /\ UNCHANGED accepted

\* The next wait closes a frame that was left open.
Waits ==
  /\ Asked("wait") /\ TakeJob
  /\ IF Admits /\ running /\ ~terminal /\ frames < MaxFrames
       THEN \/ /\ EndsWithoutPair
               /\ frames' = frames + 1 /\ frame' = frames + 1 /\ accepted' = {}
               /\ UNCHANGED <<terminal, fatal>>
            \/ Clears(FALSE) /\ UNCHANGED frames
       ELSE UNCHANGED <<terminal, frame, frames, accepted, fatal, lost>>
  /\ UNCHANGED <<service, running, pendingFinish, refused>>

ClearSubmitted ==
  /\ Asked("clear") /\ TakeJob
  /\ IF Admits /\ running
       THEN \/ ~terminal /\ Clears(TRUE)
            \/ (frame # 0 \/ terminal) /\ Clears(FALSE)
       ELSE UNCHANGED <<terminal, frame, accepted, fatal, lost>>
  /\ UNCHANGED <<service, running, frames, pendingFinish, refused>>

\* A reset of the seated origin ends the open frame first.  Its failure to do so
\* is terminal too, and left for the next pump or call to publish.
ResetSeated ==
  /\ Asked("reset") /\ TakeJob
  /\ IF ~gateStopped /\ running /\ ~terminal
       THEN \/ Clears(TRUE)
            \/ /\ frame # 0 /\ EndsWithoutPair
               /\ frame' = 0 /\ terminal' = TRUE /\ UNCHANGED <<accepted, fatal>>
       ELSE UNCHANGED <<terminal, frame, accepted, fatal, lost>>
  /\ UNCHANGED <<service, running, frames, pendingFinish, refused>>

\* loading.work(frameOpen) has nothing to do while a frame is open.
Loads == Admits /\ running /\ frame = 0

\* A loading frame of the render thread's own: begun and ended in the job.
LoadingBoundary ==
  /\ Asked("load") /\ TakeJob
  /\ IF Loads THEN (~terminal /\ Clears(TRUE)) \/ Clears(FALSE)
              ELSE UNCHANGED <<terminal, frame, accepted, fatal, lost>>
  /\ UNCHANGED <<service, running, frames, pendingFinish, refused>>

\* finishPair of the open frame: it ends with the pair, composing it fails and
\* leaves the session alone, or the runtime fails.  A pair captured for another
\* frame is lost, and without an open frame session.end refuses.
FinishPair(pair) ==
  /\ lost' = IF frame = pair THEN lost ELSE lost \cup {pair}
  /\ \/ frame # 0 /\ frame' = 0 /\ UNCHANGED <<terminal, fatal>>
     \/ frame # 0 /\ frame' = 0 /\ terminal' = TRUE /\ publishFatalFailure
     \/ UNCHANGED <<frame, terminal>> /\ publishFatalFailure

\* The overlap is for a separate device and runtime pacing, and service.submit
\* may find the queue full or the service stopping: then the pair is finished at
\* once, as it may always be here.
MayDefer == pendingFinish = 0

\* An eye that makes no pair is only captured; the second one also finishes the
\* pair, now or in a job of its own.
SubmitEye(eye) ==
  /\ Asked(eye)
  /\ calling' = calling \ {Head(queue).by}
  /\ \E captured \in BOOLEAN :
     IF captured /\ Admits /\ frame # 0 /\ eye \notin accepted
       THEN /\ accepted' = accepted \cup {eye}
            /\ \/ /\ accepted' # Eyes
                  /\ queue' = Tail(queue)
                  /\ UNCHANGED <<terminal, frame, pendingFinish, fatal, lost>>
               \/ /\ accepted' = Eyes /\ MayDefer
                  /\ queue' = Append(Tail(queue), [asked |-> "finish", by |-> NoThread])
                  /\ pendingFinish' = frame
                  /\ UNCHANGED <<terminal, frame, fatal, lost>>
               \/ /\ accepted' = Eyes
                  /\ queue' = Tail(queue)
                  /\ FinishPair(frame)
                  /\ UNCHANGED pendingFinish
       ELSE /\ queue' = Tail(queue)
            /\ IF Admits /\ terminal THEN publishFatalFailure ELSE UNCHANGED fatal
            /\ UNCHANGED <<terminal, frame, accepted, pendingFinish, lost>>
  /\ UNCHANGED <<service, running, frames, refused>>

finishPendingFrameEnd ==
  /\ Asked("finish") /\ TakeJob
  /\ IF pendingFinish # 0 /\ ~gateStopped
       THEN FinishPair(pendingFinish) /\ pendingFinish' = 0 /\ UNCHANGED refused
       ELSE /\ refused' = (refused \/ pendingFinish # 0)
            /\ UNCHANGED <<terminal, frame, pendingFinish, fatal, lost>>
  /\ UNCHANGED <<service, running, frames, accepted>>

(***************************************************************************)
(* Events and close                                                        *)
(***************************************************************************)

PumpsAnyway == service = "up" /\ Admits

\* The pump leaves a pair that waits for its finish alone.
Pumps == service = "up" /\ Admits /\ pendingFinish = 0

pumpEvents ==
  /\ Pumps
  /\ \/ ~terminal /\ running /\ running' = FALSE /\ Clears(TRUE)
     \/ /\ ~terminal /\ ~running /\ running' = TRUE
        /\ UNCHANGED <<terminal, frame, accepted, fatal, lost>>
     \/ /\ terminal' = TRUE /\ publishFatalFailure
        /\ UNCHANGED <<running, frame, accepted, lost>>
  /\ UNCHANGED <<queue, calling, service, frames, pendingFinish, refused>>

CloseForgets ==
  /\ service = "stopping"
  /\ service' = "closed"
  /\ gateStopped' = TRUE
  /\ frame' = 0
  /\ UNCHANGED <<queue, calling, running, terminal, frames, accepted, pendingFinish,
                 serviceFailed, history>>

\* The owner's finalizer: a finish that was cancelled in the queue is made good
\* before the boundary is drained, as long as the session is alive.
Close ==
  /\ service = "stopping"
  /\ service' = "closed"
  /\ gateStopped' = TRUE
  /\ IF running /\ ~terminal
       THEN /\ frame' = 0 /\ pendingFinish' = 0
            /\ \/ pendingFinish = frame /\ UNCHANGED lost
               \/ pendingFinish \notin {0, frame} /\ lost' = lost \cup {pendingFinish}
               \/ pendingFinish = 0 /\ frame # 0
                  /\ IF serviceFailed THEN UNCHANGED lost ELSE EndsWithoutPair
       ELSE UNCHANGED <<frame, pendingFinish, lost>>
  /\ UNCHANGED <<queue, calling, running, terminal, frames, accepted, serviceFailed, refused>>

OwnerJobs == \/ Waits \/ ClearSubmitted \/ ResetSeated \/ LoadingBoundary
             \/ finishPendingFrameEnd
             \/ \E eye \in Eyes : SubmitEye(eye)

Next == \/ \E t \in Threads : Call(t)
        \/ StopService \/ OwnerJobs \/ pumpEvents \/ Close

Spec == Init /\ [][Next]_vars

\* The owner thread takes what is queued, and closes once it is told to stop.
FairSpec == Spec /\ WF_vars(OwnerJobs) /\ WF_vars(Close)

(***************************************************************************)
(* Properties                                                              *)
(***************************************************************************)

TypeOK ==
  /\ queue \in Seq([asked : Requests, by : Threads \cup {NoThread}])
  /\ Len(queue) <= Capacity
  /\ calling \subseteq Threads /\ service \in {"up", "stopping", "closed"}
  /\ running \in BOOLEAN /\ terminal \in BOOLEAN
  /\ frames \in 0 .. MaxFrames /\ frame \in 0 .. frames
  /\ accepted \subseteq Eyes
  /\ pendingFinish \in 0 .. frames
  /\ serviceFailed \in BOOLEAN /\ gateStopped \in BOOLEAN
  /\ lost \subseteq 1 .. MaxFrames /\ refused \in BOOLEAN

FinishJobs == {i \in 1 .. Len(queue) : queue[i].asked = "finish"}

\* The flag and the job stand for the same thing: while a finish is pending its
\* frame is open with both eyes in, and exactly one job, or the close that
\* cancelled it, is there to end it; there is no job without the flag.
Consistent ==
  /\ TypeOK
  /\ pendingFinish # 0 => frame = pendingFinish /\ accepted = Eyes
  /\ service = "up" => IF pendingFinish # 0 THEN \E i \in 1 .. Len(queue) : FinishJobs = {i}
                                             ELSE FinishJobs = {}

\* So, with one game thread, a pair whose Submit was answered is composed and
\* ended as the frame it was rendered for: no wait, clear, reset, loading frame,
\* session stop or shutdown ends that frame empty first
\* (native_runtime_host.h:720-728, :2146-2151).
NoPairIsLost == Consistent /\ lost = {}

\* A finish that was put off is done, by its job or by close.
FinishHappens == pendingFinish # 0 ~> pendingFinish = 0

\* native_runtime_host.h:1290-1295 "Cannot happen today -- gate.requestStop() is
\* only called from close()": the gate never turns the finish job away.
FinishIsAdmitted == ~refused
===============================================================================
