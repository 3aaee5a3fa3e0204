------------------------ MODULE RenderThreadDispatcher ------------------------
(***************************************************************************)
(* src/src/openxr/render_thread_dispatcher.h: the rendezvous in which the  *)
(* render thread lends its D3D11 context to one owner callback.  The       *)
(* render thread submits the callback to the owner service and, while it   *)
(* waits, executes the graphics jobs the callback asks for.  Anybody may   *)
(* close the dispatcher and stop the owner at any moment.                  *)
(*                                                                         *)
(* The owner service is the Executor it has been shown to implement, with  *)
(* two kinds of request: the callback of the rendezvous and other work.    *)
(* One critical section of state_->mutex, or one stretch of user code, is  *)
(* one action; rejected calls change nothing.  A wait is the guard of the  *)
(* step after it: done, graphics and boundary are written under the mutex  *)
(* and every writer notifies all.                                          *)
(***************************************************************************)
EXTENDS Naturals

CONSTANT Closers      \* foreign threads that may call close

VARIABLES open, status, verdict, \* the owner service
          closed,     \* state_->closed; the render thread is bound from the start
          boundary,   \* state_->boundary is set
          ownerExecuting, done, success, cancelled, \* the fields of the Boundary
          graphics,   \* state_->graphics is set
          jobRunning, jobDone, jobSuccess, jobCaptured, \* the fields of the job
          renderPc, ownerPc, closePc,
          ownerThrew, jobThrew, \* locals of the two callback runs
          \* history
          ran,        \* how the last invokeOwner's callback ended
          result      \* what the last invokeOwner returned

boundaryVars == <<boundary, ownerExecuting, done, success, cancelled>>
jobVars == <<graphics, jobRunning, jobDone, jobSuccess, jobCaptured>>
executor == <<open, status, verdict>>
history == <<ran, result>>
vars == <<executor, closed, boundaryVars, jobVars, renderPc, ownerPc, closePc,
          ownerThrew, jobThrew, history>>

Work == {"rendezvous", "other"}
Service == INSTANCE Executor WITH Requests <- Work

Threads == Closers \cup {"render", "owner"}

Init ==
  /\ Service!ExecutorInit
  /\ closed = FALSE /\ boundary = FALSE /\ ownerExecuting = FALSE
  /\ done = FALSE /\ success = FALSE /\ cancelled = FALSE
  /\ graphics = FALSE /\ jobRunning = FALSE /\ jobDone = TRUE
  /\ jobSuccess = FALSE /\ jobCaptured = FALSE
  /\ renderPc = "out" /\ ownerPc = "idle"
  /\ closePc = [t \in Threads |-> "out"]
  /\ ownerThrew = FALSE /\ jobThrew = FALSE
  /\ ran = "none" /\ result = "none"

-----------------------------------------------------------------------------
(* invokeOwner, on the render thread *)

InvokeOwner ==
  /\ renderPc = "out" /\ closePc["render"] = "out"
  /\ ~closed /\ ~boundary
  /\ boundary' = TRUE
  /\ ownerExecuting' = FALSE /\ done' = FALSE /\ success' = FALSE /\ cancelled' = FALSE
  /\ renderPc' = "submitting"
  /\ ran' = "none" /\ result' = "none"
  /\ UNCHANGED <<executor, closed, jobVars, ownerPc, closePc, ownerThrew, jobThrew>>

SubmitAccepted ==
  /\ renderPc = "submitting"
  /\ Service!Accept("rendezvous")
  /\ renderPc' = "serving"
  /\ UNCHANGED <<closed, boundaryVars, jobVars, ownerPc, closePc, ownerThrew,
                 jobThrew, history>>

\* The service is stopped or full, or an allocation failed.
SubmitRejected ==
  /\ renderPc = "submitting"
  /\ boundary' = FALSE
  /\ renderPc' = "out" /\ result' = "false"
  /\ UNCHANGED <<executor, closed, ownerExecuting, done, success, cancelled,
                 jobVars, ownerPc, closePc, ownerThrew, jobThrew, ran>>

ServeJob ==
  /\ renderPc = "serving" /\ graphics
  /\ jobRunning' = TRUE
  /\ renderPc' = "running"
  /\ UNCHANGED <<executor, closed, boundaryVars, graphics, jobDone, jobSuccess,
                 jobCaptured, ownerPc, closePc, ownerThrew, jobThrew, history>>

MayRetire == done

\* Only the render caller retires the boundary.
InvokeOwnerReturns ==
  /\ renderPc = "serving" /\ ~graphics /\ MayRetire
  /\ boundary' = FALSE
  /\ renderPc' = "out" /\ result' = IF success THEN "true" ELSE "false"
  /\ UNCHANGED <<executor, closed, ownerExecuting, done, success, cancelled,
                 jobVars, ownerPc, closePc, ownerThrew, jobThrew, ran>>

JobReturns ==
  /\ renderPc = "running" /\ closePc["render"] = "out"
  /\ jobThrew' \in BOOLEAN
  /\ renderPc' = "ran"
  /\ UNCHANGED <<executor, closed, boundaryVars, jobVars, ownerPc, closePc,
                 ownerThrew, history>>

JobReleases ==
  /\ renderPc = "ran"
  /\ jobCaptured' = FALSE
  /\ renderPc' = "released"
  /\ UNCHANGED <<executor, closed, boundaryVars, graphics, jobRunning, jobDone,
                 jobSuccess, ownerPc, closePc, ownerThrew, jobThrew, history>>

JobFinishes ==
  /\ renderPc = "released"
  /\ jobSuccess' = ~jobThrew /\ jobDone' = TRUE
  /\ graphics' = FALSE
  /\ renderPc' = "serving"
  /\ UNCHANGED <<executor, closed, boundaryVars, jobRunning, jobCaptured, ownerPc,
                 closePc, ownerThrew, jobThrew, history>>

-----------------------------------------------------------------------------
(* The owner thread *)

\* Somebody starts the service, submits other work, or stops the service.
OwnerStarts ==
  /\ Service!Open
  /\ UNCHANGED <<closed, boundaryVars, jobVars, renderPc, ownerPc, closePc,
                 ownerThrew, jobThrew, history>>
OtherSubmitted ==
  /\ Service!Accept("other")
  /\ UNCHANGED <<closed, boundaryVars, jobVars, renderPc, ownerPc, closePc,
                 ownerThrew, jobThrew, history>>
OwnerStopped ==
  /\ Service!Close
  /\ UNCHANGED <<closed, boundaryVars, jobVars, renderPc, ownerPc, closePc,
                 ownerThrew, jobThrew, history>>

OwnerTakes(w) ==
  /\ ownerPc = "idle"
  /\ Service!Begin(w)
  /\ ownerPc' = IF w = "rendezvous" THEN "entering" ELSE "other"
  /\ UNCHANGED <<closed, boundaryVars, jobVars, renderPc, closePc, ownerThrew,
                 jobThrew, history>>

\* The first lines of the submitted lambda.
OwnerEnters ==
  /\ ownerPc = "entering"
  /\ IF closed THEN cancelled' = TRUE /\ ownerPc' = "ended"
                    /\ UNCHANGED ownerExecuting
               ELSE ownerExecuting' = TRUE /\ ownerPc' = "work"
                    /\ UNCHANGED cancelled
  /\ ownerThrew' = FALSE
  /\ UNCHANGED <<executor, closed, boundary, done, success, jobVars, renderPc,
                 closePc, jobThrew, history>>

MayRequest == ~closed /\ boundary /\ ownerExecuting /\ ~graphics

\* The dispatcher's invoke, from the callback or from other owner work.
OwnerInvokes ==
  /\ ownerPc \in {"work", "other"} /\ closePc["owner"] = "out"
  /\ MayRequest
  /\ graphics' = TRUE
  /\ jobRunning' = FALSE /\ jobDone' = FALSE /\ jobSuccess' = FALSE /\ jobCaptured' = TRUE
  /\ ownerPc' = "waiting"
  /\ UNCHANGED <<executor, closed, boundaryVars, renderPc, closePc, ownerThrew,
                 jobThrew, history>>

MayResumeOnClose == jobDone \/ closed
MayResume == jobDone

OwnerResumes ==
  /\ ownerPc = "waiting" /\ MayResume
  /\ ownerPc' = IF status["rendezvous"] = "running" THEN "work" ELSE "other"
  /\ UNCHANGED <<executor, closed, boundaryVars, jobVars, renderPc, closePc,
                 ownerThrew, jobThrew, history>>

\* The callback returns or throws; the guard object ends ownerExecuting.
OwnerReturns ==
  /\ ownerPc = "work" /\ closePc["owner"] = "out"
  /\ ownerExecuting' = FALSE
  /\ ownerThrew' \in BOOLEAN
  /\ ran' = IF ownerThrew' THEN "threw" ELSE "ok"
  /\ ownerPc' = "ended"
  /\ UNCHANGED <<executor, closed, boundary, done, success, cancelled, jobVars,
                 renderPc, closePc, jobThrew, result>>

Complete(ok) == success' = (ok /\ ~cancelled) /\ done' = TRUE

\* The service calls the completion and finishes the request.
OwnerCompletes ==
  /\ ownerPc = "ended"
  /\ Complete(~ownerThrew)
  /\ Service!End("rendezvous", ~ownerThrew)
  /\ ownerPc' = "idle"
  /\ UNCHANGED <<closed, boundary, ownerExecuting, cancelled, jobVars, renderPc,
                 closePc, ownerThrew, jobThrew, history>>

\* A stop cancels the queued callback: its completion is called with false.
RendezvousCancelled ==
  /\ ~open
  /\ Service!Cancel("rendezvous")
  /\ Complete(FALSE)
  /\ UNCHANGED <<closed, boundary, ownerExecuting, cancelled, jobVars, renderPc,
                 ownerPc, closePc, ownerThrew, jobThrew, history>>

OtherEnds ==
  /\ \/ ownerPc = "other" /\ closePc["owner"] = "out"
        /\ (\E ok \in BOOLEAN : Service!End("other", ok)) /\ ownerPc' = "idle"
     \/ ~open /\ Service!Cancel("other") /\ UNCHANGED ownerPc
  /\ UNCHANGED <<closed, boundaryVars, jobVars, renderPc, closePc, ownerThrew,
                 jobThrew, history>>

-----------------------------------------------------------------------------
(* close, from any thread, also inside a job or the owner callback *)

CloseTakesRunning == graphics
CloseTakes == graphics /\ ~jobRunning

CloseCall(t) ==
  /\ closePc[t] = "out"
  /\ t = "render" => renderPc \in {"out", "running"}
  /\ t = "owner" => ownerPc \in {"work", "other"}
  /\ closed' = TRUE
  /\ cancelled' = (cancelled \/ boundary)
  /\ IF CloseTakes
     THEN graphics' = FALSE /\ closePc' = [closePc EXCEPT ![t] = "cancelling"]
     ELSE UNCHANGED <<graphics, closePc>>
  /\ UNCHANGED <<executor, boundary, ownerExecuting, done, success, jobRunning,
                 jobDone, jobSuccess, jobCaptured, renderPc, ownerPc, ownerThrew,
                 jobThrew, history>>

CloseReleases(t) ==
  /\ closePc[t] = "cancelling"
  /\ jobCaptured' = FALSE
  /\ closePc' = [closePc EXCEPT ![t] = "cancelled"]
  /\ UNCHANGED <<executor, closed, boundaryVars, graphics, jobRunning, jobDone,
                 jobSuccess, renderPc, ownerPc, ownerThrew, jobThrew, history>>

CloseReturnsSilently(t) ==
  /\ closePc[t] = "cancelled"
  /\ closePc' = [closePc EXCEPT ![t] = "out"]
  /\ UNCHANGED <<executor, closed, boundaryVars, jobVars, renderPc, ownerPc,
                 ownerThrew, jobThrew, history>>

CloseReturns(t) ==
  /\ closePc[t] = "cancelled"
  /\ jobSuccess' = FALSE /\ jobDone' = TRUE
  /\ closePc' = [closePc EXCEPT ![t] = "out"]
  /\ UNCHANGED <<executor, closed, boundaryVars, graphics, jobRunning,
                 jobCaptured, renderPc, ownerPc, ownerThrew, jobThrew, history>>

-----------------------------------------------------------------------------

RenderSteps == SubmitAccepted \/ SubmitRejected \/ ServeJob \/ InvokeOwnerReturns
               \/ JobReleases \/ JobFinishes
OwnerSteps == OwnerEnters \/ OwnerResumes \/ OwnerCompletes
CloseSteps(t) == CloseReleases(t) \/ CloseReturns(t)

Next ==
  \/ InvokeOwner \/ RenderSteps \/ JobReturns
  \/ OwnerStarts \/ OtherSubmitted \/ OwnerStopped
  \/ (\E w \in Work : OwnerTakes(w))
  \/ OwnerSteps \/ OwnerInvokes \/ OwnerReturns \/ OtherEnds \/ RendezvousCancelled
  \/ \E t \in Threads : CloseCall(t) \/ CloseSteps(t)

Spec == Init /\ [][Next]_vars

\* The threads run on inside a call, callbacks return although they may call
\* the dispatcher meanwhile, and a stop that has begun cancels what is queued.
\* The service's queue is first in, first out, so other work cannot overtake
\* the callback for ever (strong fairness of OwnerTakes).
FairSpec ==
  /\ Spec
  /\ WF_vars(RenderSteps) /\ SF_vars(JobReturns)
  /\ SF_vars(OwnerTakes("rendezvous"))
  /\ WF_vars(OwnerSteps) /\ SF_vars(OwnerReturns) /\ SF_vars(OtherEnds)
  /\ WF_vars(RendezvousCancelled)
  /\ \A t \in Threads : WF_vars(CloseSteps(t))

-----------------------------------------------------------------------------
(* Properties *)

\* Types; and neither the render nor the owner thread ever finds a job to cancel
\* when it closes the dispatcher from its own callback.
TypeOK ==
  /\ Service!ExecutorTypeOK
  /\ {closed, boundary, ownerExecuting, done, success, cancelled} \subseteq BOOLEAN
  /\ {graphics, jobRunning, jobDone, jobSuccess, jobCaptured} \subseteq BOOLEAN
  /\ {ownerThrew, jobThrew} \subseteq BOOLEAN
  /\ renderPc \in {"out", "submitting", "serving", "running", "ran", "released"}
  /\ ownerPc \in {"idle", "entering", "work", "waiting", "ended", "other"}
  /\ closePc \in [Threads -> {"out", "cancelling", "cancelled"}]
  /\ closePc["render"] = "out" /\ closePc["owner"] = "out"
  /\ ran \in {"none", "ok", "threw"} /\ result \in {"none", "true", "false"}

\* The render thread lends its context to the callback of its own rendezvous
\* only: while a graphics job exists, that callback is running and waits for
\* it, and the render thread is inside invokeOwner.
GraphicsOnlyForRendezvous ==
  graphics \/ renderPc \in {"running", "ran", "released"} =>
    /\ renderPc \in {"serving", "running", "ran", "released"}
    /\ status["rendezvous"] = "running" /\ ownerExecuting /\ ownerPc = "waiting"

\* A job borrows the owner's stack: when the owner's invoke has returned, nobody
\* runs the job, holds it or still owns its captures, however close raced.
JobDoesNotOutliveInvoke ==
  ownerPc # "waiting" =>
    /\ ~graphics /\ ~jobCaptured
    /\ renderPc \notin {"running", "ran", "released"}
    /\ \A t \in Threads : closePc[t] = "out"

\* A rendezvous borrows the render caller's stack: when invokeOwner has
\* returned, its callback is neither queued nor running, and the boundary and
\* the job slot are empty.
CallbackDoesNotOutliveInvokeOwner ==
  renderPc = "out" =>
    status["rendezvous"] = "finished" /\ ~boundary /\ ~graphics

\* invokeOwner returns true only for a callback that ran to its end without an
\* exception; it returns false for one that did only after close.
ResultTruthful ==
  /\ result = "true" => ran = "ok"
  /\ result = "false" /\ ran = "ok" => closed

\* The destructor's check passes once close has been called and both threads
\* have left the dispatcher.
DestructorSafe ==
  closed /\ renderPc = "out" /\ ownerPc = "idle" => ~boundary /\ ~graphics

\* The representation: types, no job cancelled by its own user, and a closed and
\* unused dispatcher that its destructor accepts.
Consistent == TypeOK /\ DestructorSafe

\* Neither a job nor a rendezvous outlives the stack it borrows.
BorrowsEnd == JobDoesNotOutliveInvoke /\ CallbackDoesNotOutliveInvokeOwner

\* What a rendezvous promises both threads while closes race it: the context is
\* lent to its callback alone (:50-53), nothing borrowed outlives the call that
\* lent it (:55-58, :118-122), and invokeOwner's answer is true (:94-100).
RendezvousContract == GraphicsOnlyForRendezvous /\ BorrowsEnd /\ ResultTruthful

\* invokeOwner returns: no close, stop, cancellation or other owner work leaves
\* the render thread parked in the rendezvous.
InvokeOwnerTerminates == renderPc # "out" ~> renderPc = "out"

\* The owner never waits for ever for the render thread.
OwnerInvokeTerminates == ownerPc = "waiting" ~> ownerPc # "waiting"

\* Neither thread stays parked for the other.
CallsReturn == InvokeOwnerTerminates /\ OwnerInvokeTerminates

===============================================================================
