----------------------------- MODULE OwnerService -----------------------------
(***************************************************************************)
(* src/src/openxr/owner_service.h: the single-thread executor that owns    *)
(* the OpenXR runtime.  Callers start it, invoke (blocking) and submit     *)
(* (with a completion) callbacks, and stop it; stop may come from several  *)
(* threads and from the owner itself, and the service may be started       *)
(* again.                                                                  *)
(*                                                                         *)
(* An action is one critical section of mutex_, or user code that runs     *)
(* between two of them.  A wait on cv_ is the guard of the step after it:  *)
(* every write to what the waiters test is made under mutex_ and followed  *)
(* by notify_all, and the worker's own wait polls every 5 ms.  A call that *)
(* is rejected, an inline invoke by the owner (part of the callback it is  *)
(* in) and a start whose thread cannot be created change nothing.          *)
(***************************************************************************)
EXTENDS Integers, Sequences, FiniteSets

CONSTANTS Callers,        \* the threads that use the service
          Owner,          \* the worker thread
          Requests,       \* names for requests, reused once finished
          None,           \* no request, no thread
          QueueCapacity,  \* kQueueCapacity
          MaxStarts       \* bound on successful starts

ASSUME CallersAssumption == IsFiniteSet(Callers) /\ Owner \notin Callers
ASSUME RequestsAssumption == IsFiniteSet(Requests) /\ None \notin Requests
ASSUME BoundsAssumption == QueueCapacity \in Nat \ {0} /\ MaxStarts \in Nat

VARIABLES queue,           \* queue_
          joinable,        \* worker_.joinable()
          ownerId,         \* ownerId_: Owner between the worker's first and last lock
          running, stopping, joining, cancellationReady, idleFailed,
          finalOutcome,    \* finalOutcome_
          idle, finalizer, \* idle_ and finalizer_ hold a callable
          stopCallers,     \* stopCallers_
          wpc, current,    \* where the worker is, and its local request
          outcome,         \* the worker's local outcome of the finalizer
          cancelled,       \* the local of the one stop that closed admission
          pc, mine,        \* where each thread is; the request a caller waits for
          captured, done, success, \* requests with that state
          \* history, read by properties only
          generation,      \* successful starts
          reports,         \* how often a request was reported finished
          ended,           \* how its callback ended: "none" if it never ran
          finalRuns,       \* finalizers run in this generation
          given,           \* the first stop of this generation passed one
          outcomeOf,       \* the outcome of each generation
          entered, returned \* generation in which each thread's stop began; result

requestVars == <<captured, done, success, reports, ended>>
stopVars == <<stopping, cancellationReady, finalizer, cancelled, given>>
workerVars == <<wpc, current, outcome, ownerId, idle, idleFailed, finalOutcome,
                finalRuns, outcomeOf>>
callVars == <<pc, mine, stopCallers, entered, returned>>
lifeVars == <<running, joinable, joining, generation>>
vars == <<queue, requestVars, stopVars, workerVars, callVars, lifeVars>>

Threads == Callers \cup {Owner}

Init ==
  /\ queue = <<>> /\ cancelled = <<>>
  /\ joinable = FALSE /\ running = FALSE /\ stopping = FALSE /\ joining = FALSE
  /\ cancellationReady = FALSE /\ idleFailed = FALSE /\ finalOutcome = TRUE
  /\ ownerId = None /\ idle = FALSE /\ finalizer = FALSE /\ stopCallers = 0
  /\ wpc = "none" /\ current = None /\ outcome = TRUE
  /\ pc = [t \in Threads |-> "out"] /\ mine = [t \in Callers |-> None]
  /\ captured = {} /\ success = {} /\ done = Requests
  /\ generation = 0 /\ finalRuns = 0 /\ given = FALSE
  /\ reports = [r \in Requests |-> 1] /\ ended = [r \in Requests |-> "none"]
  /\ outcomeOf = [g \in 0 .. MaxStarts |-> TRUE]
  /\ entered = [t \in Callers |-> 0] /\ returned = [t \in Callers |-> "none"]

\* The owner calls back into the service from a callback, idle or finalizer.
CanCall(t) ==
  /\ pc[t] = "out"
  /\ t = Owner => wpc \in {"running", "idling", "finalizing"}

\* A request name nobody refers to.
Free(r) == r \in done /\ \A t \in Callers : mine[t] # r

-----------------------------------------------------------------------------
(* start, invoke, submit *)

MayStartEarly == ~running /\ ~joinable /\ ~stopping
MayStart == ~running /\ ~joinable /\ ~stopping /\ stopCallers = 0

Start(t) ==
  /\ CanCall(t) /\ generation < MaxStarts
  /\ MayStart
  /\ idle' \in BOOLEAN
  /\ stopping' = FALSE /\ cancellationReady' = FALSE /\ idleFailed' = FALSE
  /\ finalOutcome' = TRUE /\ finalizer' = FALSE
  /\ running' = TRUE
  /\ joinable' = TRUE /\ wpc' = "spawned"
  /\ generation' = generation + 1 /\ finalRuns' = 0 /\ given' = FALSE
  /\ UNCHANGED <<queue, requestVars, callVars, cancelled, joining, current,
                 outcome, ownerId, outcomeOf>>

AdmitsWhileStopping == running /\ Len(queue) < QueueCapacity
Admits == running /\ ~stopping /\ Len(queue) < QueueCapacity

\* A request enters the queue.
Push(r) ==
  /\ Free(r)
  /\ queue' = Append(queue, r)
  /\ captured' = captured \cup {r}
  /\ done' = done \ {r} /\ success' = success \ {r}
  /\ reports' = [reports EXCEPT ![r] = 0]
  /\ ended' = [ended EXCEPT ![r] = "none"]

\* The caller waits on its own request's condition variable.
Invoke(t, r) ==
  /\ t # Owner /\ CanCall(t)
  /\ Admits /\ Push(r)
  /\ mine' = [mine EXCEPT ![t] = r]
  /\ pc' = [pc EXCEPT ![t] = "waiting"]
  /\ UNCHANGED <<stopVars, workerVars, lifeVars, stopCallers, entered, returned>>

InvokeReturn(t) ==
  /\ pc[t] = "waiting" /\ mine[t] \in done
  /\ mine' = [mine EXCEPT ![t] = None]
  /\ pc' = [pc EXCEPT ![t] = "out"]
  /\ UNCHANGED <<queue, requestVars, stopVars, workerVars, lifeVars, stopCallers,
                 entered, returned>>

Submit(t, r) ==
  /\ CanCall(t)
  /\ Admits /\ Push(r)
  /\ UNCHANGED <<stopVars, workerVars, callVars, lifeVars>>

-----------------------------------------------------------------------------
(* stop *)

\* The end of an external stop: --stopCallers_ and the return of finalOutcome_.
StopReturns(t) ==
  /\ pc' = [pc EXCEPT ![t] = "out"]
  /\ returned' = [returned EXCEPT ![t] = IF finalOutcome THEN "true" ELSE "false"]

\* A stop that passes the cancellation block: the owner returns false, the
\* first to come joins, the others wait for it.  counted is stopCallers_ with
\* this caller in it.
StopTail(t, counted) ==
  \/ /\ t = Owner
     /\ pc' = [pc EXCEPT ![t] = "out"] /\ stopCallers' = counted
     /\ UNCHANGED <<returned, joining, joinable>>
  \/ /\ t # Owner /\ ~joinable /\ ~running
     /\ StopReturns(t) /\ stopCallers' = counted - 1
     /\ UNCHANGED <<joining, joinable>>
  \/ /\ t # Owner /\ (joinable \/ running) /\ joining
     /\ pc' = [pc EXCEPT ![t] = "joinwait"] /\ stopCallers' = counted
     /\ UNCHANGED <<returned, joining, joinable>>
  \/ /\ t # Owner /\ (joinable \/ running) /\ ~joining
     /\ pc' = [pc EXCEPT ![t] = "joining"] /\ stopCallers' = counted
     /\ joining' = TRUE /\ joinable' = FALSE
     /\ UNCHANGED returned

StopNoted(t) == entered' = IF t = Owner THEN entered
                           ELSE [entered EXCEPT ![t] = generation]
Counted(t) == IF t = Owner THEN stopCallers ELSE stopCallers + 1

TakeQueueCopies == cancelled' = queue /\ UNCHANGED queue
TakeQueue == cancelled' = queue /\ queue' = <<>>

TakeFinalizer(t) == \E f \in BOOLEAN : finalizer' = f /\ given' = f

\* The first stop closes admission and takes the queue.
StopFirst(t) ==
  /\ CanCall(t) /\ (running \/ joinable) /\ ~stopping
  /\ stopping' = TRUE
  /\ TakeFinalizer(t)
  /\ TakeQueue
  /\ pc' = [pc EXCEPT ![t] = "cancelling"]
  /\ stopCallers' = Counted(t) /\ StopNoted(t)
  /\ UNCHANGED <<requestVars, workerVars, lifeVars, cancellationReady, mine,
                 returned>>

\* A stop with nothing running, or after the first.
StopLater(t) ==
  /\ CanCall(t) /\ ~((running \/ joinable) /\ ~stopping)
  /\ StopTail(t, Counted(t)) /\ StopNoted(t)
  /\ UNCHANGED <<queue, requestVars, stopVars, workerVars, running, generation,
                 mine>>

\* complete and finish: the completion is called, then the waiter released.
Report(r, ok) ==
  /\ reports' = [reports EXCEPT ![r] = @ + 1]
  /\ done' = done \cup {r}
  /\ success' = IF ok THEN success \cup {r} ELSE success \ {r}

\* The captures of a cancelled request die outside the lock ...
CancelRelease(t) ==
  /\ pc[t] = "cancelling" /\ cancelled # <<>> /\ Head(cancelled) \in captured
  /\ captured' = captured \ {Head(cancelled)}
  /\ UNCHANGED <<queue, done, success, reports, ended, stopVars, workerVars,
                 callVars, lifeVars>>

\* ... and then its cancellation is reported.
CancelReport(t) ==
  /\ pc[t] = "cancelling" /\ cancelled # <<>> /\ Head(cancelled) \notin captured
  /\ Report(Head(cancelled), FALSE)
  /\ cancelled' = Tail(cancelled)
  /\ UNCHANGED <<queue, captured, ended, stopping, cancellationReady, finalizer,
                 given, workerVars, callVars, lifeVars>>

CancelDoneByCallersOnly(t) ==
  /\ pc[t] = "cancelling" /\ cancelled = <<>>
  /\ cancellationReady' = (t # Owner)
  /\ StopTail(t, stopCallers)
  /\ UNCHANGED <<queue, requestVars, stopping, finalizer, cancelled, given,
                 workerVars, running, generation, mine, entered>>

\* Back under the lock: the owner may finalize, and this stop goes on.
CancelDone(t) ==
  /\ pc[t] = "cancelling" /\ cancelled = <<>>
  /\ cancellationReady' = TRUE
  /\ StopTail(t, stopCallers)
  /\ UNCHANGED <<queue, requestVars, stopping, finalizer, cancelled, given,
                 workerVars, running, generation, mine, entered>>

\* join returned: the service is down and may be started again.
Join(t) ==
  /\ pc[t] = "joining" /\ wpc = "exited"
  /\ wpc' = "none" /\ ownerId' = None
  /\ running' = FALSE /\ stopping' = FALSE /\ joining' = FALSE
  /\ StopReturns(t) /\ stopCallers' = stopCallers - 1
  /\ UNCHANGED <<queue, requestVars, cancellationReady, finalizer, cancelled,
                 given, current, outcome, idle, idleFailed, finalOutcome,
                 finalRuns, outcomeOf, mine, entered, joinable, generation>>

\* A stop that left the join to another sees it done.
JoinWaited(t) ==
  /\ pc[t] = "joinwait" /\ ~joining /\ ~joinable
  /\ StopReturns(t) /\ stopCallers' = stopCallers - 1
  /\ UNCHANGED <<queue, requestVars, stopVars, workerVars, lifeVars, mine,
                 entered>>

-----------------------------------------------------------------------------
(* run: the worker *)

WorkerEnters ==
  /\ wpc = "spawned" /\ wpc' = "loop" /\ ownerId' = Owner
  /\ UNCHANGED <<queue, requestVars, stopVars, callVars, lifeVars, current,
                 outcome, idle, idleFailed, finalOutcome, finalRuns, outcomeOf>>

WorkerTakes ==
  /\ wpc = "loop" /\ ~stopping /\ queue # <<>>
  /\ current' = Head(queue) /\ queue' = Tail(queue)
  /\ wpc' = "running"
  /\ UNCHANGED <<requestVars, stopVars, callVars, lifeVars, outcome, ownerId,
                 idle, idleFailed, finalOutcome, finalRuns, outcomeOf>>

\* The callback returns or throws; whatever it called has returned.
CallbackReturns ==
  /\ wpc = "running" /\ pc[Owner] = "out"
  /\ wpc' = "ran"
  /\ \E e \in {"ok", "threw"} : ended' = [ended EXCEPT ![current] = e]
  /\ UNCHANGED <<queue, captured, done, success, reports, stopVars, callVars,
                 lifeVars, current, outcome, ownerId, idle, idleFailed,
                 finalOutcome, finalRuns, outcomeOf>>

WorkerReleases ==
  /\ wpc = "ran" /\ wpc' = "released"
  /\ captured' = captured \ {current}
  /\ UNCHANGED <<queue, done, success, reports, ended, stopVars, callVars,
                 lifeVars, current, outcome, ownerId, idle, idleFailed,
                 finalOutcome, finalRuns, outcomeOf>>

WorkerReports ==
  /\ wpc = "released"
  /\ Report(current, ended[current] = "ok")
  /\ current' = None
  /\ wpc' = "between"
  /\ UNCHANGED <<queue, captured, ended, stopVars, callVars, lifeVars, outcome,
                 ownerId, idle, idleFailed, finalOutcome, finalRuns, outcomeOf>>

\* Between two requests idle runs if it is due and nobody asked to stop.
WorkerBetween ==
  /\ wpc = "between"
  /\ \/ wpc' = "loop"
     \/ idle /\ ~stopping /\ wpc' = "idling"
  /\ UNCHANGED <<queue, requestVars, stopVars, callVars, lifeVars, current,
                 outcome, ownerId, idle, idleFailed, finalOutcome, finalRuns,
                 outcomeOf>>

WorkerIdles ==
  /\ wpc = "loop" /\ ~stopping /\ queue = <<>> /\ idle
  /\ wpc' = "idling"
  /\ UNCHANGED <<queue, requestVars, stopVars, callVars, lifeVars, current,
                 outcome, ownerId, idle, idleFailed, finalOutcome, finalRuns,
                 outcomeOf>>

IdleReturns ==
  /\ wpc = "idling" /\ pc[Owner] = "out"
  /\ wpc' = "loop"
  /\ idleFailed' \in {idleFailed, TRUE}
  /\ UNCHANGED <<queue, requestVars, stopVars, callVars, lifeVars, current,
                 outcome, ownerId, idle, finalOutcome, finalRuns, outcomeOf>>

MayFinalize == wpc = "loop" /\ stopping /\ cancellationReady

WorkerStops ==
  /\ MayFinalize
  /\ wpc' = "finalizing"
  /\ finalRuns' = IF finalizer THEN finalRuns + 1 ELSE finalRuns
  /\ UNCHANGED <<queue, requestVars, stopVars, callVars, lifeVars, current,
                 outcome, ownerId, idle, idleFailed, finalOutcome, outcomeOf>>

\* Only a finalizer can fail; its captures and idle's go on this thread.
FinalizerReturns ==
  /\ wpc = "finalizing" /\ pc[Owner] = "out"
  /\ wpc' = "finalized"
  /\ outcome' \in {TRUE, ~finalizer}
  /\ idle' = FALSE /\ finalizer' = FALSE
  /\ UNCHANGED <<queue, requestVars, stopping, cancellationReady, cancelled,
                 given, callVars, lifeVars, current, ownerId, idleFailed,
                 finalOutcome, finalRuns, outcomeOf>>

WorkerExits ==
  /\ wpc = "finalized" /\ wpc' = "exited"
  /\ finalOutcome' = (outcome /\ ~idleFailed)
  /\ outcomeOf' = [outcomeOf EXCEPT ![generation] = outcome /\ ~idleFailed]
  /\ ownerId' = None
  /\ UNCHANGED <<queue, requestVars, stopVars, callVars, lifeVars, current,
                 outcome, idle, idleFailed, finalRuns>>

-----------------------------------------------------------------------------

Worker ==
  \/ WorkerEnters \/ WorkerTakes \/ CallbackReturns \/ WorkerReleases
  \/ WorkerReports \/ WorkerBetween \/ WorkerIdles \/ IdleReturns
  \/ WorkerStops \/ FinalizerReturns \/ WorkerExits

Stop(t) == \/ StopFirst(t) \/ StopLater(t)
           \/ CancelRelease(t) \/ CancelReport(t) \/ CancelDone(t)
           \/ (t # Owner /\ (Join(t) \/ JoinWaited(t)))

Next ==
  \/ \E t \in Threads : Start(t) \/ Stop(t)
  \/ \E t \in Callers, r \in Requests : Invoke(t, r)
  \/ \E t \in Threads, r \in Requests : Submit(t, r)
  \/ \E t \in Callers : InvokeReturn(t)
  \/ Worker

Spec == Init /\ [][Next]_vars

\* Threads inside a call run on, and callbacks, idle and the finalizer return
\* although they may call stop or submit meanwhile (strong fairness).
FairSpec ==
  /\ Spec
  /\ WF_vars(WorkerEnters \/ WorkerTakes \/ WorkerReleases \/ WorkerReports
             \/ WorkerBetween \/ WorkerStops \/ WorkerExits)
  /\ SF_vars(CallbackReturns \/ IdleReturns \/ FinalizerReturns)
  /\ \A t \in Threads :
       WF_vars(CancelRelease(t) \/ CancelReport(t) \/ CancelDone(t)
               \/ (t \in Callers /\ (Join(t) \/ JoinWaited(t) \/ InvokeReturn(t))))

-----------------------------------------------------------------------------
(* Properties *)

QueuedIn(q, r) == \E i \in 1 .. Len(q) : q[i] = r
Pcs == {"out", "waiting", "cancelling", "joining", "joinwait"}
WorkerPcs == {"none", "spawned", "loop", "running", "ran", "released", "between",
              "idling", "finalizing", "finalized", "exited"}

\* Types; and queue_ stays within kQueueCapacity.
TypeOK ==
  /\ queue \in Seq(Requests) /\ Len(queue) <= QueueCapacity
  /\ cancelled \in Seq(Requests)
  /\ joinable \in BOOLEAN /\ running \in BOOLEAN /\ stopping \in BOOLEAN
  /\ joining \in BOOLEAN /\ cancellationReady \in BOOLEAN
  /\ idleFailed \in BOOLEAN /\ finalOutcome \in BOOLEAN /\ outcome \in BOOLEAN
  /\ idle \in BOOLEAN /\ finalizer \in BOOLEAN /\ given \in BOOLEAN
  /\ ownerId \in {None, Owner} /\ stopCallers \in Int
  /\ wpc \in WorkerPcs /\ current \in Requests \cup {None}
  /\ pc \in [Threads -> Pcs] /\ mine \in [Callers -> Requests \cup {None}]
  /\ captured \in SUBSET Requests /\ done \in SUBSET Requests
  /\ success \in SUBSET Requests
  /\ generation \in 0 .. MaxStarts /\ finalRuns \in Nat
  /\ reports \in [Requests -> Nat]
  /\ ended \in [Requests -> {"none", "ok", "threw"}]
  /\ outcomeOf \in [0 .. MaxStarts -> BOOLEAN]
  /\ entered \in [Callers -> 0 .. MaxStarts]
  /\ returned \in [Callers -> {"none", "true", "false"}]

\* Every accepted request is reported exactly once, after its captures are
\* gone, and as a success exactly when its callback ran and did not throw;
\* until then exactly one of the queue, the worker and the cancelling stop
\* holds it.
ReportedOnce ==
  \A r \in Requests :
    LET holders == {h \in {"queue", "worker", "stop"} :
                      \/ h = "queue" /\ QueuedIn(queue, r)
                      \/ h = "worker" /\ current = r
                      \/ h = "stop" /\ QueuedIn(cancelled, r)}
    IN /\ reports[r] = IF r \in done THEN 1 ELSE 0
       /\ r \in done => r \notin captured /\ (r \in success <=> ended[r] = "ok")
       /\ Cardinality(holders) = IF r \in done THEN 0 ELSE 1

\* The finalizer destroys what callbacks use: when the owner enters it every
\* accepted request has been reported and its captures are gone, whichever
\* stop was first and however many race with it.
FinalizerIsLast ==
  wpc \in {"finalizing", "finalized", "exited"} => done = Requests /\ captured = {}

\* The finalizer of the stop that closed admission runs exactly once before any
\* stop returns, and no other finalizer runs.
FinalizerRunsOnce ==
  /\ finalRuns <= 1
  /\ wpc \in {"finalized", "exited"} => (finalRuns = 1 <=> given)
  /\ generation > 0 /\ wpc = "none" => (finalRuns = 1 <=> given)

\* An external stop returns the outcome of the generation it was called in,
\* also when it wakes late and another thread wants to start again.
StopReportsItsGeneration ==
  \A t \in Callers :
    returned[t] # "none" /\ pc[t] \notin {"cancelling", "joining", "joinwait"}
      => (returned[t] = "true" <=> outcomeOf[entered[t]])

\* A start never overwrites a std::thread that has not been joined, and never
\* overlaps a stop of the previous generation.
StartIsFresh ==
  MayStart => wpc = "none" /\ \A t \in Callers : pc[t] \in {"out", "waiting"}

\* When nothing runs, nothing is left: no request, no capture, no counter.
StoppedIsQuiet ==
  wpc = "none" /\ (\A t \in Threads : pc[t] = "out") =>
    /\ ~running /\ ~stopping /\ ~joining /\ ~joinable
    /\ queue = <<>> /\ captured = {} /\ done = Requests /\ stopCallers = 0

\* The representation: types and bounds, one holder and one report for every
\* request, and nothing left over between two generations.
Consistent == TypeOK /\ ReportedOnce /\ StoppedIsQuiet

\* The finalizer of the first stop runs once, after every request is finished.
FinalizerRunsLast == FinalizerIsLast /\ FinalizerRunsOnce

\* What stop promises however many of them race, one from the owner's own
\* callback: the finalizer last and once (:155-163), the outcome of the caller's
\* own generation (:108-121), and no new worker before the stop is over (:32).
StopContract == FinalizerRunsLast /\ StopReportsItsGeneration /\ StartIsFresh

\* Nobody waits for ever on the service: every accepted invoke returns, executed
\* or cancelled by a stop (owner_service.h:63); every stop returns, whatever stops race
\* with it and whoever joins; and every accepted request is reported.
CallsReturn ==
  /\ \A t \in Threads : pc[t] # "out" ~> pc[t] = "out"
  /\ \A r \in Requests : r \notin done ~> r \in done

-----------------------------------------------------------------------------
(* Refinement *)

\* The service as an executor: open from start to the first stop, a request
\* runs while the worker holds it.
StatusOf(r) == IF r \in done THEN "finished"
               ELSE IF current = r THEN "running" ELSE "pending"

Promise == INSTANCE Executor WITH
             open <- running /\ ~stopping,
             status <- [r \in Requests |-> StatusOf(r)],
             verdict <- success

\* The service keeps the promise of an executor through any number of starts:
\* every step of a caller, a stop or the worker is a step of Executor or
\* invisible to it.
IsExecutor == Promise!ExecutorSpec

===============================================================================
