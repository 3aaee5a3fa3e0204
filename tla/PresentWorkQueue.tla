-------------------------- MODULE PresentWorkQueue --------------------------
(***************************************************************************)
(* src/src/openxr/present_work_queue.h: the bounded hand-off of callbacks  *)
(* to the one render thread.  Any thread may call invoke, which queues a   *)
(* callback and blocks until it ran, was cancelled or timed out; only the  *)
(* bound thread may pump; anybody may close, also from a callback.         *)
(*                                                                         *)
(* A thread has at most one invoke in progress, and nothing refers to a    *)
(* request once it is done, so a request is named by the thread that made  *)
(* it.  An action is one critical section of mutex_, or one stretch of     *)
(* code between two of them that runs user code (the callback, or the      *)
(* destructors of what it captured).  Calls that return without changing   *)
(* anything (a rejected invoke or pump, a failed allocation, a second      *)
(* bind) are stuttering steps.                                             *)
(***************************************************************************)
EXTENDS Integers, Sequences, FiniteSets

CONSTANTS Threads,        \* the threads that use the queue
          None,           \* no thread: unbound, or no request held
          QueueCapacity   \* kQueueCapacity

ASSUME ThreadsAssumption == IsFiniteSet(Threads) /\ None \notin Threads
ASSUME CapacityAssumption == QueueCapacity \in Nat \ {0}

VARIABLES renderThread,   \* renderThread_, None while bound_ is false
          closed, active, \* closed_, active_
          activeInvokers, \* activeInvokers_
          queue,          \* queue_
          captured,       \* requests whose std::function still owns its captures
          running, cancelled, done, success, \* requests with that flag set
          pc,             \* where each thread is in invoke or pump
          held,           \* the request a pumping thread took from the queue
          outcome,        \* how the callback ended: pump's local success
          closePc,        \* where each thread is in close
          closing,        \* the request a closing thread took from the queue
          awake,          \* sleepers on cv_ that have been notified
          starts,         \* how often the request's callback was entered
          result          \* what the last invoke of each thread returned

request == <<captured, running, cancelled, done, success>>
vars == <<renderThread, closed, active, activeInvokers, queue, request, pc,
          held, outcome, closePc, closing, awake, starts, result>>

\* "waiting" in wait_until, "draining" in the wait after a lost deadline race,
\* "claimed" and "cleared" around the release of a timed-out callback,
\* "running", "ran" and "released" in pump.
InvokePcs == {"waiting", "draining", "claimed", "cleared"}
PumpPcs == {"running", "ran", "released"}

Init ==
  /\ renderThread = None
  /\ closed = FALSE /\ active = FALSE /\ activeInvokers = 0
  /\ queue = <<>>
  \* before its first invoke a thread has no request: as if it were over
  /\ captured = {} /\ running = {} /\ cancelled = {} /\ success = {}
  /\ done = Threads
  /\ pc = [t \in Threads |-> "out"]
  /\ held = [t \in Threads |-> None]
  /\ outcome = [t \in Threads |-> "none"]
  /\ closePc = [t \in Threads |-> "out"]
  /\ closing = [t \in Threads |-> None]
  /\ awake = {}
  /\ starts = [t \in Threads |-> 0]
  /\ result = [t \in Threads |-> "none"]

\* t can make a call: it is outside the queue or inside a callback it pumps.
CanCall(t) == pc[t] \in {"out", "running"} /\ closePc[t] = "out"

Sleepers == {t \in Threads : pc[t] \in {"waiting", "draining"}}
NotifyNobody == UNCHANGED awake
NotifyAll == awake' = Sleepers

\* A request's last two writes, always under mutex_ and followed by notify_all.
Finish(r, ok) ==
  /\ done' = done \cup {r}
  /\ success' = IF ok THEN success \cup {r} ELSE success \ {r}

\* queue_.erase of the i-th element.
Erase(s, i) == [j \in 1 .. (Len(s) - 1) |-> IF j < i THEN s[j] ELSE s[j + 1]]

BindCurrentThread(t) ==
  /\ CanCall(t)
  /\ renderThread = None /\ ~closed
  /\ renderThread' = t
  /\ UNCHANGED <<closed, active, activeInvokers, queue, request, pc, held,
                 outcome, closePc, closing, awake, starts, result>>

-----------------------------------------------------------------------------
(* invoke *)

AdmitsClosed(t) ==
  renderThread # None /\ t # renderThread /\ Len(queue) < QueueCapacity

\* What invoke tests under the lock before it queues anything.
Admits(t) ==
  /\ renderThread # None /\ ~closed /\ t # renderThread
  /\ Len(queue) < QueueCapacity

\* The constructor of Request.
NewRequest(t) ==
  /\ captured' = captured \cup {t}
  /\ running' = running \ {t} /\ cancelled' = cancelled \ {t}
  /\ done' = done \ {t} /\ success' = success \ {t}

\* The queue accepts the call; the caller goes to sleep in wait_until.  The
\* notify_one wakes nobody who is waiting for this.
InvokeAdmit(t) ==
  /\ CanCall(t)
  /\ Admits(t)
  /\ queue' = Append(queue, t)
  /\ NewRequest(t)
  /\ activeInvokers' = activeInvokers + 1
  /\ pc' = [pc EXCEPT ![t] = "waiting"]
  /\ starts' = [starts EXCEPT ![t] = 0]
  /\ outcome' = [outcome EXCEPT ![t] = "none"]
  /\ result' = [result EXCEPT ![t] = "none"]
  /\ UNCHANGED <<renderThread, closed, active, held, closePc, closing, awake>>

\* The return of request->success.
Return(t, ok) ==
  /\ result' = [result EXCEPT ![t] = IF ok THEN "true" ELSE "false"]
  /\ pc' = [pc EXCEPT ![t] = "out"]
  /\ activeInvokers' = activeInvokers - 1

\* A notified sleeper finds its predicate true and returns.
InvokeWake(t) ==
  /\ t \in awake /\ t \in Sleepers
  /\ t \in done
  /\ Return(t, t \in success)
  /\ awake' = awake \ {t}
  /\ UNCHANGED <<renderThread, closed, active, queue, request, held, outcome,
                 closePc, closing, starts>>

\* A notified sleeper finds its predicate false and sleeps on.
InvokeSleep(t) ==
  /\ t \in awake /\ t \in Sleepers
  /\ t \notin done
  /\ awake' = awake \ {t}
  /\ UNCHANGED <<renderThread, closed, active, activeInvokers, queue, request,
                 pc, held, outcome, closePc, closing, starts, result>>

\* The deadline elapsed with the request done: wait_until re-evaluates it.
DeadlineDone(t) ==
  /\ pc[t] = "waiting" /\ t \in done
  /\ Return(t, t \in success)
  /\ awake' = awake \ {t}
  /\ UNCHANGED <<renderThread, closed, active, queue, request, held, outcome,
                 closePc, closing, starts>>

\* The deadline elapsed with the request still queued: the caller takes it back.
DeadlineClaim(t) ==
  /\ pc[t] = "waiting" /\ t \notin done /\ t \notin running
  /\ \E i \in 1 .. Len(queue) : queue[i] = t /\ queue' = Erase(queue, i)
  /\ cancelled' = cancelled \cup {t}
  /\ UNCHANGED <<captured, running, done, success>>
  /\ pc' = [pc EXCEPT ![t] = "claimed"]
  /\ awake' = awake \ {t}
  /\ UNCHANGED <<renderThread, closed, active, activeInvokers, held, outcome,
                 closePc, closing, starts, result>>

\* The deadline elapsed too late: a pump or a close holds the request.
DeadlineLost(t) ==
  /\ pc[t] = "waiting" /\ t \notin done
  /\ t \in running \/ \A i \in 1 .. Len(queue) : queue[i] # t
  /\ pc' = [pc EXCEPT ![t] = "draining"]
  /\ awake' = awake \ {t}
  /\ UNCHANGED <<renderThread, closed, active, activeInvokers, queue, request,
                 held, outcome, closePc, closing, starts, result>>

\* The captures of a timed-out callback die outside the lock.
ClaimRelease(t) ==
  /\ pc[t] = "claimed"
  /\ captured' = captured \ {t}
  /\ UNCHANGED <<running, cancelled, done, success>>
  /\ pc' = [pc EXCEPT ![t] = "cleared"]
  /\ UNCHANGED <<renderThread, closed, active, activeInvokers, queue, held,
                 outcome, closePc, closing, awake, starts, result>>

ClaimReturn(t) ==
  /\ pc[t] = "cleared"
  /\ Finish(t, FALSE)
  /\ NotifyAll
  /\ Return(t, FALSE)
  /\ UNCHANGED <<renderThread, closed, active, queue, captured, running,
                 cancelled, held, outcome, closePc, closing, starts>>

-----------------------------------------------------------------------------
(* pump *)

MayPumpNested(t) == ~closed /\ t = renderThread /\ queue # <<>>

\* What pump tests under the lock; active refuses a nested pump.
MayPump(t) == ~closed /\ t = renderThread /\ ~active /\ queue # <<>>

\* Takes the oldest request and enters its callback.
PumpStart(t) ==
  /\ CanCall(t)
  /\ MayPump(t)
  /\ queue' = Tail(queue)
  /\ running' = running \cup {Head(queue)}
  /\ UNCHANGED <<captured, cancelled, done, success>>
  /\ active' = TRUE
  /\ held' = [held EXCEPT ![t] = Head(queue)]
  /\ starts' = [starts EXCEPT ![Head(queue)] = @ + 1]
  /\ pc' = [pc EXCEPT ![t] = "running"]
  /\ UNCHANGED <<renderThread, closed, activeInvokers, outcome, closePc,
                 closing, awake, result>>

\* The callback returns, or throws.
CallbackReturns(t) ==
  /\ pc[t] = "running" /\ closePc[t] = "out"
  /\ \E o \in {"ok", "threw"} : outcome' = [outcome EXCEPT ![held[t]] = o]
  /\ pc' = [pc EXCEPT ![t] = "ran"]
  /\ UNCHANGED <<renderThread, closed, active, activeInvokers, queue, request,
                 held, closePc, closing, awake, starts, result>>

PumpReleaseForgotten(t) ==
  /\ pc[t] = "ran"
  /\ pc' = [pc EXCEPT ![t] = "released"]
  /\ UNCHANGED <<renderThread, closed, active, activeInvokers, queue, request,
                 held, outcome, closePc, closing, awake, starts, result>>

\* The captures die before the lock is taken and the caller is woken.
PumpRelease(t) ==
  /\ pc[t] = "ran"
  /\ captured' = captured \ {held[t]}
  /\ UNCHANGED <<running, cancelled, done, success>>
  /\ pc' = [pc EXCEPT ![t] = "released"]
  /\ UNCHANGED <<renderThread, closed, active, activeInvokers, queue, held,
                 outcome, closePc, closing, awake, starts, result>>

PumpFinish(t) ==
  /\ pc[t] = "released"
  /\ Finish(held[t], outcome[held[t]] = "ok")
  /\ running' = running \ {held[t]}
  /\ active' = FALSE
  /\ NotifyAll
  /\ held' = [held EXCEPT ![t] = None]
  /\ pc' = [pc EXCEPT ![t] = "out"]
  /\ UNCHANGED <<renderThread, closed, activeInvokers, queue, captured, cancelled,
                 outcome, closePc, closing, starts, result>>

-----------------------------------------------------------------------------
(* close *)

CloseCall(t) ==
  /\ CanCall(t)
  /\ closePc' = [closePc EXCEPT ![t] = "loop"]
  /\ UNCHANGED <<renderThread, closed, active, activeInvokers, queue, request,
                 pc, held, outcome, closing, awake, starts, result>>

\* The loop's first critical section with a request left in the queue.
ClosePop(t) ==
  /\ closePc[t] = "loop" /\ queue # <<>>
  /\ closed' = TRUE
  /\ queue' = Tail(queue)
  /\ cancelled' = cancelled \cup {Head(queue)}
  /\ UNCHANGED <<captured, running, done, success>>
  /\ closing' = [closing EXCEPT ![t] = Head(queue)]
  /\ closePc' = [closePc EXCEPT ![t] = "popped"]
  /\ UNCHANGED <<renderThread, active, activeInvokers, pc, held, outcome, awake,
                 starts, result>>

\* The same critical section with the queue empty: close returns.
CloseReturn(t) ==
  /\ closePc[t] = "loop" /\ queue = <<>>
  /\ closed' = TRUE
  /\ NotifyAll
  /\ closePc' = [closePc EXCEPT ![t] = "out"]
  /\ UNCHANGED <<renderThread, active, activeInvokers, queue, request, pc, held,
                 outcome, closing, starts, result>>

CloseRelease(t) ==
  /\ closePc[t] = "popped"
  /\ captured' = captured \ {closing[t]}
  /\ UNCHANGED <<running, cancelled, done, success>>
  /\ closePc' = [closePc EXCEPT ![t] = "released"]
  /\ UNCHANGED <<renderThread, closed, active, activeInvokers, queue, pc, held,
                 outcome, closing, awake, starts, result>>

CloseFinish(t) ==
  /\ closePc[t] = "released"
  /\ Finish(closing[t], FALSE)
  /\ NotifyAll
  /\ closing' = [closing EXCEPT ![t] = None]
  /\ closePc' = [closePc EXCEPT ![t] = "loop"]
  /\ UNCHANGED <<renderThread, closed, active, activeInvokers, queue, captured,
                 running, cancelled, pc, held, outcome, starts, result>>

-----------------------------------------------------------------------------

Next ==
  \E t \in Threads :
    \/ BindCurrentThread(t)
    \/ InvokeAdmit(t) \/ InvokeWake(t) \/ InvokeSleep(t)
    \/ DeadlineDone(t) \/ DeadlineClaim(t) \/ DeadlineLost(t)
    \/ ClaimRelease(t) \/ ClaimReturn(t)
    \/ PumpStart(t) \/ CallbackReturns(t) \/ PumpRelease(t) \/ PumpFinish(t)
    \/ CloseCall(t) \/ ClosePop(t) \/ CloseReturn(t)
    \/ CloseRelease(t) \/ CloseFinish(t)

Spec == Init /\ [][Next]_vars

\* What the scheduler and the clock owe a thread: once inside a call it runs
\* on, its deadline elapses, and its callback returns although it may itself
\* call close meanwhile (strong fairness).  Nothing makes a thread start a
\* call: the render thread may never pump again.
Progress(t) ==
  /\ WF_vars(InvokeWake(t)) /\ WF_vars(InvokeSleep(t))
  /\ WF_vars(DeadlineDone(t) \/ DeadlineClaim(t) \/ DeadlineLost(t))
  /\ WF_vars(ClaimRelease(t) \/ ClaimReturn(t))
  /\ SF_vars(CallbackReturns(t))
  /\ WF_vars(PumpRelease(t) \/ PumpFinish(t))
  /\ WF_vars(ClosePop(t) \/ CloseReturn(t) \/ CloseRelease(t) \/ CloseFinish(t))

FairSpec == Spec /\ \A t \in Threads : Progress(t)

-----------------------------------------------------------------------------
(* Properties *)

InInvoke(t) == pc[t] \in InvokePcs
QueuedIn(q, r) == \E i \in 1 .. Len(q) : q[i] = r
Queued(r) == QueuedIn(queue, r)
Pumped(r) == \E t \in Threads : held[t] = r
Closing(r) == \E t \in Threads : closing[t] = r
Claimed(r) == pc[r] \in {"claimed", "cleared"}

\* Types; and however many threads call invoke at once, queue_ never holds
\* more than kQueueCapacity requests.
TypeOK ==
  /\ renderThread \in Threads \cup {None}
  /\ closed \in BOOLEAN /\ active \in BOOLEAN
  /\ activeInvokers \in Int
  /\ queue \in Seq(Threads) /\ Len(queue) <= QueueCapacity
  /\ captured \in SUBSET Threads /\ running \in SUBSET Threads
  /\ cancelled \in SUBSET Threads
  /\ done \in SUBSET Threads /\ success \in SUBSET Threads
  /\ pc \in [Threads -> {"out"} \cup InvokePcs \cup PumpPcs]
  /\ held \in [Threads -> Threads \cup {None}]
  /\ closePc \in [Threads -> {"out", "loop", "popped", "released"}]
  /\ closing \in [Threads -> Threads \cup {None}]
  /\ awake \in SUBSET Threads
  /\ starts \in [Threads -> Nat]
  /\ outcome \in [Threads -> {"none", "ok", "threw"}]
  /\ result \in [Threads -> {"none", "true", "false"}]

\* A request that is not done is held by exactly one party: one place of the
\* queue, the pumping thread, one closing thread, or its own timed-out caller.
\* So no caller waits for a request that nobody will finish, and no two parties
\* finish the same one.
HeldOnce ==
  /\ \A i, j \in 1 .. Len(queue) : queue[i] = queue[j] => i = j
  /\ \A t, u \in Threads : closing[t] = closing[u] /\ closing[t] # None => t = u
  /\ \A t, u \in Threads : held[t] = held[u] /\ held[t] # None => t = u
  /\ \A r \in Threads :
       /\ r \in done <=> ~(Queued(r) \/ Pumped(r) \/ Closing(r) \/ Claimed(r))
       /\ ~(Queued(r) /\ (Pumped(r) \/ Closing(r) \/ Claimed(r)))
       /\ ~(Pumped(r) /\ (Closing(r) \/ Claimed(r)))
       /\ ~(Closing(r) /\ Claimed(r))

\* When invoke returns, on whatever path, nobody is inside the callback and
\* its captures are gone: callers capture their own stack by reference.
NothingOutlivesInvoke ==
  \A t \in Threads : ~InInvoke(t) =>
    /\ t \notin captured /\ t \in done
    /\ ~Queued(t) /\ ~Pumped(t) /\ ~Closing(t)

\* A callback is entered at most once, and never once its request has been
\* cancelled by the deadline or by close.
RunsAtMostOnce ==
  \A r \in Threads :
    starts[r] <= 1 /\ (r \in cancelled => starts[r] = 0)

\* invoke returns true exactly when the callback ran, once, and did not throw;
\* false means that it never ran and never will, or that it threw.
ResultTruthful ==
  /\ RunsAtMostOnce
  /\ \A t \in Threads : result[t] # "none" =>
       /\ result[t] = "true" <=> outcome[t] = "ok"
       /\ starts[t] = 0 <=> outcome[t] = "none"

\* activeInvokers_ counts the threads inside an accepted invoke.
InvokersCounted == activeInvokers = Cardinality({t \in Threads : InInvoke(t)})

\* The representation: types and bounds, one holder for every request, and the
\* counter the destructor trusts, whatever pumps, closes and deadlines race.
Consistent == TypeOK /\ HeldOnce /\ InvokersCounted

\* Once every close has returned the queue is empty and stays empty.
ClosedIsDrained ==
  closed /\ (\A t \in Threads : closePc[t] = "out") => queue = <<>>

\* The destructor does not terminate the process when the host keeps its
\* contract: closed, and every thread out of the queue.
DestructorSafe ==
  /\ ClosedIsDrained
  /\ closed /\ (\A t \in Threads : pc[t] = "out" /\ closePc[t] = "out")
       => queue = <<>> /\ ~active /\ activeInvokers = 0

\* What invoke promises its caller and the owner of the queue, whichever of the
\* deadline, the pump and close gets the request: nothing of it is used once
\* invoke has returned (:122-130), its answer is true (:75-80, :99-102), and the
\* destructor's check passes after a close (:167-170).
InvokeContract == NothingOutlivesInvoke /\ ResultTruthful /\ DestructorSafe

\* Every accepted invoke returns, even if the render thread never pumps again:
\* the deadline covers queued work, and whoever holds the request finishes it
\* and notifies the sleeper of the unbounded second wait.
InvokeReturns == \A t \in Threads : InInvoke(t) ~> ~InInvoke(t)

\* close is nonblocking: no stream of invoke calls keeps its loop going.
CloseReturns == \A t \in Threads : closePc[t] # "out" ~> closePc[t] = "out"

\* Nobody is left waiting in the queue.
CallsReturn == InvokeReturns /\ CloseReturns

-----------------------------------------------------------------------------
(* Refinement *)

\* The queue as an executor: open from bind to close, a request runs while the
\* pump holds it.
StatusOf(r) == IF r \in done THEN "finished"
               ELSE IF Pumped(r) THEN "running" ELSE "pending"

Promise == INSTANCE Executor WITH
             Requests <- Threads,
             open <- renderThread # None /\ ~closed,
             status <- [r \in Threads |-> StatusOf(r)],
             verdict <- success

\* The queue keeps the promise of an executor: every step of bind, invoke, pump
\* and close is a step of Executor or invisible to it.
IsExecutor == Promise!ExecutorSpec

=============================================================================
