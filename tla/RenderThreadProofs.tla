-------------------------- MODULE RenderThreadProofs --------------------------
(***************************************************************************)
(* Proofs about three parts that meet on the game's render thread, each    *)
(* with an inductive invariant of its own: the rendezvous in which it      *)
(* lends its context to the owner, for any set of foreign closers; the     *)
(* lease through which its Present calls back, for any number of threads   *)
(* and bindings; and the deferred frame end, for every capacity of the     *)
(* owner's queue and every number of frames.                               *)
(***************************************************************************)
EXTENDS RenderThreadDispatcher, MCRenderBoundary, MCFrameEndOverlap, Sequences, TLAPS

(***************************************************************************)
(* The rendezvous.  RendezvousContract speaks of the moments at which a    *)
(* call has returned; IInv says, for every moment before, who holds what   *)
(* was lent: the program counters of the two threads agree with the owner  *)
(* service (ThreadsMeet), a job is held by exactly one of the slot, the    *)
(* render thread, a closer, or nobody once it is done (JobHasOneHolder),   *)
(* and the fields of the Boundary agree with how the callback ended        *)
(* (Outcome).                                                              *)
(***************************************************************************)

Executing == {"running", "ran", "released"}

\* The Boolean part of the type invariant.
Flags ==
  /\ {closed, boundary, ownerExecuting, done, success, cancelled} \subseteq BOOLEAN
  /\ {graphics, jobRunning, jobDone, jobSuccess, jobCaptured} \subseteq BOOLEAN
  /\ {ownerThrew, jobThrew} \subseteq BOOLEAN

\* Where each thread is, seen from the other side and from the owner service.
ThreadsMeet ==
  /\ boundary <=> renderPc # "out"
  /\ renderPc \in {"out", "submitting"} => status["rendezvous"] = "finished"
  /\ renderPc = "submitting" => ~done
  /\ renderPc \in {"serving"} \cup Executing =>
       (done <=> status["rendezvous"] = "finished")
  /\ status["rendezvous"] = "running" <=>
       ownerPc \in {"entering", "work", "waiting", "ended"}
  /\ status["other"] = "running" <=> ownerPc = "other"
  /\ ownerExecuting <=> ownerPc \in {"work", "waiting"}

\* Who holds the graphics job that the waiting owner has lent.
JobHasOneHolder ==
  /\ graphics => /\ ownerPc = "waiting" /\ ~jobDone
                 /\ \A t \in Threads : closePc[t] = "out"
  /\ renderPc \in Executing => graphics /\ jobRunning
  /\ renderPc = "released" => ~jobCaptured
  /\ jobDone => ~jobCaptured
  /\ ownerPc # "waiting" => jobDone
  /\ \A t \in Threads : closePc[t] # "out" =>
       /\ ownerPc = "waiting" /\ ~jobDone
       /\ \A s \in Threads : s # t => closePc[s] = "out"
       /\ closePc[t] = "cancelled" => ~jobCaptured

\* How the callback ended and what the Boundary says of it.
Outcome ==
  /\ cancelled => closed
  /\ success => done /\ ran = "ok"
  /\ ran # "none" => ownerPc = "ended" \/ done
  /\ ownerPc = "ended" => \/ ran = "ok" /\ ~ownerThrew
                          \/ ran = "threw" /\ ownerThrew
                          \/ ran = "none" /\ cancelled
  /\ done /\ ran = "ok" => success \/ closed
  /\ renderPc # "out" => result = "none"

\* The inductive invariant.
IInv == /\ TypeOK
        /\ ThreadsMeet
        /\ JobHasOneHolder
        /\ Outcome
        /\ ResultTruthful

-------------------------------------------------------------------------------

\* The rendezvous starts empty.
LEMMA InitEstablishes == Init => IInv
<1> SUFFICES ASSUME Init PROVE IInv
  OBVIOUS
<1>1. Flags /\ open \in BOOLEAN
  BY Zenon DEF Init, Flags, Service!ExecutorInit
<1>2. TypeOK
  BY <1>1 DEF Init, TypeOK, Flags, Service!ExecutorInit, Service!ExecutorTypeOK, Threads
<1>3. ThreadsMeet /\ JobHasOneHolder /\ Outcome /\ ResultTruthful
  BY DEF Init, Service!ExecutorInit, Work, Threads, ThreadsMeet, JobHasOneHolder,
         Outcome, ResultTruthful, Executing
<1> QED
  BY <1>2, <1>3 DEF IInv

\* The flags stay Boolean: SMT does not see it of an assignment, Zenon does.
LEMMA FlagsStay == TypeOK /\ [Next]_vars => Flags' /\ open' \in BOOLEAN
<1> SUFFICES ASSUME TypeOK, [Next]_vars PROVE Flags' /\ open' \in BOOLEAN
  OBVIOUS
<1>0. Flags /\ open \in BOOLEAN
  BY DEF TypeOK, Flags, Service!ExecutorTypeOK
<1> USE <1>0 DEF Flags, executor, boundaryVars, jobVars, history
<1>1. ASSUME InvokeOwner PROVE Flags' /\ open' \in BOOLEAN
  BY <1>1, Zenon DEF InvokeOwner
<1>2. ASSUME SubmitAccepted PROVE Flags' /\ open' \in BOOLEAN
  BY <1>2, Zenon DEF SubmitAccepted, Service!Accept
<1>3. ASSUME SubmitRejected PROVE Flags' /\ open' \in BOOLEAN
  BY <1>3, Zenon DEF SubmitRejected
<1>4. ASSUME ServeJob PROVE Flags' /\ open' \in BOOLEAN
  BY <1>4, Zenon DEF ServeJob
<1>5. ASSUME InvokeOwnerReturns PROVE Flags' /\ open' \in BOOLEAN
  BY <1>5, Zenon DEF InvokeOwnerReturns
<1>6. ASSUME JobReturns PROVE Flags' /\ open' \in BOOLEAN
  BY <1>6, Zenon DEF JobReturns
<1>7. ASSUME JobReleases PROVE Flags' /\ open' \in BOOLEAN
  BY <1>7, Zenon DEF JobReleases
<1>8. ASSUME JobFinishes PROVE Flags' /\ open' \in BOOLEAN
  BY <1>8, Zenon DEF JobFinishes
<1>9. ASSUME OwnerStarts PROVE Flags' /\ open' \in BOOLEAN
  BY <1>9, Zenon DEF OwnerStarts, Service!Open
<1>10. ASSUME OtherSubmitted PROVE Flags' /\ open' \in BOOLEAN
  BY <1>10, Zenon DEF OtherSubmitted, Service!Accept
<1>11. ASSUME OwnerStopped PROVE Flags' /\ open' \in BOOLEAN
  BY <1>11, Zenon DEF OwnerStopped, Service!Close
<1>12. ASSUME NEW w \in Work, OwnerTakes(w) PROVE Flags' /\ open' \in BOOLEAN
  BY <1>12, Zenon DEF OwnerTakes, Service!Begin
<1>13. ASSUME OwnerEnters PROVE Flags' /\ open' \in BOOLEAN
  BY <1>13, Zenon DEF OwnerEnters
<1>14. ASSUME OwnerInvokes PROVE Flags' /\ open' \in BOOLEAN
  BY <1>14, Zenon DEF OwnerInvokes
<1>15. ASSUME OwnerResumes PROVE Flags' /\ open' \in BOOLEAN
  BY <1>15, Zenon DEF OwnerResumes
<1>16. ASSUME OwnerReturns PROVE Flags' /\ open' \in BOOLEAN
  BY <1>16, Zenon DEF OwnerReturns
<1>17. ASSUME OwnerCompletes PROVE Flags' /\ open' \in BOOLEAN
  BY <1>17, Zenon DEF OwnerCompletes, Complete, Service!End
<1>18. ASSUME RendezvousCancelled PROVE Flags' /\ open' \in BOOLEAN
  BY <1>18, Zenon DEF RendezvousCancelled, Complete, Service!Cancel
<1>19. ASSUME OtherEnds PROVE Flags' /\ open' \in BOOLEAN
  BY <1>19, Zenon DEF OtherEnds, Service!End, Service!Cancel
<1>20. ASSUME NEW t \in Threads, CloseCall(t) PROVE Flags' /\ open' \in BOOLEAN
  BY <1>20, Zenon DEF CloseCall
<1>21. ASSUME NEW t \in Threads, CloseReleases(t) PROVE Flags' /\ open' \in BOOLEAN
  BY <1>21, Zenon DEF CloseReleases
<1>22. ASSUME NEW t \in Threads, CloseReturns(t) PROVE Flags' /\ open' \in BOOLEAN
  BY <1>22, Zenon DEF CloseReturns
<1>23. CASE UNCHANGED vars
  BY <1>23, Zenon DEF vars
<1> QED
  BY <1>1, <1>2, <1>3, <1>4, <1>5, <1>6, <1>7, <1>8, <1>9, <1>10, <1>11, <1>12, <1>13,
      <1>14, <1>15, <1>16, <1>17, <1>18, <1>19, <1>20, <1>21, <1>22, <1>23
  DEF Next, RenderSteps, OwnerSteps, CloseSteps

\* Every step of the render thread, the owner, the service and the closers keeps
\* the invariant.
LEMMA StepKeeps == IInv /\ [Next]_vars => IInv'
<1> SUFFICES ASSUME IInv, [Next]_vars PROVE IInv'
  OBVIOUS
<1>0. Flags /\ Flags' /\ open' \in BOOLEAN
  BY FlagsStay DEF IInv, TypeOK, Flags
<1> USE <1>0 DEF IInv, TypeOK, Flags, Service!ExecutorTypeOK, Work, Threads, ThreadsMeet,
                 JobHasOneHolder, Outcome, ResultTruthful, Executing,
                 executor, boundaryVars, jobVars, history
<1>1. ASSUME InvokeOwner PROVE IInv'
  BY <1>1 DEF InvokeOwner
<1>2. ASSUME SubmitAccepted PROVE IInv'
  BY <1>2 DEF SubmitAccepted, Service!Accept
<1>3. ASSUME SubmitRejected PROVE IInv'
  BY <1>3 DEF SubmitRejected
<1>4. ASSUME ServeJob PROVE IInv'
  BY <1>4 DEF ServeJob
<1>5. ASSUME InvokeOwnerReturns PROVE IInv'
  BY <1>5 DEF InvokeOwnerReturns, MayRetire
<1>6. ASSUME JobReturns PROVE IInv'
  BY <1>6 DEF JobReturns
<1>7. ASSUME JobReleases PROVE IInv'
  BY <1>7 DEF JobReleases
<1>8. ASSUME JobFinishes PROVE IInv'
  BY <1>8 DEF JobFinishes
<1>9. ASSUME OwnerStarts PROVE IInv'
  BY <1>9 DEF OwnerStarts, Service!Open
<1>10. ASSUME OtherSubmitted PROVE IInv'
  BY <1>10 DEF OtherSubmitted, Service!Accept
<1>11. ASSUME OwnerStopped PROVE IInv'
  BY <1>11 DEF OwnerStopped, Service!Close
<1>12. ASSUME NEW w \in Work, OwnerTakes(w) PROVE IInv'
  BY <1>12 DEF OwnerTakes, Service!Begin
<1>13. ASSUME OwnerEnters PROVE IInv'
  BY <1>13 DEF OwnerEnters
<1>14. ASSUME OwnerInvokes PROVE IInv'
  BY <1>14 DEF OwnerInvokes, MayRequest
<1>15. ASSUME OwnerResumes PROVE IInv'
  BY <1>15 DEF OwnerResumes, MayResume
<1>16. ASSUME OwnerReturns PROVE IInv'
  BY <1>16 DEF OwnerReturns
<1>17. ASSUME OwnerCompletes PROVE IInv'
  BY <1>17 DEF OwnerCompletes, Complete, Service!End
<1>18. ASSUME RendezvousCancelled PROVE IInv'
  BY <1>18 DEF RendezvousCancelled, Complete, Service!Cancel
<1>19. ASSUME OtherEnds PROVE IInv'
  <2>1. ASSUME NEW ok \in BOOLEAN, ownerPc = "other", Service!End("other", ok), ownerPc' = "idle"
        PROVE  IInv'
    <3>1. verdict' \in SUBSET Work
      BY <2>1 DEF Service!End
    <3> QED
      BY <1>19, <2>1, <3>1 DEF OtherEnds, Service!End
  <2>2. ASSUME Service!Cancel("other"), UNCHANGED ownerPc PROVE IInv'
    BY <1>19, <2>2 DEF OtherEnds, Service!Cancel
  <2> QED
    BY <1>19, <2>1, <2>2 DEF OtherEnds
<1>20. ASSUME NEW t \in Threads, CloseCall(t) PROVE IInv'
  BY <1>20 DEF CloseCall, CloseTakes
<1>21. ASSUME NEW t \in Threads, CloseReleases(t) PROVE IInv'
  BY <1>21 DEF CloseReleases
<1>22. ASSUME NEW t \in Threads, CloseReturns(t) PROVE IInv'
  BY <1>22 DEF CloseReturns
<1>23. CASE UNCHANGED vars
  BY <1>23 DEF vars
<1> QED
  BY <1>1, <1>2, <1>3, <1>4, <1>5, <1>6, <1>7, <1>8, <1>9, <1>10, <1>11, <1>12, <1>13,
      <1>14, <1>15, <1>16, <1>17, <1>18, <1>19, <1>20, <1>21, <1>22, <1>23
  DEF Next, RenderSteps, OwnerSteps, CloseSteps

\* IInv holds in every reachable state.
LEMMA Inductive == Spec => []IInv
  BY InitEstablishes, StepKeeps, PTL DEF Spec

\* The invariant is at least as strong as what the rendezvous promises.
LEMMA PromiseFollows == IInv => RendezvousContract
<1> SUFFICES ASSUME IInv PROVE RendezvousContract
  OBVIOUS
<1> USE DEF IInv, TypeOK, ThreadsMeet, JobHasOneHolder, Executing
<1>1. GraphicsOnlyForRendezvous
  BY DEF GraphicsOnlyForRendezvous
<1>2. JobDoesNotOutliveInvoke
  BY DEF JobDoesNotOutliveInvoke
<1>3. CallbackDoesNotOutliveInvokeOwner
  BY DEF CallbackDoesNotOutliveInvokeOwner
<1> QED
  BY <1>1, <1>2, <1>3 DEF RendezvousContract, BorrowsEnd

-------------------------------------------------------------------------------

\* The state keeps its types, no thread finds its own job to cancel, and the
\* destructor accepts a closed dispatcher that both threads have left.
THEOREM Consistency == Spec => []Consistent
<1>1. IInv => Consistent
  BY DEF IInv, ThreadsMeet, JobHasOneHolder, Consistent, DestructorSafe
<1> QED
  BY <1>1, Inductive, PTL

\* However many threads close the dispatcher and stop the owner meanwhile, the
\* context is lent to the rendezvous' own callback alone, no job and no callback
\* outlives the stack it borrows, and invokeOwner tells how its callback ended.
THEOREM KeepsContract == Spec => []RendezvousContract
  BY Inductive, PromiseFollows, PTL

(***************************************************************************)
(* The lease.  LeaseContract is not inductive: that a callback is entered  *)
(* once needs the count in the lease to agree with the stacks of the       *)
(* threads (CountIsStack), that no second thread enters needs the render   *)
(* thread to be settled before the first callback (ThreadIsSettled), and   *)
(* that a close stays final needs that a binding is acquired once          *)
(* (AcquiredOnce).                                                         *)
(***************************************************************************)

\* A thread between its first and its last access to a lease.
Inside == {"entered", "working", "framing", "failing", "leaving"}

\* lease->active counts the callback that is on some thread's stack, and the
\* only lease there is the owner's.
CountIsStack ==
  /\ \A t \in Presenters :
       /\ phase[t] \in Inside <=> calls[t] # <<>>
       /\ calls[t] # <<>> => /\ lease \in allocated
                             /\ calls[t] = <<lease>>
                             /\ active[lease] = 1
  /\ \A b \in Bindings :
       active[b] = 1 => b = lease /\ \E t \in Presenters : calls[t] # <<>>

\* No callback has run before the render thread is known, and it is known only
\* to a registered owner.
ThreadIsSettled ==
  /\ ~registered => renderThread = Lease!NoThread
  /\ renderThread = Lease!NoThread => ready = {} /\ \A t \in Presenters : calls[t] = <<>>

\* A binding that has not been acquired has never been closed.
AcquiredOnce == \A b \in Bindings : client[b] = "new" => closeResult[b] = "none"

\* The inductive invariant.
LeaseInv == /\ Lease!TypeOK
            /\ Lease!OneLease
            /\ CountIsStack
            /\ ThreadIsSettled
            /\ Lease!OneRenderThread
            /\ AcquiredOnce
            /\ Lease!ClosedIsQuiet

-------------------------------------------------------------------------------

\* A stack of one call: what pushing it and popping it leave.
LEMMA OneCall ==
  ASSUME NEW b
  PROVE  /\ <<b>> \o <<>> = <<b>>
         /\ <<b>> # <<>>
         /\ Head(<<b>>) = b /\ Tail(<<b>>) = <<>> /\ Len(<<b>>) = 1
  OBVIOUS

\* Nothing is registered, acquired or entered at the start.
LEMMA LeaseStart == Lease!Init => LeaseInv
<1> SUFFICES ASSUME Lease!Init PROVE LeaseInv
  OBVIOUS
<1>1. registered \in BOOLEAN /\ admits \in [Presenters -> BOOLEAN]
  BY Zenon DEF Lease!Init
<1>2. Lease!TypeOK
  BY <1>1 DEF Lease!Init, Lease!TypeOK, Lease!MaybeThread
<1>3. Lease!OneLease /\ CountIsStack /\ ThreadIsSettled
  BY DEF Lease!Init, Lease!OneLease, CountIsStack, ThreadIsSettled, Inside
<1>4. Lease!OneRenderThread /\ AcquiredOnce /\ Lease!ClosedIsQuiet
  BY DEF Lease!Init, Lease!OneRenderThread, AcquiredOnce, Lease!ClosedIsQuiet
<1> QED
  BY <1>2, <1>3, <1>4 DEF LeaseInv

\* Every step of a Present, a callback or a binding's user keeps the invariant.
LEMMA LeaseSteps == LeaseInv /\ [Lease!Next]_(Lease!vars) => LeaseInv'
<1> SUFFICES ASSUME LeaseInv, [Lease!Next]_(Lease!vars) PROVE LeaseInv'
  OBVIOUS
<1> USE NamesAssumption
<1> USE DEF LeaseInv, Lease!TypeOK, Lease!MaybeThread, Lease!OneLease, CountIsStack,
    ThreadIsSettled, Inside, Lease!OneRenderThread, AcquiredOnce, Lease!ClosedIsQuiet,
    Lease!provider, Lease!leases, Lease!binding, Lease!user
<1>1. ASSUME Lease!RegisterOwner PROVE LeaseInv'
  <2>1. registered' \in BOOLEAN
    BY <1>1, Zenon DEF Lease!RegisterOwner
  <2> QED
    BY <1>1, <2>1 DEF Lease!RegisterOwner
<1>2. ASSUME NEW t \in Presenters, Lease!NoteOwnedPresent(t) PROVE LeaseInv'
  BY <1>2 DEF Lease!NoteOwnedPresent
<1>3. ASSUME NEW t \in Presenters, Lease!PresentElsewhere(t) PROVE LeaseInv'
  BY <1>3 DEF Lease!PresentElsewhere
<1>4. ASSUME NEW t \in Presenters, Lease!PresentSkips(t) PROVE LeaseInv'
  BY <1>4 DEF Lease!PresentSkips
<1>5. ASSUME NEW t \in Presenters, Lease!PresentEnters(t) PROVE LeaseInv'
  <2>1. /\ lease \in Bindings /\ lease \in admitted /\ active[lease] = 0
        /\ renderThread = t /\ registered
    BY <1>5 DEF Lease!PresentEnters, Lease!Admissible, Lease!WrongThread, Lease!MayEnter
  <2>2. \A s \in Presenters : calls[s] = <<>>
    BY <2>1
  <2>3. /\ active' = [active EXCEPT ![lease] = 1]
        /\ calls' = [calls EXCEPT ![t] = <<lease>>]
        /\ phase' = [phase EXCEPT ![t] = "entered"]
        /\ UNCHANGED <<Lease!provider, admitted, allocated, Lease!binding, admits, Lease!user>>
    <3>1. <<lease>> \o calls[t] = <<lease>>
      BY <2>2, OneCall, Zenon
    <3>2. active[lease] + 1 = 1
      BY <2>1
    <3> QED
      BY <1>5, <3>1, <3>2, Zenon DEF Lease!PresentEnters, Lease!Entering
  <2>4. <<lease>> # <<>> /\ <<lease>> \in Seq(Bindings)
    BY <2>1, OneCall
  <2>5. Lease!TypeOK'
    BY <2>1, <2>3, <2>4
  <2>6. (Lease!OneLease /\ ThreadIsSettled /\ Lease!OneRenderThread)'
        /\ (AcquiredOnce /\ Lease!ClosedIsQuiet)'
    BY <2>1, <2>2, <2>3
  <2>7. CountIsStack'
    BY <2>1, <2>2, <2>3, <2>4
  <2> QED
    BY <2>5, <2>6, <2>7
<1>6. ASSUME NEW t \in Presenters, Lease!PresentFails(t) PROVE LeaseInv'
  BY <1>6 DEF Lease!PresentFails
<1>7. ASSUME NEW t \in Presenters, Lease!PresentLeaves(t) PROVE LeaseInv'
  <2>1. /\ calls[t] = <<lease>> /\ lease \in Bindings /\ active[lease] = 1
        /\ \A s \in Presenters : s # t => calls[s] = <<>>
    BY <1>7 DEF Lease!PresentLeaves
  <2>2. /\ active' = [active EXCEPT ![lease] = 0]
        /\ calls' = [calls EXCEPT ![t] = <<>>]
        /\ phase' = [phase EXCEPT ![t] = "out"]
        /\ UNCHANGED <<Lease!provider, admitted, allocated, Lease!binding, admits, Lease!user>>
    BY <1>7, <2>1, OneCall DEF Lease!PresentLeaves, Lease!Leaving, Lease!Innermost
  <2>3. <<>> \in Seq(Bindings)
    OBVIOUS
  <2>4. Lease!TypeOK'
    BY <2>1, <2>2, <2>3
  <2>5. (Lease!OneLease /\ ThreadIsSettled /\ Lease!OneRenderThread)'
        /\ (AcquiredOnce /\ Lease!ClosedIsQuiet)'
    BY <2>1, <2>2
  <2>6. \A s \in Presenters : calls'[s] = <<>> /\ phase'[s] \notin Inside
    BY <2>1, <2>2
  <2>7. CountIsStack'
    BY <2>1, <2>2, <2>6
  <2> QED
    BY <2>7, <2>4, <2>5, <2>6
<1>8. ASSUME NEW t \in Presenters, Lease!CallbackAccepts(t) PROVE LeaseInv'
  <2>1. /\ Lease!Innermost(t) = lease /\ lease \in Bindings /\ renderThread = t
    BY <1>8, OneCall DEF Lease!CallbackAccepts, Lease!Innermost
  <2> QED
    BY <1>8, <2>1 DEF Lease!CallbackAccepts
<1>9. ASSUME NEW t \in Presenters, Lease!CallbackRefuses(t) PROVE LeaseInv'
  <2>1. Lease!Innermost(t) = lease /\ lease \in Bindings
    BY <1>9, OneCall DEF Lease!CallbackRefuses, Lease!Innermost
  <2> QED
    BY <1>9, <2>1 DEF Lease!CallbackRefuses
<1>10. ASSUME NEW t \in Presenters, Lease!CallbackPumped(t) PROVE LeaseInv'
  <2>1. admits' \in [Presenters -> BOOLEAN]
    BY <1>10, Zenon DEF Lease!CallbackPumped
  <2> QED
    BY <1>10, <2>1 DEF Lease!CallbackPumped
<1>11. ASSUME NEW t \in Presenters, Lease!CallbackReturns(t) PROVE LeaseInv'
  <2>1. admits' \in [Presenters -> BOOLEAN]
    BY <1>11, Zenon DEF Lease!CallbackReturns
  <2> QED
    BY <1>11, <2>1 DEF Lease!CallbackReturns
<1>12. ASSUME NEW t \in Presenters, Lease!CallbackThrows(t) PROVE LeaseInv'
  <2>1. admits' \in [Presenters -> BOOLEAN]
    BY <1>12, Zenon DEF Lease!CallbackThrows
  <2>2. Lease!Innermost(t) = lease /\ lease \in Bindings
    BY <1>12, OneCall DEF Lease!CallbackThrows, Lease!Innermost
  <2> QED
    BY <1>12, <2>1, <2>2 DEF Lease!CallbackThrows
<1>13. ASSUME NEW b \in Bindings, Lease!Acquire(b) PROVE LeaseInv'
  <2>1. allocated = {} /\ \A t \in Presenters : calls[t] = <<>>
    BY <1>13 DEF Lease!Acquire, Lease!MayAcquire
  <2> QED
    BY <1>13, <2>1 DEF Lease!Acquire, Lease!MayAcquire
<1>14. ASSUME NEW b \in Bindings, Lease!AcquireFails(b) PROVE LeaseInv'
  BY <1>14 DEF Lease!AcquireFails
<1>15. ASSUME NEW b \in Bindings, Lease!Close(b) PROVE LeaseInv'
  BY <1>15 DEF Lease!Close, Lease!CloseAdmission
<1>16. ASSUME NEW b \in Bindings, Lease!CloseWork(b) PROVE LeaseInv'
  BY <1>16 DEF Lease!CloseWork
<1>17. ASSUME NEW b \in Bindings, Lease!CloseReturns(b) PROVE LeaseInv'
  BY <1>17 DEF Lease!CloseReturns
<1>18. ASSUME NEW b \in Bindings, Lease!ReleaseGoesOn(b) PROVE LeaseInv'
  BY <1>18 DEF Lease!ReleaseGoesOn
<1>19. ASSUME NEW b \in Bindings, Lease!Release(b) PROVE LeaseInv'
  <2>1. CASE Lease!Releases(b)
    <3>1. lease = b => \A t \in Presenters : calls[t] = <<>>
      BY <2>1 DEF Lease!Releases
    <3> QED
      BY <1>19, <2>1, <3>1 DEF Lease!Release
  <2>2. CASE ~Lease!Releases(b)
    BY <1>19, <2>2 DEF Lease!Release
  <2> QED
    BY <2>1, <2>2
<1>20. CASE UNCHANGED Lease!vars
  BY <1>20 DEF Lease!vars
<1> QED
  BY <1>1, <1>2, <1>3, <1>4, <1>5, <1>6, <1>7, <1>8, <1>9, <1>10, <1>11, <1>12, <1>13,
     <1>14, <1>15, <1>16, <1>17, <1>18, <1>19, <1>20
  DEF Lease!Next, Lease!Present, Lease!User

\* IInv holds in every reachable state.
LEMMA LeaseInductive == LeaseSpec => []LeaseInv
  BY LeaseStart, LeaseSteps, PTL DEF LeaseSpec, Lease!Spec

\* The invariant is at least as strong as what the lease promises.
LEMMA LeasePromise == LeaseInv => Lease!LeaseContract
<1> SUFFICES ASSUME LeaseInv PROVE Lease!LeaseContract
  OBVIOUS
<1> USE DEF LeaseInv, Lease!TypeOK, Lease!OneLease, CountIsStack
<1>1. \A t \in Presenters : \/ calls[t] = <<>>
                            \/ calls[t] = <<lease>> /\ lease \in allocated
  OBVIOUS
<1>2. Lease!LeaseOutlivesPresent
  BY <1>1 DEF Lease!LeaseOutlivesPresent
<1>3. Lease!NotReentered
  <2>1. ASSUME NEW t \in Presenters PROVE Len(calls[t]) <= 1
    <3>1. CASE calls[t] = <<>>
      BY <3>1
    <3>2. CASE calls[t] = <<lease>>
      BY <3>2
    <3> QED
      BY <1>1, <3>1, <3>2
  <2>2. \A s, t \in Presenters : calls[s] # <<>> /\ calls[t] # <<>> => s = t
    BY DEF Lease!OneRenderThread
  <2> QED
    BY <2>1, <2>2 DEF Lease!NotReentered
<1> QED
  BY <1>2, <1>3 DEF Lease!LeaseContract, Lease!CallbacksAreSerial

-------------------------------------------------------------------------------

\* The state keeps its types: lease->active is a flag although the code counts,
\* and a lease that exists is the one the owner points to.
THEOREM LeaseConsistency == LeaseSpec => []LeaseConsistent
<1>1. LeaseInv => LeaseConsistent
  BY DEF LeaseInv, LeaseConsistent, Lease!Consistent
<1> QED
  BY <1>1, LeaseInductive, PTL

\* Whichever Presents, closes and releases race, the lease outlives every Present
\* that uses it, its callbacks are serial and on the render thread, and a close
\* that answered S_OK is the end of them.
THEOREM LeaseKept == LeaseSpec => []LeaseContract
  BY LeaseInductive, LeasePromise, PTL DEF LeaseContract

(***************************************************************************)
(* The deferred frame end.  With one game thread, a finish that was put    *)
(* off is always the next job that can do anything: only loading           *)
(* boundaries, which a frame in flight turns into nothing, can be queued   *)
(* ahead of it.  So the frame stays as the pair left it until the finish,  *)
(* or close, ends it.                                                      *)
(***************************************************************************)

OneGame == \E g : Games = {g}

\* What TypeOK says, the flags apart: Zenon has them, SMT the rest.
EndFlags == {running, terminal, serviceFailed, gateStopped, refused} \subseteq BOOLEAN

EndJobs == [asked : Overlap!Requests, by : Overlap!Threads \cup {Overlap!NoThread}]

EndTypes ==
  /\ queue \in Seq(EndJobs)
  /\ Len(queue) <= Capacity
  /\ calling \subseteq Overlap!Threads /\ service \in {"up", "stopping", "closed"}
  /\ frames \in 0 .. MaxFrames /\ frame \in 0 .. frames
  /\ accepted \subseteq Overlap!Eyes
  /\ pendingFinish \in 0 .. frames

\* An entry is of a thread that waits for it, or is a finish; no thread has
\* two, and there is one finish at most.
Entries(q, c) ==
  \A i \in 1 .. Len(q) :
    /\ q[i].by = Overlap!NoThread <=> q[i].asked = "finish"
    /\ q[i].by = Presenter => q[i].asked = "load"
    /\ q[i].by # Overlap!NoThread => q[i].by \in c
    /\ \A j \in 1 .. Len(q) : q[i].by = q[j].by => i = j

\* Only loading boundaries are ahead of a finish that is pending.
Due(q) ==
  \E k \in 1 .. Len(q) : /\ q[k].asked = "finish"
                         /\ \A i \in 1 .. k - 1 : q[i].asked = "load"

JobOfFinish ==
  /\ service # "up" => queue = <<>>
  /\ service = "up" /\ pendingFinish # 0 => Due(queue)
  /\ service = "up" /\ pendingFinish = 0 => \A i \in 1 .. Len(queue) : queue[i].asked # "finish"

\* The open frame is the pair's, and the gate is open for the finish.
PairWaits ==
  /\ pendingFinish # 0 => frame = pendingFinish /\ accepted = Overlap!Eyes
  /\ pendingFinish # 0 /\ service = "up" => ~gateStopped
  /\ serviceFailed => gateStopped

\* A complete pair is the pending one, or the service has given up.
PairIsPending ==
  /\ Overlap!PairIn => pendingFinish = frame \/ serviceFailed
  /\ lost = {} /\ ~refused

EndInv ==
  EndFlags /\ EndTypes /\ Entries(queue, calling) /\ JobOfFinish /\ PairWaits /\ PairIsPending

\* The flags stay Boolean.
LEMMA EndFlagsStay == EndFlags /\ [Overlap!Next]_(Overlap!vars) => EndFlags'
<1> SUFFICES ASSUME EndFlags, [Overlap!Next]_(Overlap!vars) PROVE EndFlags'
  OBVIOUS
<1> USE DEF EndFlags, Overlap!boundary, Overlap!fatal, Overlap!history
<1>1. ASSUME NEW t \in Overlap!Threads, Overlap!Call(t) PROVE EndFlags'
  BY <1>1, Zenon DEF Overlap!Call
<1>2. CASE Overlap!StopService
  BY <1>2, Zenon DEF Overlap!StopService
<1>3. CASE Overlap!Waits
  BY <1>3, Zenon DEF Overlap!Waits, Overlap!Clears, Overlap!publishFatalFailure
<1>4. CASE Overlap!ClearSubmitted
  BY <1>4, Zenon DEF Overlap!ClearSubmitted, Overlap!Clears, Overlap!publishFatalFailure
<1>r. CASE Overlap!ResetSeated
  BY <1>r, Zenon DEF Overlap!ResetSeated, Overlap!Clears, Overlap!publishFatalFailure
<1>5. CASE Overlap!LoadingBoundary
  BY <1>5, Zenon DEF Overlap!LoadingBoundary, Overlap!Clears, Overlap!publishFatalFailure
<1>6. CASE Overlap!finishPendingFrameEnd
  BY <1>6, Zenon DEF Overlap!finishPendingFrameEnd, Overlap!FinishPair, Overlap!publishFatalFailure
<1>7. ASSUME NEW eye \in Overlap!Eyes, Overlap!SubmitEye(eye) PROVE EndFlags'
  BY <1>7, Zenon DEF Overlap!SubmitEye, Overlap!FinishPair, Overlap!publishFatalFailure
<1>8. CASE Overlap!pumpEvents
  BY <1>8, Zenon DEF Overlap!pumpEvents, Overlap!Clears, Overlap!publishFatalFailure
<1>9. CASE Overlap!Close
  BY <1>9, Zenon DEF Overlap!Close
<1>10. CASE UNCHANGED Overlap!vars
  BY <1>10, Zenon DEF Overlap!vars
<1> QED
  BY <1>1, <1>2, <1>3, <1>4, <1>5, <1>6, <1>7, <1>8, <1>9, <1>10, <1>r
  DEF Overlap!Next, Overlap!OwnerJobs

\* What taking the first job leaves of the queue.
LEMMA TailFacts ==
  ASSUME NEW S, NEW q \in Seq(S), q # <<>>
  PROVE  /\ Tail(q) \in Seq(S) /\ Len(q) \in Nat \ {0} /\ Len(Tail(q)) = Len(q) - 1
         /\ Head(q) = q[1] /\ q[1] \in S
         /\ \A i \in 1 .. Len(q) - 1 : Tail(q)[i] = q[i + 1]
  OBVIOUS

\* What a push leaves.
LEMMA PushFacts ==
  ASSUME NEW S, NEW q \in Seq(S), NEW e \in S
  PROVE  /\ Append(q, e) \in Seq(S) /\ Len(q) \in Nat /\ Len(Append(q, e)) = Len(q) + 1
         /\ Append(q, e)[Len(q) + 1] = e
         /\ \A i \in 1 .. Len(q) : Append(q, e)[i] = q[i]
  OBVIOUS

\* The entries left are of the threads that still wait.
LEMMA TakeEntries ==
  ASSUME NEW q \in Seq(EndJobs), NEW c, q # <<>>, Entries(q, c)
  PROVE  Entries(Tail(q), c \ {Head(q).by})
<1> DEFINE rest == Tail(q)
<1>1. /\ Len(q) \in Nat \ {0} /\ Len(rest) = Len(q) - 1 /\ Head(q) = q[1]
      /\ \A i \in 1 .. Len(q) - 1 : rest[i] = q[i + 1]
  BY TailFacts
<1> HIDE DEF rest
<1>2. \A i \in 1 .. Len(rest) : i + 1 \in 1 .. Len(q) /\ 1 \in 1 .. Len(q) /\ i + 1 # 1
  BY <1>1
<1>3. ASSUME NEW i \in 1 .. Len(rest)
      PROVE  /\ rest[i].by = Overlap!NoThread <=> rest[i].asked = "finish"
             /\ rest[i].by = Presenter => rest[i].asked = "load"
             /\ rest[i].by # Overlap!NoThread => rest[i].by \in c \ {q[1].by}
  BY <1>1, <1>2 DEF Entries
<1>4. ASSUME NEW i \in 1 .. Len(rest), NEW j \in 1 .. Len(rest), rest[i].by = rest[j].by
      PROVE  i = j
  <2>1. i + 1 = j + 1
    BY <1>1, <1>2, <1>4 DEF Entries
  <2> QED
    BY <2>1, <1>1
<1>5. Entries(rest, c \ {q[1].by})
  BY <1>3, <1>4 DEF Entries
<1> QED
  BY <1>1, <1>5 DEF rest

\* A job ahead of the finish is a loading boundary, and what is left stays due.
LEMMA TakeDue ==
  ASSUME NEW q \in Seq(EndJobs), q # <<>>, Due(q), Head(q).asked # "finish"
  PROVE  Head(q).asked = "load" /\ Due(Tail(q))
<1> DEFINE rest == Tail(q)
<1>1. /\ Len(q) \in Nat \ {0} /\ Len(rest) = Len(q) - 1 /\ Head(q) = q[1]
      /\ \A i \in 1 .. Len(q) - 1 : rest[i] = q[i + 1]
  BY TailFacts
<1>2. PICK k \in 1 .. Len(q) : q[k].asked = "finish" /\ \A i \in 1 .. k - 1 : q[i].asked = "load"
  BY DEF Due
<1>3. k # 1
  BY <1>1, <1>2
<1> HIDE DEF rest
<1>4. q[1].asked = "load"
  BY <1>1, <1>2, <1>3
<1>5. /\ k - 1 \in 1 .. Len(rest) /\ rest[k - 1].asked = "finish"
  BY <1>1, <1>2, <1>3
<1>6. ASSUME NEW i \in 1 .. (k - 1) - 1 PROVE rest[i].asked = "load"
  BY <1>1, <1>2, <1>3
<1>7. Due(rest)
  BY <1>5, <1>6 DEF Due
<1> QED
  BY <1>1, <1>4, <1>7 DEF rest

\* The finish is the only one of its kind.
LEMMA TakeFinish ==
  ASSUME NEW q \in Seq(EndJobs), NEW c, q # <<>>, Entries(q, c),
         \/ Head(q).asked = "finish"
         \/ \A i \in 1 .. Len(q) : q[i].asked # "finish"
  PROVE  \A i \in 1 .. Len(Tail(q)) : Tail(q)[i].asked # "finish"
<1> DEFINE rest == Tail(q)
<1>1. /\ Len(q) \in Nat \ {0} /\ Len(rest) = Len(q) - 1 /\ Head(q) = q[1]
      /\ \A i \in 1 .. Len(q) - 1 : rest[i] = q[i + 1]
  BY TailFacts
<1> HIDE DEF rest
<1>2. \A i \in 1 .. Len(rest) : i + 1 \in 1 .. Len(q) /\ 1 \in 1 .. Len(q) /\ i + 1 # 1
  BY <1>1
<1>3. \A i \in 1 .. Len(rest) : rest[i].asked # "finish"
  BY <1>1, <1>2 DEF Entries
<1> QED
  BY <1>3 DEF rest

\* A thread that waits for nothing may queue a job.
LEMMA PushEntries ==
  ASSUME NEW q \in Seq(EndJobs), NEW c, NEW e \in EndJobs, Entries(q, c),
         e.by = Overlap!NoThread <=> e.asked = "finish", e.by = Presenter => e.asked = "load",
         \A i \in 1 .. Len(q) : q[i].by # e.by
  PROVE  Entries(Append(q, e), IF e.by = Overlap!NoThread THEN c ELSE c \cup {e.by})
<1> DEFINE longer == Append(q, e)
<1>1. /\ Len(q) \in Nat /\ Len(longer) = Len(q) + 1 /\ longer[Len(q) + 1] = e
      /\ \A i \in 1 .. Len(q) : longer[i] = q[i]
  BY PushFacts
<1> HIDE DEF longer
<1>2. \A i \in 1 .. Len(longer) : i \in 1 .. Len(q) \/ i = Len(q) + 1
  BY <1>1
<1>3. Entries(longer, IF e.by = Overlap!NoThread THEN c ELSE c \cup {e.by})
  BY <1>1, <1>2 DEF Entries
<1> QED
  BY <1>3 DEF longer

\* A full pass of the first job: what every action that takes it leaves behind.
LEMMA TakeKeeps ==
  ASSUME EndInv, service = "up", queue # <<>>, Overlap!TakeJob
  PROVE  /\ queue' \in Seq(EndJobs) /\ Len(queue') <= Capacity /\ calling' \subseteq Overlap!Threads
         /\ Entries(queue', calling')
         /\ Head(queue).asked # "finish" /\ pendingFinish # 0
               => Head(queue).asked = "load" /\ Due(queue')
         /\ Head(queue).asked = "finish" \/ pendingFinish = 0
               => \A i \in 1 .. Len(queue') : queue'[i].asked # "finish"
<1>1. queue' = Tail(queue) /\ calling' = calling \ {Head(queue).by}
  BY DEF Overlap!TakeJob
<1>2. queue \in Seq(EndJobs) /\ Entries(queue, calling) /\ JobOfFinish
  BY DEF EndInv, EndTypes
<1>3. Entries(queue', calling')
  BY <1>1, <1>2, TakeEntries
<1>4. ASSUME Head(queue).asked # "finish", pendingFinish # 0
      PROVE  Head(queue).asked = "load" /\ Due(queue')
  BY <1>1, <1>2, <1>4, TakeDue DEF JobOfFinish
<1>5. ASSUME Head(queue).asked = "finish" \/ pendingFinish = 0
      PROVE  \A i \in 1 .. Len(queue') : queue'[i].asked # "finish"
  <2>1. \/ Head(queue).asked = "finish"
        \/ \A i \in 1 .. Len(queue) : queue[i].asked # "finish"
    BY <1>2, <1>5 DEF JobOfFinish
  <2> QED
    BY <1>1, <1>2, <2>1, TakeFinish
<1>6. queue' \in Seq(EndJobs) /\ Len(queue') <= Capacity
  BY <1>1, <1>2, OverlapAssumption, TailFacts DEF EndInv, EndTypes, OverlapAssumption
<1>7. calling' \subseteq Overlap!Threads
  BY <1>1 DEF EndInv, EndTypes
<1> QED
  BY <1>3, <1>4, <1>5, <1>6, <1>7

\* With one game thread its job is alone in the queue with the presenter's.
LEMMA GameIsAlone ==
  ASSUME OneGame, NEW q \in Seq(EndJobs), NEW c, Entries(q, c), q # <<>>, Head(q).by \in Games,
         \A i \in 1 .. Len(q) : q[i].asked # "finish"
  PROVE  \A i \in 1 .. Len(Tail(q)) : Tail(q)[i].asked = "load"
<1> DEFINE rest == Tail(q)
<1>1. /\ Len(q) \in Nat \ {0} /\ Len(rest) = Len(q) - 1 /\ Head(q) = q[1]
      /\ \A i \in 1 .. Len(q) - 1 : rest[i] = q[i + 1]
  BY TailFacts
<1> HIDE DEF rest
<1>2. ASSUME NEW i \in 1 .. Len(rest) PROVE rest[i].asked = "load"
  <2>1. i + 1 \in 1 .. Len(q) /\ 1 \in 1 .. Len(q) /\ i + 1 # 1 /\ rest[i] = q[i + 1]
    BY <1>1
  <2>2. q[i + 1].by # q[1].by /\ q[i + 1].by # Overlap!NoThread
    BY <2>1 DEF Entries
  <2>3. q[i + 1] \in EndJobs
    BY <2>1
  <2>4. q[i + 1].by = Presenter
    BY <1>1, <2>2, <2>3 DEF EndJobs, Overlap!Threads, OneGame
  <2> QED
    BY <2>1, <2>4 DEF Entries
<1> QED
  BY <1>2 DEF rest

\* The invariant is inductive, one action after the other.
LEMMA EndInvKeeps == OneGame /\ EndInv /\ [Overlap!Next]_(Overlap!vars) => EndInv'
<1> SUFFICES ASSUME OneGame, EndInv, [Overlap!Next]_(Overlap!vars) PROVE EndInv'
  OBVIOUS
<1>a. OverlapAssumption
  BY OverlapAssumption
<1>f. EndFlags'
  BY EndFlagsStay DEF EndInv
<1>i. EndFlags /\ EndTypes /\ Entries(queue, calling) /\ JobOfFinish /\ PairWaits /\ PairIsPending
  BY DEF EndInv
<1>e. Overlap!Eyes # {}
  BY DEF Overlap!Eyes
<1> USE <1>a, <1>f, <1>i, <1>e DEF OverlapAssumption
<1>1. ASSUME NEW t \in Overlap!Threads, Overlap!Call(t) PROVE EndInv'
  <2>1. PICK a \in Overlap!Asks(t) : queue' = Append(queue, [asked |-> a, by |-> t])
    BY <1>1 DEF Overlap!Call
  <2> DEFINE e == [asked |-> a, by |-> t]
  <2>2. /\ t \notin calling /\ service = "up" /\ Len(queue) < Capacity
        /\ calling' = calling \cup {t}
        /\ UNCHANGED <<service, running, terminal, frame, frames, accepted, pendingFinish>>
        /\ UNCHANGED <<serviceFailed, gateStopped, lost, refused>>
    BY <1>1 DEF Overlap!Call, Overlap!boundary, Overlap!fatal, Overlap!history
  <2>3. /\ e \in EndJobs /\ e.by = t /\ e.asked = a /\ t # Overlap!NoThread /\ a # "finish"
        /\ t = Presenter => a = "load"
    <3>1. a \in Overlap!Requests /\ a # "finish" /\ (t = Presenter => a = "load")
      BY <2>1 DEF Overlap!Asks, Overlap!Requests, Overlap!Eyes
    <3>2. t # Overlap!NoThread
      BY DEF Overlap!Threads, Overlap!NoThread
    <3> QED
      BY <3>1, <3>2 DEF EndJobs
  <2> HIDE DEF e
  <2>4. \A i \in 1 .. Len(queue) : queue[i].by # e.by
    BY <2>2, <2>3 DEF Entries
  <2>5. Entries(queue', calling')
    BY <2>1, <2>2, <2>3, <2>4, PushEntries DEF EndTypes, e
  <2>6. /\ queue' \in Seq(EndJobs) /\ Len(queue) \in Nat /\ Len(queue') = Len(queue) + 1
        /\ queue'[Len(queue) + 1] = e
        /\ \A i \in 1 .. Len(queue) : queue'[i] = queue[i]
    BY <2>1, <2>3, PushFacts DEF EndTypes, e
  <2>7. ASSUME Due(queue) PROVE Due(queue')
    <3>1. PICK k \in 1 .. Len(queue) : /\ queue[k].asked = "finish"
                                       /\ \A i \in 1 .. k - 1 : queue[i].asked = "load"
      BY <2>7 DEF Due
    <3>2. /\ k \in 1 .. Len(queue') /\ queue'[k].asked = "finish"
          /\ \A i \in 1 .. k - 1 : queue'[i].asked = "load"
      BY <2>6, <3>1
    <3> QED
      BY <3>2 DEF Due
  <2>8. ASSUME NEW i \in 1 .. Len(queue'), queue'[i].asked = "finish"
        PROVE  i \in 1 .. Len(queue) /\ queue[i].asked = "finish"
    BY <2>3, <2>6, <2>8
  <2>9. JobOfFinish'
    BY <2>2, <2>7, <2>8 DEF JobOfFinish
  <2>10. EndTypes'
    BY <2>2, <2>6 DEF EndTypes
  <2>11. PairWaits' /\ PairIsPending'
    BY <2>2 DEF PairWaits, PairIsPending, Overlap!PairIn
  <2> QED
    BY <2>5, <2>9, <2>10, <2>11 DEF EndInv
<1>2. CASE Overlap!StopService
  <2>1. /\ service = "up" /\ service' = "stopping" /\ queue' = <<>> /\ calling' = {}
        /\ UNCHANGED <<running, terminal, frame, frames, accepted, pendingFinish>>
        /\ UNCHANGED <<serviceFailed, gateStopped, lost, refused>>
    BY <1>2 DEF Overlap!StopService, Overlap!boundary, Overlap!fatal, Overlap!history
  <2>2. Len(queue') = 0 /\ queue' \in Seq(EndJobs)
    BY <2>1
  <2>3. EndTypes' /\ Entries(queue', calling')
    BY <2>1, <2>2 DEF EndTypes, Entries
  <2>4. JobOfFinish' /\ PairWaits' /\ PairIsPending'
    BY <2>1 DEF JobOfFinish, PairWaits, PairIsPending, Overlap!PairIn
  <2> QED
    BY <2>3, <2>4 DEF EndInv
<1>3. CASE Overlap!Waits
  <2>1. service = "up" /\ queue # <<>> /\ Head(queue).asked = "wait" /\ Overlap!TakeJob
    BY <1>3 DEF Overlap!Waits, Overlap!Asked
  <2>2. /\ queue' \in Seq(EndJobs) /\ Len(queue') <= Capacity /\ calling' \subseteq Overlap!Threads
        /\ Entries(queue', calling')
        /\ pendingFinish # 0 => Head(queue).asked = "load" /\ Due(queue')
        /\ pendingFinish = 0 => \A i \in 1 .. Len(queue') : queue'[i].asked # "finish"
    BY <2>1, TakeKeeps
  <2>types. EndTypes'
    BY <1>3, <2>1, <2>2 DEF EndTypes, Overlap!Waits, Overlap!Clears, Overlap!EndsWithoutPair,
        Overlap!publishFatalFailure, Overlap!Admits, Overlap!PairIn, Overlap!fatal
  <2>job. JobOfFinish'
    BY <1>3, <2>1, <2>2 DEF JobOfFinish, Overlap!Waits, Overlap!Clears, Overlap!EndsWithoutPair,
        Overlap!publishFatalFailure, Overlap!Admits, Overlap!PairIn, Overlap!fatal
  <2>wait. PairWaits'
    BY <1>3, <2>1, <2>2 DEF PairWaits, EndTypes, Overlap!Waits, Overlap!Clears,
        Overlap!EndsWithoutPair, Overlap!publishFatalFailure, Overlap!Admits, Overlap!PairIn,
        Overlap!fatal
  <2>pair. PairIsPending'
    BY <1>3, <2>1, <2>2 DEF PairIsPending, Overlap!PairIn, PairWaits, Overlap!Waits,
        Overlap!Clears, Overlap!EndsWithoutPair, Overlap!publishFatalFailure, Overlap!Admits,
        Overlap!PairIn, Overlap!fatal
  <2> QED
    BY <2>2, <2>types, <2>job, <2>wait, <2>pair DEF EndInv
<1>4. CASE Overlap!ClearSubmitted
  <2>1. service = "up" /\ queue # <<>> /\ Head(queue).asked = "clear" /\ Overlap!TakeJob
    BY <1>4 DEF Overlap!ClearSubmitted, Overlap!Asked
  <2>2. /\ queue' \in Seq(EndJobs) /\ Len(queue') <= Capacity /\ calling' \subseteq Overlap!Threads
        /\ Entries(queue', calling')
        /\ pendingFinish # 0 => Head(queue).asked = "load" /\ Due(queue')
        /\ pendingFinish = 0 => \A i \in 1 .. Len(queue') : queue'[i].asked # "finish"
    BY <2>1, TakeKeeps
  <2>types. EndTypes'
    BY <1>4, <2>1, <2>2 DEF EndTypes, Overlap!ClearSubmitted, Overlap!Clears,
        Overlap!EndsWithoutPair, Overlap!publishFatalFailure, Overlap!Admits, Overlap!PairIn,
        Overlap!fatal
  <2>job. JobOfFinish'
    BY <1>4, <2>1, <2>2 DEF JobOfFinish, Overlap!ClearSubmitted, Overlap!Clears,
        Overlap!EndsWithoutPair, Overlap!publishFatalFailure, Overlap!Admits, Overlap!PairIn,
        Overlap!fatal
  <2>wait. PairWaits'
    BY <1>4, <2>1, <2>2 DEF PairWaits, EndTypes, Overlap!ClearSubmitted, Overlap!Clears,
        Overlap!EndsWithoutPair, Overlap!publishFatalFailure, Overlap!Admits, Overlap!PairIn,
        Overlap!fatal
  <2>pair. PairIsPending'
    BY <1>4, <2>1, <2>2 DEF PairIsPending, Overlap!PairIn, PairWaits, Overlap!ClearSubmitted,
        Overlap!Clears, Overlap!EndsWithoutPair, Overlap!publishFatalFailure, Overlap!Admits,
        Overlap!PairIn, Overlap!fatal
  <2> QED
    BY <2>2, <2>types, <2>job, <2>wait, <2>pair DEF EndInv
<1>r. CASE Overlap!ResetSeated
  <2>1. service = "up" /\ queue # <<>> /\ Head(queue).asked = "reset" /\ Overlap!TakeJob
    BY <1>r DEF Overlap!ResetSeated, Overlap!Asked
  <2>2. /\ queue' \in Seq(EndJobs) /\ Len(queue') <= Capacity /\ calling' \subseteq Overlap!Threads
        /\ Entries(queue', calling')
        /\ pendingFinish # 0 => Head(queue).asked = "load" /\ Due(queue')
        /\ pendingFinish = 0 => \A i \in 1 .. Len(queue') : queue'[i].asked # "finish"
    BY <2>1, TakeKeeps
  <2>types. EndTypes'
    BY <1>r, <2>1, <2>2 DEF EndTypes, Overlap!ResetSeated, Overlap!Clears,
        Overlap!EndsWithoutPair, Overlap!publishFatalFailure, Overlap!Admits, Overlap!PairIn,
        Overlap!fatal
  <2>job. JobOfFinish'
    BY <1>r, <2>1, <2>2 DEF JobOfFinish, Overlap!ResetSeated, Overlap!Clears,
        Overlap!EndsWithoutPair, Overlap!publishFatalFailure, Overlap!Admits, Overlap!PairIn,
        Overlap!fatal
  <2>wait. PairWaits'
    BY <1>r, <2>1, <2>2 DEF PairWaits, EndTypes, Overlap!ResetSeated, Overlap!Clears,
        Overlap!EndsWithoutPair, Overlap!publishFatalFailure, Overlap!Admits, Overlap!PairIn,
        Overlap!fatal
  <2>pair. PairIsPending'
    BY <1>r, <2>1, <2>2 DEF PairIsPending, Overlap!PairIn, PairWaits, Overlap!ResetSeated,
        Overlap!Clears, Overlap!EndsWithoutPair, Overlap!publishFatalFailure, Overlap!Admits,
        Overlap!PairIn, Overlap!fatal
  <2> QED
    BY <2>2, <2>types, <2>job, <2>wait, <2>pair DEF EndInv
<1>5. CASE Overlap!LoadingBoundary
  <2>1. service = "up" /\ queue # <<>> /\ Head(queue).asked = "load" /\ Overlap!TakeJob
    BY <1>5 DEF Overlap!LoadingBoundary, Overlap!Asked
  <2>2. /\ queue' \in Seq(EndJobs) /\ Len(queue') <= Capacity /\ calling' \subseteq Overlap!Threads
        /\ Entries(queue', calling')
        /\ pendingFinish # 0 => Head(queue).asked = "load" /\ Due(queue')
        /\ pendingFinish = 0 => \A i \in 1 .. Len(queue') : queue'[i].asked # "finish"
    BY <2>1, TakeKeeps
  <2>types. EndTypes'
    BY <1>5, <2>1, <2>2 DEF EndTypes, Overlap!LoadingBoundary, Overlap!Loads, Overlap!Clears,
        Overlap!EndsWithoutPair, Overlap!publishFatalFailure, Overlap!Admits, Overlap!PairIn,
        Overlap!fatal
  <2>job. JobOfFinish'
    BY <1>5, <2>1, <2>2 DEF JobOfFinish, Overlap!LoadingBoundary, Overlap!Loads, Overlap!Clears,
        Overlap!EndsWithoutPair, Overlap!publishFatalFailure, Overlap!Admits, Overlap!PairIn,
        Overlap!fatal
  <2>wait. PairWaits'
    BY <1>5, <2>1, <2>2 DEF PairWaits, EndTypes, Overlap!LoadingBoundary, Overlap!Loads,
        Overlap!Clears, Overlap!EndsWithoutPair, Overlap!publishFatalFailure, Overlap!Admits,
        Overlap!PairIn, Overlap!fatal
  <2>pair. PairIsPending'
    BY <1>5, <2>1, <2>2 DEF PairIsPending, Overlap!PairIn, PairWaits, Overlap!LoadingBoundary,
        Overlap!Loads, Overlap!Clears, Overlap!EndsWithoutPair, Overlap!publishFatalFailure,
        Overlap!Admits, Overlap!PairIn, Overlap!fatal
  <2> QED
    BY <2>2, <2>types, <2>job, <2>wait, <2>pair DEF EndInv
<1>6. CASE Overlap!finishPendingFrameEnd
  <2>1. service = "up" /\ queue # <<>> /\ Head(queue).asked = "finish" /\ Overlap!TakeJob
    BY <1>6 DEF Overlap!finishPendingFrameEnd, Overlap!Asked
  <2>2. /\ queue' \in Seq(EndJobs) /\ Len(queue') <= Capacity /\ calling' \subseteq Overlap!Threads
        /\ Entries(queue', calling')
        /\ \A i \in 1 .. Len(queue') : queue'[i].asked # "finish"
    BY <2>1, TakeKeeps
  <2>3. pendingFinish # 0
    <3>1. Len(queue) \in Nat \ {0} /\ queue[1].asked = "finish"
      BY <2>1, TailFacts DEF EndTypes
    <3> QED
      BY <2>1, <3>1 DEF JobOfFinish
  <2>4. ~gateStopped /\ frame = pendingFinish /\ accepted = Overlap!Eyes
    BY <2>1, <2>3 DEF PairWaits
  <2>5. Overlap!FinishPair(pendingFinish) /\ pendingFinish' = 0
        /\ UNCHANGED <<service, running, frames, accepted, refused>>
    BY <1>6, <2>3, <2>4 DEF Overlap!finishPendingFrameEnd
  <2>types. EndTypes'
    BY <2>1, <2>2, <2>3, <2>4, <2>5 DEF EndTypes, Overlap!FinishPair,
        Overlap!publishFatalFailure, Overlap!fatal
  <2>job. JobOfFinish'
    BY <2>1, <2>2, <2>3, <2>4, <2>5 DEF JobOfFinish, Overlap!FinishPair,
        Overlap!publishFatalFailure, Overlap!fatal
  <2>wait. PairWaits'
    BY <2>1, <2>2, <2>3, <2>4, <2>5 DEF PairWaits, EndTypes, Overlap!FinishPair,
        Overlap!publishFatalFailure, Overlap!fatal
  <2>pair. PairIsPending'
    BY <2>1, <2>2, <2>3, <2>4, <2>5 DEF PairIsPending, Overlap!PairIn, PairWaits,
        Overlap!FinishPair, Overlap!publishFatalFailure, Overlap!fatal
  <2> QED
    BY <2>2, <2>types, <2>job, <2>wait, <2>pair DEF EndInv
<1>7. ASSUME NEW eye \in Overlap!Eyes, Overlap!SubmitEye(eye) PROVE EndInv'
  <2>1. /\ service = "up" /\ queue # <<>> /\ Head(queue).asked = eye
        /\ calling' = calling \ {Head(queue).by}
        /\ UNCHANGED <<service, running, frames, refused>>
    BY <1>7 DEF Overlap!SubmitEye, Overlap!Asked
  <2>2. eye # "finish" /\ eye # "load"
    BY DEF Overlap!Eyes
  <2>3. queue \in Seq(EndJobs) /\ Entries(queue, calling)
    BY DEF EndTypes
  <2>4. pendingFinish = 0
    BY <2>1, <2>2, <2>3, TakeDue DEF JobOfFinish
  <2>5. /\ Tail(queue) \in Seq(EndJobs) /\ Len(queue) \in Nat \ {0}
        /\ Len(Tail(queue)) = Len(queue) - 1 /\ Head(queue) = queue[1] /\ queue[1] \in EndJobs
        /\ Entries(Tail(queue), calling')
    BY <2>1, <2>3, TailFacts, TakeEntries
  <2>6. \A i \in 1 .. Len(queue) : queue[i].asked # "finish"
    BY <2>1, <2>4 DEF JobOfFinish
  <2>7. \A i \in 1 .. Len(Tail(queue)) : Tail(queue)[i].asked # "finish"
    BY <2>1, <2>3, <2>6, TakeFinish
  <2>8. calling' \subseteq Overlap!Threads
    BY <2>1 DEF EndTypes
  <2>9. CASE queue' = Tail(queue) /\ pendingFinish' = 0
    <3>1. EndTypes'
      <4>1. queue' \in Seq(EndJobs) /\ Len(queue') <= Capacity
        BY <2>5, <2>9 DEF EndTypes
      <4>2. accepted' \subseteq Overlap!Eyes /\ frame' \in {0, frame}
        BY <1>7 DEF Overlap!SubmitEye, Overlap!FinishPair, EndTypes
      <4> QED
        BY <2>1, <2>8, <2>9, <4>1, <4>2 DEF EndTypes
    <3>2. JobOfFinish' /\ Entries(queue', calling')
      BY <2>1, <2>5, <2>7, <2>9 DEF JobOfFinish
    <3>3. PairWaits'
      BY <1>7, <2>1, <2>9 DEF Overlap!SubmitEye, Overlap!FinishPair,
          Overlap!publishFatalFailure, PairWaits, Overlap!fatal
    <3>4. PairIsPending'
      BY <1>7, <2>1, <2>4, <2>9 DEF Overlap!SubmitEye, Overlap!FinishPair,
          Overlap!publishFatalFailure, PairIsPending, Overlap!PairIn, Overlap!fatal
    <3> QED
      BY <3>1, <3>2, <3>3, <3>4 DEF EndInv
  <2>10. CASE /\ queue' = Append(Tail(queue), [asked |-> "finish", by |-> Overlap!NoThread])
              /\ pendingFinish' = frame /\ accepted' = Overlap!Eyes /\ Overlap!Admits /\ frame # 0
              /\ UNCHANGED <<terminal, frame, serviceFailed, gateStopped, lost>>
    <3> DEFINE rest == Tail(queue)
               e == [asked |-> "finish", by |-> Overlap!NoThread]
    <3>1. Head(queue).by \in Games
      <4>1. /\ queue[1].by \in Overlap!Threads \cup {Overlap!NoThread}
            /\ Len(queue) \in Nat /\ 1 \in 1 .. Len(queue)
        BY <2>5 DEF EndJobs
      <4>2. queue[1].by # Overlap!NoThread /\ queue[1].by # Presenter
        BY <2>1, <2>2, <2>3, <2>5, <4>1 DEF Entries
      <4> QED
        BY <2>5, <4>1, <4>2 DEF Overlap!Threads
    <3>2. \A i \in 1 .. Len(rest) : rest[i].asked = "load"
      BY <2>1, <2>3, <2>6, <3>1, GameIsAlone
    <3>3. /\ e \in EndJobs /\ e.by = Overlap!NoThread /\ e.asked = "finish"
          /\ Overlap!NoThread # Presenter
      BY DEF EndJobs, Overlap!Requests, Overlap!NoThread, Overlap!Threads
    <3>4. rest \in Seq(EndJobs) /\ Len(rest) = Len(queue) - 1 /\ Entries(rest, calling')
      BY <2>5
    <3>5. queue' = Append(rest, e)
      BY <2>10
    <3> HIDE DEF rest, e
    <3>6. \A i \in 1 .. Len(rest) : rest[i].by # e.by
      BY <3>2, <3>3, <3>4 DEF Entries
    <3>7. Entries(queue', calling')
      BY <3>3, <3>4, <3>5, <3>6, PushEntries
    <3>8. /\ queue' \in Seq(EndJobs) /\ Len(rest) \in Nat /\ Len(queue') = Len(rest) + 1
          /\ queue'[Len(rest) + 1] = e
          /\ \A i \in 1 .. Len(rest) : queue'[i] = rest[i]
      BY <3>3, <3>4, <3>5, PushFacts
    <3>9. Due(queue')
      <4>1. /\ Len(rest) + 1 \in 1 .. Len(queue') /\ queue'[Len(rest) + 1].asked = "finish"
            /\ \A i \in 1 .. (Len(rest) + 1) - 1 : queue'[i].asked = "load"
        BY <3>2, <3>3, <3>8
      <4> QED
        BY <4>1 DEF Due
    <3>10. EndTypes'
      BY <2>1, <2>5, <2>8, <2>10, <3>4, <3>8 DEF EndTypes
    <3>11. JobOfFinish' /\ PairWaits' /\ PairIsPending'
      BY <2>1, <2>10, <3>9 DEF JobOfFinish, PairWaits, PairIsPending, Overlap!PairIn, Overlap!Admits
    <3> QED
      BY <3>7, <3>10, <3>11 DEF EndInv
  <2> QED
    BY <1>7, <2>4, <2>9, <2>10 DEF Overlap!SubmitEye, Overlap!fatal
<1>8. CASE Overlap!pumpEvents
  <2>1. /\ service = "up" /\ Overlap!Admits /\ pendingFinish = 0
        /\ UNCHANGED <<queue, calling, service, frames, pendingFinish, refused>>
    BY <1>8 DEF Overlap!pumpEvents, Overlap!Pumps
  <2>2. EndTypes' /\ Entries(queue', calling')
    BY <1>8, <2>1 DEF Overlap!pumpEvents, Overlap!Clears, EndTypes
  <2>3. JobOfFinish'
    BY <2>1 DEF JobOfFinish
  <2>4. PairWaits' /\ PairIsPending'
    BY <1>8, <2>1 DEF Overlap!pumpEvents, PairWaits, PairIsPending, Overlap!Clears,
        Overlap!EndsWithoutPair, Overlap!publishFatalFailure, Overlap!Admits, Overlap!PairIn,
        Overlap!fatal
  <2> QED
    BY <2>2, <2>3, <2>4 DEF EndInv
<1>9. CASE Overlap!Close
  <2>1. /\ service = "stopping" /\ service' = "closed" /\ gateStopped'
        /\ UNCHANGED <<queue, calling, running, terminal, frames, accepted, serviceFailed, refused>>
    BY <1>9 DEF Overlap!Close
  <2>2. EndTypes' /\ Entries(queue', calling')
    BY <1>9, <2>1 DEF Overlap!Close, EndTypes
  <2>3. JobOfFinish'
    BY <2>1 DEF JobOfFinish
  <2>4. PairWaits' /\ PairIsPending'
    BY <1>9, <2>1 DEF Overlap!Close, PairWaits, PairIsPending, Overlap!EndsWithoutPair,
        Overlap!PairIn, EndTypes
  <2> QED
    BY <2>2, <2>3, <2>4 DEF EndInv
<1>10. CASE UNCHANGED Overlap!vars
  BY <1>10 DEF Overlap!vars, Overlap!boundary, Overlap!fatal, Overlap!history, EndInv, EndTypes,
      JobOfFinish, PairWaits, PairIsPending, Overlap!PairIn
<1> QED
  BY <1>1, <1>2, <1>3, <1>4, <1>5, <1>6, <1>7, <1>8, <1>9, <1>10, <1>r
  DEF Overlap!Next, Overlap!OwnerJobs
\* Nothing is asked, nothing is in.
LEMMA EndInvHolds == Overlap!Init => EndInv
<1> SUFFICES ASSUME Overlap!Init PROVE EndInv
  OBVIOUS
<1>1. EndFlags
  BY Zenon DEF Overlap!Init, EndFlags
<1>2. EndTypes /\ Entries(queue, calling) /\ JobOfFinish
  BY OverlapAssumption DEF Overlap!Init, EndTypes, Entries, JobOfFinish, OverlapAssumption
<1>3. PairWaits /\ PairIsPending
  BY DEF Overlap!Init, PairWaits, PairIsPending, Overlap!PairIn
<1> QED
  BY <1>1, <1>2, <1>3 DEF EndInv

\* There is one finish in the queue exactly while one is pending.
LEMMA OneFinish ==
  EndInv /\ service = "up" =>
    IF pendingFinish # 0 THEN \E i \in 1 .. Len(queue) : Overlap!FinishJobs = {i}
                            ELSE Overlap!FinishJobs = {}
<1> SUFFICES ASSUME EndInv, service = "up"
             PROVE  IF pendingFinish # 0 THEN \E i \in 1 .. Len(queue) : Overlap!FinishJobs = {i}
                                         ELSE Overlap!FinishJobs = {}
  OBVIOUS
<1>1. CASE pendingFinish = 0
  <2>1. Overlap!FinishJobs = {}
    BY <1>1 DEF EndInv, JobOfFinish, Overlap!FinishJobs
  <2> QED
    BY <1>1, <2>1
<1>2. CASE pendingFinish # 0
  <2>1. PICK k \in 1 .. Len(queue) : queue[k].asked = "finish"
    BY <1>2 DEF EndInv, JobOfFinish, Due
  <2>2. \A i \in 1 .. Len(queue) : queue[i].asked = "finish" => i = k
    BY <2>1 DEF EndInv, Entries
  <2>3. Overlap!FinishJobs = {k}
    BY <2>1, <2>2 DEF Overlap!FinishJobs
  <2> QED
    BY <1>2, <2>1, <2>3
<1> QED
  BY <1>1, <1>2

\* The invariant says what the run checks.
LEMMA EndInvImplies == EndInv => Overlap!NoPairIsLost /\ Overlap!FinishIsAdmitted
<1> SUFFICES ASSUME EndInv PROVE Overlap!NoPairIsLost /\ Overlap!FinishIsAdmitted
  OBVIOUS
<1>1. running \in BOOLEAN /\ terminal \in BOOLEAN /\ serviceFailed \in BOOLEAN
      /\ gateStopped \in BOOLEAN /\ refused \in BOOLEAN
  BY Zenon DEF EndInv, EndFlags
<1>2. Overlap!TypeOK
  BY <1>1 DEF EndInv, EndTypes, Overlap!TypeOK, EndJobs, PairIsPending
<1>3. Overlap!Consistent
  BY <1>2, OneFinish DEF EndInv, PairWaits, Overlap!Consistent
<1> QED
  BY <1>3 DEF EndInv, PairIsPending, Overlap!NoPairIsLost, Overlap!FinishIsAdmitted

\* With one game thread, a pair whose Submit was answered is ended as the frame
\* it was rendered for, and there is exactly one job, or the close that
\* cancelled it, to do so: no wait, clear, loading frame, session stop or
\* shutdown ends that frame empty first (native_runtime_host.h:720-728,
\* :2146-2151), whatever the capacity of the queue and the number of frames.
THEOREM KeepsPairs == OneGame /\ OverlapSpec => []NoPairIsLost
<1>1. Overlap!Init => EndInv
  BY EndInvHolds
<1>2. OneGame /\ EndInv /\ [Overlap!Next]_(Overlap!vars) => EndInv'
  BY EndInvKeeps
<1>3. EndInv => NoPairIsLost
  BY EndInvImplies DEF NoPairIsLost
<1>4. OneGame => []OneGame
  <2>1. OneGame => OneGame'
    BY DEF OneGame
  <2> QED
    BY <2>1, PTL
<1> QED
  BY <1>1, <1>2, <1>3, <1>4, PTL DEF OverlapSpec, Overlap!Spec

\* And what native_runtime_host.h:1290-1295 says of the gate is then true: it
\* never turns the finish job away (with a second game thread it does).
THEOREM AdmitsTheFinish == OneGame /\ OverlapSpec => []FinishIsAdmitted
<1>1. Overlap!Init => EndInv
  BY EndInvHolds
<1>2. OneGame /\ EndInv /\ [Overlap!Next]_(Overlap!vars) => EndInv'
  BY EndInvKeeps
<1>3. EndInv => FinishIsAdmitted
  BY EndInvImplies DEF FinishIsAdmitted
<1>4. OneGame => []OneGame
  <2>1. OneGame => OneGame'
    BY DEF OneGame
  <2> QED
    BY <2>1, PTL
<1> QED
  BY <1>1, <1>2, <1>3, <1>4, PTL DEF OverlapSpec, Overlap!Spec
===============================================================================
