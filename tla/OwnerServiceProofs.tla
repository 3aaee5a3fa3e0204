-------------------------- MODULE OwnerServiceProofs --------------------------
(***************************************************************************)
(* The safety properties of OwnerService, for any number of callers,       *)
(* requests and starts and any capacity of the queue.  The inductive       *)
(* invariant has four parts, each kept by every step with the help of the  *)
(* ones before it: who is in which stage of a stop (Life), stopCallers_ as *)
(* a count of the stops under way (Count), who holds each request (Held),  *)
(* and which generation a finalizer and an outcome belong to (Outcomes).   *)
(***************************************************************************)
EXTENDS OwnerService, FiniteSetTheorems, TLAPS

\* The Boolean part of the type invariant.
Flags ==
  /\ {joinable, running, stopping, joining, cancellationReady} \subseteq BOOLEAN
  /\ {idleFailed, finalOutcome, outcome, idle, finalizer, given} \subseteq BOOLEAN
  /\ outcomeOf \in [0 .. MaxStarts -> BOOLEAN]

StopPcs == {"cancelling", "joining", "joinwait"}
LastPcs == {"finalizing", "finalized", "exited"}

\* The worker and std::thread agree with running_, one stop at a time cancels and
\* one joins, and the owner's own stop ends before its callback does.
Life ==
  /\ running <=> wpc # "none"
  /\ running => (joinable <=> ~joining)
  /\ ~running => ~joinable /\ ~joining /\ ~stopping
  /\ joining => stopping
  /\ joining <=> \E t \in Callers : pc[t] = "joining"
  /\ \A s, t \in Callers : pc[s] = "joining" /\ pc[t] = "joining" => s = t
  /\ stopping /\ ~cancellationReady <=> \E t \in Threads : pc[t] = "cancelling"
  /\ \A s, t \in Threads : pc[s] = "cancelling" /\ pc[t] = "cancelling" => s = t
  /\ running /\ ~stopping => ~cancellationReady
  /\ wpc \in LastPcs => stopping /\ cancellationReady
  /\ pc[Owner] \in {"out", "cancelling"}
  /\ pc[Owner] = "cancelling" => wpc \in {"running", "idling"}

\* stopCallers_ counts the external stops that have not returned.
Stoppers == {t \in Callers : pc[t] \in StopPcs}
Count == stopCallers = Cardinality(Stoppers)

NoDup(q) == \A i, j \in 1 .. Len(q) : q[i] = q[j] => i = j

\* Exactly one of the queue, the worker and the cancelling stop holds a request
\* that is not done; one that has not been begun has no outcome.
Held ==
  /\ NoDup(queue) /\ NoDup(cancelled)
  /\ queue # <<>> => running /\ ~stopping
  /\ cancelled # <<>> => stopping /\ ~cancellationReady
  /\ current # None <=> wpc \in {"running", "ran", "released"}
  /\ wpc = "released" => current \notin captured
  /\ \A r \in Requests :
       /\ QueuedIn(queue, r) => /\ r \notin done /\ current # r
                                /\ ~QueuedIn(cancelled, r) /\ ended[r] = "none"
       /\ QueuedIn(cancelled, r) => r \notin done /\ current # r /\ ended[r] = "none"
       /\ current = r => r \notin done
       /\ r \notin done => QueuedIn(queue, r) \/ current = r \/ QueuedIn(cancelled, r)
       /\ reports[r] = IF r \in done THEN 1 ELSE 0
       /\ r \in done => r \notin captured /\ (r \in success <=> ended[r] = "ok")

\* A stop belongs to the newest generation until it returns, and the outcome of
\* that generation does not change once a stop has returned it.
Outcomes ==
  /\ wpc \in {"exited", "none"} => (finalOutcome <=> outcomeOf[generation])
  /\ \A t \in Callers :
       /\ entered[t] <= generation
       /\ pc[t] \in StopPcs => entered[t] = generation
       /\ returned[t] # "none" /\ pc[t] \notin StopPcs =>
            /\ returned[t] = "true" <=> outcomeOf[entered[t]]
            /\ entered[t] = generation => wpc = "none"

\* finalizer_ is the one the first stop gave until the worker has run it.
Finals ==
  /\ stopping /\ wpc \notin {"finalized", "exited"} => (finalizer <=> given)
  /\ running /\ wpc \notin LastPcs => finalRuns = 0
  /\ wpc = "finalizing" => finalRuns = IF given THEN 1 ELSE 0
  /\ wpc \in {"finalized", "exited", "none"} => /\ finalRuns <= 1
                                                /\ finalRuns = 1 <=> given

\* The inductive invariant.
IInv == TypeOK /\ Life /\ Count /\ Held /\ Outcomes /\ Finals

-------------------------------------------------------------------------------
(* Types *)

\* The flags stay Boolean: SMT does not see it of an assignment, Zenon does.
LEMMA FlagsStay == Flags /\ [Next]_vars => Flags'
<1> SUFFICES ASSUME Flags, [Next]_vars PROVE Flags'
  OBVIOUS
<1> USE BoundsAssumption DEF Flags, requestVars, stopVars, workerVars, callVars, lifeVars
<1>1. ASSUME NEW t \in Threads, Start(t) PROVE Flags'
  BY <1>1, Zenon DEF Start, MayStart, CanCall
<1>2. ASSUME NEW t \in Threads, StopFirst(t) PROVE Flags'
  BY <1>2, Zenon DEF StopFirst, CanCall, TakeFinalizer, TakeQueue, StopNoted, Counted
<1>3. ASSUME NEW t \in Threads, StopLater(t) PROVE Flags'
  BY <1>3, Zenon DEF StopLater, CanCall, StopTail, StopReturns, StopNoted, Counted
<1>4. ASSUME NEW t \in Threads, CancelRelease(t) PROVE Flags'
  BY <1>4, Zenon DEF CancelRelease
<1>5. ASSUME NEW t \in Threads, CancelReport(t) PROVE Flags'
  BY <1>5, Zenon DEF CancelReport, Report
<1>6. ASSUME NEW t \in Threads, CancelDone(t) PROVE Flags'
  BY <1>6, Zenon DEF CancelDone, StopTail, StopReturns
<1>7. ASSUME NEW t \in Callers, Join(t) PROVE Flags'
  BY <1>7, Zenon DEF Join, StopReturns
<1>8. ASSUME NEW t \in Callers, JoinWaited(t) PROVE Flags'
  BY <1>8, Zenon DEF JoinWaited, StopReturns
<1>9. ASSUME NEW t \in Callers, NEW r \in Requests, Invoke(t, r) PROVE Flags'
  BY <1>9, Zenon DEF Invoke, CanCall, Admits, Push, Free
<1>10. ASSUME NEW t \in Threads, NEW r \in Requests, Submit(t, r) PROVE Flags'
  BY <1>10, Zenon DEF Submit, CanCall, Admits, Push, Free
<1>11. ASSUME NEW t \in Callers, InvokeReturn(t) PROVE Flags'
  BY <1>11, Zenon DEF InvokeReturn
<1>12. ASSUME WorkerEnters PROVE Flags'
  BY <1>12, Zenon DEF WorkerEnters
<1>13. ASSUME WorkerTakes PROVE Flags'
  BY <1>13, Zenon DEF WorkerTakes
<1>14. ASSUME CallbackReturns PROVE Flags'
  BY <1>14, Zenon DEF CallbackReturns
<1>15. ASSUME WorkerReleases PROVE Flags'
  BY <1>15, Zenon DEF WorkerReleases
<1>16. ASSUME WorkerReports PROVE Flags'
  BY <1>16, Zenon DEF WorkerReports, Report
<1>17. ASSUME WorkerBetween PROVE Flags'
  BY <1>17, Zenon DEF WorkerBetween
<1>18. ASSUME WorkerIdles PROVE Flags'
  BY <1>18, Zenon DEF WorkerIdles
<1>19. ASSUME IdleReturns PROVE Flags'
  BY <1>19, Zenon DEF IdleReturns
<1>20. ASSUME WorkerStops PROVE Flags'
  BY <1>20, Zenon DEF WorkerStops, MayFinalize
<1>21. ASSUME FinalizerReturns PROVE Flags'
  BY <1>21, Zenon DEF FinalizerReturns
<1>22. ASSUME WorkerExits PROVE Flags'
  BY <1>22, Zenon DEF WorkerExits
<1>23. CASE UNCHANGED vars
  BY <1>23, Zenon DEF vars
<1> QED
  BY <1>1, <1>2, <1>3, <1>4, <1>5, <1>6, <1>7, <1>8, <1>9, <1>10, <1>11, <1>12,
     <1>13, <1>14, <1>15, <1>16, <1>17, <1>18, <1>19, <1>20, <1>21, <1>22, <1>23
  DEF Next, Stop, Worker, Threads

\* What a stop that passes the cancellation block may leave behind.
LEMMA TailTypes ==
  ASSUME TypeOK, NEW t \in Threads, NEW n \in Int, StopTail(t, n)
  PROVE  /\ pc' \in [Threads -> Pcs] /\ stopCallers' \in Int
         /\ returned' \in [Callers -> {"none", "true", "false"}]
<1> USE CallersAssumption DEF TypeOK, Threads, Pcs
<1>1. CASE t = Owner
  BY <1>1 DEF StopTail
<1>2. CASE t # Owner /\ ~joinable /\ ~running
  <2>1. StopReturns(t) /\ stopCallers' = n - 1
    BY <1>2, Zenon DEF StopTail
  <2> QED
    BY <1>2, <2>1 DEF StopReturns
<1>3. CASE t # Owner /\ (joinable \/ running) /\ joining
  BY <1>3 DEF StopTail
<1>4. CASE t # Owner /\ (joinable \/ running) /\ ~joining
  BY <1>4 DEF StopTail
<1> QED
  BY <1>1, <1>2, <1>3, <1>4

\* Every step keeps the types; a push finds room in the queue.
LEMMA TypesStay == TypeOK /\ Held /\ [Next]_vars => TypeOK'
<1> SUFFICES ASSUME TypeOK /\ Held, [Next]_vars PROVE TypeOK'
  OBVIOUS
<1>0. Flags /\ Flags'
  BY FlagsStay DEF TypeOK, Flags
<1> USE <1>0, CallersAssumption, RequestsAssumption, BoundsAssumption
<1> USE DEF TypeOK, Flags, Threads, Pcs, WorkerPcs, requestVars, stopVars, workerVars,
    callVars, lifeVars
<1>1. ASSUME NEW t \in Threads, Start(t) PROVE TypeOK'
  BY <1>1 DEF Start, MayStart, CanCall
<1>2. ASSUME NEW t \in Threads, StopFirst(t) PROVE TypeOK'
  BY <1>2 DEF StopFirst, CanCall, TakeFinalizer, TakeQueue, StopNoted, Counted
<1>3. ASSUME NEW t \in Threads, StopLater(t) PROVE TypeOK'
  <2>1. Counted(t) \in Int
    BY DEF Counted
  <2>2. /\ pc' \in [Threads -> Pcs] /\ stopCallers' \in Int
        /\ returned' \in [Callers -> {"none", "true", "false"}]
    BY <1>3, <2>1, TailTypes, Zenon DEF StopLater
  <2> QED
    BY <1>3, <2>2 DEF StopLater, StopNoted
<1>4. ASSUME NEW t \in Threads, CancelRelease(t) PROVE TypeOK'
  BY <1>4 DEF CancelRelease
<1>5. ASSUME NEW t \in Threads, CancelReport(t) PROVE TypeOK'
  BY <1>5 DEF CancelReport, Report
<1>6. ASSUME NEW t \in Threads, CancelDone(t) PROVE TypeOK'
  <2>1. /\ pc' \in [Threads -> Pcs] /\ stopCallers' \in Int
        /\ returned' \in [Callers -> {"none", "true", "false"}]
    BY <1>6, TailTypes DEF CancelDone
  <2> QED
    BY <1>6, <2>1 DEF CancelDone
<1>7. ASSUME NEW t \in Callers, Join(t) PROVE TypeOK'
  BY <1>7 DEF Join, StopReturns
<1>8. ASSUME NEW t \in Callers, JoinWaited(t) PROVE TypeOK'
  BY <1>8 DEF JoinWaited, StopReturns
<1>9. ASSUME NEW t \in Callers, NEW r \in Requests, Invoke(t, r) PROVE TypeOK'
  BY <1>9 DEF Invoke, CanCall, Admits, Push, Free
<1>10. ASSUME NEW t \in Threads, NEW r \in Requests, Submit(t, r) PROVE TypeOK'
  BY <1>10 DEF Submit, CanCall, Admits, Push, Free
<1>11. ASSUME NEW t \in Callers, InvokeReturn(t) PROVE TypeOK'
  BY <1>11 DEF InvokeReturn
<1>12. ASSUME WorkerEnters PROVE TypeOK'
  BY <1>12 DEF WorkerEnters
<1>13. ASSUME WorkerTakes PROVE TypeOK'
  BY <1>13 DEF WorkerTakes
<1>14. ASSUME CallbackReturns PROVE TypeOK'
  BY <1>14 DEF CallbackReturns, Held
<1>15. ASSUME WorkerReleases PROVE TypeOK'
  BY <1>15 DEF WorkerReleases
<1>16. ASSUME WorkerReports PROVE TypeOK'
  BY <1>16 DEF WorkerReports, Report, Held
<1>17. ASSUME WorkerBetween PROVE TypeOK'
  BY <1>17 DEF WorkerBetween
<1>18. ASSUME WorkerIdles PROVE TypeOK'
  BY <1>18 DEF WorkerIdles
<1>19. ASSUME IdleReturns PROVE TypeOK'
  BY <1>19 DEF IdleReturns
<1>20. ASSUME WorkerStops PROVE TypeOK'
  BY <1>20 DEF WorkerStops, MayFinalize
<1>21. ASSUME FinalizerReturns PROVE TypeOK'
  BY <1>21 DEF FinalizerReturns
<1>22. ASSUME WorkerExits PROVE TypeOK'
  BY <1>22 DEF WorkerExits
<1>23. CASE UNCHANGED vars
  BY <1>23 DEF vars
<1> QED
  BY <1>1, <1>2, <1>3, <1>4, <1>5, <1>6, <1>7, <1>8, <1>9, <1>10, <1>11, <1>12,
     <1>13, <1>14, <1>15, <1>16, <1>17, <1>18, <1>19, <1>20, <1>21, <1>22, <1>23
  DEF Next, Stop, Worker, Threads

-------------------------------------------------------------------------------
(* The stages of a stop *)

\* Every step keeps one canceller, one joiner and a worker that running_ knows of.
LEMMA LifeStays == TypeOK /\ Life /\ [Next]_vars => Life'
<1> SUFFICES ASSUME TypeOK /\ Life, [Next]_vars PROVE Life'
  OBVIOUS
<1> USE CallersAssumption
<1> USE DEF TypeOK, Life, Threads, Pcs, WorkerPcs, LastPcs, requestVars, stopVars,
    workerVars, callVars, lifeVars
<1>1. ASSUME NEW t \in Threads, Start(t) PROVE Life'
  BY <1>1 DEF Start, MayStart, CanCall
<1>2. ASSUME NEW t \in Threads, StopFirst(t) PROVE Life'
  BY <1>2 DEF StopFirst, CanCall, TakeFinalizer, TakeQueue, StopNoted, Counted
<1>3. ASSUME NEW t \in Threads, StopLater(t) PROVE Life'
  <2>1. CASE t = Owner
    <3>1. pc' = [pc EXCEPT ![t] = "out"] /\ UNCHANGED <<joining, joinable>>
      BY <1>3, <2>1, Zenon DEF StopLater, StopTail, StopReturns
    <3> QED
      BY <1>3, <2>1, <3>1 DEF StopLater, CanCall
  <2>2. CASE t # Owner /\ ~joinable /\ ~running
    <3>1. pc' = [pc EXCEPT ![t] = "out"] /\ UNCHANGED <<joining, joinable>>
      BY <1>3, <2>2, Zenon DEF StopLater, StopTail, StopReturns
    <3> QED
      BY <1>3, <2>2, <3>1 DEF StopLater, CanCall
  <2>3. CASE t # Owner /\ (joinable \/ running) /\ joining
    <3>1. pc' = [pc EXCEPT ![t] = "joinwait"] /\ UNCHANGED <<joining, joinable>>
      BY <1>3, <2>3, Zenon DEF StopLater, StopTail, StopReturns
    <3> QED
      BY <1>3, <2>3, <3>1 DEF StopLater, CanCall
  <2>4. CASE t # Owner /\ (joinable \/ running) /\ ~joining
    <3>1. pc' = [pc EXCEPT ![t] = "joining"] /\ joining' = TRUE /\ joinable' = FALSE
      BY <1>3, <2>4, Zenon DEF StopLater, StopTail, StopReturns
    <3> QED
      BY <1>3, <2>4, <3>1 DEF StopLater, CanCall
  <2> QED
    BY <2>1, <2>2, <2>3, <2>4
<1>4. ASSUME NEW t \in Threads, CancelRelease(t) PROVE Life'
  BY <1>4 DEF CancelRelease
<1>5. ASSUME NEW t \in Threads, CancelReport(t) PROVE Life'
  BY <1>5 DEF CancelReport, Report
<1>6. ASSUME NEW t \in Threads, CancelDone(t) PROVE Life'
  <2>1. CASE t = Owner
    <3>1. pc' = [pc EXCEPT ![t] = "out"] /\ UNCHANGED <<joining, joinable>>
      BY <1>6, <2>1, Zenon DEF CancelDone, StopTail, StopReturns
    <3> QED
      BY <1>6, <2>1, <3>1 DEF CancelDone
  <2>2. CASE t # Owner /\ ~joinable /\ ~running
    <3>1. pc' = [pc EXCEPT ![t] = "out"] /\ UNCHANGED <<joining, joinable>>
      BY <1>6, <2>2, Zenon DEF CancelDone, StopTail, StopReturns
    <3> QED
      BY <1>6, <2>2, <3>1 DEF CancelDone
  <2>3. CASE t # Owner /\ (joinable \/ running) /\ joining
    <3>1. pc' = [pc EXCEPT ![t] = "joinwait"] /\ UNCHANGED <<joining, joinable>>
      BY <1>6, <2>3, Zenon DEF CancelDone, StopTail, StopReturns
    <3> QED
      BY <1>6, <2>3, <3>1 DEF CancelDone
  <2>4. CASE t # Owner /\ (joinable \/ running) /\ ~joining
    <3>1. pc' = [pc EXCEPT ![t] = "joining"] /\ joining' = TRUE /\ joinable' = FALSE
      BY <1>6, <2>4, Zenon DEF CancelDone, StopTail, StopReturns
    <3> QED
      BY <1>6, <2>4, <3>1 DEF CancelDone
  <2> QED
    BY <2>1, <2>2, <2>3, <2>4
<1>7. ASSUME NEW t \in Callers, Join(t) PROVE Life'
  BY <1>7 DEF Join, StopReturns
<1>8. ASSUME NEW t \in Callers, JoinWaited(t) PROVE Life'
  BY <1>8 DEF JoinWaited, StopReturns
<1>9. ASSUME NEW t \in Callers, NEW r \in Requests, Invoke(t, r) PROVE Life'
  BY <1>9 DEF Invoke, CanCall, Admits, Push, Free
<1>10. ASSUME NEW t \in Threads, NEW r \in Requests, Submit(t, r) PROVE Life'
  BY <1>10 DEF Submit, CanCall, Admits, Push, Free
<1>11. ASSUME NEW t \in Callers, InvokeReturn(t) PROVE Life'
  BY <1>11 DEF InvokeReturn
<1>12. ASSUME WorkerEnters PROVE Life'
  BY <1>12 DEF WorkerEnters
<1>13. ASSUME WorkerTakes PROVE Life'
  BY <1>13 DEF WorkerTakes
<1>14. ASSUME CallbackReturns PROVE Life'
  BY <1>14 DEF CallbackReturns
<1>15. ASSUME WorkerReleases PROVE Life'
  BY <1>15 DEF WorkerReleases
<1>16. ASSUME WorkerReports PROVE Life'
  BY <1>16 DEF WorkerReports, Report
<1>17. ASSUME WorkerBetween PROVE Life'
  BY <1>17 DEF WorkerBetween
<1>18. ASSUME WorkerIdles PROVE Life'
  BY <1>18 DEF WorkerIdles
<1>19. ASSUME IdleReturns PROVE Life'
  BY <1>19 DEF IdleReturns
<1>20. ASSUME WorkerStops PROVE Life'
  BY <1>20 DEF WorkerStops, MayFinalize
<1>21. ASSUME FinalizerReturns PROVE Life'
  BY <1>21 DEF FinalizerReturns
<1>22. ASSUME WorkerExits PROVE Life'
  BY <1>22 DEF WorkerExits
<1>23. CASE UNCHANGED vars
  BY <1>23 DEF vars
<1> QED
  BY <1>1, <1>2, <1>3, <1>4, <1>5, <1>6, <1>7, <1>8, <1>9, <1>10, <1>11, <1>12,
     <1>13, <1>14, <1>15, <1>16, <1>17, <1>18, <1>19, <1>20, <1>21, <1>22, <1>23
  DEF Next, Stop, Worker, Threads

\* stopCallers_ follows the set of stops under way.
LEMMA CountMoves ==
  ASSUME TypeOK, Count, NEW t \in Callers,
         \/ Stoppers' = Stoppers /\ stopCallers' = stopCallers
         \/ t \notin Stoppers /\ Stoppers' = Stoppers \cup {t} /\ stopCallers' = stopCallers + 1
         \/ t \in Stoppers /\ Stoppers' = Stoppers \ {t} /\ stopCallers' = stopCallers - 1
  PROVE  Count'
<1>1. IsFiniteSet(Stoppers)
  BY CallersAssumption, FS_Subset DEF Stoppers
<1>2. Cardinality(Stoppers) \in Nat
  BY <1>1, FS_CardinalityType
<1>3. t \notin Stoppers => Cardinality(Stoppers \cup {t}) = Cardinality(Stoppers) + 1
  BY <1>1, FS_AddElement
<1>4. t \in Stoppers => Cardinality(Stoppers \ {t}) = Cardinality(Stoppers) - 1
  BY <1>1, FS_RemoveElement
<1> QED
  BY <1>2, <1>3, <1>4 DEF Count

\* stopCallers_ stays the number of external stops that have not returned.
LEMMA CountStays == TypeOK /\ Life /\ Count /\ [Next]_vars => Count'
<1> SUFFICES ASSUME TypeOK /\ Life /\ Count, [Next]_vars PROVE Count'
  OBVIOUS
<1> USE CallersAssumption DEF TypeOK, Life, Threads, Pcs, requestVars, stopVars,
    workerVars, callVars, lifeVars
<1>1. ASSUME NEW t \in Threads, Start(t) PROVE Count'
  BY <1>1 DEF Start, Count, Stoppers
<1>2. ASSUME NEW t \in Threads, StopFirst(t) PROVE Count'
  <2>1. CASE t = Owner
    <3>1. Stoppers' = Stoppers
      BY <1>2, <2>1 DEF StopFirst, Stoppers
    <3> QED
      BY <1>2, <2>1, <3>1 DEF StopFirst, Counted, Count
  <2>2. CASE t # Owner
    <3>1. /\ t \in Callers /\ t \notin Stoppers /\ Stoppers' = Stoppers \cup {t}
          /\ stopCallers' = stopCallers + 1
      BY <1>2, <2>2 DEF StopFirst, CanCall, Counted, Stoppers, StopPcs
    <3> QED
      BY <3>1, CountMoves
  <2> QED
    BY <2>1, <2>2
<1>3. ASSUME NEW t \in Threads, StopLater(t) PROVE Count'
  <2>1. CASE t = Owner
    <3>1. pc' = [pc EXCEPT ![t] = "out"] /\ stopCallers' = stopCallers
      BY <1>3, <2>1, Zenon DEF StopLater, StopTail, Counted
    <3>2. Stoppers' = Stoppers
      BY <2>1, <3>1 DEF Stoppers
    <3> QED
      BY <3>1, <3>2 DEF Count
  <2>2. CASE t # Owner /\ ~joinable /\ ~running
    <3>1. t \in Callers /\ pc' = [pc EXCEPT ![t] = "out"]
      BY <1>3, <2>2, Zenon DEF StopLater, StopTail, StopReturns, Threads
    <3>2. stopCallers' = stopCallers
      BY <1>3, <2>2 DEF StopLater, StopTail, Counted
    <3>3. Stoppers' = Stoppers
      BY <1>3, <2>2, <3>1 DEF StopLater, CanCall, Stoppers, StopPcs
    <3> QED
      BY <3>1, <3>2, <3>3, CountMoves
  <2>3. CASE t # Owner /\ (joinable \/ running) /\ joining
    <3>1. t \in Callers /\ pc' = [pc EXCEPT ![t] = "joinwait"]
      BY <1>3, <2>3, Zenon DEF StopLater, StopTail, StopReturns, Threads
    <3>2. stopCallers' = stopCallers + 1
      BY <1>3, <2>3 DEF StopLater, StopTail, Counted
    <3>3. t \notin Stoppers /\ Stoppers' = Stoppers \cup {t}
      BY <1>3, <2>3, <3>1 DEF StopLater, CanCall, Stoppers, StopPcs
    <3> QED
      BY <3>1, <3>2, <3>3, CountMoves
  <2>4. CASE t # Owner /\ (joinable \/ running) /\ ~joining
    <3>1. t \in Callers /\ pc' = [pc EXCEPT ![t] = "joining"]
      BY <1>3, <2>4, Zenon DEF StopLater, StopTail, StopReturns, Threads
    <3>2. stopCallers' = stopCallers + 1
      BY <1>3, <2>4 DEF StopLater, StopTail, Counted
    <3>3. t \notin Stoppers /\ Stoppers' = Stoppers \cup {t}
      BY <1>3, <2>4, <3>1 DEF StopLater, CanCall, Stoppers, StopPcs
    <3> QED
      BY <3>1, <3>2, <3>3, CountMoves
  <2> QED
    BY <2>1, <2>2, <2>3, <2>4
<1>4. ASSUME NEW t \in Threads, CancelRelease(t) PROVE Count'
  BY <1>4 DEF CancelRelease, Count, Stoppers
<1>5. ASSUME NEW t \in Threads, CancelReport(t) PROVE Count'
  BY <1>5 DEF CancelReport, Count, Stoppers
<1>6. ASSUME NEW t \in Threads, CancelDone(t) PROVE Count'
  <2>1. CASE t = Owner
    <3>1. pc' = [pc EXCEPT ![t] = "out"] /\ stopCallers' = stopCallers
      BY <1>6, <2>1, Zenon DEF CancelDone, StopTail, Counted
    <3>2. Stoppers' = Stoppers
      BY <2>1, <3>1 DEF Stoppers
    <3> QED
      BY <3>1, <3>2 DEF Count
  <2>2. CASE t # Owner /\ ~joinable /\ ~running
    <3>1. t \in Callers /\ pc' = [pc EXCEPT ![t] = "out"]
      BY <1>6, <2>2, Zenon DEF CancelDone, StopTail, StopReturns, Threads
    <3>2. stopCallers' = stopCallers - 1
      BY <1>6, <2>2 DEF CancelDone, StopTail, Counted
    <3>3. t \in Stoppers /\ Stoppers' = Stoppers \ {t}
      BY <1>6, <2>2, <3>1 DEF CancelDone, CanCall, Stoppers, StopPcs
    <3> QED
      BY <3>1, <3>2, <3>3, CountMoves
  <2>3. CASE t # Owner /\ (joinable \/ running) /\ joining
    <3>1. t \in Callers /\ pc' = [pc EXCEPT ![t] = "joinwait"]
      BY <1>6, <2>3, Zenon DEF CancelDone, StopTail, StopReturns, Threads
    <3>2. stopCallers' = stopCallers
      BY <1>6, <2>3 DEF CancelDone, StopTail, Counted
    <3>3. Stoppers' = Stoppers
      BY <1>6, <2>3, <3>1 DEF CancelDone, CanCall, Stoppers, StopPcs
    <3> QED
      BY <3>1, <3>2, <3>3, CountMoves
  <2>4. CASE t # Owner /\ (joinable \/ running) /\ ~joining
    <3>1. t \in Callers /\ pc' = [pc EXCEPT ![t] = "joining"]
      BY <1>6, <2>4, Zenon DEF CancelDone, StopTail, StopReturns, Threads
    <3>2. stopCallers' = stopCallers
      BY <1>6, <2>4 DEF CancelDone, StopTail, Counted
    <3>3. Stoppers' = Stoppers
      BY <1>6, <2>4, <3>1 DEF CancelDone, CanCall, Stoppers, StopPcs
    <3> QED
      BY <3>1, <3>2, <3>3, CountMoves
  <2> QED
    BY <2>1, <2>2, <2>3, <2>4
<1>7. ASSUME NEW t \in Callers, Join(t) PROVE Count'
  <2>1. t \in Stoppers /\ Stoppers' = Stoppers \ {t} /\ stopCallers' = stopCallers - 1
    BY <1>7 DEF Join, StopReturns, Stoppers, StopPcs
  <2> QED
    BY <2>1, CountMoves
<1>8. ASSUME NEW t \in Callers, JoinWaited(t) PROVE Count'
  <2>1. t \in Stoppers /\ Stoppers' = Stoppers \ {t} /\ stopCallers' = stopCallers - 1
    BY <1>8 DEF JoinWaited, StopReturns, Stoppers, StopPcs
  <2> QED
    BY <2>1, CountMoves
<1>9. ASSUME NEW t \in Callers, NEW r \in Requests, Invoke(t, r) PROVE Count'
  <2>1. Stoppers' = Stoppers /\ stopCallers' = stopCallers
    BY <1>9 DEF Invoke, CanCall, Stoppers, StopPcs
  <2> QED
    BY <2>1 DEF Count
<1>10. ASSUME NEW t \in Threads, NEW r \in Requests, Submit(t, r) PROVE Count'
  BY <1>10 DEF Submit, Count, Stoppers
<1>11. ASSUME NEW t \in Callers, InvokeReturn(t) PROVE Count'
  <2>1. Stoppers' = Stoppers /\ stopCallers' = stopCallers
    BY <1>11 DEF InvokeReturn, Stoppers, StopPcs
  <2> QED
    BY <2>1 DEF Count
<1>12. ASSUME WorkerEnters PROVE Count'
  BY <1>12 DEF WorkerEnters, Count, Stoppers
<1>13. ASSUME WorkerTakes PROVE Count'
  BY <1>13 DEF WorkerTakes, Count, Stoppers
<1>14. ASSUME CallbackReturns PROVE Count'
  BY <1>14 DEF CallbackReturns, Count, Stoppers
<1>15. ASSUME WorkerReleases PROVE Count'
  BY <1>15 DEF WorkerReleases, Count, Stoppers
<1>16. ASSUME WorkerReports PROVE Count'
  BY <1>16 DEF WorkerReports, Count, Stoppers
<1>17. ASSUME WorkerBetween PROVE Count'
  BY <1>17 DEF WorkerBetween, Count, Stoppers
<1>18. ASSUME WorkerIdles PROVE Count'
  BY <1>18 DEF WorkerIdles, Count, Stoppers
<1>19. ASSUME IdleReturns PROVE Count'
  BY <1>19 DEF IdleReturns, Count, Stoppers
<1>20. ASSUME WorkerStops PROVE Count'
  BY <1>20 DEF WorkerStops, Count, Stoppers
<1>21. ASSUME FinalizerReturns PROVE Count'
  BY <1>21 DEF FinalizerReturns, Count, Stoppers
<1>22. ASSUME WorkerExits PROVE Count'
  BY <1>22 DEF WorkerExits, Count, Stoppers
<1>23. CASE UNCHANGED vars
  BY <1>23 DEF vars, Count, Stoppers
<1> QED
  BY <1>1, <1>2, <1>3, <1>4, <1>5, <1>6, <1>7, <1>8, <1>9, <1>10, <1>11, <1>12,
     <1>13, <1>14, <1>15, <1>16, <1>17, <1>18, <1>19, <1>20, <1>21, <1>22, <1>23
  DEF Next, Stop, Worker, Threads

-------------------------------------------------------------------------------
(* Who holds a request *)

\* Nothing is queued in an empty queue.
LEMMA EmptyFacts == NoDup(<<>>) /\ \A r : ~QueuedIn(<<>>, r)
  BY DEF NoDup, QueuedIn

\* push_back of a request that is not queued queues it and repeats none.
LEMMA PushFacts ==
  ASSUME NEW q \in Seq(Requests), NEW e \in Requests, NoDup(q), ~QueuedIn(q, e)
  PROVE  /\ NoDup(Append(q, e)) /\ Append(q, e) # <<>>
         /\ \A r : QueuedIn(Append(q, e), r) <=> QueuedIn(q, r) \/ r = e
<1> DEFINE longer == Append(q, e)
<1>1. /\ Len(longer) = Len(q) + 1 /\ longer[Len(q) + 1] = e /\ longer # <<>>
      /\ \A i \in 1 .. Len(q) : longer[i] = q[i]
  OBVIOUS
<1>2. Len(q) \in Nat
  OBVIOUS
<1> HIDE DEF longer
<1>3. NoDup(longer)
  BY <1>1, <1>2 DEF NoDup, QueuedIn
<1>4. \A r : QueuedIn(longer, r) <=> QueuedIn(q, r) \/ r = e
  BY <1>1, <1>2 DEF QueuedIn
<1> QED
  BY <1>1, <1>3, <1>4 DEF longer

\* pop_front takes the head and leaves the others queued.
LEMMA PopFacts ==
  ASSUME NEW q \in Seq(Requests), q # <<>>, NoDup(q)
  PROVE  /\ NoDup(Tail(q)) /\ Head(q) \in Requests /\ QueuedIn(q, Head(q))
         /\ \A r : QueuedIn(Tail(q), r) <=> QueuedIn(q, r) /\ r # Head(q)
<1> DEFINE rest == Tail(q)
<1>1. /\ Len(q) \in Nat \ {0} /\ Len(rest) = Len(q) - 1
      /\ \A i \in 1 .. Len(rest) : rest[i] = q[i + 1]
      /\ Head(q) = q[1] /\ q[1] \in Requests
  OBVIOUS
<1> HIDE DEF rest
<1>2. NoDup(rest)
  BY <1>1 DEF NoDup
<1>3. ASSUME NEW r, QueuedIn(rest, r) PROVE QueuedIn(q, r) /\ r # Head(q)
  <2>1. PICK i \in 1 .. Len(rest) : rest[i] = r
    BY <1>3 DEF QueuedIn
  <2>2. i + 1 \in 1 .. Len(q) /\ q[i + 1] = r
    BY <1>1, <2>1
  <2> QED
    BY <1>1, <2>2 DEF QueuedIn, NoDup
<1>4. ASSUME NEW r, QueuedIn(q, r), r # Head(q) PROVE QueuedIn(rest, r)
  <2>1. PICK i \in 1 .. Len(q) : q[i] = r
    BY <1>4 DEF QueuedIn
  <2>2. i - 1 \in 1 .. Len(rest) /\ rest[i - 1] = r
    BY <1>1, <1>4, <2>1
  <2> QED
    BY <2>2 DEF QueuedIn
<1>5. QueuedIn(q, Head(q))
  BY <1>1 DEF QueuedIn
<1> QED
  BY <1>1, <1>2, <1>3, <1>4, <1>5 DEF rest

\* Every step keeps one holder for every request that is not done.
LEMMA HeldStays == TypeOK /\ Life /\ Held /\ [Next]_vars => Held'
<1> SUFFICES ASSUME TypeOK /\ Life /\ Held, [Next]_vars PROVE Held'
  OBVIOUS
<1> USE RequestsAssumption DEF TypeOK, Life, Held, WorkerPcs, LastPcs, requestVars,
    stopVars, workerVars, callVars, lifeVars
<1>1. ASSUME NEW t \in Threads, Start(t) PROVE Held'
  BY <1>1 DEF Start, MayStart
<1>2. ASSUME NEW t \in Threads, StopFirst(t) PROVE Held'
  <2>1. cancelled' = queue /\ queue' = <<>> /\ cancelled = <<>> /\ ~cancellationReady
    BY <1>2 DEF StopFirst, TakeQueue
  <2> QED
    BY <1>2, <2>1, EmptyFacts DEF StopFirst
<1>3. ASSUME NEW t \in Threads, StopLater(t) PROVE Held'
  BY <1>3 DEF StopLater
<1>4. ASSUME NEW t \in Threads, CancelRelease(t) PROVE Held'
  BY <1>4 DEF CancelRelease
<1>5. ASSUME NEW t \in Threads, CancelReport(t) PROVE Held'
  <2>1. /\ NoDup(cancelled') /\ Head(cancelled) \in Requests
        /\ QueuedIn(cancelled, Head(cancelled))
        /\ \A x : QueuedIn(cancelled', x) <=> QueuedIn(cancelled, x) /\ x # Head(cancelled)
    BY <1>5, PopFacts DEF CancelReport
  <2> QED
    BY <1>5, <2>1 DEF CancelReport, Report
<1>6. ASSUME NEW t \in Threads, CancelDone(t) PROVE Held'
  BY <1>6 DEF CancelDone
<1>7. ASSUME NEW t \in Callers, Join(t) PROVE Held'
  BY <1>7 DEF Join
<1>8. ASSUME NEW t \in Callers, JoinWaited(t) PROVE Held'
  BY <1>8 DEF JoinWaited
<1>9. ASSUME NEW t \in Callers, NEW r \in Requests, Invoke(t, r) PROVE Held'
  <2>1. ~QueuedIn(queue, r) /\ running /\ ~stopping
    BY <1>9 DEF Invoke, Admits, Push, Free
  <2>2. /\ NoDup(queue') /\ \A x : QueuedIn(queue', x) <=> QueuedIn(queue, x) \/ x = r
    BY <1>9, <2>1, PushFacts DEF Invoke, Push
  <2> QED
    BY <1>9, <2>1, <2>2 DEF Invoke, Push, Free
<1>10. ASSUME NEW t \in Threads, NEW r \in Requests, Submit(t, r) PROVE Held'
  <2>1. ~QueuedIn(queue, r) /\ running /\ ~stopping
    BY <1>10 DEF Submit, Admits, Push, Free
  <2>2. /\ NoDup(queue') /\ \A x : QueuedIn(queue', x) <=> QueuedIn(queue, x) \/ x = r
    BY <1>10, <2>1, PushFacts DEF Submit, Push
  <2> QED
    BY <1>10, <2>1, <2>2 DEF Submit, Push, Free
<1>11. ASSUME NEW t \in Callers, InvokeReturn(t) PROVE Held'
  BY <1>11 DEF InvokeReturn
<1>12. ASSUME WorkerEnters PROVE Held'
  BY <1>12 DEF WorkerEnters
<1>13. ASSUME WorkerTakes PROVE Held'
  <2>1. /\ NoDup(queue') /\ Head(queue) \in Requests
        /\ QueuedIn(queue, Head(queue))
        /\ \A x : QueuedIn(queue', x) <=> QueuedIn(queue, x) /\ x # Head(queue)
    BY <1>13, PopFacts DEF WorkerTakes
  <2> QED
    BY <1>13, <2>1 DEF WorkerTakes
<1>14. ASSUME CallbackReturns PROVE Held'
  BY <1>14 DEF CallbackReturns
<1>15. ASSUME WorkerReleases PROVE Held'
  BY <1>15 DEF WorkerReleases
<1>16. ASSUME WorkerReports PROVE Held'
  BY <1>16 DEF WorkerReports, Report
<1>17. ASSUME WorkerBetween PROVE Held'
  BY <1>17 DEF WorkerBetween
<1>18. ASSUME WorkerIdles PROVE Held'
  BY <1>18 DEF WorkerIdles
<1>19. ASSUME IdleReturns PROVE Held'
  BY <1>19 DEF IdleReturns
<1>20. ASSUME WorkerStops PROVE Held'
  BY <1>20 DEF WorkerStops, MayFinalize
<1>21. ASSUME FinalizerReturns PROVE Held'
  BY <1>21 DEF FinalizerReturns
<1>22. ASSUME WorkerExits PROVE Held'
  BY <1>22 DEF WorkerExits
<1>23. CASE UNCHANGED vars
  BY <1>23 DEF vars
<1> QED
  BY <1>1, <1>2, <1>3, <1>4, <1>5, <1>6, <1>7, <1>8, <1>9, <1>10, <1>11, <1>12,
     <1>13, <1>14, <1>15, <1>16, <1>17, <1>18, <1>19, <1>20, <1>21, <1>22, <1>23
  DEF Next, Stop, Worker, Threads

-------------------------------------------------------------------------------
(* Generations *)

\* A start finds no stop under way.
LEMMA StartIsAlone ==
  ASSUME TypeOK, Count, stopCallers = 0
  PROVE  \A t \in Callers : pc[t] \notin StopPcs
<1>1. IsFiniteSet(Stoppers)
  BY CallersAssumption, FS_Subset DEF Stoppers
<1>2. Stoppers = {}
  BY <1>1, FS_EmptySet DEF Count
<1> QED
  BY <1>2 DEF Stoppers

\* A stop returns the outcome of the generation it began in, and keeps it.
LEMMA OutcomesStay == TypeOK /\ Life /\ Count /\ Outcomes /\ [Next]_vars => Outcomes'
<1> SUFFICES ASSUME TypeOK /\ Life /\ Count /\ Outcomes, [Next]_vars PROVE Outcomes'
  OBVIOUS
<1> USE CallersAssumption, BoundsAssumption
<1> USE DEF TypeOK, Life, Outcomes, Threads, Pcs, WorkerPcs, StopPcs, LastPcs,
    requestVars, stopVars, workerVars, callVars, lifeVars
<1>1. ASSUME NEW t \in Threads, Start(t) PROVE Outcomes'
  <2>1. \A c \in Callers : pc[c] \notin StopPcs
    BY <1>1, StartIsAlone DEF Start, MayStart
  <2> QED
    BY <1>1, <2>1 DEF Start, MayStart
<1>2. ASSUME NEW t \in Threads, StopFirst(t) PROVE Outcomes'
  BY <1>2 DEF StopFirst, CanCall, TakeFinalizer, TakeQueue, StopNoted, Counted
<1>3. ASSUME NEW t \in Threads, StopLater(t) PROVE Outcomes'
  <2>1. CASE t = Owner
    <3>1. pc' = [pc EXCEPT ![t] = "out"] /\ UNCHANGED <<returned, entered>>
      BY <1>3, <2>1, Zenon DEF StopLater, StopTail, StopNoted, callVars
    <3> QED
      BY <1>3, <2>1, <3>1 DEF StopLater
  <2>2. CASE t # Owner /\ ~joinable /\ ~running
    <3>1. /\ t \in Callers /\ pc' = [pc EXCEPT ![t] = "out"]
          /\ returned' = [returned EXCEPT ![t] = IF finalOutcome THEN "true" ELSE "false"]
      BY <1>3, <2>2, Zenon DEF StopLater, StopTail, StopReturns, Threads
    <3> QED
      BY <1>3, <2>2, <3>1 DEF StopLater, StopNoted
  <2>3. CASE t # Owner /\ (joinable \/ running) /\ joining
    <3>1. /\ t \in Callers /\ pc' = [pc EXCEPT ![t] = "joinwait"]
          /\ UNCHANGED returned
      BY <1>3, <2>3, Zenon DEF StopLater, StopTail, StopReturns, Threads
    <3> QED
      BY <1>3, <2>3, <3>1 DEF StopLater, StopNoted
  <2>4. CASE t # Owner /\ (joinable \/ running) /\ ~joining
    <3>1. /\ t \in Callers /\ pc' = [pc EXCEPT ![t] = "joining"]
          /\ UNCHANGED returned
      BY <1>3, <2>4, Zenon DEF StopLater, StopTail, StopReturns, Threads
    <3> QED
      BY <1>3, <2>4, <3>1 DEF StopLater, StopNoted
  <2> QED
    BY <2>1, <2>2, <2>3, <2>4
<1>4. ASSUME NEW t \in Threads, CancelRelease(t) PROVE Outcomes'
  BY <1>4 DEF CancelRelease
<1>5. ASSUME NEW t \in Threads, CancelReport(t) PROVE Outcomes'
  BY <1>5 DEF CancelReport, Report
<1>6. ASSUME NEW t \in Threads, CancelDone(t) PROVE Outcomes'
  <2>1. CASE t = Owner
    <3>1. pc' = [pc EXCEPT ![t] = "out"] /\ UNCHANGED <<returned, entered>>
      BY <1>6, <2>1, Zenon DEF CancelDone, StopTail, StopNoted, callVars
    <3> QED
      BY <1>6, <2>1, <3>1 DEF CancelDone
  <2>2. CASE t # Owner /\ ~joinable /\ ~running
    <3>1. /\ t \in Callers /\ pc' = [pc EXCEPT ![t] = "out"]
          /\ returned' = [returned EXCEPT ![t] = IF finalOutcome THEN "true" ELSE "false"]
      BY <1>6, <2>2, Zenon DEF CancelDone, StopTail, StopReturns, Threads
    <3> QED
      BY <1>6, <2>2, <3>1 DEF CancelDone
  <2>3. CASE t # Owner /\ (joinable \/ running) /\ joining
    <3>1. /\ t \in Callers /\ pc' = [pc EXCEPT ![t] = "joinwait"]
          /\ UNCHANGED returned
      BY <1>6, <2>3, Zenon DEF CancelDone, StopTail, StopReturns, Threads
    <3> QED
      BY <1>6, <2>3, <3>1 DEF CancelDone
  <2>4. CASE t # Owner /\ (joinable \/ running) /\ ~joining
    <3>1. /\ t \in Callers /\ pc' = [pc EXCEPT ![t] = "joining"]
          /\ UNCHANGED returned
      BY <1>6, <2>4, Zenon DEF CancelDone, StopTail, StopReturns, Threads
    <3> QED
      BY <1>6, <2>4, <3>1 DEF CancelDone
  <2> QED
    BY <2>1, <2>2, <2>3, <2>4
<1>7. ASSUME NEW t \in Callers, Join(t) PROVE Outcomes'
  BY <1>7 DEF Join, StopReturns
<1>8. ASSUME NEW t \in Callers, JoinWaited(t) PROVE Outcomes'
  BY <1>8 DEF JoinWaited, StopReturns
<1>9. ASSUME NEW t \in Callers, NEW r \in Requests, Invoke(t, r) PROVE Outcomes'
  BY <1>9 DEF Invoke, CanCall, Admits, Push, Free
<1>10. ASSUME NEW t \in Threads, NEW r \in Requests, Submit(t, r) PROVE Outcomes'
  BY <1>10 DEF Submit, CanCall, Admits, Push, Free
<1>11. ASSUME NEW t \in Callers, InvokeReturn(t) PROVE Outcomes'
  BY <1>11 DEF InvokeReturn
<1>12. ASSUME WorkerEnters PROVE Outcomes'
  BY <1>12 DEF WorkerEnters
<1>13. ASSUME WorkerTakes PROVE Outcomes'
  BY <1>13 DEF WorkerTakes
<1>14. ASSUME CallbackReturns PROVE Outcomes'
  BY <1>14 DEF CallbackReturns
<1>15. ASSUME WorkerReleases PROVE Outcomes'
  BY <1>15 DEF WorkerReleases
<1>16. ASSUME WorkerReports PROVE Outcomes'
  BY <1>16 DEF WorkerReports, Report
<1>17. ASSUME WorkerBetween PROVE Outcomes'
  BY <1>17 DEF WorkerBetween
<1>18. ASSUME WorkerIdles PROVE Outcomes'
  BY <1>18 DEF WorkerIdles
<1>19. ASSUME IdleReturns PROVE Outcomes'
  BY <1>19 DEF IdleReturns
<1>20. ASSUME WorkerStops PROVE Outcomes'
  BY <1>20 DEF WorkerStops, MayFinalize
<1>21. ASSUME FinalizerReturns PROVE Outcomes'
  BY <1>21 DEF FinalizerReturns
<1>22. ASSUME WorkerExits PROVE Outcomes'
  BY <1>22 DEF WorkerExits
<1>23. CASE UNCHANGED vars
  BY <1>23 DEF vars
<1> QED
  BY <1>1, <1>2, <1>3, <1>4, <1>5, <1>6, <1>7, <1>8, <1>9, <1>10, <1>11, <1>12,
     <1>13, <1>14, <1>15, <1>16, <1>17, <1>18, <1>19, <1>20, <1>21, <1>22, <1>23
  DEF Next, Stop, Worker, Threads

\* The finalizer the first stop gave is the one that runs, once.
LEMMA FinalsStay == TypeOK /\ Life /\ Finals /\ [Next]_vars => Finals'
<1> SUFFICES ASSUME TypeOK /\ Life /\ Finals, [Next]_vars PROVE Finals'
  OBVIOUS
<1> USE DEF TypeOK, Life, Finals, WorkerPcs, LastPcs, requestVars, stopVars, workerVars,
    callVars, lifeVars
<1>1. ASSUME NEW t \in Threads, Start(t) PROVE Finals'
  BY <1>1 DEF Start, MayStart, CanCall
<1>2. ASSUME NEW t \in Threads, StopFirst(t) PROVE Finals'
  BY <1>2 DEF StopFirst, CanCall, TakeFinalizer, TakeQueue, StopNoted, Counted
<1>3. ASSUME NEW t \in Threads, StopLater(t) PROVE Finals'
  BY <1>3 DEF StopLater
<1>4. ASSUME NEW t \in Threads, CancelRelease(t) PROVE Finals'
  BY <1>4 DEF CancelRelease
<1>5. ASSUME NEW t \in Threads, CancelReport(t) PROVE Finals'
  BY <1>5 DEF CancelReport, Report
<1>6. ASSUME NEW t \in Threads, CancelDone(t) PROVE Finals'
  BY <1>6 DEF CancelDone
<1>7. ASSUME NEW t \in Callers, Join(t) PROVE Finals'
  BY <1>7 DEF Join, StopReturns
<1>8. ASSUME NEW t \in Callers, JoinWaited(t) PROVE Finals'
  BY <1>8 DEF JoinWaited, StopReturns
<1>9. ASSUME NEW t \in Callers, NEW r \in Requests, Invoke(t, r) PROVE Finals'
  BY <1>9 DEF Invoke, CanCall, Admits, Push, Free
<1>10. ASSUME NEW t \in Threads, NEW r \in Requests, Submit(t, r) PROVE Finals'
  BY <1>10 DEF Submit, CanCall, Admits, Push, Free
<1>11. ASSUME NEW t \in Callers, InvokeReturn(t) PROVE Finals'
  BY <1>11 DEF InvokeReturn
<1>12. ASSUME WorkerEnters PROVE Finals'
  BY <1>12 DEF WorkerEnters
<1>13. ASSUME WorkerTakes PROVE Finals'
  BY <1>13 DEF WorkerTakes
<1>14. ASSUME CallbackReturns PROVE Finals'
  BY <1>14 DEF CallbackReturns
<1>15. ASSUME WorkerReleases PROVE Finals'
  BY <1>15 DEF WorkerReleases
<1>16. ASSUME WorkerReports PROVE Finals'
  BY <1>16 DEF WorkerReports, Report
<1>17. ASSUME WorkerBetween PROVE Finals'
  BY <1>17 DEF WorkerBetween
<1>18. ASSUME WorkerIdles PROVE Finals'
  BY <1>18 DEF WorkerIdles
<1>19. ASSUME IdleReturns PROVE Finals'
  BY <1>19 DEF IdleReturns
<1>20. ASSUME WorkerStops PROVE Finals'
  BY <1>20 DEF WorkerStops, MayFinalize
<1>21. ASSUME FinalizerReturns PROVE Finals'
  BY <1>21 DEF FinalizerReturns
<1>22. ASSUME WorkerExits PROVE Finals'
  BY <1>22 DEF WorkerExits
<1>23. CASE UNCHANGED vars
  BY <1>23 DEF vars
<1> QED
  BY <1>1, <1>2, <1>3, <1>4, <1>5, <1>6, <1>7, <1>8, <1>9, <1>10, <1>11, <1>12,
     <1>13, <1>14, <1>15, <1>16, <1>17, <1>18, <1>19, <1>20, <1>21, <1>22, <1>23
  DEF Next, Stop, Worker, Threads

-------------------------------------------------------------------------------
(* The invariant and the theorems *)

\* A service that has not been started.
LEMMA InitEstablishes == Init => IInv
<1> SUFFICES ASSUME Init PROVE IInv
  OBVIOUS
<1> USE CallersAssumption, RequestsAssumption, BoundsAssumption
<1>1. Flags
  BY Zenon DEF Init, Flags
<1>2. TypeOK
  BY <1>1 DEF Init, TypeOK, Flags, Threads, Pcs, WorkerPcs
<1>3. Life
  BY DEF Init, Life, Threads, LastPcs
<1>4. Count
  <2>1. Stoppers = {}
    BY DEF Init, Stoppers, StopPcs, Threads
  <2> QED
    BY <2>1, FS_EmptySet DEF Init, Count
<1>5. Held
  BY EmptyFacts DEF Init, Held
<1>6. Outcomes
  BY DEF Init, Outcomes, StopPcs, Threads
<1>7. Finals
  BY DEF Init, Finals, LastPcs
<1> QED
  BY <1>2, <1>3, <1>4, <1>5, <1>6, <1>7 DEF IInv

\* IInv holds in every reachable state.
LEMMA Inductive == Spec => []IInv
<1>1. IInv /\ [Next]_vars => IInv'
  BY TypesStay, LifeStays, CountStays, HeldStays, OutcomesStay, FinalsStay DEF IInv
<1> QED
  BY <1>1, InitEstablishes, PTL DEF Spec

\* A request that is done has no holder, another one has exactly one.
LEMMA HoldersAreCounted == IInv => ReportedOnce
<1> SUFFICES ASSUME IInv, NEW r \in Requests PROVE ReportedOnce!(r)
  BY DEF ReportedOnce
<1> DEFINE holders == {h \in {"queue", "worker", "stop"} :
                        \/ h = "queue" /\ QueuedIn(queue, r)
                        \/ h = "worker" /\ current = r
                        \/ h = "stop" /\ QueuedIn(cancelled, r)}
<1> USE DEF IInv, Held
<1>1. r \in done => holders = {}
  OBVIOUS
<1>2. r \notin done => \E h : holders = {h}
  <2>1. ASSUME r \notin done, QueuedIn(queue, r) PROVE holders = {"queue"}
    BY <2>1
  <2>2. ASSUME r \notin done, current = r PROVE holders = {"worker"}
    BY <2>2
  <2>3. ASSUME r \notin done, QueuedIn(cancelled, r) PROVE holders = {"stop"}
    BY <2>3
  <2> QED
    BY <2>1, <2>2, <2>3
<1>3. Cardinality(holders) = IF r \in done THEN 0 ELSE 1
  BY <1>1, <1>2, FS_EmptySet, FS_Singleton
<1> QED
  BY <1>3

\* With the service down and every call returned nothing is left.
LEMMA DownIsQuiet == IInv => StoppedIsQuiet
<1> SUFFICES ASSUME IInv, wpc = "none", \A t \in Threads : pc[t] = "out"
             PROVE  StoppedIsQuiet
  BY DEF StoppedIsQuiet
<1> USE DEF IInv, TypeOK
<1>1. ~running /\ ~stopping /\ ~joining /\ ~joinable
  BY DEF Life
<1>2. queue = <<>> /\ cancelled = <<>> /\ current = None
  BY <1>1 DEF Held
<1>3. done = Requests /\ captured = {}
  BY <1>2, EmptyFacts, RequestsAssumption DEF Held
<1>4. stopCallers = 0
  <2>1. Stoppers = {}
    BY DEF Stoppers, StopPcs, Threads
  <2> QED
    BY <2>1, FS_EmptySet DEF Count
<1> QED
  BY <1>1, <1>2, <1>3, <1>4 DEF StoppedIsQuiet

\* The state keeps its types and bounds, every accepted request has one holder
\* until it is reported, once, and nothing is left between two generations.
THEOREM Consistency == Spec => []Consistent
<1>1. IInv => Consistent
  BY HoldersAreCounted, DownIsQuiet DEF IInv, Consistent
<1> QED
  BY <1>1, Inductive, PTL

\* The invariant is at least as strong as what stop promises.
LEMMA PromiseFollows == IInv => StopContract
<1> SUFFICES ASSUME IInv PROVE StopContract
  OBVIOUS
<1> USE DEF IInv, TypeOK
<1>1. FinalizerIsLast
  <2> SUFFICES ASSUME wpc \in LastPcs PROVE done = Requests /\ captured = {}
    BY DEF FinalizerIsLast, LastPcs
  <2>1. queue = <<>> /\ cancelled = <<>> /\ current = None
    BY DEF Life, Held, LastPcs
  <2>2. \A r \in Requests : r \in done /\ r \notin captured
    BY <2>1, EmptyFacts, RequestsAssumption DEF Held
  <2> QED
    BY <2>2
<1>2. FinalizerRunsOnce
  BY DEF FinalizerRunsOnce, Finals, Life, LastPcs, WorkerPcs
<1>3. StopReportsItsGeneration
  BY DEF StopReportsItsGeneration, Outcomes, StopPcs
<1>4. StartIsFresh
  <2> SUFFICES ASSUME MayStart PROVE wpc = "none" /\ \A t \in Callers : pc[t] \in {"out", "waiting"}
    BY DEF StartIsFresh
  <2>1. \A t \in Callers : pc[t] \notin StopPcs
    BY StartIsAlone DEF MayStart
  <2> QED
    BY <2>1 DEF MayStart, Life, StopPcs, Pcs, Threads
<1> QED
  BY <1>1, <1>2, <1>3, <1>4 DEF StopContract, FinalizerRunsLast

\* However many stops race, one from the owner's own callback, and however often
\* the service is started again: the finalizer of the first stop runs once and
\* last, every stop returns the outcome of its own generation, and no worker
\* starts before the stops of the previous one are over.
THEOREM KeepsContract == Spec => []StopContract
  BY Inductive, PromiseFollows, PTL

-------------------------------------------------------------------------------
(* The service implements Executor *)

\* What a reader of the executor's variables sees of a step that changes neither
\* admission, nor the set of done requests, nor the one the worker has.
LEMMA Invisible ==
  ASSUME UNCHANGED <<done, current, success>>, running' /\ ~stopping' <=> running /\ ~stopping
  PROVE  UNCHANGED Promise!executorVars
  BY DEF Promise!executorVars, StatusOf

\* Every step of a caller, a stop or the worker is a step of the executor or
\* invisible to it: start opens it, the first stop closes it, a cancellation and
\* the worker's report finish a request, everything else is bookkeeping.
LEMMA StepRefines == IInv /\ [Next]_vars => [Promise!ExecutorNext]_(Promise!executorVars)
<1> SUFFICES ASSUME IInv, [Next]_vars PROVE [Promise!ExecutorNext]_(Promise!executorVars)
  OBVIOUS
<1> USE DEF IInv, TypeOK, requestVars, stopVars, workerVars, callVars, lifeVars
<1>1. ASSUME NEW t \in Threads, Start(t) PROVE [Promise!ExecutorNext]_(Promise!executorVars)
  <2>1. queue = <<>> /\ cancelled = <<>> /\ current = None
    BY <1>1 DEF Start, MayStart, Life, Held
  <2>2. \A r \in Requests : StatusOf(r) = "finished"
    BY <2>1, EmptyFacts, RequestsAssumption DEF Held, StatusOf
  <2>3. Promise!Open
    BY <1>1, <2>2 DEF Start, MayStart, Promise!Open, StatusOf
  <2> QED
    BY <2>3 DEF Promise!ExecutorNext
<1>2. ASSUME NEW t \in Threads, StopFirst(t) PROVE [Promise!ExecutorNext]_(Promise!executorVars)
  <2>1. Promise!Close
    BY <1>2 DEF StopFirst, Promise!Close, StatusOf, Life
  <2> QED
    BY <2>1 DEF Promise!ExecutorNext
<1>3. ASSUME NEW t \in Threads, StopLater(t) PROVE [Promise!ExecutorNext]_(Promise!executorVars)
  BY <1>3, Invisible DEF StopLater
<1>4. ASSUME NEW t \in Threads, CancelRelease(t) PROVE [Promise!ExecutorNext]_(Promise!executorVars)
  BY <1>4, Invisible DEF CancelRelease
<1>5. ASSUME NEW t \in Threads, CancelReport(t) PROVE [Promise!ExecutorNext]_(Promise!executorVars)
  <2> DEFINE r == Head(cancelled)
  <2>1. r \in Requests /\ r \notin done /\ current # r
    BY <1>5, PopFacts DEF CancelReport, Held
  <2>2. Promise!Cancel(r)
    BY <1>5, <2>1 DEF CancelReport, Report, Promise!Cancel, StatusOf
  <2> QED
    BY <2>1, <2>2 DEF Promise!ExecutorNext
<1>6. ASSUME NEW t \in Threads, CancelDone(t) PROVE [Promise!ExecutorNext]_(Promise!executorVars)
  BY <1>6, Invisible DEF CancelDone
<1>7. ASSUME NEW t \in Callers, Join(t) PROVE [Promise!ExecutorNext]_(Promise!executorVars)
  BY <1>7, Invisible DEF Join, Life
<1>8. ASSUME NEW t \in Callers, JoinWaited(t) PROVE [Promise!ExecutorNext]_(Promise!executorVars)
  BY <1>8, Invisible DEF JoinWaited
<1>9. ASSUME NEW t \in Callers, NEW r \in Requests, Invoke(t, r)
      PROVE  [Promise!ExecutorNext]_(Promise!executorVars)
  <2>1. r \in done /\ current # r /\ running /\ ~stopping
    BY <1>9 DEF Invoke, Admits, Push, Free, Held
  <2>2. Promise!Accept(r)
    BY <1>9, <2>1 DEF Invoke, Push, Promise!Accept, StatusOf
  <2> QED
    BY <2>2 DEF Promise!ExecutorNext
<1>10. ASSUME NEW t \in Threads, NEW r \in Requests, Submit(t, r)
       PROVE  [Promise!ExecutorNext]_(Promise!executorVars)
  <2>1. r \in done /\ current # r /\ running /\ ~stopping
    BY <1>10 DEF Submit, Admits, Push, Free, Held
  <2>2. Promise!Accept(r)
    BY <1>10, <2>1 DEF Submit, Push, Promise!Accept, StatusOf
  <2> QED
    BY <2>2 DEF Promise!ExecutorNext
<1>11. ASSUME NEW t \in Callers, InvokeReturn(t) PROVE [Promise!ExecutorNext]_(Promise!executorVars)
  BY <1>11, Invisible DEF InvokeReturn
<1>12. ASSUME WorkerEnters PROVE [Promise!ExecutorNext]_(Promise!executorVars)
  BY <1>12, Invisible DEF WorkerEnters
<1>13. ASSUME WorkerTakes PROVE [Promise!ExecutorNext]_(Promise!executorVars)
  <2> DEFINE r == Head(queue)
  <2>1. r \in Requests /\ r \notin done /\ current = None /\ running /\ ~stopping
    BY <1>13, PopFacts DEF WorkerTakes, Held, Life
  <2>2. \A q \in Requests : StatusOf(q) # "running"
    BY <2>1, RequestsAssumption DEF StatusOf
  <2>3. Promise!Begin(r)
    BY <1>13, <2>1, <2>2, RequestsAssumption DEF WorkerTakes, Promise!Begin, StatusOf
  <2> QED
    BY <2>1, <2>3 DEF Promise!ExecutorNext
<1>14. ASSUME CallbackReturns PROVE [Promise!ExecutorNext]_(Promise!executorVars)
  BY <1>14, Invisible DEF CallbackReturns
<1>15. ASSUME WorkerReleases PROVE [Promise!ExecutorNext]_(Promise!executorVars)
  BY <1>15, Invisible DEF WorkerReleases
<1>16. ASSUME WorkerReports PROVE [Promise!ExecutorNext]_(Promise!executorVars)
  <2>1. current \in Requests /\ current \notin done
    BY <1>16 DEF WorkerReports, Held
  <2>2. Promise!End(current, ended[current] = "ok")
    BY <1>16, <2>1, RequestsAssumption DEF WorkerReports, Report, Promise!End, StatusOf
  <2> QED
    BY <2>1, <2>2 DEF Promise!ExecutorNext
<1>17. ASSUME WorkerBetween PROVE [Promise!ExecutorNext]_(Promise!executorVars)
  BY <1>17, Invisible DEF WorkerBetween
<1>18. ASSUME WorkerIdles PROVE [Promise!ExecutorNext]_(Promise!executorVars)
  BY <1>18, Invisible DEF WorkerIdles
<1>19. ASSUME IdleReturns PROVE [Promise!ExecutorNext]_(Promise!executorVars)
  BY <1>19, Invisible DEF IdleReturns
<1>20. ASSUME WorkerStops PROVE [Promise!ExecutorNext]_(Promise!executorVars)
  BY <1>20, Invisible DEF WorkerStops
<1>21. ASSUME FinalizerReturns PROVE [Promise!ExecutorNext]_(Promise!executorVars)
  BY <1>21, Invisible DEF FinalizerReturns
<1>22. ASSUME WorkerExits PROVE [Promise!ExecutorNext]_(Promise!executorVars)
  BY <1>22, Invisible DEF WorkerExits
<1>23. CASE UNCHANGED vars
  BY <1>23, Invisible DEF vars
<1> QED
  BY <1>1, <1>2, <1>3, <1>4, <1>5, <1>6, <1>7, <1>8, <1>9, <1>10, <1>11, <1>12,
     <1>13, <1>14, <1>15, <1>16, <1>17, <1>18, <1>19, <1>20, <1>21, <1>22, <1>23
  DEF Next, Stop, Worker, Threads

\* OwnerService implements Executor, so that RenderThreadDispatcher may use the
\* executor in its place.
THEOREM RefinesExecutor == Spec => IsExecutor
<1>1. Init => Promise!ExecutorInit
  BY DEF Init, Promise!ExecutorInit, StatusOf
<1>2. IInv /\ [Next]_vars => [Promise!ExecutorNext]_(Promise!executorVars)
  BY StepRefines
<1> QED
  BY <1>1, <1>2, Inductive, PTL DEF Spec, IsExecutor, Promise!ExecutorSpec
===============================================================================
