----------------------- MODULE PresentWorkQueueProofs -----------------------
(***************************************************************************)
(* Theorems about PresentWorkQueue for any set of threads and any capacity *)
(* of the queue.                                                           *)
(***************************************************************************)
EXTENDS PresentWorkQueue, TLAPS, FiniteSetTheorems

NoDup(q) == \A i, j \in 1 .. Len(q) : q[i] = q[j] => i = j

-----------------------------------------------------------------------------
(* What the three queue operations do to the set of queued requests. *)

\* push_back of a request that is not queued adds it and keeps queue_ free of
\* duplicates.
LEMMA AppendFacts ==
  ASSUME NEW S, NEW q \in Seq(S), NEW e \in S, NoDup(q), ~QueuedIn(q, e)
  PROVE  /\ Append(q, e) \in Seq(S) /\ Len(Append(q, e)) = Len(q) + 1
         /\ NoDup(Append(q, e))
         /\ \A r : QueuedIn(Append(q, e), r) <=> QueuedIn(q, r) \/ r = e
<1> DEFINE a == Append(q, e)
<1>1. /\ a \in Seq(S) /\ Len(a) = Len(q) + 1 /\ a[Len(q) + 1] = e
      /\ \A i \in 1 .. Len(q) : a[i] = q[i]
  OBVIOUS
<1> HIDE DEF a
<1>2. NoDup(a)
  BY <1>1 DEF NoDup, QueuedIn
<1>3. ASSUME NEW r PROVE QueuedIn(a, r) <=> QueuedIn(q, r) \/ r = e
  BY <1>1 DEF QueuedIn
<1> QED BY <1>1, <1>2, <1>3 DEF a

\* pop_front removes exactly the head.
LEMMA TailFacts ==
  ASSUME NEW S, NEW q \in Seq(S), q # <<>>, NoDup(q)
  PROVE  /\ Tail(q) \in Seq(S) /\ Len(Tail(q)) = Len(q) - 1
         /\ NoDup(Tail(q))
         /\ Head(q) \in S /\ QueuedIn(q, Head(q))
         /\ \A r : QueuedIn(Tail(q), r) <=> QueuedIn(q, r) /\ r # Head(q)
<1> DEFINE a == Tail(q)
<1>1. /\ a \in Seq(S) /\ Len(a) = Len(q) - 1 /\ Len(q) \in Nat \ {0}
      /\ \A i \in 1 .. Len(a) : a[i] = q[i + 1]
      /\ Head(q) = q[1] /\ q[1] \in S
  OBVIOUS
<1> HIDE DEF a
<1>2. NoDup(a)
  BY <1>1 DEF NoDup
<1>3. ASSUME NEW r PROVE QueuedIn(a, r) <=> QueuedIn(q, r) /\ r # Head(q)
  <2>1. ASSUME QueuedIn(a, r) PROVE QueuedIn(q, r) /\ r # Head(q)
    <3>1. PICK i \in 1 .. Len(a) : a[i] = r BY <2>1 DEF QueuedIn
    <3>2. q[i + 1] = r /\ i + 1 \in 1 .. Len(q) BY <3>1, <1>1
    <3> QED BY <3>2, <1>1 DEF QueuedIn, NoDup
  <2>2. ASSUME QueuedIn(q, r), r # Head(q) PROVE QueuedIn(a, r)
    <3>1. PICK i \in 1 .. Len(q) : q[i] = r BY <2>2 DEF QueuedIn
    <3>2. i - 1 \in 1 .. Len(a) /\ a[i - 1] = r BY <3>1, <2>2, <1>1
    <3> QED BY <3>2 DEF QueuedIn
  <2> QED BY <2>1, <2>2
<1>4. QueuedIn(q, Head(q))
  BY <1>1 DEF QueuedIn
<1> QED BY <1>1, <1>2, <1>3, <1>4 DEF a

\* erase removes exactly the element it is given.
LEMMA EraseFacts ==
  ASSUME NEW S, NEW q \in Seq(S), NEW i \in 1 .. Len(q), NoDup(q)
  PROVE  /\ Erase(q, i) \in Seq(S) /\ Len(Erase(q, i)) = Len(q) - 1
         /\ NoDup(Erase(q, i))
         /\ \A r : QueuedIn(Erase(q, i), r) <=> QueuedIn(q, r) /\ r # q[i]
<1> DEFINE a == Erase(q, i)
<1>1. /\ a \in Seq(S) /\ Len(a) = Len(q) - 1 /\ Len(q) \in Nat \ {0}
      /\ \A j \in 1 .. Len(a) : a[j] = IF j < i THEN q[j] ELSE q[j + 1]
  BY DEF Erase
<1> HIDE DEF a
<1>2. NoDup(a)
  BY <1>1 DEF NoDup
<1>3. ASSUME NEW r PROVE QueuedIn(a, r) <=> QueuedIn(q, r) /\ r # q[i]
  <2>1. ASSUME QueuedIn(a, r) PROVE QueuedIn(q, r) /\ r # q[i]
    <3>1. PICK j \in 1 .. Len(a) : a[j] = r BY <2>1 DEF QueuedIn
    <3>2. PICK k \in 1 .. Len(q) : q[k] = r /\ k # i
      <4>1. CASE j < i BY <4>1, <3>1, <1>1
      <4>2. CASE ~(j < i) BY <4>2, <3>1, <1>1
      <4> QED BY <4>1, <4>2
    <3> QED BY <3>2 DEF QueuedIn, NoDup
  <2>2. ASSUME QueuedIn(q, r), r # q[i] PROVE QueuedIn(a, r)
    <3>1. PICK k \in 1 .. Len(q) : q[k] = r BY <2>2 DEF QueuedIn
    <3>2. CASE k < i
      <4>1. k \in 1 .. Len(a) /\ a[k] = r BY <3>2, <3>1, <1>1
      <4> QED BY <4>1 DEF QueuedIn
    <3>3. CASE ~(k < i)
      <4>1. k - 1 \in 1 .. Len(a) /\ a[k - 1] = r BY <3>3, <3>1, <2>2, <1>1
      <4> QED BY <4>1 DEF QueuedIn
    <3> QED BY <3>2, <3>3
  <2> QED BY <2>1, <2>2
<1> QED BY <1>1, <1>2, <1>3 DEF a

-----------------------------------------------------------------------------
(* The inductive invariant: who holds a request and what its fields then say. *)

\* A thread in pump is the bound one, has active_ set and holds a request.
PumpInv ==
  /\ \A t \in Threads : pc[t] \in PumpPcs => t = renderThread /\ held[t] # None
  /\ \A t \in Threads : held[t] # None => pc[t] \in PumpPcs
  /\ active <=> \E t \in Threads : pc[t] \in PumpPcs

\* A thread in close is outside the queue or in a callback, and holds a request
\* exactly between the two critical sections of the loop.
CloseInv ==
  /\ \A t \in Threads : closePc[t] # "out" => pc[t] \in {"out", "running"}
  /\ \A t \in Threads : closing[t] # None <=> closePc[t] \in {"popped",
      "released"}
  /\ \A t, u \in Threads : closing[t] = closing[u] /\ closing[t] # None => t = u

\* Nothing has happened to r's callback.
Untouched(r) == starts[r] = 0 /\ outcome[r] = "none"

QueuedInv ==
  /\ NoDup(queue)
  /\ \A r \in Threads : QueuedIn(queue, r) =>
       /\ pc[r] = "waiting" /\ Untouched(r)
       /\ r \notin done /\ r \notin running /\ r \notin cancelled

PumpedInv ==
  \A t \in Threads : held[t] # None =>
    /\ pc[held[t]] \in {"waiting", "draining"} /\ starts[held[t]] = 1
    /\ held[t] \notin done /\ held[t] \in running
    /\ held[t] \notin cancelled
    /\ pc[t] = "released" => held[t] \notin captured
    /\ outcome[held[t]] = "none" <=> pc[t] = "running"

ClosingInv ==
  \A t \in Threads : closing[t] # None =>
    /\ pc[closing[t]] \in {"waiting", "draining"} /\ Untouched(closing[t])
    /\ closing[t] \notin done /\ closing[t] \notin running
    /\ closing[t] \in cancelled
    /\ closePc[t] = "released" => closing[t] \notin captured

ClaimedInv ==
  \A r \in Threads : Claimed(r) =>
    /\ Untouched(r) /\ r \notin done /\ r \notin running
    /\ r \in cancelled
    /\ pc[r] = "cleared" => r \notin captured

DoneInv ==
  \A r \in Threads : r \in done =>
    /\ r \notin captured /\ r \notin running /\ starts[r] <= 1
    /\ r \in cancelled => starts[r] = 0
    /\ r \in success <=> outcome[r] = "ok"
    /\ starts[r] = 0 <=> outcome[r] = "none"

\* A request that is not done has a holder.
HolderInv ==
  \A r \in Threads :
    r \notin done => Queued(r) \/ Pumped(r) \/ Closing(r) \/ Claimed(r)

\* A thread outside invoke has its last request done and its result returned.
OutInv ==
  \A r \in Threads :
    /\ ~InInvoke(r) => r \in done
    /\ result[r] # "none" =>
         ~InInvoke(r) /\ result[r] = IF r \in success THEN "true" ELSE "false"

IInv == /\ TypeOK /\ PumpInv /\ CloseInv /\ QueuedInv /\ PumpedInv /\ ClosingInv
        /\ ClaimedInv /\ DoneInv /\ HolderInv /\ OutInv

-----------------------------------------------------------------------------

\* Every step of bind, invoke, pump and close preserves the invariant.
LEMMA Invariance == IInv /\ [Next]_vars => IInv'
<1> SUFFICES ASSUME IInv, [Next]_vars PROVE IInv'
  OBVIOUS
<1> USE ThreadsAssumption, CapacityAssumption
<1> USE DEF IInv, TypeOK, PumpInv, CloseInv, QueuedInv, PumpedInv, ClosingInv,
    ClaimedInv, DoneInv, HolderInv, OutInv, Untouched, InInvoke, Claimed,
    Queued, InvokePcs, PumpPcs, request
<1>1. ASSUME NEW t \in Threads, BindCurrentThread(t) PROVE IInv'
  <2>1. TypeOK' /\ PumpInv' /\ CloseInv' /\ QueuedInv' /\ OutInv'
    BY <1>1 DEF BindCurrentThread, CanCall
  <2>2. PumpedInv' /\ ClosingInv' /\ ClaimedInv' /\ DoneInv'
    BY <1>1 DEF BindCurrentThread, CanCall
  <2>3. ASSUME NEW r \in Threads
         PROVE  /\ Queued(r)' <=> Queued(r)
                /\ Pumped(r)' <=> Pumped(r)
                /\ Closing(r)' <=> Closing(r)
    BY <1>1 DEF BindCurrentThread, CanCall, Pumped, Closing
  <2>4. HolderInv' BY <1>1, <2>3 DEF BindCurrentThread, CanCall
  <2> QED BY <2>1, <2>2, <2>4
<1>2. ASSUME NEW t \in Threads, InvokeAdmit(t) PROVE IInv'
  <2>1. /\ queue' \in Seq(Threads) /\ Len(queue') = Len(queue) + 1
        /\ NoDup(queue')
        /\ \A r \in Threads : QueuedIn(queue', r) <=> QueuedIn(queue, r) \/ r =
            t
    BY <1>2, AppendFacts DEF InvokeAdmit, Admits, NewRequest, CanCall
  <2>2. TypeOK' /\ PumpInv' /\ CloseInv' /\ QueuedInv' /\ OutInv'
    BY <1>2, <2>1 DEF InvokeAdmit, Admits, NewRequest, CanCall
  <2>3. PumpedInv' /\ ClosingInv' /\ ClaimedInv' /\ DoneInv'
    BY <1>2, <2>1 DEF InvokeAdmit, Admits, NewRequest, CanCall
  <2>4. ASSUME NEW r \in Threads
         PROVE  /\ Queued(r)' <=> Queued(r) \/ r = t
                /\ Pumped(r)' <=> Pumped(r)
                /\ Closing(r)' <=> Closing(r)
    BY <1>2, <2>1 DEF InvokeAdmit, Admits, NewRequest, CanCall, Pumped, Closing
  <2>5. HolderInv' BY <1>2, <2>1, <2>4 DEF InvokeAdmit, Admits, NewRequest,
      CanCall
  <2> QED BY <2>2, <2>3, <2>5
<1>3. ASSUME NEW t \in Threads, InvokeWake(t) PROVE IInv'
  <2>1. TypeOK' /\ PumpInv' /\ CloseInv' /\ QueuedInv' /\ OutInv'
    BY <1>3 DEF InvokeWake, Return, Sleepers
  <2>2. PumpedInv' /\ ClosingInv' /\ ClaimedInv' /\ DoneInv'
    BY <1>3 DEF InvokeWake, Return, Sleepers
  <2>3. ASSUME NEW r \in Threads
         PROVE  /\ Queued(r)' <=> Queued(r)
                /\ Pumped(r)' <=> Pumped(r)
                /\ Closing(r)' <=> Closing(r)
    BY <1>3 DEF InvokeWake, Return, Sleepers, Pumped, Closing
  <2>4. HolderInv' BY <1>3, <2>3 DEF InvokeWake, Return, Sleepers
  <2> QED BY <2>1, <2>2, <2>4
<1>4. ASSUME NEW t \in Threads, InvokeSleep(t) PROVE IInv'
  <2>1. TypeOK' /\ PumpInv' /\ CloseInv' /\ QueuedInv' /\ OutInv'
    BY <1>4 DEF InvokeSleep, Sleepers
  <2>2. PumpedInv' /\ ClosingInv' /\ ClaimedInv' /\ DoneInv'
    BY <1>4 DEF InvokeSleep, Sleepers
  <2>3. ASSUME NEW r \in Threads
         PROVE  /\ Queued(r)' <=> Queued(r)
                /\ Pumped(r)' <=> Pumped(r)
                /\ Closing(r)' <=> Closing(r)
    BY <1>4 DEF InvokeSleep, Sleepers, Pumped, Closing
  <2>4. HolderInv' BY <1>4, <2>3 DEF InvokeSleep, Sleepers
  <2> QED BY <2>1, <2>2, <2>4
<1>5. ASSUME NEW t \in Threads, DeadlineDone(t) PROVE IInv'
  <2>1. TypeOK' /\ PumpInv' /\ CloseInv' /\ QueuedInv' /\ OutInv'
    BY <1>5 DEF DeadlineDone, Return
  <2>2. PumpedInv' /\ ClosingInv' /\ ClaimedInv' /\ DoneInv'
    BY <1>5 DEF DeadlineDone, Return
  <2>3. ASSUME NEW r \in Threads
         PROVE  /\ Queued(r)' <=> Queued(r)
                /\ Pumped(r)' <=> Pumped(r)
                /\ Closing(r)' <=> Closing(r)
    BY <1>5 DEF DeadlineDone, Return, Pumped, Closing
  <2>4. HolderInv' BY <1>5, <2>3 DEF DeadlineDone, Return
  <2> QED BY <2>1, <2>2, <2>4
<1>6. ASSUME NEW t \in Threads, DeadlineClaim(t) PROVE IInv'
  <2>1. /\ queue' \in Seq(Threads) /\ Len(queue') = Len(queue) - 1
        /\ NoDup(queue')
        /\ \A r \in Threads : QueuedIn(queue', r) <=> QueuedIn(queue, r) /\ r #
            t
        /\ QueuedIn(queue, t) /\ pc[t] = "waiting"
        /\ cancelled' = cancelled \cup {t} /\ pc' = [pc EXCEPT ![t] = "claimed"]
        /\ awake' = awake \ {t}
        /\ UNCHANGED <<renderThread, closed, active, activeInvokers, held,
             outcome, closePc, closing, starts, result, captured, running,
             done, success>>
    <3>1. PICK i \in 1 .. Len(queue) : queue[i] = t /\ queue' = Erase(queue, i)
      BY <1>6 DEF DeadlineClaim
    <3>2. QueuedIn(queue, t) BY <3>1 DEF QueuedIn
    <3>3. /\ queue' \in Seq(Threads) /\ Len(queue') = Len(queue) - 1
          /\ NoDup(queue')
          /\ \A r \in Threads : QueuedIn(queue', r) <=> QueuedIn(queue, r) /\ r
              # t
      BY <3>1, EraseFacts
    <3> QED BY <3>2, <3>3, <1>6 DEF DeadlineClaim
  <2>2. TypeOK' /\ PumpInv' /\ CloseInv' /\ QueuedInv' /\ OutInv'
    BY <2>1 DEF IInv
  <2>3. PumpedInv' /\ ClosingInv' /\ ClaimedInv' /\ DoneInv'
    BY <2>1 DEF IInv
  <2>4. ASSUME NEW r \in Threads
         PROVE  /\ Queued(r)' <=> Queued(r) /\ r # t
                /\ Pumped(r)' <=> Pumped(r)
                /\ Closing(r)' <=> Closing(r)
    BY <2>1 DEF IInv, Pumped, Closing
  <2>5. HolderInv' BY <2>1, <2>4 DEF IInv
  <2> QED BY <2>2, <2>3, <2>5
<1>7. ASSUME NEW t \in Threads, DeadlineLost(t) PROVE IInv'
  <2>1. ~QueuedIn(queue, t) BY <1>7 DEF DeadlineLost, QueuedIn
  <2>2. TypeOK' /\ PumpInv' /\ CloseInv' /\ QueuedInv' /\ OutInv'
    BY <1>7, <2>1 DEF DeadlineLost
  <2>3. PumpedInv' /\ ClosingInv' /\ ClaimedInv' /\ DoneInv'
    BY <1>7, <2>1 DEF DeadlineLost
  <2>4. ASSUME NEW r \in Threads
         PROVE  /\ Queued(r)' <=> Queued(r)
                /\ Pumped(r)' <=> Pumped(r)
                /\ Closing(r)' <=> Closing(r)
    BY <1>7, <2>1 DEF DeadlineLost, Pumped, Closing
  <2>5. HolderInv' BY <1>7, <2>1, <2>4 DEF DeadlineLost
  <2> QED BY <2>2, <2>3, <2>5
<1>8. ASSUME NEW t \in Threads, ClaimRelease(t) PROVE IInv'
  <2>1. TypeOK' /\ PumpInv' /\ CloseInv' /\ QueuedInv' /\ OutInv'
    BY <1>8 DEF ClaimRelease
  <2>2. PumpedInv' /\ ClosingInv' /\ ClaimedInv' /\ DoneInv'
    BY <1>8 DEF ClaimRelease
  <2>3. ASSUME NEW r \in Threads
         PROVE  /\ Queued(r)' <=> Queued(r)
                /\ Pumped(r)' <=> Pumped(r)
                /\ Closing(r)' <=> Closing(r)
    BY <1>8 DEF ClaimRelease, Pumped, Closing
  <2>4. HolderInv' BY <1>8, <2>3 DEF ClaimRelease
  <2> QED BY <2>1, <2>2, <2>4
<1>9. ASSUME NEW t \in Threads, ClaimReturn(t) PROVE IInv'
  <2>1. TypeOK' /\ PumpInv' /\ CloseInv' /\ QueuedInv' /\ OutInv'
    BY <1>9 DEF ClaimReturn, Return, Finish, NotifyAll, Sleepers
  <2>2. PumpedInv' /\ ClosingInv' /\ ClaimedInv' /\ DoneInv'
    BY <1>9 DEF ClaimReturn, Return, Finish, NotifyAll, Sleepers
  <2>3. ASSUME NEW r \in Threads
         PROVE  /\ Queued(r)' <=> Queued(r)
                /\ Pumped(r)' <=> Pumped(r)
                /\ Closing(r)' <=> Closing(r)
    BY <1>9 DEF ClaimReturn, Return, Finish, NotifyAll, Sleepers, Pumped,
        Closing
  <2>4. HolderInv' BY <1>9, <2>3 DEF ClaimReturn, Return, Finish, NotifyAll,
      Sleepers
  <2> QED BY <2>1, <2>2, <2>4
<1>10. ASSUME NEW t \in Threads, PumpStart(t) PROVE IInv'
  <2>1. /\ queue' \in Seq(Threads) /\ Len(queue') = Len(queue) - 1
        /\ NoDup(queue')
        /\ Head(queue) \in Threads /\ QueuedIn(queue, Head(queue))
        /\ \A r \in Threads : QueuedIn(queue', r) <=> QueuedIn(queue, r) /\ r #
            Head(queue)
    BY <1>10, TailFacts DEF PumpStart, MayPump, CanCall
  <2>2. TypeOK' /\ PumpInv' /\ CloseInv' /\ QueuedInv' /\ OutInv'
    BY <1>10, <2>1 DEF PumpStart, MayPump, CanCall
  <2>3. PumpedInv' /\ ClosingInv' /\ ClaimedInv' /\ DoneInv'
    BY <1>10, <2>1 DEF PumpStart, MayPump, CanCall
  <2>4. ASSUME NEW r \in Threads
         PROVE  /\ Queued(r)' <=> Queued(r) /\ r # Head(queue)
                /\ Pumped(r)' <=> Pumped(r) \/ r = Head(queue)
                /\ Closing(r)' <=> Closing(r)
    BY <1>10, <2>1 DEF PumpStart, MayPump, CanCall, Pumped, Closing
  <2>5. HolderInv' BY <1>10, <2>1, <2>4 DEF PumpStart, MayPump, CanCall
  <2> QED BY <2>2, <2>3, <2>5
<1>11. ASSUME NEW t \in Threads, CallbackReturns(t) PROVE IInv'
  <2>1. held[t] \in Threads BY <1>11 DEF CallbackReturns
  <2>2. TypeOK' /\ PumpInv' /\ CloseInv' /\ QueuedInv' /\ OutInv'
    BY <1>11, <2>1 DEF CallbackReturns
  <2>3. PumpedInv' /\ ClosingInv' /\ ClaimedInv' /\ DoneInv'
    BY <1>11, <2>1 DEF CallbackReturns
  <2>4. ASSUME NEW r \in Threads
         PROVE  /\ Queued(r)' <=> Queued(r)
                /\ Pumped(r)' <=> Pumped(r)
                /\ Closing(r)' <=> Closing(r)
    BY <1>11, <2>1 DEF CallbackReturns, Pumped, Closing
  <2>5. HolderInv' BY <1>11, <2>1, <2>4 DEF CallbackReturns
  <2> QED BY <2>2, <2>3, <2>5
<1>12. ASSUME NEW t \in Threads, PumpRelease(t) PROVE IInv'
  <2>1. held[t] \in Threads BY <1>12 DEF PumpRelease
  <2>2. TypeOK' /\ PumpInv' /\ CloseInv' /\ QueuedInv' /\ OutInv'
    BY <1>12, <2>1 DEF PumpRelease
  <2>3. PumpedInv' /\ ClosingInv' /\ ClaimedInv' /\ DoneInv'
    BY <1>12, <2>1 DEF PumpRelease
  <2>4. ASSUME NEW r \in Threads
         PROVE  /\ Queued(r)' <=> Queued(r)
                /\ Pumped(r)' <=> Pumped(r)
                /\ Closing(r)' <=> Closing(r)
    BY <1>12, <2>1 DEF PumpRelease, Pumped, Closing
  <2>5. HolderInv' BY <1>12, <2>1, <2>4 DEF PumpRelease
  <2> QED BY <2>2, <2>3, <2>5
<1>13. ASSUME NEW t \in Threads, PumpFinish(t) PROVE IInv'
  <2>1. held[t] \in Threads BY <1>13 DEF PumpFinish
  <2>2. TypeOK'
    <3>1. success' \in SUBSET Threads BY <1>13, <2>1 DEF PumpFinish, Finish
    <3>2. done' \in SUBSET Threads BY <1>13, <2>1 DEF PumpFinish, Finish
    <3> QED BY <1>13, <2>1, <3>1, <3>2 DEF PumpFinish, NotifyAll, Sleepers
  <2>3. PumpInv' BY <1>13, <2>1 DEF PumpFinish, Finish, NotifyAll, Sleepers
  <2>4. CloseInv' BY <1>13, <2>1 DEF PumpFinish, Finish, NotifyAll, Sleepers
  <2>5. QueuedInv' BY <1>13, <2>1 DEF PumpFinish, Finish, NotifyAll, Sleepers
  <2>6. PumpedInv' BY <1>13, <2>1 DEF PumpFinish, Finish, NotifyAll, Sleepers
  <2>7. ClosingInv' BY <1>13, <2>1 DEF PumpFinish, Finish, NotifyAll, Sleepers
  <2>8. ClaimedInv' BY <1>13, <2>1 DEF PumpFinish, Finish, NotifyAll, Sleepers
  <2>9. DoneInv' BY <1>13, <2>1 DEF PumpFinish, Finish, NotifyAll, Sleepers
  <2>10. OutInv' BY <1>13, <2>1 DEF PumpFinish, Finish, NotifyAll, Sleepers
  <2>11. ASSUME NEW r \in Threads
         PROVE  /\ Queued(r)' <=> Queued(r)
                /\ Pumped(r)' <=> Pumped(r) /\ r # held[t]
                /\ Closing(r)' <=> Closing(r)
    BY <1>13, <2>1 DEF PumpFinish, Finish, NotifyAll, Sleepers, Pumped, Closing
  <2>12. HolderInv' BY <1>13, <2>1, <2>11 DEF PumpFinish, Finish, NotifyAll,
      Sleepers
  <2> QED BY <2>2, <2>3, <2>4, <2>5, <2>6, <2>7, <2>8, <2>9, <2>10, <2>12
<1>14. ASSUME NEW t \in Threads, CloseCall(t) PROVE IInv'
  <2>1. TypeOK' /\ PumpInv' /\ CloseInv' /\ QueuedInv' /\ OutInv'
    BY <1>14 DEF CloseCall, CanCall
  <2>2. PumpedInv' /\ ClosingInv' /\ ClaimedInv' /\ DoneInv'
    BY <1>14 DEF CloseCall, CanCall
  <2>3. ASSUME NEW r \in Threads
         PROVE  /\ Queued(r)' <=> Queued(r)
                /\ Pumped(r)' <=> Pumped(r)
                /\ Closing(r)' <=> Closing(r)
    BY <1>14 DEF CloseCall, CanCall, Pumped, Closing
  <2>4. HolderInv' BY <1>14, <2>3 DEF CloseCall, CanCall
  <2> QED BY <2>1, <2>2, <2>4
<1>15. ASSUME NEW t \in Threads, ClosePop(t) PROVE IInv'
  <2>1. /\ queue' \in Seq(Threads) /\ Len(queue') = Len(queue) - 1
        /\ NoDup(queue')
        /\ Head(queue) \in Threads /\ QueuedIn(queue, Head(queue))
        /\ \A r \in Threads : QueuedIn(queue', r) <=> QueuedIn(queue, r) /\ r #
            Head(queue)
    BY <1>15, TailFacts DEF ClosePop
  <2>2. TypeOK' /\ PumpInv' /\ CloseInv' /\ QueuedInv' /\ OutInv'
    BY <1>15, <2>1 DEF ClosePop
  <2>3. PumpedInv' /\ ClosingInv' /\ ClaimedInv' /\ DoneInv'
    BY <1>15, <2>1 DEF ClosePop
  <2>4. ASSUME NEW r \in Threads
         PROVE  /\ Queued(r)' <=> Queued(r) /\ r # Head(queue)
                /\ Pumped(r)' <=> Pumped(r)
                /\ Closing(r)' <=> Closing(r) \/ r = Head(queue)
    BY <1>15, <2>1 DEF ClosePop, Pumped, Closing
  <2>5. HolderInv' BY <1>15, <2>1, <2>4 DEF ClosePop
  <2> QED BY <2>2, <2>3, <2>5
<1>16. ASSUME NEW t \in Threads, CloseReturn(t) PROVE IInv'
  <2>1. TypeOK' /\ PumpInv' /\ CloseInv' /\ QueuedInv' /\ OutInv'
    BY <1>16 DEF CloseReturn, NotifyAll, Sleepers
  <2>2. PumpedInv' /\ ClosingInv' /\ ClaimedInv' /\ DoneInv'
    BY <1>16 DEF CloseReturn, NotifyAll, Sleepers
  <2>3. ASSUME NEW r \in Threads
         PROVE  /\ Queued(r)' <=> Queued(r)
                /\ Pumped(r)' <=> Pumped(r)
                /\ Closing(r)' <=> Closing(r)
    BY <1>16 DEF CloseReturn, NotifyAll, Sleepers, Pumped, Closing
  <2>4. HolderInv' BY <1>16, <2>3 DEF CloseReturn, NotifyAll, Sleepers
  <2> QED BY <2>1, <2>2, <2>4
<1>17. ASSUME NEW t \in Threads, CloseRelease(t) PROVE IInv'
  <2>1. TypeOK' /\ PumpInv' /\ CloseInv' /\ QueuedInv' /\ OutInv'
    BY <1>17 DEF CloseRelease
  <2>2. PumpedInv' /\ ClosingInv' /\ ClaimedInv' /\ DoneInv'
    BY <1>17 DEF CloseRelease
  <2>3. ASSUME NEW r \in Threads
         PROVE  /\ Queued(r)' <=> Queued(r)
                /\ Pumped(r)' <=> Pumped(r)
                /\ Closing(r)' <=> Closing(r)
    BY <1>17 DEF CloseRelease, Pumped, Closing
  <2>4. HolderInv' BY <1>17, <2>3 DEF CloseRelease
  <2> QED BY <2>1, <2>2, <2>4
<1>18. ASSUME NEW t \in Threads, CloseFinish(t) PROVE IInv'
  <2>1. TypeOK' /\ PumpInv' /\ CloseInv' /\ QueuedInv' /\ OutInv'
    BY <1>18 DEF CloseFinish, Finish, NotifyAll, Sleepers
  <2>2. PumpedInv' /\ ClosingInv' /\ ClaimedInv' /\ DoneInv'
    BY <1>18 DEF CloseFinish, Finish, NotifyAll, Sleepers
  <2>3. ASSUME NEW r \in Threads
         PROVE  /\ Queued(r)' <=> Queued(r)
                /\ Pumped(r)' <=> Pumped(r)
                /\ Closing(r)' <=> Closing(r) /\ r # closing[t]
    BY <1>18 DEF CloseFinish, Finish, NotifyAll, Sleepers, Pumped, Closing
  <2>4. HolderInv' BY <1>18, <2>3 DEF CloseFinish, Finish, NotifyAll, Sleepers
  <2> QED BY <2>1, <2>2, <2>4
<1>19. CASE UNCHANGED vars
  BY <1>19 DEF vars, Pumped, Closing
<1> QED
  BY <1>1, <1>2, <1>3, <1>4, <1>5, <1>6, <1>7, <1>8, <1>9, <1>10, <1>11, <1>12,
      <1>13, <1>14, <1>15, <1>16, <1>17, <1>18, <1>19 DEF Next

\* The initial state satisfies the invariant.
LEMMA Initially == Init => IInv
<1> SUFFICES ASSUME Init PROVE IInv OBVIOUS
<1> USE ThreadsAssumption, CapacityAssumption DEF Init, InvokePcs, PumpPcs
<1>1. TypeOK
  <2>1. queue \in Seq(Threads) /\ Len(queue) <= QueueCapacity OBVIOUS
  <2>2. closed \in BOOLEAN /\ active \in BOOLEAN OBVIOUS
  <2> QED BY <2>1, <2>2 DEF TypeOK
<1>2. PumpInv /\ CloseInv BY DEF PumpInv, CloseInv
<1>3. QueuedInv BY DEF QueuedInv, NoDup, QueuedIn
<1>4. PumpedInv /\ ClosingInv BY DEF PumpedInv, ClosingInv
<1>5. ClaimedInv /\ DoneInv BY DEF ClaimedInv, DoneInv, Claimed
<1>6. HolderInv /\ OutInv BY DEF HolderInv, OutInv, InInvoke
<1> QED BY <1>1, <1>2, <1>3, <1>4, <1>5, <1>6 DEF IInv

\* The inductive invariant holds in every reachable state.
THEOREM Inductive == Spec => []IInv
  BY Initially, Invariance, PTL DEF Spec

\* Every variable keeps its type and queue_ its bound, for any number of
\* threads and any kQueueCapacity.
THEOREM TypeCorrect == Spec => []TypeOK
<1>1. IInv => TypeOK BY DEF IInv
<1> QED BY <1>1, Inductive, PTL

\* Every request that is not done has exactly one holder among the queue, the
\* pump, the closers and its timed-out caller.
LEMMA OneHolder == Spec => []HeldOnce
<1>1. IInv => HeldOnce
  <2> SUFFICES ASSUME IInv PROVE HeldOnce OBVIOUS
  <2>1. \A i, j \in 1 .. Len(queue) : queue[i] = queue[j] => i = j
    BY DEF IInv, QueuedInv, NoDup
  <2>2. \A t, u \in Threads : closing[t] = closing[u] /\ closing[t] # None => t = u
    BY DEF IInv, CloseInv
  <2>3. \A t, u \in Threads : held[t] = held[u] /\ held[t] # None => t = u
    BY DEF IInv, PumpInv
  <2>4. ASSUME NEW r \in Threads
        PROVE  /\ r \in done <=>
                    ~(Queued(r) \/ Pumped(r) \/ Closing(r) \/ Claimed(r))
               /\ ~(Queued(r) /\ (Pumped(r) \/ Closing(r) \/ Claimed(r)))
               /\ ~(Pumped(r) /\ (Closing(r) \/ Claimed(r)))
               /\ ~(Closing(r) /\ Claimed(r))
    <3>1. Queued(r) => r \notin done /\ r \notin running /\ r \notin cancelled
                       /\ ~Claimed(r)
      BY DEF IInv, QueuedInv, Queued, Claimed
    <3>2. Pumped(r) => r \notin done /\ r \in running /\ r \notin cancelled
                       /\ ~Claimed(r)
      BY ThreadsAssumption DEF IInv, PumpedInv, Pumped, Claimed
    <3>3. Closing(r) => r \notin done /\ r \notin running /\ r \in cancelled
                        /\ ~Claimed(r)
      BY ThreadsAssumption DEF IInv, ClosingInv, Closing, Claimed
    <3>4. Claimed(r) => r \notin done
      BY DEF IInv, ClaimedInv
    <3>5. r \notin done => Queued(r) \/ Pumped(r) \/ Closing(r) \/ Claimed(r)
      BY DEF IInv, HolderInv
    <3> QED BY <3>1, <3>2, <3>3, <3>4, <3>5
  <2> QED BY <2>1, <2>2, <2>3, <2>4 DEF HeldOnce
<1> QED BY <1>1, Inductive, PTL

\* When invoke has returned, nobody can reach the callback or its captures.
THEOREM NothingOutlives == Spec => []NothingOutlivesInvoke
<1>1. IInv /\ HeldOnce => NothingOutlivesInvoke
  BY DEF IInv, OutInv, DoneInv, HeldOnce, NothingOutlivesInvoke
<1> QED BY <1>1, Inductive, OneHolder, PTL

\* A callback is entered at most once and never after a cancellation.
LEMMA AtMostOnce == Spec => []RunsAtMostOnce
<1>1. IInv => RunsAtMostOnce
  <2> SUFFICES ASSUME IInv, NEW r \in Threads
               PROVE  starts[r] <= 1 /\ (r \in cancelled => starts[r] = 0)
    BY DEF RunsAtMostOnce
  <2>1. CASE r \in done BY <2>1 DEF IInv, DoneInv
  <2>2. CASE Queued(r) BY <2>2 DEF IInv, QueuedInv, Queued, Untouched
  <2>3. CASE Pumped(r)
    BY <2>3, ThreadsAssumption DEF IInv, PumpedInv, Pumped
  <2>4. CASE Closing(r)
    BY <2>4, ThreadsAssumption DEF IInv, ClosingInv, Closing, Untouched
  <2>5. CASE Claimed(r) BY <2>5 DEF IInv, ClaimedInv, Untouched
  <2> QED BY <2>1, <2>2, <2>3, <2>4, <2>5 DEF IInv, HolderInv
<1> QED BY <1>1, Inductive, PTL

\* invoke's result says what happened to the callback.
THEOREM Truthful == Spec => []ResultTruthful
<1>1. IInv /\ RunsAtMostOnce => ResultTruthful
  <2> SUFFICES ASSUME IInv, RunsAtMostOnce, NEW t \in Threads, result[t] # "none"
               PROVE  /\ result[t] = "true" <=> outcome[t] = "ok"
                      /\ starts[t] = 0 <=> outcome[t] = "none"
    BY DEF ResultTruthful
  <2>1. t \in done /\ result[t] = IF t \in success THEN "true" ELSE "false"
    BY DEF IInv, OutInv
  <2> QED BY <2>1 DEF IInv, DoneInv
<1> QED BY <1>1, Inductive, AtMostOnce, PTL

-----------------------------------------------------------------------------
(* The counter and the destructor. *)

Invokers == {t \in Threads : InInvoke(t)}

\* An accepted invoke counts itself once, and every return path undoes that.
LEMMA CountInvariance ==
  IInv /\ InvokersCounted /\ [Next]_vars => InvokersCounted'
<1> SUFFICES ASSUME IInv, InvokersCounted, [Next]_vars PROVE InvokersCounted'
  OBVIOUS
<1>1. IsFiniteSet(Invokers) /\ Cardinality(Invokers) \in Nat
      /\ activeInvokers = Cardinality(Invokers) /\ Invokers \subseteq Threads
  BY ThreadsAssumption, FS_Subset, FS_CardinalityType
     DEF Invokers, InvokersCounted
<1>2. InvokersCounted' <=> activeInvokers' = Cardinality(Invokers')
  BY DEF InvokersCounted, Invokers
<1>3. ASSUME NEW t \in Threads, InvokeAdmit(t) PROVE InvokersCounted'
  <2>1. t \notin Invokers /\ Invokers' = Invokers \cup {t}
    BY <1>3 DEF InvokeAdmit, CanCall, Invokers, InInvoke, InvokePcs, IInv, TypeOK
  <2>2. activeInvokers' = activeInvokers + 1 BY <1>3 DEF InvokeAdmit
  <2> QED BY <2>1, <2>2, <1>1, <1>2, FS_AddElement
<1>4. ASSUME NEW t \in Threads,
             InvokeWake(t) \/ DeadlineDone(t) \/ ClaimReturn(t)
      PROVE  InvokersCounted'
  <2>1. t \in Invokers /\ Invokers' = Invokers \ {t}
    BY <1>4 DEF InvokeWake, DeadlineDone, ClaimReturn, Return, Sleepers,
                Invokers, InInvoke, InvokePcs, IInv, TypeOK
  <2>2. activeInvokers' = activeInvokers - 1
    BY <1>4 DEF InvokeWake, DeadlineDone, ClaimReturn, Return
  <2> QED BY <2>1, <2>2, <1>1, <1>2, FS_RemoveElement
<1>5. ASSUME NEW t \in Threads,
             \/ BindCurrentThread(t) \/ InvokeSleep(t) \/ CloseCall(t)
             \/ ClosePop(t) \/ CloseReturn(t) \/ CloseRelease(t) \/ CloseFinish(t)
      PROVE  InvokersCounted'
  <2>1. UNCHANGED <<pc, activeInvokers>>
    BY <1>5 DEF BindCurrentThread, InvokeSleep, CloseCall, ClosePop, CloseReturn,
                CloseRelease, CloseFinish
  <2> QED BY <2>1, <1>1, <1>2 DEF Invokers, InInvoke
<1>6. ASSUME NEW t \in Threads,
             \/ DeadlineClaim(t) \/ DeadlineLost(t) \/ ClaimRelease(t)
             \/ PumpStart(t) \/ CallbackReturns(t) \/ PumpRelease(t)
             \/ PumpFinish(t)
      PROVE  InvokersCounted'
  <2>1. Invokers' = Invokers
    BY <1>6 DEF DeadlineClaim, DeadlineLost, ClaimRelease, PumpStart, CanCall,
                CallbackReturns, PumpRelease, PumpFinish, Invokers, InInvoke,
                InvokePcs, IInv, TypeOK
  <2>2. UNCHANGED activeInvokers
    BY <1>6 DEF DeadlineClaim, DeadlineLost, ClaimRelease, PumpStart,
                CallbackReturns, PumpRelease, PumpFinish
  <2> QED BY <2>1, <2>2, <1>1, <1>2
<1>7. CASE UNCHANGED vars
  BY <1>7, <1>1, <1>2 DEF vars, Invokers, InInvoke
<1> QED BY <1>3, <1>4, <1>5, <1>6, <1>7 DEF Next

\* activeInvokers_ is the number of threads inside an accepted invoke.
LEMMA Counted == Spec => []InvokersCounted
<1>1. Init => InvokersCounted
  <2> SUFFICES ASSUME Init PROVE InvokersCounted OBVIOUS
  <2>1. {t \in Threads : InInvoke(t)} = {} BY DEF Init, InInvoke, InvokePcs
  <2> QED BY <2>1, FS_EmptySet DEF Init, InvokersCounted
<1> QED BY <1>1, CountInvariance, Inductive, PTL DEF Spec

\* For any number of threads and any kQueueCapacity: types and bounds, one
\* holder for every request, and activeInvokers_ is the number of invokes.
THEOREM Consistency == Spec => []Consistent
<1>1. TypeOK /\ HeldOnce /\ InvokersCounted => Consistent BY DEF Consistent
<1> QED BY <1>1, TypeCorrect, OneHolder, Counted, PTL

\* A closed queue is empty, or somebody is still in close's loop.
Drained == closed /\ queue # <<>> => \E t \in Threads : closePc[t] # "out"

\* closed_ admits nothing, and close returns only from an empty queue.
LEMMA DrainInvariance == IInv /\ Drained /\ [Next]_vars => Drained'
<1> SUFFICES ASSUME IInv, Drained, [Next]_vars PROVE Drained'
  OBVIOUS
<1>1. ASSUME NEW t \in Threads,
             InvokeAdmit(t) \/ PumpStart(t) \/ BindCurrentThread(t)
      PROVE  Drained'
  BY <1>1 DEF InvokeAdmit, Admits, PumpStart, MayPump, BindCurrentThread, Drained
<1>2. ASSUME NEW t \in Threads,
             \/ InvokeWake(t) \/ InvokeSleep(t) \/ DeadlineDone(t)
             \/ DeadlineLost(t) \/ ClaimRelease(t) \/ ClaimReturn(t)
             \/ CallbackReturns(t) \/ PumpRelease(t) \/ PumpFinish(t)
      PROVE  Drained'
  BY <1>2 DEF InvokeWake, InvokeSleep, DeadlineDone, DeadlineLost, ClaimRelease,
              ClaimReturn, CallbackReturns, PumpRelease, PumpFinish, Drained
<1>3. ASSUME NEW t \in Threads, DeadlineClaim(t) PROVE Drained'
  <2>1. queue # <<>> BY <1>3 DEF DeadlineClaim, IInv, TypeOK
  <2> QED BY <2>1, <1>3 DEF DeadlineClaim, Drained
<1>4. ASSUME NEW t \in Threads,
             CloseCall(t) \/ ClosePop(t) \/ CloseRelease(t) \/ CloseFinish(t)
      PROVE  Drained'
  <2>1. closePc'[t] # "out"
    BY <1>4 DEF CloseCall, ClosePop, CloseRelease, CloseFinish, IInv, TypeOK
  <2> QED BY <2>1 DEF Drained
<1>5. ASSUME NEW t \in Threads, CloseReturn(t) PROVE Drained'
  BY <1>5 DEF CloseReturn, Drained
<1>6. CASE UNCHANGED vars BY <1>6 DEF vars, Drained
<1> QED BY <1>1, <1>2, <1>3, <1>4, <1>5, <1>6 DEF Next

\* Once every close has returned, the queue is empty.
LEMMA DrainedWhenClosed == Spec => []ClosedIsDrained
<1>1. Init => Drained BY DEF Init, Drained
<1>2. Drained => ClosedIsDrained BY DEF Drained, ClosedIsDrained
<1> QED BY <1>1, <1>2, DrainInvariance, Inductive, PTL DEF Spec

\* The destructor never terminates a host that closed the queue and joined its
\* threads: every flag and counter it looks at has been restored.
THEOREM SafeToDestroy == Spec => []DestructorSafe
<1>1. IInv /\ ClosedIsDrained /\ InvokersCounted => DestructorSafe
  <2> SUFFICES ASSUME IInv, ClosedIsDrained, InvokersCounted, closed,
                      \A t \in Threads : pc[t] = "out" /\ closePc[t] = "out"
               PROVE  queue = <<>> /\ ~active /\ activeInvokers = 0
    BY DEF DestructorSafe
  <2>1. queue = <<>> BY DEF ClosedIsDrained
  <2>2. ~active BY DEF IInv, PumpInv, PumpPcs
  <2>3. {t \in Threads : InInvoke(t)} = {} BY DEF InInvoke, InvokePcs
  <2>4. activeInvokers = 0 BY <2>3, FS_EmptySet DEF InvokersCounted
  <2> QED BY <2>1, <2>2, <2>4
<1> QED BY <1>1, Inductive, DrainedWhenClosed, Counted, PTL

\* The three results above together: what invoke promises its caller and the
\* owner of the queue (present_work_queue.h:48-171), for any number of threads
\* and any capacity.
THEOREM KeepsContract == Spec => []InvokeContract
<1>1. NothingOutlivesInvoke /\ ResultTruthful /\ DestructorSafe => InvokeContract
  BY DEF InvokeContract
<1> QED BY <1>1, NothingOutlives, Truthful, SafeToDestroy, PTL

-----------------------------------------------------------------------------
(* The queue implements Executor. *)

\* Until a thread has bound itself to the queue no request is accepted.
Unbound == renderThread = None => done = Threads

\* Only an admitted invoke takes a request out of done, and it needs a bound
\* thread.
LEMMA UnboundStays == IInv /\ Unbound /\ [Next]_vars => Unbound'
<1> SUFFICES ASSUME IInv, Unbound, [Next]_vars PROVE Unbound'
  OBVIOUS
<1>1. ASSUME NEW t \in Threads, InvokeAdmit(t) PROVE Unbound'
  BY <1>1 DEF InvokeAdmit, Admits, Unbound
<1>2. ASSUME NEW t \in Threads, BindCurrentThread(t) PROVE Unbound'
  BY <1>2, ThreadsAssumption DEF BindCurrentThread, Unbound
<1>3. ASSUME NEW t \in Threads,
             \/ InvokeWake(t) \/ InvokeSleep(t) \/ DeadlineDone(t)
             \/ DeadlineClaim(t) \/ DeadlineLost(t) \/ ClaimRelease(t)
             \/ PumpStart(t) \/ CallbackReturns(t) \/ PumpRelease(t)
             \/ CloseCall(t) \/ ClosePop(t) \/ CloseReturn(t) \/ CloseRelease(t)
      PROVE  Unbound'
  BY <1>3 DEF InvokeWake, InvokeSleep, DeadlineDone, DeadlineClaim, DeadlineLost,
              ClaimRelease, PumpStart, CallbackReturns, PumpRelease, CloseCall,
              ClosePop, CloseReturn, CloseRelease, request, Unbound
<1>4. ASSUME NEW t \in Threads, ClaimReturn(t) \/ PumpFinish(t) \/ CloseFinish(t)
      PROVE  Unbound'
  <2>1. CASE ClaimReturn(t)
    BY <2>1 DEF ClaimReturn, Finish, IInv, TypeOK, Unbound
  <2>2. CASE PumpFinish(t)
    <3>1. held[t] \in Threads
      BY <2>2 DEF PumpFinish, IInv, TypeOK, PumpInv, PumpPcs
    <3> QED BY <2>2, <3>1 DEF PumpFinish, Finish, IInv, TypeOK, Unbound
  <2>3. CASE CloseFinish(t)
    <3>1. closing[t] \in Threads
      BY <2>3 DEF CloseFinish, IInv, TypeOK, CloseInv
    <3> QED BY <2>3, <3>1 DEF CloseFinish, Finish, IInv, TypeOK, Unbound
  <2> QED BY <1>4, <2>1, <2>2, <2>3
<1>5. CASE UNCHANGED vars
  BY <1>5 DEF vars, request, Unbound
<1> QED BY <1>1, <1>2, <1>3, <1>4, <1>5 DEF Next

\* A step that changes neither admission, nor what is done, nor what the pump
\* holds is invisible to a user of the executor.
LEMMA Invisible ==
  ASSUME UNCHANGED <<done, held, success>>,
         renderThread' # None /\ ~closed' <=> renderThread # None /\ ~closed
  PROVE  UNCHANGED Promise!executorVars
  BY DEF Promise!executorVars, StatusOf, Pumped

\* Every step is a step of the executor or invisible: bind opens it, the first
\* critical section of a close closes it, and whoever finishes a request ends or
\* cancels it.
LEMMA StepRefines ==
  IInv /\ Unbound /\ [Next]_vars => [Promise!ExecutorNext]_(Promise!executorVars)
<1> SUFFICES ASSUME IInv, Unbound, [Next]_vars
             PROVE  [Promise!ExecutorNext]_(Promise!executorVars)
  OBVIOUS
<1> DEFINE Refined == [Promise!ExecutorNext]_(Promise!executorVars)
<1> USE ThreadsAssumption DEF IInv, TypeOK
<1>1. ASSUME NEW t \in Threads, BindCurrentThread(t) PROVE Refined
  <2>1. \A r \in Threads : StatusOf(r) = "finished"
    BY <1>1 DEF BindCurrentThread, Unbound, StatusOf
  <2>2. UNCHANGED <<done, held, success>>
    BY <1>1 DEF BindCurrentThread, request
  <2>3. Promise!Open
    BY <1>1, <2>1, <2>2 DEF BindCurrentThread, Promise!Open, StatusOf, Pumped
  <2> QED BY <2>3 DEF Promise!ExecutorNext
<1>2. ASSUME NEW t \in Threads, InvokeAdmit(t) PROVE Refined
  <2>1. t \in done /\ ~Pumped(t)
    BY <1>2 DEF InvokeAdmit, CanCall, OutInv, InInvoke, InvokePcs, PumpedInv, Pumped
  <2>2. /\ renderThread # None /\ ~closed
        /\ done' = done \ {t} /\ success' = success \ {t}
        /\ UNCHANGED <<renderThread, closed, held>>
    BY <1>2 DEF InvokeAdmit, Admits, NewRequest
  <2>3. Promise!Accept(t)
    BY <2>1, <2>2 DEF Promise!Accept, StatusOf, Pumped
  <2> QED BY <2>3 DEF Promise!ExecutorNext
<1>3. ASSUME NEW t \in Threads,
             \/ InvokeWake(t) \/ InvokeSleep(t) \/ DeadlineDone(t)
             \/ DeadlineClaim(t) \/ DeadlineLost(t) \/ ClaimRelease(t)
             \/ CallbackReturns(t) \/ PumpRelease(t)
             \/ CloseCall(t) \/ CloseRelease(t)
      PROVE  Refined
  <2>1. UNCHANGED <<done, held, success, renderThread, closed>>
    BY <1>3 DEF InvokeWake, InvokeSleep, DeadlineDone, DeadlineClaim, DeadlineLost,
                ClaimRelease, CallbackReturns, PumpRelease, CloseCall, CloseRelease,
                request
  <2> QED BY <2>1, Invisible
<1>4. ASSUME NEW t \in Threads, ClaimReturn(t) PROVE Refined
  <2>1. t \notin done /\ ~Pumped(t)
    BY <1>4 DEF ClaimReturn, ClaimedInv, Claimed, PumpedInv, Pumped
  <2>2. /\ done' = done \cup {t} /\ success' = success \ {t}
        /\ UNCHANGED <<renderThread, closed, held>>
    BY <1>4 DEF ClaimReturn, Finish
  <2>3. Promise!Cancel(t)
    BY <2>1, <2>2 DEF Promise!Cancel, StatusOf, Pumped
  <2> QED BY <2>3 DEF Promise!ExecutorNext
<1>5. ASSUME NEW t \in Threads, PumpStart(t) PROVE Refined
  <2> DEFINE r == Head(queue)
  <2>1. /\ r \in Threads /\ r \notin done
        /\ renderThread # None /\ ~closed
        /\ held' = [held EXCEPT ![t] = r]
        /\ UNCHANGED <<renderThread, closed, done, success>>
    BY <1>5, TailFacts DEF PumpStart, MayPump, QueuedInv
  <2>2. \A u \in Threads : held[u] = None
    BY <1>5 DEF PumpStart, MayPump, PumpInv
  <2>3. \A q \in Threads : ~Pumped(q)
    BY <2>2 DEF Pumped
  <2>4. \A q \in Threads : Pumped(q)' <=> q = r
    BY <2>1, <2>2 DEF Pumped
  <2>5. Promise!Begin(r)
    BY <2>1, <2>3, <2>4 DEF Promise!Begin, StatusOf
  <2> QED BY <2>1, <2>5 DEF Promise!ExecutorNext
<1>6. ASSUME NEW t \in Threads, PumpFinish(t) PROVE Refined
  <2> DEFINE r == held[t]
  <2> DEFINE ok == outcome[r] = "ok"
  <2>1. /\ r \in Threads /\ r \notin done /\ Pumped(r)
        /\ \A u \in Threads : u # t => held[u] = None
    BY <1>6 DEF PumpFinish, PumpInv, PumpPcs, PumpedInv, Pumped
  <2>2. /\ done' = done \cup {r}
        /\ success' = IF ok THEN success \cup {r} ELSE success \ {r}
        /\ held' = [held EXCEPT ![t] = None]
        /\ UNCHANGED <<renderThread, closed>>
    BY <1>6 DEF PumpFinish, Finish
  <2>3. \A q \in Threads : q # r => (Pumped(q)' <=> Pumped(q))
    BY <2>1, <2>2 DEF Pumped
  <2>4. Promise!End(r, ok)
    BY <2>1, <2>2, <2>3 DEF Promise!End, StatusOf
  <2> QED BY <2>1, <2>4 DEF Promise!ExecutorNext
<1>7. ASSUME NEW t \in Threads, ClosePop(t) \/ CloseReturn(t) PROVE Refined
  <2>1. closed' /\ UNCHANGED <<done, held, success, renderThread>>
    BY <1>7 DEF ClosePop, CloseReturn, request
  <2>2. CASE renderThread # None /\ ~closed
    <3>1. Promise!Close
      BY <2>1, <2>2 DEF Promise!Close, StatusOf, Pumped
    <3> QED BY <3>1 DEF Promise!ExecutorNext
  <2>3. CASE ~(renderThread # None /\ ~closed)
    BY <2>1, <2>3, Invisible
  <2> QED BY <2>2, <2>3
<1>8. ASSUME NEW t \in Threads, CloseFinish(t) PROVE Refined
  <2> DEFINE r == closing[t]
  <2>1. r \in Threads /\ r \notin done /\ ~Pumped(r)
    BY <1>8 DEF CloseFinish, CloseInv, ClosingInv, PumpedInv, Pumped
  <2>2. /\ done' = done \cup {r} /\ success' = success \ {r}
        /\ UNCHANGED <<renderThread, closed, held>>
    BY <1>8 DEF CloseFinish, Finish
  <2>3. Promise!Cancel(r)
    BY <2>1, <2>2 DEF Promise!Cancel, StatusOf, Pumped
  <2> QED BY <2>1, <2>3 DEF Promise!ExecutorNext
<1>9. CASE UNCHANGED vars
  BY <1>9, Invisible DEF vars, request
<1> QED BY <1>1, <1>2, <1>3, <1>4, <1>5, <1>6, <1>7, <1>8, <1>9 DEF Next

\* PresentWorkQueue implements Executor for any number of threads and any
\* capacity: nothing is begun that was not accepted, nothing after a close, and
\* every accepted request ends once.
THEOREM RefinesExecutor == Spec => IsExecutor
<1>1. Init => Promise!ExecutorInit
  BY DEF Init, Promise!ExecutorInit, StatusOf
<1>2. Init => Unbound
  BY DEF Init, Unbound
<1>3. IInv /\ Unbound /\ [Next]_vars => [Promise!ExecutorNext]_(Promise!executorVars)
  BY StepRefines
<1> QED
  BY <1>1, <1>2, <1>3, UnboundStays, Inductive, PTL
  DEF Spec, IsExecutor, Promise!ExecutorSpec

=============================================================================
