----------------------------- MODULE ModuleProofs -----------------------------
(***************************************************************************)
(* Proofs about the module the game loads, each with an inductive          *)
(* invariant of its own: its backend, for every number of starts and every *)
(* interleaving of the driver, the game's client, the render thread and    *)
(* the owner; and its exports with the lifecycle behind them, for any set  *)
(* of callers and configurations and any width of the token counter.       *)
(***************************************************************************)
EXTENDS ModuleBackend, MCModuleExports, SequenceTheorems, TLAPS

(***************************************************************************)
(* The backend.  Neither ThreadsAgree nor ShutdownContract is inductive.   *)
(* IInv says, for every moment, who waits for whom: a request is in the    *)
(* queue while its user waits (Queued), the render thread's rendezvous     *)
(* belongs to a user that waits for it or to a frame (Waits), the owner    *)
(* works on nothing else (Works), and the host exists as long as any of    *)
(* them can still reach it (Hosted).  Progress ties this to the driver's   *)
(* program counter, so that each step of a stop finds what the steps       *)
(* before it left, and Ended says what a whole stop leaves.                *)
(***************************************************************************)

\* What work().invoke is asked, and by whom.
Requests == [user : Users, what : {"bind", "start", "drain", "finish", "submit"}]

\* The requests in a queue, and a queue with at most one of each user.
At(q) == {q[i] : i \in 1 .. Len(q)}
Good(q) ==
  /\ q \in Seq(Requests)
  /\ \A i, j \in 1 .. Len(q) : q[i].user = q[j].user => i = j

\* The dispatcher's boundary.
Rendezvous == [job : Jobs \cup {"none"}, for : Users \cup {"frame", "game", "none"},
               state : {"none", "queued", "executing", "done"},
               cancelled : BOOLEAN, ok : BOOLEAN]

\* Types of what TypeOK leaves open, and of the rest.
Types ==
  /\ pc \in {"idle", "up", "dead", "failing", "acquire", "waitRender", "bind", "bound",
             "start", "askDrain", "drain", "askFinish", "finish", "sepClose", "sepStop",
             "sepJoin", "close", "release", "retain", "retainStop", "retainJoin"}
  /\ caller \in {"foreign", "render"} /\ attempts \in 0 .. MaxAttempts
  /\ lease \in {"none", "held", "closed", "released"}
  /\ graphics \in {"none", "asked", "running", "done", "cancelled"}
  /\ owner \in {"none", "running", "stopping", "gone"}
  /\ job \in Jobs \cup {"none"} /\ host \in {"none", "up", "destroyed"}
  /\ final \in {"none", "stop"}
  /\ render \in {"out", "entering", "entered", "pumped", "framing", "parked", "finishing",
                 "leaving", "direct", "driving", "closing"}
  /\ reply \in [Users -> {"none", "queued", "running", "ok", "failed"}]
  /\ rv \in Rendezvous

\* The code's bools.
Flags ==
  /\ separateDevice \in BOOLEAN /\ stopped \in BOOLEAN /\ retained \in BOOLEAN
  /\ loadingAdmitted \in BOOLEAN /\ bound \in BOOLEAN /\ failed \in BOOLEAN
  /\ dBound \in BOOLEAN /\ dClosed \in BOOLEAN /\ session \in BOOLEAN
  /\ serviceStopped \in BOOLEAN /\ serviceFailed \in BOOLEAN /\ gpuPending \in BOOLEAN
  /\ startOk \in BOOLEAN /\ drainOk \in BOOLEAN /\ cleaned \in BOOLEAN /\ fenced \in BOOLEAN

\* The jobs that need a host.
Frames == {"loading", "submit"}

\* The generation has a host, or its owner is beyond taking another job.
Alive == host = "up" \/ owner \in {"stopping", "gone"}

\* A request is queued while its user waits for it, and no other way; the driver's
\* is the one of the step it is in.
Queued ==
  /\ Good(queue)
  /\ \A u \in Users : reply[u] = "queued" <=> \E q \in At(queue) : q.user = u
  /\ failed => queue = <<>>
  /\ \A q \in At(queue) : IF q.user = "client" THEN q.what = "submit" ELSE q.what = pc
  /\ reply["driver"] \in {"queued", "running"} => pc \in {"bind", "start", "drain", "finish"}

\* The render thread's rendezvous: who waits in it, for which job.
Waits ==
  /\ rv.state # "none" <=> render \in {"parked", "direct", "driving"}
  /\ rv.state # "none" =>
       /\ rv.for \in Users => reply[rv.for] = "running"
       /\ rv.for = "driver" => rv.job = pc
       /\ rv.for # "none" /\ rv.job # "none"
  /\ render = "driving" => rv.for = "driver" /\ rv.job = "drain"
  /\ render \in {"finishing", "closing"} =>
       pc = "finish" /\ reply["driver"] = "running" /\ owner # "running" /\ final = "stop"
  /\ reply["client"] = "running" => rv.for = "client"
  /\ reply["driver"] = "running" => rv.for = "driver" \/ render \in {"finishing", "closing"}
  /\ rv.state = "none" => rv.for = "none"
  /\ DriverRenders => render \in {"out", "driving", "closing"}
  /\ InCallback => lease \in {"held", "closed"}

\* The owner's job is that rendezvous, and graphics runs for it.
Works ==
  /\ job # "none" <=> rv.state = "executing"
  /\ job # "none" => owner \in {"running", "stopping"} /\ rv.job = job
  /\ rv.state = "queued" => owner = "running"
  /\ graphics # "none" => job # "none"
  /\ graphics # "none" /\ job = "start" => host = "up"

\* The host is up wherever a frame can still reach it, and destroyed only by the owner's
\* finalizer, with nothing pending.
Hosted ==
  /\ startOk \/ loadingAdmitted \/ render = "framing" => Alive
  /\ \A q \in At(queue) : q.what = "submit" => Alive
  /\ rv.state \in {"queued", "executing"} /\ rv.job \in Frames => host = "up"
  /\ owner = "none" => host = "none"
  /\ host = "destroyed" => owner = "gone" /\ ~gpuPending
  /\ owner = "gone" /\ final = "stop" /\ cleaned => host # "up"

\* Where the driver is, and what it has done to the generation by then.
Progress ==
  /\ pc \in {"acquire", "waitRender", "bind", "bound"} => owner = "none"
  /\ pc \in {"start", "up", "sepClose", "sepStop", "askDrain", "drain", "askFinish"} =>
       owner = "running"
  /\ pc \in {"acquire", "waitRender", "bind", "bound", "start", "up"} => ~stopped
  /\ pc = "failing" /\ ~stopped => owner \in {"none", "running"}
  /\ pc \in {"finish", "sepJoin"} => owner # "none"
  /\ pc = "sepJoin" => owner # "running" /\ final = "stop"
  /\ pc = "finish" /\ reply["driver"] = "ok" => Joined /\ final = "stop"
  /\ pc = "finish" /\ reply["driver"] = "queued" => owner = "running"
  /\ pc \in {"close", "release"} => Joined /\ host # "up"
  /\ pc \in {"release", "retainStop", "retainJoin", "dead"} => dClosed
  /\ pc \in {"retainStop", "retainJoin", "dead"} => ~loadingAdmitted
  /\ pc \in {"retainJoin", "dead"} => lease # "held" /\ failed
  /\ pc = "dead" => Joined
  /\ retained => pc \in {"retainStop", "retainJoin", "dead"}

\* What stop leaves, until the next start.
Over == /\ Joined /\ host # "up" /\ lease = "released" /\ ~InCallback /\ dClosed /\ failed
        /\ stopped

\* Before the first start, and after every stop.
Ended ==
  /\ pc = "idle" => Joined /\ lease \in {"none", "released"} /\ queue = <<>>
  /\ pc = "idle" /\ attempts > 0 => Over
  /\ attempts = 0 => pc = "idle" /\ ~startOk
  /\ pc = "failing" /\ stopped => Over

\* The inductive invariant.
Core == Types /\ Queued /\ Waits /\ Works /\ Hosted /\ Progress /\ Ended
IInv == Core /\ Flags

-------------------------------------------------------------------------------
(* The queue *)

\* A queue is empty when it has no requests.
LEMMA EmptyQueue ==
  /\ Good(<<>>) /\ At(<<>>) = {}
  /\ \A q : Good(q) => (q = <<>> <=> At(q) = {})
<1>1. <<>> \in Seq(Requests) /\ Len(<<>>) = 0 /\ 1 .. 0 = {}
  OBVIOUS
<1>2. Good(<<>>) /\ At(<<>>) = {}
  BY <1>1 DEF Good, At
<1>3. ASSUME NEW q, Good(q), q # <<>> PROVE At(q) # {}
  <2>1. q \in Seq(Requests) /\ Len(q) \in Nat /\ Len(q) # 0
    BY <1>3, EmptySeq DEF Good
  <2>2. 1 \in 1 .. Len(q)
    BY <2>1
  <2> QED BY <2>2 DEF At
<1> QED
  BY <1>2, <1>3

\* Every request is typed.
LEMMA AtTyped ==
  ASSUME NEW q, Good(q) PROVE At(q) \subseteq Requests
BY DEF Good, At

\* queue_.push_back, of a user that is not waiting.
LEMMA AppendQueue ==
  ASSUME NEW q, Good(q), NEW e \in Requests, \A r \in At(q) : r.user # e.user
  PROVE  Good(Append(q, e)) /\ At(Append(q, e)) = At(q) \cup {e}
<1> DEFINE n == Len(q)
           p == Append(q, e)
<1>1. q \in Seq(Requests) /\ n \in Nat
  BY DEF Good
<1>2. /\ p \in Seq(Requests) /\ Len(p) = n + 1 /\ p[n + 1] = e
      /\ \A i \in 1 .. n : p[i] = q[i]
  BY <1>1, AppendProperties
<1> HIDE DEF p, n
<1>3. \A i \in 1 .. n + 1 : \/ i \in 1 .. n /\ p[i] = q[i] /\ q[i] \in At(q)
                            \/ i = n + 1 /\ p[i] = e
  <2>1. \A i \in 1 .. n : q[i] \in At(q)
    BY Zenon DEF At, n
  <2> QED BY <1>1, <1>2, <2>1
<1>4. (\A i \in 1 .. n : i \in 1 .. n + 1) /\ n + 1 \in 1 .. n + 1
  BY <1>1
<1>5. At(p) = {p[i] : i \in 1 .. n + 1} /\ At(q) = {q[i] : i \in 1 .. n}
  BY <1>2 DEF At, n
<1>6. At(p) = At(q) \cup {e}
  BY <1>2, <1>3, <1>4, <1>5
<1>7. ASSUME NEW i \in 1 .. n + 1, NEW j \in 1 .. n + 1, p[i].user = p[j].user PROVE i = j
  BY <1>3, <1>7 DEF Good, n
<1> QED
  BY <1>2, <1>6, <1>7 DEF Good, p

\* p is q without its k-th request.
Without(p, q, k) ==
  /\ Len(p) = Len(q) - 1
  /\ \A j \in 1 .. Len(p) : p[j] = IF j < k THEN q[j] ELSE q[j + 1]

\* Taking any one request out of the queue leaves those of the other users.
LEMMA ShorterQueue ==
  ASSUME NEW q, Good(q), NEW k \in 1 .. Len(q), NEW p \in Seq(Requests),
         Without(p, q, k)
  PROVE  Good(p) /\ At(p) = {r \in At(q) : r.user # q[k].user}
<1> DEFINE n == Len(q)
           f(j) == IF j < k THEN j ELSE j + 1
<1>1. n \in Nat /\ k \in 1 .. n /\ Len(p) = n - 1 /\ q \in Seq(Requests)
  BY DEF Good, Without
<1> HIDE DEF n
<1>2. \A j \in 1 .. n - 1 : f(j) \in 1 .. n /\ f(j) # k /\ p[j] = q[f(j)]
  BY <1>1 DEF Without
<1>3. \A i, j \in 1 .. n - 1 : f(i) = f(j) => i = j
  BY <1>1
<1>4. ASSUME NEW i \in 1 .. n, i # k PROVE \E j \in 1 .. n - 1 : f(j) = i
  <2>1. CASE i < k
    <3>1. i \in 1 .. n - 1 /\ f(i) = i
      BY <1>1, <2>1
    <3> QED BY <3>1
  <2>2. CASE i > k
    <3>1. i - 1 \in 1 .. n - 1 /\ f(i - 1) = i
      BY <1>1, <2>2
    <3> QED BY <3>1
  <2> QED BY <1>1, <1>4, <2>1, <2>2
<1> HIDE DEF f
<1>5. \A i, j \in 1 .. n : q[i].user = q[j].user => i = j
  BY DEF Good, n
<1>6. At(q) = {q[i] : i \in 1 .. n} /\ At(p) = {p[j] : j \in 1 .. n - 1}
  BY <1>1 DEF At, n
<1>7. At(p) \subseteq {r \in At(q) : r.user # q[k].user}
  BY <1>1, <1>2, <1>5, <1>6
<1>8. {r \in At(q) : r.user # q[k].user} \subseteq At(p)
  <2> SUFFICES ASSUME NEW i \in 1 .. n, q[i].user # q[k].user PROVE q[i] \in At(p)
    BY <1>6
  <2>1. PICK j \in 1 .. n - 1 : f(j) = i
    BY <1>4
  <2> QED BY <1>2, <1>6, <2>1
<1>9. ASSUME NEW i \in 1 .. n - 1, NEW j \in 1 .. n - 1, p[i].user = p[j].user PROVE i = j
  BY <1>2, <1>3, <1>5, <1>9
<1> QED
  BY <1>1, <1>7, <1>8, <1>9 DEF Good

\* pump takes the first request.
LEMMA TailQueue ==
  ASSUME NEW q, Good(q), q # <<>>
  PROVE  /\ Head(q) \in At(q) /\ Head(q) \in Requests /\ Good(Tail(q))
         /\ At(Tail(q)) = {r \in At(q) : r.user # Head(q).user}
<1> DEFINE p == Tail(q)
<1>1. q \in Seq(Requests) /\ Len(q) \in Nat /\ Len(q) # 0
  BY EmptySeq DEF Good
<1>2. /\ p \in Seq(Requests) /\ Len(p) = Len(q) - 1 /\ Head(q) = q[1] /\ 1 \in 1 .. Len(q)
      /\ \A j \in 1 .. Len(p) : p[j] = q[j + 1]
  BY <1>1, HeadTailProperties
<1> HIDE DEF p
<1>3. \A j \in 1 .. Len(p) : p[j] = IF j < 1 THEN q[j] ELSE q[j + 1]
  <2>1. \A j \in 1 .. Len(p) : ~(j < 1)
    BY <1>1, <1>2
  <2> QED BY <1>2, <2>1
<1>4. Good(p) /\ At(p) = {r \in At(q) : r.user # q[1].user}
  BY <1>2, <1>3, ShorterQueue DEF Without
<1> QED
  BY <1>1, <1>2, <1>4 DEF p, At

\* The erase of a request that timed out.
LEMMA EraseQueue ==
  ASSUME NEW q, Good(q), NEW k \in 1 .. Len(q)
  PROVE  /\ Good(Erase(q, k))
         /\ At(Erase(q, k)) = {r \in At(q) : r.user # q[k].user}
<1> DEFINE p == Erase(q, k)
<1>1. q \in Seq(Requests) /\ Len(q) \in Nat /\ Len(q) - 1 \in Nat
  BY DEF Good
<1>2. p \in [1 .. Len(q) - 1 -> Requests]
  BY <1>1 DEF Erase
<1>3. p \in Seq(Requests)
  BY <1>1, <1>2, SeqDef
<1>4. Without(p, q, k)
  <2>1. DOMAIN p = 1 .. Len(q) - 1
    BY DEF Erase
  <2>2. Len(p) = Len(q) - 1
    BY <1>1, <1>3, <2>1, LenProperties
  <2> QED BY <2>2 DEF Erase, Without
<1> HIDE DEF p
<1>5. Good(p) /\ At(p) = {r \in At(q) : r.user # q[k].user}
  BY <1>3, <1>4, ShorterQueue
<1> QED
  BY <1>5 DEF p

\* work().invoke of a user that is not waiting already.
LEMMA EnqueueFacts ==
  ASSUME Types, Queued, NEW u \in Users,
         NEW w \in {"bind", "start", "drain", "finish", "submit"},
         reply[u] # "queued", Enqueue(u, w)
  PROVE  /\ Good(queue')
         /\ \/ queue' = queue /\ reply' = [reply EXCEPT ![u] = "failed"]
            \/ /\ ~failed /\ At(queue') = At(queue) \cup {[user |-> u, what |-> w]}
               /\ reply' = [reply EXCEPT ![u] = "queued"]
<1> DEFINE e == [user |-> u, what |-> w]
<1>1. e \in Requests /\ e.user = u
  BY DEF Requests
<1>2. \A r \in At(queue) : r.user # u
  BY DEF Queued
<1>3. CASE bound /\ ~failed
  <2>1. queue' = Append(queue, e) /\ reply' = [reply EXCEPT ![u] = "queued"]
    BY <1>3 DEF Enqueue
  <2> HIDE DEF e
  <2>2. Good(queue') /\ At(queue') = At(queue) \cup {e}
    BY <1>1, <1>2, <2>1, AppendQueue DEF Queued
  <2> QED BY <1>3, <2>1, <2>2 DEF e
<1>4. CASE ~(bound /\ ~failed)
  BY <1>4 DEF Enqueue, Queued
<1> QED
  BY <1>3, <1>4

\* The requests of the two users.
LEMMA QueueUsers ==
  ASSUME Types, Queued
  PROVE  /\ \A q \in At(queue) : q \in Requests /\ q.user \in Users
         /\ \A q \in At(queue) : q.user = "client" => q.what = "submit"
         /\ \A q \in At(queue) : q.user = "driver" => q.what = pc
         /\ \A u \in Users : reply[u] # "queued" => \A q \in At(queue) : q.user # u
<1>1. \A q \in At(queue) : q \in Requests /\ q.user \in Users
  BY AtTyped DEF Queued, Requests
<1> QED
  BY <1>1 DEF Queued

\* Queued, when neither the queue nor the replies change: the driver moves only
\* when it does not wait.
LEMMA QueuedKept ==
  ASSUME Types, Queued, UNCHANGED <<queue, reply, failed>>,
         pc' = pc \/ reply["driver"] \notin {"queued", "running"}
  PROVE  Queued'
<1>1. "driver" \in Users
  BY DEF Users
<1>2. \A q \in At(queue') : IF q.user = "client" THEN q.what = "submit" ELSE q.what = pc'
  <2>1. CASE pc' = pc
    BY <2>1 DEF Queued
  <2>2. CASE reply["driver"] # "queued"
    BY <1>1, <2>2, QueueUsers DEF Users
  <2> QED BY <2>1, <2>2
<1> QED
  BY <1>2 DEF Queued

\* Queued, when the queue is emptied: by close, or by a new one.
LEMMA QueuedEmptied ==
  ASSUME Types', queue' = <<>>, \A u \in Users : reply'[u] # "queued",
         reply'["driver"] = "running" => pc' \in {"bind", "start", "drain", "finish"}
  PROVE  Queued'
<1>1. "driver" \in Users
  BY DEF Users
<1> QED
  BY <1>1, EmptyQueue DEF Queued

\* Queued, when a request leaves the queue, if it was there, and its user learns more.
LEMMA QueuedTaken ==
  ASSUME Types, Queued, Good(queue'), UNCHANGED <<pc, failed>>, NEW u \in Users,
         At(queue') = {r \in At(queue) : r.user # u},
         NEW v \in {"none", "running", "ok", "failed"}, reply' = [reply EXCEPT ![u] = v],
         u = "driver" /\ v = "running" => pc \in {"bind", "start", "drain", "finish"}
  PROVE  Queued'
<1>1. \A w \in Users : reply'[w] = IF w = u THEN v ELSE reply[w]
  BY DEF Types
<1>2. \A w \in Users : reply'[w] = "queued" <=> \E q \in At(queue') : q.user = w
  BY <1>1 DEF Queued
<1>3. failed' => queue' = <<>>
  BY EmptyQueue DEF Queued
<1>4. reply'["driver"] \in {"queued", "running"} => pc' \in {"bind", "start", "drain", "finish"}
  BY <1>1 DEF Queued, Users
<1> QED
  BY <1>2, <1>3, <1>4 DEF Queued

\* The same for a user that is not in the queue; the driver may move with it.
LEMMA QueuedTold ==
  ASSUME Types, Queued, UNCHANGED <<queue, failed>>, NEW u \in Users, reply[u] # "queued",
         pc' = pc \/ u = "driver",
         NEW v \in {"none", "running", "ok", "failed"}, reply' = [reply EXCEPT ![u] = v],
         u = "driver" /\ v = "running" => pc' \in {"bind", "start", "drain", "finish"}
  PROVE  Queued'
<1>1. \A w \in Users : reply'[w] = IF w = u THEN v ELSE reply[w]
  BY DEF Types
<1>2. \A w \in Users : reply'[w] = "queued" <=> \E q \in At(queue') : q.user = w
  BY <1>1 DEF Queued
<1>3. \A q \in At(queue') : IF q.user = "client" THEN q.what = "submit" ELSE q.what = pc'
  BY QueueUsers DEF Users
<1>4. reply'["driver"] \in {"queued", "running"} => pc' \in {"bind", "start", "drain", "finish"}
  BY <1>1 DEF Queued, Users
<1> QED
  BY <1>2, <1>3, <1>4 DEF Queued

\* Queued, when the driver asks and waits, or is refused.
LEMMA QueuedAsked ==
  ASSUME Types, Queued, reply["driver"] \notin {"queued", "running"}, failed' = failed,
         pc' \in {"bind", "start", "drain", "finish"}, Enqueue("driver", pc')
  PROVE  Queued'
<1>0. "driver" \in Users /\ pc' \in {"bind", "start", "drain", "finish", "submit"}
  BY DEF Users
<1>1. /\ Good(queue')
      /\ \/ queue' = queue /\ reply' = [reply EXCEPT !["driver"] = "failed"]
         \/ /\ ~failed /\ At(queue') = At(queue) \cup {[user |-> "driver", what |-> pc']}
            /\ reply' = [reply EXCEPT !["driver"] = "queued"]
  BY <1>0, EnqueueFacts
<1>2. \A q \in At(queue) : q.user = "client" /\ q.what = "submit"
  BY <1>0, QueueUsers DEF Users
<1>3. CASE queue' = queue /\ reply' = [reply EXCEPT !["driver"] = "failed"]
  BY <1>2, <1>3 DEF Queued, Users, Types
<1>4. CASE /\ ~failed /\ At(queue') = At(queue) \cup {[user |-> "driver", what |-> pc']}
           /\ reply' = [reply EXCEPT !["driver"] = "queued"]
  <2>1. \A w \in Users : reply'[w] = IF w = "driver" THEN "queued" ELSE reply[w]
    BY <1>4 DEF Types
  <2> DEFINE e == [user |-> "driver", what |-> pc']
  <2>a. e.user = "driver" /\ e \in At(queue')
    BY <1>4
  <2>b. ASSUME NEW w \in Users, w # "driver"
        PROVE  reply'[w] = "queued" <=> \E q \in At(queue') : q.user = w
    <3>1. reply'[w] = reply[w]
      BY <2>1, <2>b
    <3>2. (\E q \in At(queue') : q.user = w) <=> \E q \in At(queue) : q.user = w
      <4> HIDE DEF e
      <4>1. At(queue') = At(queue) \cup {e}
        BY <1>4 DEF e
      <4> QED BY <2>a, <2>b, <4>1
    <3> QED BY <3>1, <3>2 DEF Queued
  <2>2. \A w \in Users : reply'[w] = "queued" <=> \E q \in At(queue') : q.user = w
    BY <1>0, <2>1, <2>a, <2>b
  <2>3. \A q \in At(queue') : IF q.user = "client" THEN q.what = "submit" ELSE q.what = pc'
    BY <1>2, <1>4
  <2> QED BY <1>1, <1>4, <2>2, <2>3 DEF Queued
<1> QED
  BY <1>1, <1>3, <1>4

-------------------------------------------------------------------------------
(* The rendezvous *)

\* The writes to the rendezvous keep its type.
LEMMA RendezvousTypes ==
  ASSUME rv \in Rendezvous
  PROVE  /\ \A j \in Jobs, f \in Users \cup {"frame", "game"} : Park(j, f) => rv' \in Rendezvous
         /\ [rv EXCEPT !.cancelled = TRUE] \in Rendezvous
         /\ \A x \in {"executing", "done"} : [rv EXCEPT !.state = x] \in Rendezvous
         /\ [rv EXCEPT !.state = "done", !.ok = ~rv.cancelled] \in Rendezvous
         /\ NoRendezvous \in Rendezvous
<1>1. \A j \in Jobs, f \in Users \cup {"frame", "game"} : Park(j, f) => rv' \in Rendezvous
  BY DEF Park, Rendezvous
<1>2. /\ [rv EXCEPT !.cancelled = TRUE] \in Rendezvous
      /\ \A x \in {"executing", "done"} : [rv EXCEPT !.state = x] \in Rendezvous
  BY DEF Rendezvous
<1>3. [rv EXCEPT !.state = "done", !.ok = ~rv.cancelled] \in Rendezvous
  <2> DEFINE b == ~rv.cancelled
  <2>1. b \in BOOLEAN
    BY Zenon DEF Rendezvous
  <2> HIDE DEF b
  <2>2. [rv EXCEPT !.state = "done", !.ok = b] \in Rendezvous
    BY <2>1 DEF Rendezvous
  <2> QED BY <2>2 DEF b
<1>4. NoRendezvous \in Rendezvous
  BY DEF NoRendezvous, Rendezvous
<1> QED
  BY <1>1, <1>2, <1>3, <1>4

\* Parking puts a job into it.
LEMMA ParkFacts ==
  ASSUME NEW j, NEW f, Park(j, f)
  PROVE  rv'.job = j /\ rv'.for = f /\ rv'.state = "queued"
  BY DEF Park

\* The owner answers a job.
LEMMA JobEndFacts ==
  ASSUME rv \in Rendezvous, JobEnds
  PROVE  /\ rv' \in Rendezvous /\ rv'.job = rv.job /\ rv'.for = rv.for /\ rv'.state = "done"
         /\ job' = "none" /\ graphics' = "none"
<1>1. rv' = [rv EXCEPT !.state = "done", !.ok = ~rv.cancelled]
  BY Zenon DEF JobEnds
<1>2. rv' \in Rendezvous
  BY <1>1, RendezvousTypes
<1> DEFINE b == ~rv.cancelled
<1> HIDE DEF b
<1>3. rv' = [rv EXCEPT !.state = "done", !.ok = b]
  BY <1>1 DEF b
<1>4. rv'.job = rv.job /\ rv'.for = rv.for /\ rv'.state = "done"
  BY <1>3 DEF Rendezvous
<1> QED
  BY <1>2, <1>4 DEF JobEnds

\* Every step of the driver, the client, the render thread and the owner keeps the
\* invariant, but for the types of its flags.
LEMMA Steps == ASSUME IInv, [Next]_vars PROVE Core'
<1> USE DEF call, driver, flags, admission, binding, gate, dispatcher, service, serving,
            hostVars, results
<1> USE DEF IInv, Core
<1>1. ASSUME NEW t \in {"foreign", "render"}, StartRefused(t) PROVE Core'
  <2>0. Over /\ ~retained /\ attempts # 0
    BY <1>1, ModuleBackendAssumption DEF StartRefused, Types, Ended, Progress
  <2>1. Types'
    BY <1>1, <2>0 DEF StartRefused, Types
  <2>2. Queued'
    BY <1>1, QueuedKept DEF StartRefused, Queued
  <2>3. Waits'
    BY <1>1, <2>0 DEF StartRefused, Queued, Waits, InCallback, DriverRenders, Users
  <2>4. Progress'
    BY <1>1, <2>0 DEF StartRefused, Progress, Over
  <2>5. Ended'
    BY <1>1, <2>0 DEF StartRefused, Ended, Over, Joined, InCallback
  <2>6. Works' /\ Hosted'
    BY <1>1 DEF StartRefused, Works, Hosted, Alive
  <2> QED BY <2>1, <2>2, <2>3, <2>4, <2>5, <2>6
<1>2. ASSUME NEW t \in {"foreign", "render"}, Start(t) PROVE Core'
  <2>0. queue' = <<>> /\ At(queue') = {}
    BY <1>2, EmptyQueue DEF Start
  <2>1. Types'
    <3>1. attempts + 1 \in 0 .. MaxAttempts
      BY <1>2, ModuleBackendAssumption DEF Start, Types
    <3> QED BY <1>2, <3>1 DEF Start, Types
  <2>2. Queued'
    <3>1. \A u \in Users : reply[u] # "queued"
      BY <1>2, EmptyQueue DEF Start, Ended, Queued
    <3>2. reply["driver"] # "running"
      BY <1>2 DEF Start, Queued
    <3> QED BY <1>2, <2>0, <2>1, <3>1, <3>2, QueuedEmptied DEF Start
  <2>3. Waits'
    BY <1>2, <2>0 DEF Start, Queued, Waits, Ended, InCallback, DriverRenders, Users
  <2>4. Works'
    BY <1>2, <2>0 DEF Start, Works, Ended, Joined
  <2>5. Hosted'
    BY <1>2, <2>0 DEF Start, Waits, Works, Hosted, Ended, Joined, InCallback
  <2>6. Progress'
    BY <1>2, <2>0 DEF Start, Progress, Joined, Types
  <2>7. Ended'
    BY <1>2, <2>0 DEF Start, Ended, Types
  <2> QED BY <2>1, <2>2, <2>3, <2>4, <2>5, <2>6, <2>7
<1>3. ASSUME NEW t \in {"foreign", "render"}, StopAgain(t) PROVE Core'
  <2>1. Types'
    BY <1>3 DEF StopAgain, DriverGoes, Types
  <2>2. Queued'
    BY <1>3, QueuedKept DEF StopAgain, MayStop, DriverGoes, Queued
  <2>3. Waits'
    BY <1>3 DEF StopAgain, MayStop, DriverGoes, Queued, Waits, InCallback, DriverRenders,
       Resting, Users
  <2>4. Progress'
    BY <1>3 DEF StopAgain, MayStop, DriverGoes, Progress
  <2>5. Ended'
    BY <1>3 DEF StopAgain, MayStop, DriverGoes, Queued, Progress, Ended, Over, Joined,
       InCallback
  <2>6. Works' /\ Hosted'
    BY <1>3 DEF StopAgain, DriverGoes, Works, Hosted, Alive
  <2> QED BY <2>1, <2>2, <2>3, <2>4, <2>5, <2>6
<1>4. ASSUME NEW t \in {"foreign", "render"}, StopBegins(t) PROVE Core'
  <2>1. Types'
    BY <1>4 DEF StopBegins, Types
  <2>2. Queued'
    BY <1>4, QueuedKept DEF StopBegins, MayStop, Queued
  <2>3. Waits'
    BY <1>4 DEF StopBegins, MayStop, Queued, Waits, InCallback, DriverRenders, Resting, Users
  <2>4. Hosted'
    BY <1>4 DEF StopBegins, Hosted, Alive
  <2>5. Progress'
    BY <1>4 DEF StopBegins, MayStop, Progress, Joined
  <2>6. Ended'
    BY <1>4 DEF StopBegins, MayStop, Ended
  <2>7. Works'
    BY <1>4 DEF StopBegins, MayStop, Works
  <2> QED BY <2>1, <2>2, <2>3, <2>4, <2>5, <2>6, <2>7
<1>5. ASSUME StartFails PROVE Core'
  <2>1. Types'
    BY <1>5 DEF StartFails, DriverGoes, Types
  <2>2. Queued'
    BY <1>5, QueuedKept DEF StartFails, DriverGoes, Queued
  <2>3. Waits'
    BY <1>5 DEF StartFails, DriverGoes, Queued, Waits, InCallback, DriverRenders, Resting,
       Users
  <2>4. Progress'
    BY <1>5 DEF StartFails, DriverGoes, Progress
  <2>5. Ended'
    BY <1>5 DEF StartFails, DriverGoes, Progress, Ended
  <2>6. Works' /\ Hosted'
    BY <1>5 DEF StartFails, DriverGoes, Works, Hosted, Alive
  <2> QED BY <2>1, <2>2, <2>3, <2>4, <2>5, <2>6
<1>6. ASSUME Acquire PROVE Core'
  <2>1. Types'
    BY <1>6 DEF Acquire, Types
  <2>2. Queued'
    BY <1>6, QueuedKept DEF Acquire, Queued
  <2>3. Waits'
    BY <1>6 DEF Acquire, Queued, Waits, DriverRenders, Resting, Users
  <2>4. Progress'
    BY <1>6 DEF Acquire, Progress, Joined, Types
  <2>5. Ended'
    BY <1>6 DEF Acquire, Ended
  <2>6. Works' /\ Hosted'
    BY <1>6 DEF Acquire, Works, Hosted, Alive
  <2> QED BY <2>1, <2>2, <2>3, <2>4, <2>5, <2>6
<1>7. ASSUME RenderSeen PROVE Core'
  <2>0. /\ Good(queue')
        /\ \/ queue' = queue /\ reply' = [reply EXCEPT !["driver"] = "failed"]
           \/ /\ ~failed /\ At(queue') = At(queue) \cup {[user |-> "driver", what |-> "bind"]}
              /\ reply' = [reply EXCEPT !["driver"] = "queued"]
    BY <1>7, EnqueueFacts DEF RenderSeen, Queued, Users
  <2>1. Types'
    BY <1>7, <2>0 DEF RenderSeen, Types
  <2>2. Queued'
    BY <1>7, QueuedAsked DEF RenderSeen, Queued
  <2>3. Waits'
    BY <1>7, <2>0 DEF RenderSeen, Types, Queued, Waits, InCallback, DriverRenders, Resting,
       Users
  <2>4. Hosted'
    BY <1>7, <2>0 DEF RenderSeen, Hosted, Alive
  <2>5. Progress'
    BY <1>7, <2>0 DEF RenderSeen, Progress, Joined, Types
  <2>6. Ended'
    BY <1>7, <2>0 DEF RenderSeen, Ended
  <2>7. Works'
    BY <1>7 DEF RenderSeen, Works
  <2> QED BY <2>1, <2>2, <2>3, <2>4, <2>5, <2>6, <2>7
<1>8. ASSUME BindAnswered PROVE Core'
  <2>1. Types'
    BY <1>8 DEF BindAnswered, DriverGoes, Types
  <2>2. Queued'
    BY <1>8, QueuedKept DEF BindAnswered, Answered, DriverGoes, Queued
  <2>3. Waits'
    BY <1>8 DEF BindAnswered, Answered, DriverGoes, Waits, DriverRenders, Resting, InCallback,
       Users
  <2>4. Progress'
    BY <1>8 DEF BindAnswered, DriverGoes, Progress
  <2>5. Ended'
    BY <1>8 DEF BindAnswered, DriverGoes, Progress, Ended
  <2>6. Works' /\ Hosted'
    BY <1>8 DEF BindAnswered, DriverGoes, Works, Hosted, Alive
  <2> QED BY <2>1, <2>2, <2>3, <2>4, <2>5, <2>6
<1>9. ASSUME StartOwner PROVE Core'
  <2>0. /\ Good(queue')
        /\ \/ queue' = queue /\ reply' = [reply EXCEPT !["driver"] = "failed"]
           \/ /\ ~failed /\ At(queue') = At(queue) \cup {[user |-> "driver", what |-> "start"]}
              /\ reply' = [reply EXCEPT !["driver"] = "queued"]
    BY <1>9, EnqueueFacts DEF StartOwner, Queued, Users
  <2>1. Types'
    BY <1>9, <2>0 DEF StartOwner, Types
  <2>2. Queued'
    BY <1>9, QueuedAsked DEF StartOwner, Queued
  <2>3. Waits'
    BY <1>9, <2>0 DEF StartOwner, Types, Queued, Waits, InCallback, DriverRenders, Resting,
       Users
  <2>4. Works'
    BY <1>9, <2>0 DEF StartOwner, Works
  <2>5. Hosted'
    BY <1>9, <2>0 DEF StartOwner, Hosted, Progress, Alive
  <2>6. Progress'
    BY <1>9, <2>0 DEF StartOwner, Progress, Joined, Types
  <2>7. Ended'
    BY <1>9, <2>0 DEF StartOwner, Ended
  <2> QED BY <2>1, <2>2, <2>3, <2>4, <2>5, <2>6, <2>7
<1>10. ASSUME StartAnswered PROVE Core'
  <2>1. Types'
    BY <1>10 DEF StartAnswered, Types
  <2>2. Queued'
    BY <1>10, QueuedKept DEF StartAnswered, Answered, AdmitsLoading, Queued
  <2>3. Waits'
    BY <1>10 DEF StartAnswered, Answered, Waits, DriverRenders, Resting, InCallback, Users
  <2>4. Hosted'
    BY <1>10 DEF StartAnswered, AdmitsLoading, Hosted, Alive
  <2>5. Progress'
    BY <1>10 DEF StartAnswered, Progress
  <2>6. Ended'
    BY <1>10 DEF StartAnswered, Progress, Ended
  <2>7. Works'
    BY <1>10 DEF StartAnswered, Answered, AdmitsLoading, Works
  <2> QED BY <2>1, <2>2, <2>3, <2>4, <2>5, <2>6, <2>7
<1>11. ASSUME AskDrain PROVE Core'
  <2>1. CASE caller = "foreign"
    <3>0. /\ UNCHANGED <<rv, render>>
          /\ \/ queue' = queue /\ reply' = [reply EXCEPT !["driver"] = "failed"]
             \/ /\ ~failed /\ At(queue') = At(queue) \cup {[user |-> "driver", what |-> "drain"]}
                /\ reply' = [reply EXCEPT !["driver"] = "queued"]
      BY <1>11, <2>1, EnqueueFacts DEF AskDrain, Queued, Users
    <3>1. Types'
      BY <1>11, <2>1, <3>0 DEF AskDrain, Types
    <3>2. Queued'
      BY <1>11, <2>1, QueuedAsked DEF AskDrain, Queued
    <3>3. Waits'
      BY <1>11, <2>1, <3>0 DEF AskDrain, Types, Queued, Waits, InCallback, DriverRenders,
         Users
    <3>4. Works'
      BY <1>11, <2>1, <3>0 DEF AskDrain, Works
    <3>5. Hosted'
      BY <1>11, <2>1, <3>0 DEF AskDrain, Hosted, Alive
    <3>6. Progress'
      BY <1>11, <2>1, <3>0 DEF AskDrain, Progress
    <3>7. Ended'
      BY <1>11, <2>1, <3>0 DEF AskDrain, Ended
    <3> QED BY <3>1, <3>2, <3>3, <3>4, <3>5, <3>6, <3>7
  <2>2. CASE caller = "render" /\ MayPark
    <3>0. /\ rv' \in Rendezvous /\ rv'.job = "drain" /\ rv'.for = "driver" /\ rv'.state = "queued"
          /\ render = "out" /\ render' = "driving" /\ owner = "running" /\ queue' = queue
          /\ reply' = [reply EXCEPT !["driver"] = "running"]
      BY <1>11, <2>2, ParkFacts, RendezvousTypes
         DEF AskDrain, MayPark, Types, Waits, DriverRenders, Resting, Jobs, Users
    <3>1. Types'
      BY <1>11, <2>2, <3>0 DEF AskDrain, Types
    <3>2. Queued'
      BY <1>11, <3>0, QueuedTold DEF AskDrain, Queued, Users
    <3>3. Waits'
      BY <1>11, <2>2, <3>0 DEF AskDrain, Types, Waits, InCallback
    <3>4. Works'
      BY <1>11, <2>2, <3>0 DEF AskDrain, Waits, Works
    <3>5. Hosted'
      BY <1>11, <2>2, <3>0 DEF AskDrain, Hosted, Alive, Frames
    <3>6. Progress'
      BY <1>11, <2>2, <3>0 DEF AskDrain, Progress
    <3>7. Ended'
      BY <1>11, <2>2, <3>0 DEF AskDrain, Ended
    <3> QED BY <3>1, <3>2, <3>3, <3>4, <3>5, <3>6, <3>7
  <2>3. CASE caller = "render" /\ ~MayPark
    <3>0. /\ reply' = [reply EXCEPT !["driver"] = "failed"] /\ queue' = queue
          /\ UNCHANGED <<rv, render>>
      BY <1>11, <2>3 DEF AskDrain
    <3>1. Types'
      <4>1. /\ pc' = "drain"
            /\ UNCHANGED <<caller, attempts, lease, graphics, owner, job, host, final>>
        BY <1>11 DEF AskDrain
      <4>2. reply' \in [Users -> {"none", "queued", "running", "ok", "failed"}]
        BY <3>0 DEF Types
      <4> QED BY <3>0, <4>1, <4>2 DEF Types
    <3>2. Queued'
      BY <1>11, <3>0, QueuedTold DEF AskDrain, Queued, Users
    <3>3. Waits'
      BY <1>11, <2>3, <3>0 DEF AskDrain, Waits, InCallback, DriverRenders, Resting
    <3>4. Works'
      BY <1>11, <2>3, <3>0 DEF AskDrain, Works
    <3>5. Hosted'
      BY <1>11, <2>3, <3>0 DEF AskDrain, Hosted, Alive
    <3>6. Progress'
      BY <1>11, <2>3, <3>0 DEF AskDrain, Progress
    <3>7. Ended'
      BY <1>11, <2>3, <3>0 DEF AskDrain, Ended
    <3> QED BY <3>1, <3>2, <3>3, <3>4, <3>5, <3>6, <3>7
  <2> QED BY <2>1, <2>2, <2>3 DEF Types
<1>12. ASSUME DrainAnswered PROVE Core'
  <2>1. Types'
    BY <1>12 DEF DrainAnswered, Types
  <2>2. Queued'
    BY <1>12, QueuedKept DEF DrainAnswered, Answered, Queued
  <2>3. Waits'
    BY <1>12 DEF DrainAnswered, Answered, Waits, DriverRenders, Resting, InCallback, Users
  <2>4. Progress'
    BY <1>12 DEF DrainAnswered, Progress
  <2>5. Ended'
    BY <1>12 DEF DrainAnswered, Ended
  <2>6. Works' /\ Hosted'
    BY <1>12 DEF DrainAnswered, Works, Hosted, Alive
  <2> QED BY <2>1, <2>2, <2>3, <2>4, <2>5, <2>6
<1>13. ASSUME AskFinish PROVE Core'
  <2>1. CASE caller = "foreign"
    <3>0. /\ UNCHANGED <<rv, render, dClosed, graphics, owner, final>>
          /\ \/ queue' = queue /\ reply' = [reply EXCEPT !["driver"] = "failed"]
             \/ /\ ~failed /\ At(queue') = At(queue) \cup {[user |-> "driver", what |-> "finish"]}
                /\ reply' = [reply EXCEPT !["driver"] = "queued"]
      BY <1>13, <2>1, EnqueueFacts DEF AskFinish, Queued, Users
    <3>1. Types'
      BY <1>13, <2>1, <3>0 DEF AskFinish, Types
    <3>2. Queued'
      BY <1>13, <2>1, QueuedAsked DEF AskFinish, Queued
    <3>3. Waits'
      BY <1>13, <2>1, <3>0 DEF AskFinish, Types, Queued, Waits, InCallback, DriverRenders,
         Users
    <3>4. Works'
      BY <1>13, <2>1, <3>0 DEF AskFinish, Works
    <3>5. Hosted'
      BY <1>13, <2>1, <3>0 DEF AskFinish, Hosted, Alive
    <3>6. Progress'
      BY <1>13, <2>1, <3>0 DEF AskFinish, Types, Progress, Users
    <3>7. Ended'
      BY <1>13, <2>1, <3>0 DEF AskFinish, Ended
    <3> QED BY <3>1, <3>2, <3>3, <3>4, <3>5, <3>6, <3>7
  <2>2. CASE caller = "render"
    <3>0. /\ render = "out" /\ rv.state = "none" /\ rv' = rv /\ job = "none" /\ graphics' = "none"
          /\ owner = "running" /\ owner' = "stopping" /\ final' = "stop" /\ dClosed' = TRUE
          /\ render' = "closing" /\ queue' = queue
          /\ reply' = [reply EXCEPT !["driver"] = "running"]
      BY <1>13, <2>2
         DEF AskFinish, Finish, StopOwner, Types, Waits, Works, Progress, DriverRenders,
             Resting
    <3>1. Types'
      BY <1>13, <2>2, <3>0 DEF AskFinish, Types
    <3>2. Queued'
      BY <1>13, <3>0, QueuedTold DEF AskFinish, Queued, Users
    <3>3. Waits'
      BY <1>13, <2>2, <3>0 DEF AskFinish, Types, Waits, InCallback, Users
    <3>4. Works'
      BY <1>13, <2>2, <3>0 DEF AskFinish, Works
    <3>5. Hosted'
      BY <1>13, <2>2, <3>0 DEF AskFinish, Hosted, Alive
    <3>6. Progress'
      BY <1>13, <2>2, <3>0 DEF AskFinish, Types, Progress, Users
    <3>7. Ended'
      BY <1>13, <2>2, <3>0 DEF AskFinish, Ended
    <3> QED BY <3>1, <3>2, <3>3, <3>4, <3>5, <3>6, <3>7
  <2> QED BY <2>1, <2>2 DEF Types
<1>14. ASSUME FinishAnswered PROVE Core'
  <2>1. Types'
    BY <1>14 DEF FinishAnswered, DriverGoes, Types
  <2>2. Queued'
    BY <1>14, QueuedKept DEF FinishAnswered, Answered, DriverGoes, Queued
  <2>3. Waits'
    BY <1>14 DEF FinishAnswered, Answered, DriverGoes, Waits, DriverRenders, Resting,
       InCallback, Users
  <2>4. Progress'
    BY <1>14 DEF FinishAnswered, DriverGoes, Hosted, Progress, Joined
  <2>5. Ended'
    BY <1>14 DEF FinishAnswered, DriverGoes, Ended
  <2>6. Works' /\ Hosted'
    BY <1>14 DEF FinishAnswered, DriverGoes, Works, Hosted, Alive
  <2> QED BY <2>1, <2>2, <2>3, <2>4, <2>5, <2>6
<1>15. ASSUME StopClosesDispatcher PROVE Core'
  <2>0. /\ rv' \in Rendezvous /\ rv'.job = rv.job /\ rv'.for = rv.for /\ rv'.state = rv.state
        /\ graphics' \in {graphics, "cancelled"} /\ (graphics = "none" => graphics' = "none")
    BY <1>15, RendezvousTypes DEF StopClosesDispatcher, CloseDispatcher, Types, Rendezvous
  <2>1. Types'
    BY <1>15, <2>0 DEF StopClosesDispatcher, Types
  <2>2. Queued'
    BY <1>15, QueuedKept DEF StopClosesDispatcher, CloseDispatcher, Queued
  <2>3. Waits'
    BY <1>15, <2>0 DEF StopClosesDispatcher, Queued, Waits, InCallback, DriverRenders,
       Resting, Users
  <2>4. Works'
    BY <1>15, <2>0 DEF StopClosesDispatcher, Works
  <2>5. Hosted'
    BY <1>15, <2>0 DEF StopClosesDispatcher, Hosted, Alive
  <2>6. Progress'
    BY <1>15, <2>0 DEF StopClosesDispatcher, CloseDispatcher, Progress, Joined
  <2>7. Ended'
    BY <1>15, <2>0 DEF StopClosesDispatcher, Ended
  <2> QED BY <2>1, <2>2, <2>3, <2>4, <2>5, <2>6, <2>7
<1>16. ASSUME StopClosesBinding PROVE Core'
  <2>0. /\ queue' = <<>> /\ At(queue') = {}
        /\ rv' \in Rendezvous /\ rv'.job = rv.job /\ rv'.for = rv.for
        /\ rv'.state = IF rv.state = "queued" THEN "done" ELSE rv.state
    BY <1>16, EmptyQueue, RendezvousTypes
       DEF StopClosesBinding, CloseBinding, CloseWork, StopOwner, Types, Works, Rendezvous
  <2>1. Types'
    BY <1>16, <2>0 DEF StopClosesBinding, CloseBinding, CloseWork, StopOwner, Types
  <2>2. Queued'
    BY <1>16, <2>0, <2>1, QueuedEmptied DEF StopClosesBinding, CloseBinding, CloseWork,
       Queued, Users
  <2>3. Waits'
    BY <1>16, <2>0 DEF StopClosesBinding, CloseBinding, CloseWork, Queued, Waits, InCallback,
       DriverRenders, Resting, Users
  <2>4. Works'
    BY <1>16, <2>0 DEF StopClosesBinding, StopOwner, Works
  <2>5. Hosted'
    BY <1>16, <2>0 DEF StopClosesBinding, StopOwner, Hosted, Progress, Alive
  <2>6. Progress'
    BY <1>16, <2>0 DEF StopClosesBinding, CloseBinding, CloseWork, StopOwner, Progress
  <2>7. Ended'
    BY <1>16, <2>0 DEF StopClosesBinding, Ended
  <2> QED BY <2>1, <2>2, <2>3, <2>4, <2>5, <2>6, <2>7
<1>17. ASSUME StopJoins PROVE Core'
  <2>1. Types'
    BY <1>17 DEF StopJoins, DriverGoes, Types
  <2>2. Queued'
    BY <1>17, QueuedKept DEF StopJoins, DriverGoes, Queued
  <2>3. Waits'
    BY <1>17 DEF StopJoins, DriverGoes, Queued, Waits, InCallback, DriverRenders, Resting,
       Users
  <2>4. Progress'
    BY <1>17 DEF StopJoins, DriverGoes, Hosted, Progress, Joined
  <2>5. Ended'
    BY <1>17 DEF StopJoins, DriverGoes, Ended
  <2>6. Works' /\ Hosted'
    BY <1>17 DEF StopJoins, DriverGoes, Works, Hosted, Alive
  <2> QED BY <2>1, <2>2, <2>3, <2>4, <2>5, <2>6
<1>18. ASSUME Release PROVE Core'
  <2>0. queue' = <<>> /\ At(queue') = {}
    BY <1>18, EmptyQueue DEF Release, CloseWork, Pending
  <2>1. Types'
    BY <1>18, <2>0 DEF Release, CloseWork, Types
  <2>2. Queued'
    BY <1>18, <2>0, <2>1, QueuedEmptied DEF Release, CloseWork, Queued, Users
  <2>3. Waits'
    BY <1>18, <2>0 DEF Release, CloseWork, Pending, Queued, Waits, InCallback, DriverRenders,
       Resting, Users
  <2>4. Hosted'
    BY <1>18, <2>0 DEF Release, Hosted, Alive
  <2>5. Progress'
    BY <1>18, <2>0 DEF Release, Progress, Joined
  <2>6. Ended'
    BY <1>18, <2>0 DEF Release, CloseWork, Pending, Waits, Progress, Ended, Over, Joined,
       InCallback
  <2>7. Works'
    BY <1>18 DEF Release, CloseWork, Pending, Works
  <2> QED BY <2>1, <2>2, <2>3, <2>4, <2>5, <2>6, <2>7
<1>19. ASSUME ReleaseGivesUp PROVE Core'
  <2>1. Types'
    BY <1>19 DEF ReleaseGivesUp, DriverGoes, Types
  <2>2. Queued'
    BY <1>19, QueuedKept DEF ReleaseGivesUp, DriverGoes, Queued
  <2>3. Waits'
    BY <1>19 DEF ReleaseGivesUp, DriverGoes, Queued, Waits, DriverRenders, Resting, Users
  <2>4. Progress'
    BY <1>19 DEF ReleaseGivesUp, DriverGoes, Progress
  <2>5. Ended'
    BY <1>19 DEF ReleaseGivesUp, DriverGoes, Ended
  <2>6. Works' /\ Hosted'
    BY <1>19 DEF ReleaseGivesUp, DriverGoes, Works, Hosted, Alive
  <2> QED BY <2>1, <2>2, <2>3, <2>4, <2>5, <2>6
<1>20. ASSUME NEW u \in Users, Timeout(u) PROVE Core'
  <2>0. Good(queue') /\ At(queue') = {r \in At(queue) : r.user # u}
    BY <1>20, EraseQueue DEF Queued, Timeout
  <2>1. Types'
    BY <1>20, <2>0 DEF Timeout, Types
  <2>2. Queued'
    BY <1>20, <2>0, QueuedTaken, QueueUsers DEF Timeout, Expires, Requests, Users
  <2>3. Waits'
    BY <1>20, <2>0 DEF Timeout, Expires, Waits, DriverRenders, InCallback
  <2>4. Hosted'
    BY <1>20, <2>0 DEF Timeout, Hosted, Alive
  <2>5. Progress'
    BY <1>20, <2>0 DEF Timeout, Progress, Joined
  <2>6. Ended'
    BY <1>20, <2>0 DEF Timeout, Ended, Over, Joined, InCallback
  <2>7. Works'
    BY <1>20 DEF Timeout, Expires, Works
  <2> QED BY <2>1, <2>2, <2>3, <2>4, <2>5, <2>6, <2>7
<1>21. ASSUME ClientSubmits PROVE Core'
  <2>0. /\ Good(queue')
        /\ \/ queue' = queue /\ reply' = [reply EXCEPT !["client"] = "failed"]
           \/ /\ ~failed /\ At(queue') = At(queue) \cup {[user |-> "client", what |-> "submit"]}
              /\ reply' = [reply EXCEPT !["client"] = "queued"]
    BY <1>21, EnqueueFacts DEF ClientSubmits, Queued, Users
  <2>1. Types'
    BY <1>21, <2>0 DEF ClientSubmits, Types
  <2>2. Queued'
    <3>0. "client" \in Users /\ "driver" \in Users /\ reply["client"] = "none"
      BY <1>21 DEF ClientSubmits, Users
    <3>1. CASE queue' = queue /\ reply' = [reply EXCEPT !["client"] = "failed"]
      BY <1>21, <3>0, <3>1, QueuedTold DEF ClientSubmits
    <3>2. CASE /\ ~failed /\ At(queue') = At(queue) \cup {[user |-> "client", what |-> "submit"]}
               /\ reply' = [reply EXCEPT !["client"] = "queued"]
      <4> DEFINE e == [user |-> "client", what |-> "submit"]
      <4>1. e.user = "client" /\ e.what = "submit" /\ At(queue') = At(queue) \cup {e}
        BY <3>2
      <4> HIDE DEF e
      <4>2. \A w \in Users : reply'[w] = IF w = "client" THEN "queued" ELSE reply[w]
        BY <3>2 DEF Types
      <4>3. \A w \in Users : reply'[w] = "queued" <=> \E q \in At(queue') : q.user = w
        BY <3>0, <4>1, <4>2 DEF Queued
      <4>4. \A q \in At(queue') : IF q.user = "client" THEN q.what = "submit" ELSE q.what = pc
        BY <4>1 DEF Queued
      <4>5. reply'["driver"] = reply["driver"] /\ pc' = pc /\ failed' = failed
        BY <1>21, <3>0, <4>2 DEF ClientSubmits
      <4> QED BY <2>0, <3>2, <4>3, <4>4, <4>5 DEF Queued
    <3> QED BY <2>0, <3>1, <3>2
  <2>3. Waits'
    BY <1>21, <2>0 DEF ClientSubmits, Waits, DriverRenders, InCallback, Users, Types
  <2>4. Hosted'
    BY <1>21, <2>0 DEF ClientSubmits, Hosted, Alive
  <2>5. Progress'
    BY <1>21, <2>0 DEF ClientSubmits, Types, Progress, Joined, Users
  <2>6. Ended'
    BY <1>21, <2>0 DEF ClientSubmits, Types, Ended, Over, Joined, InCallback
  <2>7. Works'
    BY <1>21 DEF ClientSubmits, Works
  <2> QED BY <2>1, <2>2, <2>3, <2>4, <2>5, <2>6, <2>7
<1>22. ASSUME ClientReturns PROVE Core'
  <2>1. Types'
    BY <1>22 DEF ClientReturns, Types, Users
  <2>2. Queued'
    BY <1>22, QueuedTold DEF ClientReturns, Waits, Users
  <2>3. Waits'
    BY <1>22 DEF ClientReturns, Waits, DriverRenders, InCallback
  <2>4. Progress'
    BY <1>22 DEF ClientReturns, Progress, Joined, Types
  <2>5. Works' /\ Hosted' /\ Ended'
    BY <1>22 DEF ClientReturns, Works, Hosted, Ended, Alive, InCallback, Joined, Over
  <2> QED BY <2>1, <2>2, <2>3, <2>4, <2>5
<1>23. ASSUME PresentEnters PROVE Core'
  <2>1. Types'
    BY <1>23 DEF PresentEnters, RenderGoes, Types
  <2>2. Waits'
    BY <1>23 DEF PresentEnters, RenderGoes, Waits, DriverRenders
  <2>3. Hosted'
    BY <1>23 DEF PresentEnters, RenderGoes, Hosted, Alive
  <2>4. Ended'
    BY <1>23 DEF PresentEnters, RenderGoes, Ended, Over
  <2>5. Queued' /\ Works' /\ Progress'
    BY <1>23 DEF PresentEnters, RenderGoes, Queued, Works, Progress, Joined
  <2> QED BY <2>1, <2>2, <2>3, <2>4, <2>5
<1>24. ASSUME RenderSubmits PROVE Core'
  <2>1. Types'
    BY <1>24 DEF RenderSubmits, Park, Types, Jobs, Rendezvous
  <2>2. Waits'
    BY <1>24 DEF RenderSubmits, Park, Waits, DriverRenders, InCallback, Users
  <2>3. Works'
    BY <1>24 DEF RenderSubmits, MayPark, Park, Waits, Works
  <2>4. Hosted'
    BY <1>24 DEF RenderSubmits, MayPark, Hosted, Alive
  <2>5. Ended'
    BY <1>24 DEF RenderSubmits, MayPark, Ended, Over, Joined
  <2>6. Queued' /\ Progress'
    BY <1>24 DEF RenderSubmits, Queued, Progress, Joined
  <2> QED BY <2>1, <2>2, <2>3, <2>4, <2>5, <2>6
<1>25. ASSUME CallbackBegins PROVE Core'
  <2>1. Types'
    BY <1>25 DEF CallbackBegins, Types
  <2>2. Waits'
    BY <1>25 DEF CallbackBegins, Waits, DriverRenders, InCallback
  <2>3. Hosted'
    BY <1>25 DEF CallbackBegins, Hosted, Alive
  <2>4. Ended'
    BY <1>25 DEF CallbackBegins, Ended, Over, Joined, InCallback
  <2>5. Queued' /\ Works' /\ Progress'
    BY <1>25 DEF CallbackBegins, Queued, Works, Progress, Joined
  <2> QED BY <2>1, <2>2, <2>3, <2>4, <2>5
<1>26. ASSUME PumpFindsNothing PROVE Core'
  <2>1. Types'
    BY <1>26 DEF PumpFindsNothing, RenderGoes, Types
  <2>2. Waits'
    BY <1>26 DEF PumpFindsNothing, RenderGoes, Waits, DriverRenders, InCallback
  <2>3. Hosted'
    BY <1>26 DEF PumpFindsNothing, RenderGoes, Hosted, Alive
  <2>4. Ended'
    BY <1>26 DEF PumpFindsNothing, RenderGoes, Ended, Over, Joined, InCallback
  <2>5. Queued' /\ Works' /\ Progress'
    BY <1>26 DEF PumpFindsNothing, RenderGoes, Queued, Works, Progress, Joined
  <2> QED BY <2>1, <2>2, <2>3, <2>4, <2>5
<1>27. ASSUME PumpBinds PROVE Core'
  <2>0. /\ Head(queue) \in At(queue) /\ Head(queue) \in Requests /\ Good(queue')
        /\ At(queue') = {r \in At(queue) : r.user # Head(queue).user}
    BY <1>27, TailQueue DEF Queued, PumpBinds
  <2>1. Types'
    BY <1>27, <2>0 DEF PumpBinds, Types, Users
  <2>2. Queued'
    BY <1>27, <2>0, QueuedTaken, QueueUsers DEF PumpBinds, Requests, Users
  <2>3. Waits'
    BY <1>27, <2>0 DEF PumpBinds, Waits, DriverRenders, InCallback
  <2>4. Hosted'
    BY <1>27, <2>0 DEF PumpBinds, Hosted, Alive
  <2>5. Progress'
    BY <1>27, <2>0 DEF PumpBinds, Queued, Progress
  <2>6. Ended'
    BY <1>27, <2>0 DEF PumpBinds, Ended, Over, InCallback
  <2>7. Works'
    BY <1>27 DEF PumpBinds, Works
  <2> QED BY <2>1, <2>2, <2>3, <2>4, <2>5, <2>6, <2>7
<1>28. ASSUME PumpParks PROVE Core'
  <2>0. /\ Head(queue) \in At(queue) /\ Head(queue) \in Requests /\ Good(queue')
        /\ At(queue') = {r \in At(queue) : r.user # Head(queue).user}
    BY <1>28, TailQueue DEF Queued, PumpParks
  <2>1. CASE MayPark
    <3>0. /\ rv' \in Rendezvous /\ rv'.job = Head(queue).what /\ rv'.for = Head(queue).user
          /\ rv'.state = "queued" /\ render' = "parked" /\ owner = "running"
          /\ rv.state = "none" /\ job = "none" /\ ~DriverRenders
          /\ Head(queue).user \in Users /\ Head(queue).what \in Jobs
          /\ reply[Head(queue).user] = "queued"
          /\ reply' = [reply EXCEPT ![Head(queue).user] = "running"]
          /\ (Head(queue).user = "driver" => Head(queue).what = pc)
          /\ (Head(queue).what \in Frames => host = "up")
          /\ At(queue') \subseteq At(queue)
      BY <1>28, <2>0, <2>1, ParkFacts, RendezvousTypes, QueueUsers
         DEF PumpParks, MayPark, Types, Waits, Works, Hosted, Alive, Queued, DriverRenders,
             Resting, Jobs,
             Users, Requests, Frames
    <3>1. Types'
      BY <1>28, <2>1, <3>0 DEF PumpParks, Types
    <3>2. Queued'
      BY <1>28, <2>0, <3>0, QueuedTaken DEF PumpParks, Queued, Users
    <3>3. Waits'
      BY <1>28, <2>1, <3>0 DEF PumpParks, Types, Waits, InCallback, DriverRenders, Users
    <3>4. Works'
      BY <1>28, <2>1, <3>0 DEF PumpParks, Works
    <3>5. Hosted'
      BY <1>28, <2>1, <3>0 DEF PumpParks, Hosted, Alive
    <3>6. Progress'
      BY <1>28, <2>1, <3>0 DEF PumpParks, Progress, Joined
    <3>7. Ended'
      BY <1>28, <2>1, <3>0 DEF PumpParks, Queued, Ended, Over
    <3> QED BY <3>1, <3>2, <3>3, <3>4, <3>5, <3>6, <3>7
  <2>2. CASE ~MayPark
    <3>0. /\ rv' = rv /\ render' = "pumped" /\ Head(queue).user \in Users
          /\ reply' = [reply EXCEPT ![Head(queue).user] = "failed"]
          /\ reply[Head(queue).user] = "queued" /\ At(queue') \subseteq At(queue)
      BY <1>28, <2>0, <2>2, QueueUsers DEF PumpParks, Queued
    <3>1. Types'
      BY <1>28, <2>2, <3>0 DEF PumpParks, Types
    <3>2. Queued'
      BY <1>28, <2>0, <3>0, QueuedTaken DEF PumpParks
    <3>3. Waits'
      BY <1>28, <2>2, <3>0 DEF PumpParks, Waits, InCallback, DriverRenders
    <3>4. Works'
      BY <1>28, <2>2, <3>0 DEF PumpParks, Works
    <3>5. Hosted'
      BY <1>28, <2>2, <3>0 DEF PumpParks, Hosted, Alive
    <3>6. Progress'
      BY <1>28, <2>2, <3>0 DEF PumpParks, Progress, Joined
    <3>7. Ended'
      BY <1>28, <2>2, <3>0 DEF PumpParks, Queued, Ended, Over
    <3> QED BY <3>1, <3>2, <3>3, <3>4, <3>5, <3>6, <3>7
  <2> QED BY <2>1, <2>2
<1>29. ASSUME PumpFinishes PROVE Core'
  <2>0. /\ Head(queue) \in At(queue) /\ Head(queue) \in Requests /\ Good(queue')
        /\ At(queue') = {r \in At(queue) : r.user # Head(queue).user}
        /\ Head(queue).user = "driver" /\ pc = "finish" /\ reply["driver"] = "queued"
        /\ rv.state = "none" /\ rv' = rv /\ job = "none" /\ graphics' = "none"
        /\ owner' = (IF owner = "running" THEN "stopping" ELSE owner) /\ final' = "stop"
    <3>1. /\ Head(queue) \in At(queue) /\ Head(queue) \in Requests /\ Good(queue')
          /\ At(queue') = {r \in At(queue) : r.user # Head(queue).user}
      BY <1>29, TailQueue DEF Queued, PumpFinishes
    <3>2. Head(queue).user = "driver" /\ pc = "finish" /\ reply["driver"] = "queued"
      BY <1>29, <3>1, QueueUsers DEF PumpFinishes, Queued, Users
    <3> QED BY <1>29, <3>1, <3>2 DEF PumpFinishes, Finish, StopOwner, Waits, Works
  <2>1. Types'
    BY <1>29, <2>0 DEF PumpFinishes, Types
  <2>2. Queued'
    BY <1>29, <2>0, QueuedTaken, QueueUsers DEF PumpFinishes
  <2>3. Waits'
    BY <1>29, <2>0 DEF PumpFinishes, Types, Waits, InCallback, DriverRenders, Users
  <2>4. Works'
    BY <1>29, <2>0 DEF PumpFinishes, Works
  <2>5. Hosted'
    BY <1>29, <2>0 DEF PumpFinishes, Hosted, Progress, Alive
  <2>6. Progress'
    BY <1>29, <2>0 DEF PumpFinishes, Types, Progress, Users
  <2>7. Ended'
    BY <1>29, <2>0 DEF PumpFinishes, Ended
  <2> QED BY <2>1, <2>2, <2>3, <2>4, <2>5, <2>6, <2>7
<1>30. ASSUME FinishJoins PROVE Core'
  <2>1. Types'
    BY <1>30 DEF FinishJoins, Types, Users
  <2>2. Queued'
    BY <1>30, QueuedTold DEF FinishJoins, Waits, Users
  <2>3. Waits'
    BY <1>30 DEF FinishJoins, Waits, DriverRenders, InCallback, Users, Types
  <2>4. Hosted'
    BY <1>30 DEF FinishJoins, Hosted, Alive
  <2>5. Progress'
    BY <1>30 DEF FinishJoins, Waits, Progress, Joined
  <2>6. Ended'
    BY <1>30 DEF FinishJoins, Ended, Over, Joined, InCallback
  <2>7. Works'
    BY <1>30 DEF FinishJoins, Works
  <2> QED BY <2>1, <2>2, <2>3, <2>4, <2>5, <2>6, <2>7
<1>31. ASSUME FrameWork PROVE Core'
  <2>1. Types'
    BY <1>31 DEF FrameWork, RenderGoes, Types
  <2>2. Waits'
    BY <1>31 DEF FrameWork, RenderGoes, Waits, DriverRenders, InCallback
  <2>3. Hosted'
    BY <1>31 DEF FrameWork, RenderGoes, Hosted, Alive
  <2>4. Ended'
    BY <1>31 DEF FrameWork, RenderGoes, Ended, Over, Joined, InCallback
  <2>5. Queued' /\ Works' /\ Progress'
    BY <1>31 DEF FrameWork, RenderGoes, Queued, Works, Progress, Joined
  <2> QED BY <2>1, <2>2, <2>3, <2>4, <2>5
<1>32. ASSUME FrameParks PROVE Core'
  <2>1. CASE MayPark
    <3>0. /\ rv' \in Rendezvous /\ rv'.job = "loading" /\ rv'.for = "frame" /\ rv'.state = "queued"
          /\ render' = "parked" /\ owner = "running" /\ host = "up" /\ rv.state = "none"
          /\ UNCHANGED <<failed, queue, reply>>
      BY <1>32, <2>1, ParkFacts, RendezvousTypes
         DEF FrameParks, MayPark, Types, Waits, Hosted, Alive, Jobs
    <3>1. Types'
      BY <1>32, <2>1, <3>0 DEF FrameParks, Types
    <3>2. Queued'
      BY <1>32, <3>0, QueuedKept DEF FrameParks
    <3>3. Waits'
      BY <1>32, <2>1, <3>0 DEF FrameParks, Waits, InCallback, DriverRenders, Users
    <3>4. Works'
      BY <1>32, <2>1, <3>0 DEF FrameParks, Works
    <3>5. Hosted'
      BY <1>32, <2>1, <3>0 DEF FrameParks, Hosted, Alive
    <3>6. Progress'
      BY <1>32, <2>1, <3>0 DEF FrameParks, Progress, Joined
    <3>7. Ended'
      BY <1>32, <2>1, <3>0 DEF FrameParks, Ended, Over, Joined
    <3> QED BY <3>1, <3>2, <3>3, <3>4, <3>5, <3>6, <3>7
  <2>2. CASE ~MayPark
    <3>0. /\ rv' = rv /\ render' = "leaving" /\ failed' = TRUE /\ queue' = <<>> /\ At(queue') = {}
          /\ reply' = [u \in Users |-> IF reply[u] = "queued" THEN "failed" ELSE reply[u]]
      BY <1>32, <2>2, EmptyQueue DEF FrameParks, CloseWork
    <3>1. Types'
      BY <1>32, <2>2, <3>0 DEF FrameParks, Types
    <3>2. Queued'
      BY <1>32, <3>0, <3>1, QueuedEmptied DEF FrameParks, Queued, Users
    <3>3. Waits'
      BY <1>32, <2>2, <3>0 DEF FrameParks, Waits, InCallback, DriverRenders, Users
    <3>4. Works'
      BY <1>32, <2>2, <3>0 DEF FrameParks, Works
    <3>5. Hosted'
      BY <1>32, <2>2, <3>0 DEF FrameParks, Hosted, Alive
    <3>6. Progress'
      BY <1>32, <2>2, <3>0 DEF FrameParks, Progress, Joined, Users
    <3>7. Ended'
      BY <1>32, <2>2, <3>0 DEF FrameParks, Waits, Ended, Over, InCallback
    <3> QED BY <3>1, <3>2, <3>3, <3>4, <3>5, <3>6, <3>7
  <2> QED BY <2>1, <2>2
<1>33. ASSUME RenderTakesGraphics PROVE Core'
  <2>1. Types'
    BY <1>33 DEF RenderTakesGraphics, Types
  <2>2. Works'
    BY <1>33 DEF RenderTakesGraphics, Works
  <2>3. Queued' /\ Waits' /\ Hosted' /\ Progress' /\ Ended'
    BY <1>33 DEF RenderTakesGraphics, Queued, Waits, Hosted, Progress, Ended, Alive,
       DriverRenders, InCallback, Joined, Over
  <2> QED BY <2>1, <2>2, <2>3
<1>34. ASSUME RenderRunsGraphics PROVE Core'
  <2>1. Types'
    BY <1>34 DEF RenderRunsGraphics, Types
  <2>2. Works'
    BY <1>34 DEF RenderRunsGraphics, Works
  <2>3. Hosted'
    BY <1>34 DEF RenderRunsGraphics, Works, Hosted, Alive
  <2>4. Queued' /\ Waits' /\ Progress' /\ Ended'
    BY <1>34 DEF RenderRunsGraphics, Queued, Waits, Progress, Ended, DriverRenders,
       InCallback, Joined, Over
  <2> QED BY <2>1, <2>2, <2>3, <2>4
<1>35. ASSUME RenderUnparks PROVE Core'
  <2>1. CASE rv.for = "frame" /\ ~rv.ok
    <3>0. /\ rv' = NoRendezvous /\ failed' = TRUE /\ queue' = <<>> /\ At(queue') = {}
          /\ reply' = [u \in Users |-> IF reply[u] = "queued" THEN "failed" ELSE reply[u]]
          /\ reply["client"] # "running" /\ reply["driver"] # "running"
      BY <1>35, <2>1, EmptyQueue DEF RenderUnparks, CloseWork, Waits
    <3>1. Types'
      BY <1>35, <2>1, <3>0 DEF RenderUnparks, Types, Rendezvous, NoRendezvous
    <3>2. Queued'
      BY <1>35, <3>0, <3>1, QueuedEmptied DEF RenderUnparks, Queued, Users
    <3>3. Waits'
      BY <1>35, <2>1, <3>0 DEF RenderUnparks, Waits, InCallback, DriverRenders, Users,
         NoRendezvous
    <3>4. Works'
      BY <1>35, <2>1, <3>0 DEF RenderUnparks, Works, NoRendezvous
    <3>5. Hosted'
      BY <1>35, <2>1, <3>0 DEF RenderUnparks, Hosted, Alive, NoRendezvous
    <3>6. Progress'
      BY <1>35, <2>1, <3>0 DEF RenderUnparks, Progress, Joined, Users
    <3>7. Ended'
      BY <1>35, <2>1, <3>0 DEF RenderUnparks, Ended, Over, Joined, InCallback
    <3> QED BY <3>1, <3>2, <3>3, <3>4, <3>5, <3>6, <3>7
  <2>2. CASE ~(rv.for = "frame" /\ ~rv.ok) /\ rv.for \in Users
    <3>0. /\ rv' = NoRendezvous /\ UNCHANGED <<failed, queue>> /\ reply[rv.for] = "running"
          /\ \E v \in {"ok", "failed"} : reply' = [reply EXCEPT ![rv.for] = v]
      BY <1>35, <2>2 DEF RenderUnparks, Waits
    <3>1. Types'
      BY <1>35, <2>2, <3>0 DEF RenderUnparks, Types, Rendezvous, NoRendezvous
    <3>2. Queued'
      BY <1>35, <2>2, <3>0, QueuedTold DEF RenderUnparks
    <3>3. Waits'
      BY <1>35, <2>2, <3>0 DEF RenderUnparks, Types, Waits, InCallback, DriverRenders,
         NoRendezvous
    <3>4. Works'
      BY <1>35, <2>2, <3>0 DEF RenderUnparks, Works, NoRendezvous
    <3>5. Hosted'
      BY <1>35, <2>2, <3>0 DEF RenderUnparks, Hosted, Alive, NoRendezvous
    <3>6. Progress'
      BY <1>35, <2>2, <3>0 DEF RenderUnparks, Types, Waits, Progress, Joined, Jobs, Rendezvous
    <3>7. Ended'
      BY <1>35, <2>2, <3>0 DEF RenderUnparks, Ended, Over, Joined, InCallback
    <3> QED BY <3>1, <3>2, <3>3, <3>4, <3>5, <3>6, <3>7
  <2>3. CASE ~(rv.for = "frame" /\ ~rv.ok) /\ rv.for \notin Users
    <3>0. rv' = NoRendezvous /\ UNCHANGED <<failed, queue, reply>>
      BY <1>35, <2>3 DEF RenderUnparks
    <3>1. Types'
      BY <1>35, <2>3, <3>0 DEF RenderUnparks, Types, Rendezvous, NoRendezvous
    <3>2. Queued'
      BY <1>35, <3>0, QueuedKept DEF RenderUnparks
    <3>3. Waits'
      BY <1>35, <2>3, <3>0 DEF RenderUnparks, Waits, InCallback, DriverRenders, Users,
         NoRendezvous
    <3>4. Works'
      BY <1>35, <2>3, <3>0 DEF RenderUnparks, Works, NoRendezvous
    <3>5. Hosted'
      BY <1>35, <2>3, <3>0 DEF RenderUnparks, Hosted, Alive, NoRendezvous
    <3>6. Progress'
      BY <1>35, <2>3, <3>0 DEF RenderUnparks, Progress, Joined
    <3>7. Ended'
      BY <1>35, <2>3, <3>0 DEF RenderUnparks, Ended, Over, Joined, InCallback
    <3> QED BY <3>1, <3>2, <3>3, <3>4, <3>5, <3>6, <3>7
  <2> QED BY <2>1, <2>2, <2>3
<1>36. ASSUME CallbackReturns PROVE Core'
  <2>1. Types'
    BY <1>36 DEF CallbackReturns, RenderGoes, Types
  <2>2. Waits'
    BY <1>36 DEF CallbackReturns, RenderGoes, Waits, InCallback
  <2>3. Hosted'
    BY <1>36 DEF CallbackReturns, RenderGoes, Hosted, Alive
  <2>4. Ended'
    BY <1>36 DEF CallbackReturns, RenderGoes, Ended, Over, Joined, InCallback
  <2>5. Queued' /\ Works' /\ Progress'
    BY <1>36 DEF CallbackReturns, RenderGoes, Queued, Works, Progress, Joined
  <2> QED BY <2>1, <2>2, <2>3, <2>4, <2>5
<1>37. ASSUME OwnerTakes PROVE Core'
  <2>1. Types'
    BY <1>37 DEF OwnerTakes, Types, Rendezvous
  <2>2. Waits'
    BY <1>37 DEF OwnerTakes, Waits, DriverRenders, InCallback, Rendezvous, Types
  <2>3. Works'
    BY <1>37 DEF OwnerTakes, Types, Waits, Works, Rendezvous
  <2>4. Hosted'
    BY <1>37 DEF OwnerTakes, Hosted, Alive, Rendezvous, Types
  <2>5. Queued' /\ Progress' /\ Ended'
    BY <1>37 DEF OwnerTakes, Queued, Progress, Ended, Joined, Over
  <2> QED BY <2>1, <2>2, <2>3, <2>4, <2>5
<1>38. ASSUME StartJobOpens PROVE Core'
  <2>0. /\ rv' \in Rendezvous /\ rv'.job = rv.job /\ rv'.for = rv.for
        /\ \/ job' = "none" /\ graphics' = "none" /\ rv'.state = "done"
           \/ job' = job /\ graphics' = "asked" /\ rv' = rv
    BY <1>38, JobEndFacts DEF StartJobOpens, AsksGraphics, Types
  <2>1. Types'
    BY <1>38, <2>0 DEF StartJobOpens, Types
  <2>2. Waits'
    BY <1>38, <2>0 DEF StartJobOpens, Waits, Works, InCallback, DriverRenders
  <2>3. Works'
    BY <1>38, <2>0 DEF StartJobOpens, Works
  <2>4. Hosted'
    BY <1>38, <2>0 DEF StartJobOpens, Works, Hosted, Alive
  <2>5. Progress'
    BY <1>38, <2>0 DEF StartJobOpens, Works, Progress, Joined
  <2>6. Ended'
    BY <1>38, <2>0 DEF StartJobOpens, Works, Ended, Over, Joined
  <2>7. Queued'
    BY <1>38 DEF StartJobOpens, AsksGraphics, JobEnds, Queued
  <2> QED BY <2>1, <2>2, <2>3, <2>4, <2>5, <2>6, <2>7
<1>39. ASSUME StartJobEnds PROVE Core'
  <2>0. /\ rv' \in Rendezvous /\ rv'.job = rv.job /\ rv'.for = rv.for /\ rv'.state = "done"
        /\ job' = "none" /\ graphics' = "none"
    BY <1>39, JobEndFacts DEF StartJobEnds, Types
  <2>1. Types'
    BY <1>39, <2>0 DEF StartJobEnds, Types
  <2>2. Waits'
    BY <1>39, <2>0 DEF StartJobEnds, Waits, Works, InCallback, DriverRenders
  <2>3. Works'
    BY <1>39, <2>0 DEF Works
  <2>4. Hosted'
    BY <1>39, <2>0 DEF StartJobEnds, Works, Hosted, Alive
  <2>5. Ended'
    <3>1. owner # "none" /\ owner # "gone"
      BY <1>39 DEF StartJobEnds, Works
    <3>2. pc # "idle" /\ ~(pc = "failing" /\ stopped)
      BY <3>1 DEF Ended, Over, Joined
    <3>3. attempts # 0
      BY <3>2 DEF Ended
    <3> QED BY <1>39, <3>2, <3>3 DEF StartJobEnds, Ended
  <2>6. Queued' /\ Progress'
    BY <1>39 DEF StartJobEnds, Queued, Progress, Joined
  <2> QED BY <2>1, <2>2, <2>3, <2>4, <2>5, <2>6
<1>40. ASSUME FrameJobRefused PROVE Core'
  <2>0. /\ rv' \in Rendezvous /\ rv'.job = rv.job /\ rv'.for = rv.for /\ rv'.state = "done"
        /\ job' = "none" /\ graphics' = "none"
    BY <1>40, JobEndFacts DEF FrameJobRefused, Types
  <2>1. Types'
    BY <1>40, <2>0 DEF FrameJobRefused, Types
  <2>2. Waits'
    BY <1>40, <2>0 DEF FrameJobRefused, Waits, Works, InCallback, DriverRenders
  <2>3. Works'
    BY <1>40, <2>0 DEF Works
  <2>4. Hosted'
    BY <1>40, <2>0 DEF FrameJobRefused, Hosted, Alive
  <2>5. Queued' /\ Progress' /\ Ended'
    BY <1>40 DEF FrameJobRefused, Queued, Progress, Ended, InCallback, Joined, Over
  <2> QED BY <2>1, <2>2, <2>3, <2>4, <2>5
<1>41. ASSUME FrameJobAsks PROVE Core'
  <2>1. Types'
    BY <1>41 DEF FrameJobAsks, AsksGraphics, Types
  <2>2. Works'
    BY <1>41 DEF FrameJobAsks, AsksGraphics, Works
  <2>3. Queued' /\ Waits' /\ Hosted' /\ Progress' /\ Ended'
    BY <1>41 DEF FrameJobAsks, AsksGraphics, Queued, Waits, Hosted, Progress, Ended, Alive,
       DriverRenders, InCallback, Joined, Over
  <2> QED BY <2>1, <2>2, <2>3
<1>42. ASSUME FrameJobEnds PROVE Core'
  <2>0. /\ rv' \in Rendezvous /\ rv'.job = rv.job /\ rv'.for = rv.for /\ rv'.state = "done"
        /\ job' = "none" /\ graphics' = "none"
    BY <1>42, JobEndFacts DEF FrameJobEnds, Types
  <2>1. Types'
    BY <1>42, <2>0 DEF FrameJobEnds, Types
  <2>2. Waits'
    BY <1>42, <2>0 DEF FrameJobEnds, Waits, Works, InCallback, DriverRenders
  <2>3. Works'
    BY <1>42, <2>0 DEF Works
  <2>4. Hosted'
    BY <1>42, <2>0 DEF FrameJobEnds, Works, Hosted, Alive
  <2>5. Queued' /\ Progress' /\ Ended'
    BY <1>42 DEF FrameJobEnds, Queued, Progress, Ended, InCallback, Joined, Over
  <2> QED BY <2>1, <2>2, <2>3, <2>4, <2>5
<1>43. ASSUME DrainJobBegins PROVE Core'
  <2>0. /\ rv' \in Rendezvous /\ rv'.job = rv.job /\ rv'.for = rv.for
        /\ \/ job' = "none" /\ graphics' = "none" /\ rv'.state = "done"
           \/ job' = job /\ graphics' = "asked" /\ rv' = rv
    BY <1>43, JobEndFacts DEF DrainJobBegins, AsksGraphics, Types
  <2>1. Types'
    BY <1>43, <2>0 DEF DrainJobBegins, Types
  <2>2. Waits'
    BY <1>43, <2>0 DEF DrainJobBegins, Waits, Works, InCallback, DriverRenders
  <2>3. Works'
    BY <1>43, <2>0 DEF DrainJobBegins, Works
  <2>4. Hosted'
    BY <1>43, <2>0 DEF DrainJobBegins, Hosted, Alive
  <2>5. Queued' /\ Progress' /\ Ended'
    BY <1>43 DEF DrainJobBegins, Queued, Progress, Ended, InCallback, Joined, Over
  <2> QED BY <2>1, <2>2, <2>3, <2>4, <2>5
<1>44. ASSUME DrainJobEnds PROVE Core'
  <2>0. /\ rv' \in Rendezvous /\ rv'.job = rv.job /\ rv'.for = rv.for /\ rv'.state = "done"
        /\ job' = "none" /\ graphics' = "none"
    BY <1>44, JobEndFacts DEF DrainJobEnds, Types
  <2>1. Types'
    BY <1>44, <2>0 DEF DrainJobEnds, Types
  <2>2. Waits'
    BY <1>44, <2>0 DEF DrainJobEnds, Waits, Works, InCallback, DriverRenders
  <2>3. Works'
    BY <1>44, <2>0 DEF Works
  <2>4. Hosted'
    BY <1>44, <2>0 DEF DrainJobEnds, Hosted, Alive
  <2>5. Queued' /\ Progress' /\ Ended'
    BY <1>44 DEF DrainJobEnds, Queued, Progress, Ended, InCallback, Joined, Over
  <2> QED BY <2>1, <2>2, <2>3, <2>4, <2>5
<1>45. ASSUME OwnerFinishes PROVE Core'
  <2>1. Types'
    BY <1>45 DEF OwnerFinishes, Closed, Outcome, Types
  <2>2. Waits'
    BY <1>45 DEF OwnerFinishes, Waits, DriverRenders, InCallback
  <2>3. Works'
    BY <1>45 DEF OwnerFinishes, Works
  <2>4. Hosted'
    BY <1>45 DEF OwnerFinishes, Closed, Outcome, Works, Hosted, Alive
  <2>5. Progress'
    BY <1>45 DEF OwnerFinishes, Progress, Joined
  <2>6. Ended'
    BY <1>45 DEF OwnerFinishes, Ended, Over, Joined
  <2>7. Queued'
    BY <1>45 DEF OwnerFinishes, Closed, Outcome, Queued
  <2> QED BY <2>1, <2>2, <2>3, <2>4, <2>5, <2>6, <2>7
<1>46. ASSUME PumpRestarts PROVE Core'
  <2>1. Types' /\ Queued' /\ Waits' /\ Works' /\ Hosted' /\ Progress' /\ Ended'
    BY <1>46 DEF PumpRestarts, Types, Queued, Waits, Works, Hosted, Progress, Ended, Alive,
       DriverRenders, InCallback, Joined, Over
  <2> QED BY <2>1
<1>47. ASSUME PumpEndsSession PROVE Core'
  <2>1. Types' /\ Queued' /\ Waits' /\ Works' /\ Hosted' /\ Progress' /\ Ended'
    BY <1>47 DEF PumpEndsSession, Types, Queued, Waits, Works, Hosted, Progress, Ended, Alive,
       DriverRenders, InCallback, Joined, Over
  <2> QED BY <2>1
<1>48. ASSUME PumpFails PROVE Core'
  <2>1. Types' /\ Queued' /\ Waits' /\ Works' /\ Hosted' /\ Progress' /\ Ended'
    BY <1>48 DEF PumpFails, Types, Queued, Waits, Works, Hosted, Progress, Ended, Alive,
       DriverRenders, InCallback, Joined, Over
  <2> QED BY <2>1
<1>49. ASSUME UNCHANGED vars PROVE Core'
  <2>1. Types' /\ Queued' /\ Waits' /\ Works' /\ Hosted' /\ Progress' /\ Ended'
    BY <1>49 DEF vars, Types, Queued, Waits, Works, Hosted, Progress, Ended, Alive,
       DriverRenders, InCallback, Joined, Over
  <2> QED BY <2>1
<1> QED BY <1>1, <1>2, <1>3, <1>4, <1>5, <1>6, <1>7, <1>8, <1>9, <1>10, <1>11, <1>12, <1>13,
           <1>14, <1>15, <1>16, <1>17, <1>18, <1>19, <1>20, <1>21, <1>22, <1>23, <1>24, <1>25,
           <1>26, <1>27, <1>28, <1>29, <1>30, <1>31, <1>32, <1>33, <1>34, <1>35, <1>36, <1>37,
           <1>38, <1>39, <1>40, <1>41, <1>42, <1>43, <1>44, <1>45, <1>46, <1>47, <1>48,
           <1>49 DEF Next, DriverStep, RenderStep, OwnerStep, IdlePump

\* The flags stay Booleans.
LEMMA FlagsStep == Flags /\ [Next]_vars => Flags'
<1> SUFFICES ASSUME Flags, [Next]_vars PROVE Flags'
  OBVIOUS
<1> USE DEF Flags, call, driver, flags, admission, binding, gate, dispatcher, service,
            serving,
            hostVars, results
<1>1. ASSUME NEW t \in {"foreign", "render"}, StartRefused(t) PROVE Flags'
  BY <1>1 DEF StartRefused
<1>2. ASSUME NEW t \in {"foreign", "render"}, Start(t) PROVE Flags'
  BY <1>2 DEF Start
<1>3. ASSUME NEW t \in {"foreign", "render"}, StopAgain(t) PROVE Flags'
  BY <1>3 DEF StopAgain, MayStop, DriverGoes
<1>4. ASSUME NEW t \in {"foreign", "render"}, StopBegins(t) PROVE Flags'
  <2>1. loadingAdmitted' \in BOOLEAN
    BY <1>4, Zenon DEF StopBegins, MayStop
  <2>2. UNCHANGED <<separateDevice, stopped, retained, bound, failed, dBound, dClosed,
                    session, serviceStopped, serviceFailed, gpuPending, startOk, drainOk,
                    cleaned, fenced>>
    BY <1>4 DEF StopBegins, MayStop
  <2> QED BY <2>1, <2>2
<1>5. ASSUME StartFails PROVE Flags'
  BY <1>5 DEF StartFails, DriverGoes
<1>6. ASSUME Acquire PROVE Flags'
  BY <1>6 DEF Acquire
<1>7. ASSUME RenderSeen PROVE Flags'
  BY <1>7 DEF RenderSeen
<1>8. ASSUME BindAnswered PROVE Flags'
  BY <1>8 DEF BindAnswered, Answered, DriverGoes
<1>9. ASSUME StartOwner PROVE Flags'
  BY <1>9 DEF StartOwner
<1>10. ASSUME StartAnswered PROVE Flags'
  BY <1>10 DEF StartAnswered, Answered, AdmitsLoading
<1>11. ASSUME AskDrain PROVE Flags'
  BY <1>11 DEF AskDrain, MayPark, Park
<1>12. ASSUME DrainAnswered PROVE Flags'
  BY <1>12 DEF DrainAnswered, Answered
<1>13. ASSUME AskFinish PROVE Flags'
  <2>1. dClosed' \in BOOLEAN
    BY <1>13, Zenon DEF AskFinish, Finish, StopOwner
  <2>2. UNCHANGED <<separateDevice, stopped, retained, loadingAdmitted, bound, failed, dBound,
                    session, serviceStopped, serviceFailed, gpuPending, startOk, drainOk,
                    cleaned, fenced>>
    BY <1>13 DEF AskFinish, Finish, StopOwner
  <2> QED BY <2>1, <2>2
<1>14. ASSUME FinishAnswered PROVE Flags'
  BY <1>14 DEF FinishAnswered, Answered, DriverGoes
<1>15. ASSUME StopClosesDispatcher PROVE Flags'
  <2>1. /\ dClosed' \in BOOLEAN /\ retained' \in BOOLEAN
        /\ stopped' \in BOOLEAN /\ loadingAdmitted' \in BOOLEAN
    BY <1>15, Zenon DEF StopClosesDispatcher, CloseDispatcher
  <2>2. UNCHANGED <<separateDevice, bound, failed, dBound, session, serviceStopped,
                    serviceFailed, gpuPending, startOk, drainOk, cleaned, fenced>>
    BY <1>15 DEF StopClosesDispatcher, CloseDispatcher
  <2> QED BY <2>1, <2>2
<1>16. ASSUME StopClosesBinding PROVE Flags'
  BY <1>16 DEF StopClosesBinding, CloseBinding, CloseWork, StopOwner
<1>17. ASSUME StopJoins PROVE Flags'
  BY <1>17 DEF StopJoins, DriverGoes
<1>18. ASSUME Release PROVE Flags'
  <2>1. failed' \in BOOLEAN /\ stopped' \in BOOLEAN
    BY <1>18, Zenon DEF Release, CloseWork, Pending
  <2>2. UNCHANGED <<separateDevice, retained, loadingAdmitted, bound, dBound, dClosed,
                    session, serviceStopped, serviceFailed, gpuPending, startOk, drainOk,
                    cleaned, fenced>>
    BY <1>18 DEF Release, CloseWork, Pending
  <2> QED BY <2>1, <2>2
<1>19. ASSUME ReleaseGivesUp PROVE Flags'
  BY <1>19 DEF ReleaseGivesUp, DriverGoes
<1>20. ASSUME NEW u \in Users, Timeout(u) PROVE Flags'
  BY <1>20 DEF Timeout, Expires
<1>21. ASSUME ClientSubmits PROVE Flags'
  BY <1>21 DEF ClientSubmits
<1>22. ASSUME ClientReturns PROVE Flags'
  BY <1>22 DEF ClientReturns
<1>23. ASSUME PresentEnters PROVE Flags'
  BY <1>23 DEF PresentEnters, RenderGoes
<1>24. ASSUME RenderSubmits PROVE Flags'
  BY <1>24 DEF RenderSubmits, MayPark, Park
<1>25. ASSUME CallbackBegins PROVE Flags'
  BY <1>25 DEF CallbackBegins
<1>26. ASSUME PumpFindsNothing PROVE Flags'
  BY <1>26 DEF PumpFindsNothing, RenderGoes
<1>27. ASSUME PumpBinds PROVE Flags'
  BY <1>27 DEF PumpBinds
<1>28. ASSUME PumpParks PROVE Flags'
  BY <1>28 DEF PumpParks, MayPark, Park
<1>29. ASSUME PumpFinishes PROVE Flags'
  BY <1>29 DEF PumpFinishes, Finish, StopOwner
<1>30. ASSUME FinishJoins PROVE Flags'
  BY <1>30 DEF FinishJoins
<1>31. ASSUME FrameWork PROVE Flags'
  BY <1>31 DEF FrameWork, RenderGoes
<1>32. ASSUME FrameParks PROVE Flags'
  <2>1. failed' \in BOOLEAN
    BY <1>32, Zenon DEF FrameParks, MayPark, Park, CloseWork
  <2>2. UNCHANGED <<separateDevice, stopped, retained, loadingAdmitted, bound, dBound,
                    dClosed, session, serviceStopped, serviceFailed, gpuPending, startOk,
                    drainOk, cleaned, fenced>>
    BY <1>32 DEF FrameParks, MayPark, Park, CloseWork
  <2> QED BY <2>1, <2>2
<1>33. ASSUME RenderTakesGraphics PROVE Flags'
  BY <1>33 DEF RenderTakesGraphics
<1>34. ASSUME RenderRunsGraphics PROVE Flags'
  <2>1. gpuPending' \in BOOLEAN /\ drainOk' \in BOOLEAN
    BY <1>34, Zenon DEF RenderRunsGraphics
  <2>2. UNCHANGED <<separateDevice, stopped, retained, loadingAdmitted, bound, failed, dBound,
                    dClosed, session, serviceStopped, serviceFailed, startOk, cleaned,
                    fenced>>
    BY <1>34 DEF RenderRunsGraphics
  <2> QED BY <2>1, <2>2
<1>35. ASSUME RenderUnparks PROVE Flags'
  <2>1. failed' \in BOOLEAN
    BY <1>35, Zenon DEF RenderUnparks, CloseWork
  <2>2. UNCHANGED <<separateDevice, stopped, retained, loadingAdmitted, bound, dBound,
                    dClosed, session, serviceStopped, serviceFailed, gpuPending, startOk,
                    drainOk, cleaned, fenced>>
    BY <1>35 DEF RenderUnparks, CloseWork
  <2> QED BY <2>1, <2>2
<1>36. ASSUME CallbackReturns PROVE Flags'
  BY <1>36 DEF CallbackReturns, RenderGoes
<1>37. ASSUME OwnerTakes PROVE Flags'
  BY <1>37 DEF OwnerTakes
<1>38. ASSUME StartJobOpens PROVE Flags'
  BY <1>38 DEF StartJobOpens, AsksGraphics, JobEnds
<1>39. ASSUME StartJobEnds PROVE Flags'
  <2>1. session' \in BOOLEAN /\ startOk' \in BOOLEAN
    BY <1>39, Zenon DEF StartJobEnds, Answer, JobEnds
  <2>2. UNCHANGED <<separateDevice, stopped, retained, loadingAdmitted, bound, failed, dBound,
                    dClosed, serviceStopped, serviceFailed, gpuPending, drainOk, cleaned,
                    fenced>>
    BY <1>39 DEF StartJobEnds, Answer, JobEnds
  <2> QED BY <2>1, <2>2
<1>40. ASSUME FrameJobRefused PROVE Flags'
  BY <1>40 DEF FrameJobRefused, JobEnds
<1>41. ASSUME FrameJobAsks PROVE Flags'
  BY <1>41 DEF FrameJobAsks, AsksGraphics
<1>42. ASSUME FrameJobEnds PROVE Flags'
  <2>1. serviceFailed' \in BOOLEAN /\ serviceStopped' \in BOOLEAN /\ gpuPending' \in BOOLEAN
    BY <1>42, Zenon DEF FrameJobEnds, Answer, FatalFailure, JobEnds
  <2>2. UNCHANGED <<separateDevice, stopped, retained, loadingAdmitted, bound, failed, dBound,
                    dClosed, session, startOk, drainOk, cleaned, fenced>>
    BY <1>42 DEF FrameJobEnds, Answer, FatalFailure, JobEnds
  <2> QED BY <2>1, <2>2
<1>43. ASSUME DrainJobBegins PROVE Flags'
  <2>1. serviceStopped' \in BOOLEAN /\ drainOk' \in BOOLEAN
    BY <1>43, Zenon DEF DrainJobBegins, AsksGraphics, JobEnds
  <2>2. UNCHANGED <<separateDevice, stopped, retained, loadingAdmitted, bound, failed, dBound,
                    dClosed, session, serviceFailed, gpuPending, startOk, cleaned, fenced>>
    BY <1>43 DEF DrainJobBegins, AsksGraphics, JobEnds
  <2> QED BY <2>1, <2>2
<1>44. ASSUME DrainJobEnds PROVE Flags'
  BY <1>44 DEF DrainJobEnds, Answer, JobEnds
<1>45. ASSUME OwnerFinishes PROVE Flags'
  <2>1. serviceStopped' \in BOOLEAN /\ gpuPending' \in BOOLEAN /\ cleaned' \in BOOLEAN
        /\ session' \in BOOLEAN
    <3>1. \A o \in Closed : o.pending \in BOOLEAN /\ o.clean \in BOOLEAN
      <4>1. \A o \in Closed : \E h : \E p, c \in BOOLEAN : o = Outcome(h, p, c)
        BY Zenon DEF Closed
      <4>2. ASSUME NEW o \in Closed PROVE o.pending \in BOOLEAN /\ o.clean \in BOOLEAN
        <5>1. PICK h : \E p, c \in BOOLEAN : o = Outcome(h, p, c)
          BY <4>1, Zenon
        <5>2. PICK p \in BOOLEAN, c \in BOOLEAN : o = Outcome(h, p, c)
          BY <5>1, Zenon
        <5>3. o.pending = p /\ o.clean = c
          BY <5>2 DEF Outcome
        <5> QED BY <5>2, <5>3, Zenon
      <4> QED BY <4>2
    <3>2. serviceStopped' \in BOOLEAN
      BY <1>45, Zenon DEF OwnerFinishes
    <3>3. gpuPending' \in BOOLEAN /\ cleaned' \in BOOLEAN
      BY <1>45, <3>1, Zenon DEF OwnerFinishes
    <3>4. session' \in BOOLEAN
      BY <1>45, Zenon DEF OwnerFinishes
    <3> QED BY <3>2, <3>3, <3>4
  <2>2. UNCHANGED <<separateDevice, stopped, retained, loadingAdmitted, bound, failed, dBound,
                    dClosed, serviceFailed, startOk, drainOk, fenced>>
    BY <1>45 DEF OwnerFinishes, Closed, Outcome
  <2> QED BY <2>1, <2>2
<1>46. ASSUME PumpRestarts PROVE Flags'
  <2>1. session' \in BOOLEAN /\ serviceStopped' \in BOOLEAN
    BY <1>46, Zenon DEF PumpRestarts, MayPump
  <2>2. UNCHANGED <<separateDevice, stopped, retained, loadingAdmitted, bound, failed, dBound, dClosed,
                    serviceFailed, gpuPending, startOk, drainOk, cleaned, fenced>>
    BY <1>46 DEF PumpRestarts, MayPump
  <2> QED BY <2>1, <2>2
<1>47. ASSUME PumpEndsSession PROVE Flags'
  <2>1. session' \in BOOLEAN /\ serviceStopped' \in BOOLEAN
    BY <1>47, Zenon DEF PumpEndsSession, MayPump
  <2>2. UNCHANGED <<separateDevice, stopped, retained, loadingAdmitted, bound, failed, dBound, dClosed,
                    serviceFailed, gpuPending, startOk, drainOk, cleaned, fenced>>
    BY <1>47 DEF PumpEndsSession, MayPump
  <2> QED BY <2>1, <2>2
<1>48. ASSUME PumpFails PROVE Flags'
  <2>1. serviceFailed' \in BOOLEAN /\ serviceStopped' \in BOOLEAN
    BY <1>48, Zenon DEF PumpFails, MayPump, FatalFailure
  <2>2. UNCHANGED <<separateDevice, stopped, retained, loadingAdmitted, bound, failed, dBound,
                    dClosed, session, gpuPending, startOk, drainOk, cleaned, fenced>>
    BY <1>48 DEF PumpFails, MayPump, FatalFailure
  <2> QED BY <2>1, <2>2
<1>49. ASSUME UNCHANGED vars PROVE Flags'
  BY <1>49 DEF vars
<1> QED BY <1>1, <1>2, <1>3, <1>4, <1>5, <1>6, <1>7, <1>8, <1>9, <1>10, <1>11, <1>12, <1>13,
           <1>14, <1>15, <1>16, <1>17, <1>18, <1>19, <1>20, <1>21, <1>22, <1>23, <1>24, <1>25,
           <1>26, <1>27, <1>28, <1>29, <1>30, <1>31, <1>32, <1>33, <1>34, <1>35, <1>36, <1>37,
           <1>38, <1>39, <1>40, <1>41, <1>42, <1>43, <1>44, <1>45, <1>46, <1>47, <1>48, <1>49
       DEF Next, DriverStep, RenderStep, OwnerStep, IdlePump

\* Before the first start every part is in its initial state.
LEMMA InitHolds == Init => IInv
<1> SUFFICES ASSUME Init PROVE IInv
  OBVIOUS
<1>1. Good(queue) /\ At(queue) = {}
  BY EmptyQueue DEF Init
<1>2. Types
  BY ModuleBackendAssumption DEF Init, Types, NoRendezvous, Rendezvous
<1>3. Flags
  BY Zenon DEF Init, Flags
<1>4. Queued
  BY <1>1 DEF Init, Queued, Users
<1>5. Waits /\ Works
  BY DEF Init, Waits, Works, NoRendezvous, Users, InCallback
<1>6. Hosted /\ Progress /\ Ended
  BY <1>1 DEF Init, Hosted, Progress, Ended, Joined, NoRendezvous
<1> QED
  BY <1>2, <1>3, <1>4, <1>5, <1>6 DEF IInv, Core

\* Steps and FlagsStep together.
LEMMA StepHolds == IInv /\ [Next]_vars => IInv'
  BY Steps, FlagsStep DEF IInv

\* The invariant holds in every reachable state.
THEOREM Invariance == Spec => []IInv
  BY InitHolds, StepHolds, PTL DEF Spec

\* The threads of a generation agree on who is where and what they work on exists,
\* for any number of starts: a job of the owner is the rendezvous the render thread
\* waits in, graphics runs for it alone, a request is queued exactly while its user
\* waits for it, and a frame never meets a generation without its host
\* (render_route.h:30-45, native_module.cpp:40-44, 95-96).
THEOREM Agreement == Spec => []ThreadsAgree
<1>1. IInv => ThreadsAgree
  <2> SUFFICES ASSUME IInv PROVE ThreadsAgree
    OBVIOUS
  <2> USE DEF IInv, Core
  <2>1. TypeOK
    <3>1. /\ {stopped, retained, loadingAdmitted, bound, failed, dBound, dClosed, session,
             serviceStopped, serviceFailed, gpuPending, startOk, drainOk, cleaned, fenced}
               \subseteq BOOLEAN
          /\ separateDevice \in BOOLEAN
      <4>1. {stopped, retained, loadingAdmitted, bound, failed} \subseteq BOOLEAN
        BY Zenon DEF Flags
      <4>2. {dBound, dClosed, session, serviceStopped, serviceFailed} \subseteq BOOLEAN
        BY Zenon DEF Flags
      <4>3. {gpuPending, startOk, drainOk, cleaned, fenced} \subseteq BOOLEAN
        BY Zenon DEF Flags
      <4> QED BY <4>1, <4>2, <4>3, SMT DEF Flags
    <3> QED BY <3>1 DEF TypeOK, Types
  <2>2. (rv.state # "none") = (render \in {"parked", "direct", "driving"})
    BY DEF Waits
  <2>3. ASSUME NEW u \in Users
        PROVE  (reply[u] = "queued") = (\E i \in 1 .. Len(queue) : queue[i].user = u)
    <3>1. (\E q \in At(queue) : q.user = u) <=> \E i \in 1 .. Len(queue) : queue[i].user = u
      BY Zenon DEF At
    <3>2. reply[u] = "queued" <=> \E q \in At(queue) : q.user = u
      BY DEF Queued
    <3> QED BY <3>1, <3>2
  <2>4. HostIsThere
    BY DEF HostIsThere, Works, Hosted, Frames
  <2> QED BY <2>1, <2>2, <2>3, <2>4 DEF ThreadsAgree, Consistent, Works
<1> QED
  BY <1>1, Invariance, PTL

\* What a shutdown leaves behind, whichever of its steps failed or timed out and
\* however often the module was started: nothing destroyed that the GPU still uses,
\* and a generation that is joined, closed and out of every callback
\* (native_module.cpp:100-199, d3d11_stereo.cpp:183-189).
THEOREM ShutdownKept == Spec => []ShutdownContract
<1>1. IInv => ShutdownContract
  <2> SUFFICES ASSUME IInv PROVE ShutdownContract
    OBVIOUS
  <2> USE DEF IInv, Core
  <2>1. DestroyedIsDrained
    BY DEF DestroyedIsDrained, Hosted
  <2>2. StopIsFinal
    BY DEF StopIsFinal, Ended, Over, Progress, Works, Joined
  <2> QED BY <2>1, <2>2 DEF ShutdownContract
<1> QED
  BY <1>1, Invariance, PTL

(***************************************************************************)
(* The lifecycle and the exports.  None of the lifecycle's properties is   *)
(* inductive by itself; LifecycleInv adds what ties the state under the    *)
(* mutex to the one caller that is inside the backend (StateMatchesUser),  *)
(* to the token it will publish (AttemptIsFresh) and to what a cancelled   *)
(* start will report (Doom).  The exports drive the lifecycle by steps of  *)
(* its own (DrivesLifecycle), so that all of it holds for them too; what   *)
(* they add is ExportInv.                                                  *)
(***************************************************************************)

\* The state under the mutex says where the one caller inside the backend is.
StateMatchesUser ==
  /\ state = "Starting" => ~cancelled
  /\ \A c \in Callers :
       /\ doing[c] \in {"starting", "started"} =>
            \/ state = "Starting"
            \/ state = "Stopping" /\ cancelled
       /\ doing[c] \in {"cleaning", "cleaned", "cleanupFailed",
                     "closing", "closed", "closeFailed"} => state = "Stopping"

\* A start in flight that nobody cancelled holds the newest token, and no init
\* has returned it; the counter has room for the invalidation.
AttemptIsFresh ==
  /\ handed \subseteq 0 .. token
  /\ state \in {"Starting", "Running"} => token \in 1 .. MaxToken - 1
  /\ state = "Starting" =>
       \A c \in Callers : doing[c] \in {"starting", "started"} => attempt[c] = token

\* What a start that a shutdown found in flight is going to report.
Doom ==
  \A c \in doomed :
    /\ doing[c] \in {"starting", "started"} => state = "Stopping"
    /\ doing[c] \in {"cleaning", "cleaned", "cleanupFailed"} =>
         startResult[c] = "ShuttingDown"
    /\ doing[c] \in {"out", "closing", "closed", "closeFailed"} =>
         returned[c] = 0 /\ error[c] = "ShuttingDown"

\* A failed stop is on its way to the Failed state or there.
FailedStop ==
  /\ stopFailed => \/ state = "Failed"
                   \/ \E c \in Callers : doing[c] \in {"cleanupFailed", "closeFailed"}
  /\ \A c \in Callers : doing[c] \in {"cleaned", "closed"} => ~stopFailed

\* The inductive invariant.
LifecycleInv == /\ Exports!TypeOK
                /\ Exports!BackendHasOneUser
                /\ Exports!StartedIsStopped
                /\ Exports!PublishedIsUp
                /\ Exports!DeadTokensStayDead
                /\ StateMatchesUser
                /\ AttemptIsFresh
                /\ Doom
                /\ FailedStop

-------------------------------------------------------------------------------

\* Init starts the counter where the constructor was told to.
LEMMA LifecycleStart == Exports!Init => LifecycleInv
<1> SUFFICES ASSUME Exports!Init PROVE LifecycleInv
  OBVIOUS
<1>1. Exports!TypeOK
  <2>1. cancelled \in BOOLEAN /\ live \in BOOLEAN /\ stopFailed \in BOOLEAN
    BY Zenon DEF Exports!Init
  <2> QED
    BY <2>1, ExportsAssumption DEF Exports!Init, Exports!TypeOK, Exports!States, Exports!Errors,
        Exports!StartErrors
<1>2. Exports!BackendHasOneUser /\ Exports!StartedIsStopped
  BY DEF Exports!Init, Exports!BackendHasOneUser, Exports!StartedIsStopped, Exports!Users
<1>3. Exports!PublishedIsUp /\ Exports!DeadTokensStayDead
  BY DEF Exports!Init, Exports!PublishedIsUp, Exports!DeadTokensStayDead
<1>4. StateMatchesUser /\ AttemptIsFresh /\ Doom /\ FailedStop
  BY DEF Exports!Init, StateMatchesUser, AttemptIsFresh, Doom, FailedStop
<1> QED
  BY <1>1, <1>2, <1>3, <1>4 DEF LifecycleInv

\* Away from its last value the counter's increment does not wrap.
LEMMA SuccIsNext ==
  ASSUME NEW t \in 0 .. MaxToken - 1
  PROVE  Exports!Succ(t) = t + 1
  BY ExportsAssumption DEF Exports!Succ

\* Every step of every caller keeps the invariant.
LEMMA LifecycleSteps == LifecycleInv /\ [Exports!Next]_(Exports!vars) => LifecycleInv'
<1> SUFFICES ASSUME LifecycleInv, [Exports!Next]_(Exports!vars) PROVE LifecycleInv'
  OBVIOUS
<1> USE ExportsAssumption
<1> USE DEF LifecycleInv, Exports!TypeOK, Exports!States, Exports!Errors, Exports!StartErrors,
    Exports!BackendHasOneUser, Exports!Users, Exports!StartedIsStopped, Exports!PublishedIsUp,
    Exports!DeadTokensStayDead, StateMatchesUser, AttemptIsFresh, Doom, FailedStop,
    Exports!code, Exports!local, Exports!history, Exports!LocalsEnd
<1>1. ASSUME NEW c \in Callers, NEW scene \in BOOLEAN, Exports!InitRefused(c, scene)
      PROVE  LifecycleInv'
  BY <1>1 DEF Exports!InitRefused, Exports!Refusal
<1>2. ASSUME NEW c \in Callers, Exports!InitShared(c) PROVE LifecycleInv'
  BY <1>2 DEF Exports!InitShared, Exports!Refusal
<1>3. ASSUME NEW c \in Callers, Exports!InitBegins(c) PROVE LifecycleInv'
  <2>1. /\ state = "Idle" /\ token \in 0 .. MaxToken - 2
        /\ \A d \in Callers : doing[d] = "out"
    BY <1>3 DEF Exports!InitBegins, Exports!Refusal, Exports!Exhausted
  <2>2. Exports!Succ(token) = token + 1
    BY <2>1, SuccIsNext
  <2>3. /\ doing' = [doing EXCEPT ![c] = "starting"]
        /\ attempt' = [attempt EXCEPT ![c] = token + 1]
        /\ token' = token + 1 /\ cancelled' = FALSE
        /\ state' = "Starting" /\ live' = TRUE /\ doomed' = doomed \ {c}
        /\ UNCHANGED <<interfaces, startResult, returned, error, stopFailed, handed>>
    BY <1>3, <2>2 DEF Exports!InitBegins
  <2>4. Exports!TypeOK'
    <3>1. cancelled' \in BOOLEAN /\ live' \in BOOLEAN
      BY <2>3, Zenon
    <3> QED
      BY <2>1, <2>3, <3>1
  <2>5. (Exports!BackendHasOneUser /\ Exports!StartedIsStopped /\ Exports!PublishedIsUp)'
    BY <2>1, <2>3
  <2>6. (Exports!DeadTokensStayDead /\ StateMatchesUser /\ AttemptIsFresh)'
    BY <2>1, <2>3
  <2>7. (Doom /\ FailedStop)'
    BY <2>1, <2>3
  <2> QED
    BY <2>4, <2>5, <2>6, <2>7
<1>4. ASSUME NEW c \in Callers, Exports!StartReturns(c) PROVE LifecycleInv'
  BY <1>4 DEF Exports!StartReturns
<1>5. ASSUME NEW c \in Callers, Exports!Publish(c) PROVE LifecycleInv'
  BY <1>5 DEF Exports!Publish, Exports!MayPublish
<1>6. ASSUME NEW c \in Callers, NEW complete \in BOOLEAN, Exports!GiveUp(c, complete)
      PROVE  LifecycleInv'
  BY <1>6 DEF Exports!GiveUp, Exports!MayPublish, Exports!Failure
<1>7. ASSUME NEW c \in Callers, NEW answered \in BOOLEAN, Exports!StopReturns(c, answered)
      PROVE  LifecycleInv'
  <2>1. /\ state = "Stopping"
        /\ \A d \in Callers : d # c => doing[d] = "out"
    BY <1>7 DEF Exports!StopReturns
  <2>2. CASE answered
    <3>1. live' = FALSE /\ live' \in BOOLEAN /\ stopFailed' = stopFailed
      BY <1>7, <2>2, Zenon DEF Exports!StopReturns
    <3>2. CASE doing[c] = "cleaning"
      BY <1>7, <2>1, <2>2, <3>1, <3>2 DEF Exports!StopReturns
    <3>3. CASE doing[c] = "closing"
      BY <1>7, <2>1, <2>2, <3>1, <3>3 DEF Exports!StopReturns
    <3> QED
      BY <1>7, <3>2, <3>3 DEF Exports!StopReturns
  <2>3. CASE ~answered
    <3>1. live' = FALSE /\ live' \in BOOLEAN /\ stopFailed' = TRUE /\ stopFailed' \in BOOLEAN
      BY <1>7, <2>3, Zenon DEF Exports!StopReturns
    <3>2. CASE doing[c] = "cleaning"
      BY <1>7, <2>1, <2>3, <3>1, <3>2 DEF Exports!StopReturns
    <3>3. CASE doing[c] = "closing"
      BY <1>7, <2>1, <2>3, <3>1, <3>3 DEF Exports!StopReturns
    <3> QED
      BY <1>7, <3>2, <3>3 DEF Exports!StopReturns
  <2> QED
    BY <2>2, <2>3
<1>8. ASSUME NEW c \in Callers, Exports!InitFails(c) PROVE LifecycleInv'
  BY <1>8 DEF Exports!InitFails, Exports!AfterStop
<1>9. ASSUME NEW c \in Callers, Exports!ShutdownCancels(c) PROVE LifecycleInv'
  BY <1>9, SuccIsNext DEF Exports!ShutdownCancels, Exports!InvalidatedToken, Exports!Starters
<1>10. ASSUME NEW c \in Callers, Exports!ShutdownStops(c) PROVE LifecycleInv'
  BY <1>10, SuccIsNext DEF Exports!ShutdownStops, Exports!MayStop, Exports!InvalidatedToken
<1>11. ASSUME NEW c \in Callers, Exports!ShutdownReturns(c) PROVE LifecycleInv'
  BY <1>11 DEF Exports!ShutdownReturns, Exports!AfterStop
<1>12. CASE UNCHANGED Exports!vars
  BY <1>12 DEF Exports!vars
<1> QED
  BY <1>1, <1>2, <1>3, <1>4, <1>5, <1>6, <1>7, <1>8, <1>9, <1>10, <1>11, <1>12
  DEF Exports!Next, Exports!InitCall, Exports!Shutdown, Exports!Step

-------------------------------------------------------------------------------

\* The invariant holds in every reachable state.
LEMMA LifecycleInductive == LifecycleSpec => []LifecycleInv
  BY LifecycleStart, LifecycleSteps, PTL DEF LifecycleSpec, Exports!Spec

\* Whatever init and shutdown calls race (runtime_lifecycle.h:36-80), the types
\* hold, one thread at a time is inside the backend, and every started backend is
\* stopped exactly once.
THEOREM LifecycleAgrees == LifecycleSpec => []LifecycleConsistent
<1>1. LifecycleInv => LifecycleConsistent
  BY DEF LifecycleInv, LifecycleConsistent, Exports!Consistent
<1> QED
  BY <1>1, LifecycleInductive, PTL

\* getInterface (:83-90) hands out the pointers of the start that the current
\* token names, and none before publication or once a shutdown has begun.
THEOREM Published == LifecycleSpec => []Exports!PublishedIsUp
<1>1. LifecycleInv => Exports!PublishedIsUp
  BY DEF LifecycleInv
<1> QED
  BY <1>1, LifecycleInductive, PTL

\* The ++token_ of a shutdown (:73) kills every token handed out so far for good:
\* none is current again, for any width of the counter and any number of calls.
THEOREM TokensStayDead == LifecycleSpec => []Exports!DeadTokensStayDead
<1>1. LifecycleInv => Exports!DeadTokensStayDead
  BY DEF LifecycleInv
<1> QED
  BY <1>1, LifecycleInductive, PTL

\* An init whose start a shutdown found in flight (:73-76) publishes nothing and
\* reports ShuttingDown.
THEOREM CancelledFails == LifecycleSpec => []Exports!CancelledInitFails
<1>1. LifecycleInv => Exports!CancelledInitFails
  BY DEF LifecycleInv, Doom, Exports!CancelledInitFails
<1> QED
  BY <1>1, LifecycleInductive, PTL

\* A backend stop that answered false (:20) blocks every later start, stop and
\* publication.
THEOREM FailureBlocks == LifecycleSpec => []Exports!FailedStopBlocksRestart
<1>1. LifecycleInv => Exports!FailedStopBlocksRestart
  BY DEF LifecycleInv, FailedStop, Exports!BackendHasOneUser, Exports!Users,
      Exports!PublishedIsUp, StateMatchesUser, Exports!FailedStopBlocksRestart
<1> QED
  BY <1>1, LifecycleInductive, PTL

\* The four results above together: what init promises whoever holds a token or
\* an interface pointer (runtime_lifecycle.h:36-90), for any number of callers
\* and any width of the token.
THEOREM InitKept == LifecycleSpec => []InitContract
<1>1. /\ Exports!PublishedIsUp /\ Exports!DeadTokensStayDead
      /\ Exports!CancelledInitFails /\ Exports!FailedStopBlocksRestart
      => InitContract
  BY DEF InitContract, Exports!InitContract
<1> QED
  BY <1>1, Published, TokensStayDead, CancelledFails, FailureBlocks, PTL

-------------------------------------------------------------------------------
(* The exports *)

\* The one configuration that became the module, and what an init has read.
OneModule ==
  /\ published = IF module = NoModule THEN {} ELSE {module}
  /\ \A c \in Callers : export[c] = "configure" => found[c] \in Configs

\* The inductive invariant of the exports, beside the lifecycle's.
ExportInv ==
  /\ export \in [Callers -> {"out", "configure", "init", "busy", "register", "check",
                           "unregister"}]
  /\ found \in [Callers -> Configs \cup {NoModule}]
  /\ module \in Configs \cup {NoModule} /\ trace \in BOOLEAN
  /\ \A c \in Callers : doing[c] # "out" <=> export[c] = "busy"
  /\ OneModule
  /\ Exports!NoIdleRegistration

\* Whatever an export does to the lifecycle is a step of the lifecycle.
LEMMA ExportsStep == Exports!ModuleNext => [Exports!Next]_(Exports!vars)
<1> SUFFICES ASSUME NEW c \in Callers,
                    \/ \E k \in Configs : Exports!EdvrConfigureNativeRuntime(c, k)
                    \/ Exports!VR_InitInternal(c) \/ Exports!Configure(c) \/ Exports!InitModule(c)
                    \/ Exports!Lifecycle(c) \/ Exports!Register(c) \/ Exports!CheckRunning(c)
                    \/ Exports!VR_ShutdownInternal(c) \/ Exports!Unregister(c)
             PROVE  [Exports!Next]_(Exports!vars)
  BY DEF Exports!ModuleNext
<1>1. CASE \/ \E k \in Configs : Exports!EdvrConfigureNativeRuntime(c, k)
           \/ Exports!VR_InitInternal(c) \/ Exports!Configure(c)
           \/ Exports!Register(c) \/ Exports!CheckRunning(c) \/ Exports!Unregister(c)
  BY <1>1 DEF Exports!EdvrConfigureNativeRuntime, Exports!VR_InitInternal, Exports!Configure,
      Exports!Register, Exports!CheckRunning, Exports!Unregister
<1>2. CASE Exports!InitModule(c)
  BY <1>2 DEF Exports!InitModule, Exports!Next, Exports!InitCall
<1>3. CASE Exports!Lifecycle(c)
  BY <1>3 DEF Exports!Lifecycle, Exports!Next, Exports!Step
<1>4. CASE Exports!VR_ShutdownInternal(c)
  BY <1>4 DEF Exports!VR_ShutdownInternal, Exports!Next, Exports!Shutdown
<1> QED
  BY <1>1, <1>2, <1>3, <1>4

\* The exports call the lifecycle as its specification lets its callers call it,
\* so that everything proved of RuntimeLifecycle holds of the module.
THEOREM DrivesLifecycle == ExportsSpec => LifecycleSpec
<1>1. Exports!ModuleInit => Exports!Init
  BY DEF Exports!ModuleInit
<1>2. [Exports!ModuleNext]_(Exports!moduleVars) => [Exports!Next]_(Exports!vars)
  BY ExportsStep DEF Exports!moduleVars
<1> QED
  BY <1>1, <1>2, PTL DEF ExportsSpec, Exports!ModuleSpec, LifecycleSpec, Exports!Spec

\* Every export keeps its invariant, whichever other exports race it.
LEMMA ExportsKeep ==
  LifecycleInv /\ ExportInv /\ [Exports!ModuleNext]_(Exports!moduleVars) => ExportInv'
<1> SUFFICES ASSUME LifecycleInv, ExportInv, [Exports!ModuleNext]_(Exports!moduleVars)
             PROVE  ExportInv'
  OBVIOUS
<1> USE ExportsAssumption
<1> USE DEF LifecycleInv, Exports!TypeOK, ExportInv, OneModule, Exports!NoIdleRegistration,
    Exports!Goes, Exports!moduleVars, Exports!vars, Exports!code
<1>1. ASSUME NEW c \in Callers, NEW k \in Configs, Exports!EdvrConfigureNativeRuntime(c, k)
      PROVE  ExportInv'
  BY <1>1 DEF Exports!EdvrConfigureNativeRuntime, Exports!ConfigureModule
<1>2. ASSUME NEW c \in Callers, Exports!VR_InitInternal(c) PROVE ExportInv'
  BY <1>2 DEF Exports!VR_InitInternal
<1>3. ASSUME NEW c \in Callers, Exports!Configure(c) PROVE ExportInv'
  BY <1>3 DEF Exports!Configure, Exports!ConfigureModule
<1>4. ASSUME NEW c \in Callers, Exports!InitModule(c) PROVE ExportInv'
  <2>1. ASSUME NEW scene \in BOOLEAN, Exports!InitRefused(c, scene), Exports!Goes(c, "out")
        PROVE  ExportInv'
    BY <1>4, <2>1 DEF Exports!InitModule, Exports!InitRefused, Exports!code
  <2>2. ASSUME Exports!InitShared(c), Exports!Goes(c, "register") PROVE ExportInv'
    BY <1>4, <2>2 DEF Exports!InitModule, Exports!InitShared, Exports!code
  <2>3. ASSUME Exports!InitBegins(c), Exports!Goes(c, "busy") PROVE ExportInv'
    BY <1>4, <2>3 DEF Exports!InitModule, Exports!InitBegins
  <2> QED
    BY <1>4, <2>1, <2>2, <2>3 DEF Exports!InitModule
<1>5. ASSUME NEW c \in Callers, Exports!Lifecycle(c) PROVE ExportInv'
  <2>1. ASSUME Exports!Publish(c), Exports!Goes(c, "register") PROVE ExportInv'
    BY <1>5, <2>1 DEF Exports!Lifecycle, Exports!Publish
  <2>2. ASSUME Exports!InitFails(c), Exports!Goes(c, "out") PROVE ExportInv'
    BY <1>5, <2>2 DEF Exports!Lifecycle, Exports!InitFails, Exports!BackendHasOneUser, Exports!Users
  <2>3. ASSUME Exports!ShutdownReturns(c), Exports!Goes(c, "unregister") PROVE ExportInv'
    BY <1>5, <2>3 DEF Exports!Lifecycle, Exports!ShutdownReturns
  <2>4. ASSUME Exports!StartReturns(c), UNCHANGED export PROVE ExportInv'
    BY <1>5, <2>4 DEF Exports!Lifecycle, Exports!StartReturns, Exports!code
  <2>5. ASSUME NEW b \in BOOLEAN, Exports!GiveUp(c, b), UNCHANGED export PROVE ExportInv'
    BY <1>5, <2>5 DEF Exports!Lifecycle, Exports!GiveUp, StateMatchesUser
  <2>6. ASSUME NEW b \in BOOLEAN, Exports!StopReturns(c, b), UNCHANGED export PROVE ExportInv'
    BY <1>5, <2>6 DEF Exports!Lifecycle, Exports!StopReturns, Exports!code
  <2> QED
    BY <1>5, <2>1, <2>2, <2>3, <2>4, <2>5, <2>6 DEF Exports!Lifecycle
<1>6. ASSUME NEW c \in Callers, Exports!Register(c) PROVE ExportInv'
  <2>1. trace' \in BOOLEAN
    BY <1>6, Zenon DEF Exports!Register
  <2> QED
    BY <1>6, <2>1 DEF Exports!Register
<1>7. ASSUME NEW c \in Callers, Exports!CheckRunning(c) PROVE ExportInv'
  BY <1>7 DEF Exports!CheckRunning, Exports!MayKeep
<1>8. ASSUME NEW c \in Callers, Exports!VR_ShutdownInternal(c) PROVE ExportInv'
  <2>1. ASSUME Exports!Goes(c, "unregister"), UNCHANGED Exports!vars PROVE ExportInv'
    BY <1>8, <2>1 DEF Exports!VR_ShutdownInternal
  <2>2. ASSUME Exports!ShutdownCancels(c), Exports!Goes(c, "unregister") PROVE ExportInv'
    BY <1>8, <2>2 DEF Exports!VR_ShutdownInternal, Exports!ShutdownCancels
  <2>3. ASSUME Exports!ShutdownStops(c), Exports!Goes(c, "busy") PROVE ExportInv'
    BY <1>8, <2>3 DEF Exports!VR_ShutdownInternal, Exports!ShutdownStops
  <2> QED
    BY <1>8, <2>1, <2>2, <2>3 DEF Exports!VR_ShutdownInternal
<1>9. ASSUME NEW c \in Callers, Exports!Unregister(c) PROVE ExportInv'
  <2>1. ~trace' /\ trace' \in BOOLEAN
    BY <1>9, Zenon DEF Exports!Unregister
  <2> QED
    BY <1>9, <2>1 DEF Exports!Unregister
<1>10. CASE UNCHANGED Exports!moduleVars
  BY <1>10
<1> QED
  BY <1>1, <1>2, <1>3, <1>4, <1>5, <1>6, <1>7, <1>8, <1>9, <1>10 DEF Exports!ModuleNext

\* What the exports promise follows from their invariant.
LEMMA ExportInvImplies == ExportInv => ExportContract
<1> SUFFICES ASSUME ExportInv PROVE ExportContract
  OBVIOUS
<1>1. /\ \A k, l \in published : k = l
      /\ module = NoModule => published = {}
  BY DEF ExportInv, OneModule
<1>2. \A c \in Callers : (doing[c] # "out") = (export[c] = "busy")
  BY DEF ExportInv
<1> QED
  BY <1>1, <1>2 DEF ExportInv, ExportContract, Exports!ExportContract, Exports!ModuleIsOne

\* For any number of threads in the exports and any configurations that race: one
\* configuration becomes the module, a caller is inside the lifecycle exactly
\* while its export waits for it, and no trace registration outlives the runtime
\* without an export on its way to remove it.
THEOREM ExportsKeepContract == ExportsSpec => []ExportContract
<1>1. Exports!ModuleInit => ExportInv
  <2> SUFFICES ASSUME Exports!ModuleInit PROVE ExportInv
    OBVIOUS
  <2>1. ~trace /\ trace \in BOOLEAN
    BY Zenon DEF Exports!ModuleInit
  <2> QED
    BY <2>1 DEF Exports!ModuleInit, Exports!Init, ExportInv, OneModule, Exports!NoIdleRegistration
<1> QED
  BY <1>1, ExportsKeep, ExportInvImplies, DrivesLifecycle, LifecycleInductive, PTL
  DEF ExportsSpec, Exports!ModuleSpec
===============================================================================
