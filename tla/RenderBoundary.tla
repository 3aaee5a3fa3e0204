---------------------------- MODULE RenderBoundary ----------------------------
(***************************************************************************)
(* src/src/d3d11/render_boundary.cpp: the graphics proxy's Present calls   *)
(* back into the native module through a lease, and the consumer's side of *)
(* it, src/src/openxr/native_render_binding.h.  Several threads may        *)
(* Present; a binding is acquired, closed and released by one thread at a  *)
(* time, concurrently with them.                                           *)
(*                                                                         *)
(* There is one device, the hooked game device: calls about another one    *)
(* are turned away and change nothing.  One critical section of g_mutex or *)
(* of the binding's mutex_, or one access to a lease outside them, is one  *)
(* action; the callback's work_.close() goes with the section beside it.   *)
(* A lease is named by its binding, which has at most one.                 *)
(***************************************************************************)
EXTENDS Integers, Sequences

CONSTANTS Threads,    \* threads that call Present
          Bindings,   \* NativeRenderBinding objects
          MaxDepth    \* bound on nested Presents, beyond the code's one
NoThread == "no thread"
NoLease == "no lease"

VARIABLES
  registered,   \* g_owner is set
  firstThread,  \* g_firstPresentThread, once recorded
  renderThread, \* owner->renderThread, once recorded
  lease,        \* owner->lease
  admitted,     \* bindings whose lease is admitted
  active,       \* lease->active
  allocated,    \* leases that exist
  calls,        \* per thread, the leases whose callbacks are on its stack
  phase,        \* where each thread is in its innermost Present
  ready, failed, workClosed, \* of the bindings
  boundThread,  \* binding.thread_, where its work queue is bound
  admits,       \* per thread, the local admitted of the callback
  client,       \* where each binding's user is
  closeResult   \* what the user's boundary_.close() answered

provider == <<registered, firstThread, renderThread, lease>>
leases == <<admitted, active, allocated>>
binding == <<ready, failed, workClosed, boundThread>>
user == <<client, closeResult>>
vars == <<provider, leases, calls, phase, binding, admits, user>>

Innermost(t) == Head(calls[t])

Init ==
  /\ registered = FALSE /\ lease = NoLease
  /\ firstThread = NoThread /\ renderThread = NoThread
  /\ admitted = {} /\ allocated = {}
  /\ active = [b \in Bindings |-> 0]
  /\ calls = [t \in Threads |-> <<>>]
  /\ phase = [t \in Threads |-> "out"]
  /\ ready = {} /\ failed = {} /\ workClosed = {}
  /\ boundThread = [b \in Bindings |-> NoThread]
  /\ admits = [t \in Threads |-> FALSE]
  /\ client = [b \in Bindings |-> "new"]
  /\ closeResult = [b \in Bindings |-> "none"]

(***************************************************************************)
(* The provider                                                            *)
(***************************************************************************)

RegisterOwner ==
  /\ ~registered
  /\ registered' = TRUE
  /\ renderThread' = firstThread
  /\ UNCHANGED <<firstThread, lease, leases, calls, phase, binding, admits, user>>

\* A successful Present of the hooked swap chain: the first one decides which
\* thread renders, before or after the owner is registered.
NoteOwnedPresent(t) ==
  /\ phase[t] = "out"
  /\ IF registered
     THEN /\ renderThread' = IF renderThread = NoThread THEN t ELSE renderThread
          /\ UNCHANGED firstThread
     ELSE /\ firstThread' = IF firstThread = NoThread THEN t ELSE firstThread
          /\ UNCHANGED renderThread
  /\ phase' = [phase EXCEPT ![t] = "noted"]
  /\ UNCHANGED <<registered, lease, leases, calls, binding, admits, user>>

\* The lease admits the callback and none is on the way.
MayEnter(b) == b \in admitted /\ active[b] = 0

WrongThread(t) == registered /\ renderThread # NoThread /\ renderThread # t

\* A Present from another thread ends the lease's admission.
PresentElsewhere(t) ==
  /\ phase[t] = "noted"
  /\ WrongThread(t)
  /\ admitted' = admitted \ {lease}
  /\ phase' = [phase EXCEPT ![t] = "out"]
  /\ UNCHANGED <<provider, active, allocated, calls, binding, admits, user>>

Admissible(t) == /\ registered /\ renderThread # NoThread
                 /\ ~WrongThread(t)
                 /\ lease # NoLease /\ MayEnter(lease)

PresentSkips(t) ==
  /\ phase[t] = "noted"
  /\ ~WrongThread(t) /\ ~Admissible(t)
  /\ phase' = [phase EXCEPT ![t] = "out"]
  /\ UNCHANGED <<provider, leases, calls, binding, admits, user>>

EnteringUncounted(b) == active

Entering(b) == [active EXCEPT ![b] = @ + 1]

\* A Present, or one that the callback itself makes, enters the callback.
PresentEnters(t) ==
  /\ phase[t] \in {"noted", "working", "framing"}
  /\ Len(calls[t]) < MaxDepth
  /\ Admissible(t)
  /\ active' = Entering(lease)
  /\ calls' = [calls EXCEPT ![t] = <<lease>> \o @]
  /\ phase' = [phase EXCEPT ![t] = "entered"]
  /\ UNCHANGED <<provider, admitted, allocated, binding, admits, user>>

\* The callback failed: the lease is closed before it is given up.
PresentFails(t) ==
  /\ phase[t] = "failing"
  /\ admitted' = admitted \ {Innermost(t)}
  /\ phase' = [phase EXCEPT ![t] = "leaving"]
  /\ UNCHANGED <<provider, active, allocated, calls, binding, admits, user>>

LeavingUncounted(b) == active

Leaving(b) == [active EXCEPT ![b] = @ - 1]

\* The last access of a Present to the lease.
PresentLeaves(t) ==
  /\ phase[t] = "leaving"
  /\ active' = Leaving(Innermost(t))
  /\ calls' = [calls EXCEPT ![t] = Tail(@)]
  /\ phase' = [phase EXCEPT ![t] = IF Len(calls[t]) = 1 THEN "out" ELSE "framing"]
  /\ UNCHANGED <<provider, admitted, allocated, binding, admits, user>>

(***************************************************************************)
(* NativeRenderBinding::callback                                           *)
(***************************************************************************)

\* The first callback binds the work queue to its thread.
Accepts(b, t) == IF b \notin ready THEN b \notin failed /\ b \notin workClosed
                                   ELSE b \notin failed /\ boundThread[b] = t

CallbackAccepts(t) ==
  /\ phase[t] = "entered"
  /\ LET b == Innermost(t) IN
       /\ Accepts(b, t)
       /\ ready' = ready \cup {b}
       /\ boundThread' = [boundThread EXCEPT ![b] = t]
  /\ phase' = [phase EXCEPT ![t] = "working"]
  /\ UNCHANGED <<provider, leases, calls, failed, workClosed, admits, user>>

CallbackRefuses(t) ==
  /\ phase[t] = "entered"
  /\ LET b == Innermost(t) IN
       /\ ~Accepts(b, t)
       /\ failed' = failed \cup {b}
       /\ workClosed' = workClosed \cup {b}
  /\ phase' = [phase EXCEPT ![t] = "failing"]
  /\ UNCHANGED <<provider, leases, calls, ready, boundThread, admits, user>>

\* work_.pump() has returned; the queue itself is PresentWorkQueue.
CallbackPumped(t) ==
  /\ phase[t] = "working"
  /\ admits' = [admits EXCEPT ![t] = Innermost(t) \notin failed]
  /\ phase' = [phase EXCEPT ![t] = "framing"]
  /\ UNCHANGED <<provider, leases, calls, binding, user>>

CallbackReturns(t) ==
  /\ phase[t] = "framing"
  /\ phase' = [phase EXCEPT ![t] = "leaving"]
  /\ admits' = [admits EXCEPT ![t] = FALSE]
  /\ UNCHANGED <<provider, leases, calls, binding, user>>

\* The frame work threw.
CallbackThrows(t) ==
  /\ phase[t] = "framing" /\ admits[t]
  /\ failed' = failed \cup {Innermost(t)}
  /\ workClosed' = workClosed \cup {Innermost(t)}
  /\ phase' = [phase EXCEPT ![t] = "failing"]
  /\ admits' = [admits EXCEPT ![t] = FALSE]
  /\ UNCHANGED <<provider, leases, calls, ready, boundThread, user>>

(***************************************************************************)
(* The binding's user: acquire, close and release                          *)
(***************************************************************************)

MayAcquireAnytime == registered

MayAcquire == registered /\ lease = NoLease

\* edvrAcquireRenderBoundary; a binding tries once.
Acquire(b) ==
  /\ client[b] = "new"
  /\ MayAcquire
  /\ lease' = b
  /\ allocated' = allocated \cup {b}
  /\ admitted' = admitted \cup {b}
  /\ client' = [client EXCEPT ![b] = "holds"]
  /\ UNCHANGED <<registered, firstThread, renderThread, active, calls, phase,
                 binding, admits, closeResult>>

AcquireFails(b) ==
  /\ client[b] = "new"
  /\ client' = [client EXCEPT ![b] = "gone"]
  /\ UNCHANGED <<provider, leases, calls, phase, binding, admits, closeResult>>

CloseAdmission(b) == admitted \ {b}

\* closeLease, the first step of both close and release.
Close(b) ==
  /\ client[b] = "holds"
  /\ admitted' = CloseAdmission(b)
  /\ closeResult' = [closeResult EXCEPT ![b] = IF active[b] = 0 THEN "S_OK"
                                                                ELSE "E_PENDING"]
  /\ client' = [client EXCEPT ![b] = "closing"]
  /\ UNCHANGED <<provider, active, allocated, calls, phase, binding, admits>>

CloseWork(b) ==
  /\ client[b] = "closing"
  /\ workClosed' = workClosed \cup {b}
  /\ client' = [client EXCEPT ![b] = "failing"]
  /\ UNCHANGED <<provider, leases, calls, phase, ready, failed, boundThread, admits,
                 closeResult>>

MayRelease(b) == closeResult[b] = "S_OK"

\* close() ends, or a release() that found a callback on the way.
CloseReturns(b) ==
  /\ client[b] = "failing"
  /\ failed' = failed \cup {b}
  /\ client' = [client EXCEPT ![b] = "holds"]
  /\ UNCHANGED <<provider, leases, calls, phase, ready, workClosed, boundThread,
                 admits, closeResult>>

ReleaseGoesOn(b) ==
  /\ client[b] = "failing"
  /\ MayRelease(b)
  /\ failed' = failed \cup {b}
  /\ client' = [client EXCEPT ![b] = "releasing"]
  /\ UNCHANGED <<provider, leases, calls, phase, ready, workClosed, boundThread,
                 admits, closeResult>>

Releases(b) == active[b] = 0

\* releaseLease: the lease is deleted unless a callback is on the way.
Release(b) ==
  /\ client[b] = "releasing"
  /\ admitted' = admitted \ {b}
  /\ lease' = IF Releases(b) /\ lease = b THEN NoLease ELSE lease
  /\ allocated' = IF Releases(b) THEN allocated \ {b} ELSE allocated
  /\ client' = [client EXCEPT ![b] = IF Releases(b) THEN "gone" ELSE "holds"]
  /\ UNCHANGED <<registered, firstThread, renderThread, active, calls, phase,
                 binding, admits, closeResult>>

Present(t) == \/ PresentElsewhere(t) \/ PresentSkips(t) \/ PresentEnters(t)
              \/ CallbackAccepts(t) \/ CallbackRefuses(t) \/ CallbackPumped(t)
              \/ CallbackReturns(t) \/ CallbackThrows(t)
              \/ PresentFails(t) \/ PresentLeaves(t)

User(b) == \/ Acquire(b) \/ AcquireFails(b) \/ Close(b) \/ CloseWork(b)
           \/ CloseReturns(b) \/ ReleaseGoesOn(b) \/ Release(b)

Next == \/ RegisterOwner
        \/ \E t \in Threads : NoteOwnedPresent(t) \/ Present(t)
        \/ \E b \in Bindings : User(b)

Spec == Init /\ [][Next]_vars

\* A thread inside Present keeps running, and the callback returns; a user that
\* holds a lease keeps trying to release it, as ModuleBackend::stop does.
FairSpec ==
  /\ Spec
  /\ \A t \in Threads : WF_vars(Present(t)) /\ SF_vars(CallbackReturns(t))
  /\ \A b \in Bindings :
       /\ WF_vars(Close(b)) /\ WF_vars(CloseWork(b)) /\ WF_vars(CloseReturns(b))
       /\ SF_vars(ReleaseGoesOn(b)) /\ WF_vars(Release(b))

(***************************************************************************)
(* Properties                                                              *)
(***************************************************************************)

MaybeThread == Threads \cup {NoThread}

TypeOK ==
  /\ registered \in BOOLEAN
  /\ firstThread \in MaybeThread /\ renderThread \in MaybeThread
  /\ lease \in Bindings \cup {NoLease}
  /\ admitted \subseteq allocated /\ allocated \subseteq Bindings
  /\ active \in [Bindings -> 0 .. 1]
  /\ calls \in [Threads -> Seq(Bindings)]
  /\ phase \in [Threads -> {"out", "noted", "entered", "working", "framing", "failing",
                            "leaving"}]
  /\ ready \subseteq Bindings /\ failed \subseteq Bindings
  /\ workClosed \subseteq Bindings
  /\ boundThread \in [Bindings -> MaybeThread]
  /\ admits \in [Threads -> BOOLEAN]
  /\ client \in [Bindings -> {"new", "holds", "closing", "failing", "releasing", "gone"}]
  /\ closeResult \in [Bindings -> {"none", "S_OK", "E_PENDING"}]

\* render_boundary.cpp:74-90 against :180-194: no Present is between entering a
\* callback and its last access to the lease once the lease is deleted; the
\* binding and the module behind the callback are alive as long.
LeaseOutlivesPresent ==
  \A t \in Threads : \A i \in DOMAIN calls[t] : calls[t][i] \in allocated

\* :176-181: a callback is never entered again from inside itself, nor by a
\* second thread: active counts at most one.
NotReentered == /\ \A t \in Threads : Len(calls[t]) <= 1
                /\ \A s, t \in Threads : calls[s] # <<>> /\ calls[t] # <<>> => s = t

\* :170-173, native_render_binding.h:75-85: callbacks run on the thread of the
\* first owned Present alone, the one every binding's work queue is bound to.
OneRenderThread ==
  /\ \A t \in Threads : calls[t] # <<>> => t = renderThread
  /\ \A b \in ready : boundThread[b] = renderThread

\* :63-72: once close has answered S_OK no callback is on the way and none will
\* be entered, so that the release that follows it is never refused.
ClosedIsQuiet ==
  \A b \in Bindings : closeResult[b] = "S_OK" => b \notin admitted /\ active[b] = 0

\* :230-231: a lease that exists is the owner's, so Present and release mean the
\* same one; a second binding waits until the first is released.
OneLease == allocated \subseteq {lease}

\* Types; active is a flag, and there is one lease.
Consistent == TypeOK /\ OneLease

\* Callbacks run one at a time, on one thread.
CallbacksAreSerial == NotReentered /\ OneRenderThread

\* What the lease promises its user, whichever Presents, closes and releases
\* race: it is alive as long as a Present uses it, its callbacks are serial, and
\* a close that answered S_OK is the end of them.
LeaseContract == LeaseOutlivesPresent /\ CallbacksAreSerial /\ ClosedIsQuiet

\* A user that keeps releasing gets its lease back whatever Presents race it.
LeaseIsReleased ==
  \A b \in Bindings : client[b] = "holds" ~> client[b] = "gone"
===============================================================================
