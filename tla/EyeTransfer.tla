---------------------------- MODULE EyeTransfer ----------------------------
(***************************************************************************)
(* The two eye captures of the native host on a separate XR device         *)
(* (src/src/openxr/eye_capture.cpp and native_runtime_host.h): "captured"  *)
(* takes the eyes of the frame at hand, "previousPair" keeps the last pair *)
(* the runtime showed, to be shown again when a frame is withheld.  Each   *)
(* capture has an eye record and a texture transfer per eye, and the two   *)
(* exchange both after a pair has been ended.  An eye that the FSS heal    *)
(* (src/src/d3d11/native_fss.cpp) holds back is accepted at once and       *)
(* captured by the other eye's Submit.                                     *)
(*                                                                         *)
(* Every action is one operation on the XR owner.  The four eye records    *)
(* and the four slots stay where they are; eyesOf and transfersOf say which*)
(* bank the capture "captured" owns now.                                   *)
(***************************************************************************)
EXTENDS SharedTexture

CONSTANTS MaxFrames,     \* frames begun
          Sizes          \* sizes of a submitted texture

ASSUME EyeTransferAssumption == MaxFrames \in Nat /\ Sizes \subseteq Nat \ {0}

VARIABLES
    host,         \* the service: up, failed (serviceFailed), retained, released
    frame,        \* activeFrameSequence
    open,         \* session_.frameOpen()
    pixels,       \* geometryReady_ and shouldRender of the open frame
    accepted,     \* FrameBoundary::accepted_
    withheld,     \* frameWithheld: unknown until frameDecisionReady
    resubmit,     \* featureFrame.resubmitEnabled
    fss,          \* the FSS heal: not acquired, or its frameOpen and consumed
    deferredEye,  \* the accepted eye whose copy waits for the other eye
    slots,        \* sharedTransfers_ of both captures, by bank and eye
    eyes,         \* eyes_ of both captures, by bank and eye
    eyesOf,       \* the bank of captured.eyes_
    transfersOf,  \* the bank of captured.sharedTransfers_
    kept,         \* previousPairValid
    keptFrame,    \* the frame whose views previousViews holds
    shown         \* the last layer: the frame of its views, each eye's pixels

submission == <<accepted, withheld, fss, deferredEye>>
banks      == <<slots, eyes, eyesOf, transfersOf>>
vars == <<host, frame, open, pixels, resubmit, submission, banks, kept,
          keptFrame, shown>>

Eye    == {"left", "right"}
Bank   == {1, 2}
Other(e) == IF e = "left" THEN "right" ELSE "left"
OtherBank(b) == 3 - b
Frames == 0 .. MaxFrames
NoEye  == [e \in Eye |-> FALSE]

\* An EyeState: captured, pending, and its copy, either the private texture of
\* a slot (from) or a texture that a resized slot has left (old).
NewEye == [captured |-> FALSE, pending |-> FALSE, from |-> 0, old |-> 0]

FssClosed == [acquired |-> TRUE, open |-> FALSE, consumed |-> {}]
FssAbsent == [acquired |-> FALSE, open |-> FALSE, consumed |-> {}]

Init ==
    /\ host = "up" /\ frame = 0 /\ open = FALSE /\ pixels = FALSE
    /\ accepted = NoEye /\ withheld = "unknown"
    /\ resubmit = FALSE /\ deferredEye = "none" /\ fss \in {FssClosed, FssAbsent}
    \* initializeShared starts the left transfer of each capture.
    /\ slots = [b \in Bank |-> [e \in Eye |-> [NewSlot EXCEPT !.up = (e = "left")]]]
    /\ eyes = [b \in Bank |-> [e \in Eye |-> NewEye]]
    /\ eyesOf = 1 /\ transfersOf = 1
    /\ kept = FALSE /\ keptFrame = 0
    /\ shown = [of |-> 0, eye |-> [e \in Eye |-> 0]]

\* The pixels the texture of an eye record holds.
Pixels(es, ss, b, e) ==
    IF es[b][e].from = 0 THEN es[b][e].old ELSE ss[es[b][e].from][e].private

PairReady == open /\ accepted["left"] /\ accepted["right"]
Serving   == host = "up" /\ ~PairReady

\* invalidateEyeTreatments(): a deferred eye is forgotten, although it stays
\* accepted, and the FSS heal refuses every later eye of the frame.  The mutant
\* leaves the heal's frame open.
InvalidateDeferredOnly == deferredEye' = "none" /\ UNCHANGED fss
InvalidateEyeTreatments ==
    deferredEye' = "none" /\ fss' = [fss EXCEPT !.open = FALSE, !.consumed = {}]
-----------------------------------------------------------------------------
\* waitPoses(): the boundary ends an unfinished frame and begins the next one;
\* a pair that did not complete drops its deferred eye, and a change of the
\* features, the offset, the culling or the origin drops the kept pair.
BeginFrame ==
    /\ Serving /\ frame < MaxFrames
    /\ frame' = frame + 1 /\ open' = TRUE
    /\ pixels' \in BOOLEAN /\ resubmit' \in BOOLEAN
    /\ accepted' = NoEye /\ withheld' = "unknown" /\ deferredEye' = "none"
    /\ fss' = [fss EXCEPT !.open = fss.acquired /\ pixels', !.consumed = {}]
    /\ \/ kept' = (kept /\ resubmit' = resubmit)
       \/ kept' = FALSE
    /\ UNCHANGED <<host, banks, keptFrame, shown>>

\* clearSubmitted(), and the idle pump when it ends a session.
ClearSubmitted ==
    /\ Serving
    /\ open' = FALSE /\ accepted' = NoEye /\ kept' = FALSE
    /\ InvalidateEyeTreatments
    /\ UNCHANGED <<host, frame, pixels, withheld, resubmit, banks, keptFrame,
                   shown>>

\* invalidateOrigin() between two Submits of a frame.
InvalidateOrigin ==
    /\ Serving
    /\ kept' = FALSE /\ InvalidateEyeTreatments
    /\ UNCHANGED <<host, frame, open, pixels, accepted, withheld, resubmit,
                   banks, keptFrame, shown>>
-----------------------------------------------------------------------------
\* A Submit that fails before anything is captured: a bad eye or texture, a
\* duplicate, no open frame, a treatment or a callback that fails.  It may
\* have latched the decision of the frame.
RefuseSubmit ==
    /\ Serving /\ frame > 0
    /\ InvalidateEyeTreatments
    /\ \/ UNCHANGED withheld
       \/ open /\ pixels /\ withheld = "unknown" /\ withheld' \in {"yes", "no"}
    /\ UNCHANGED <<host, frame, open, pixels, resubmit, accepted, banks, kept,
                   keptFrame, shown>>

MaySubmit(e) == Serving /\ open /\ ~accepted[e]
Accept(e)    == accepted' = [accepted EXCEPT ![e] = TRUE]

\* An eye of a frame that is not rendered is only validated.
SubmitUnrendered(e) ==
    /\ MaySubmit(e) /\ ~pixels
    /\ Accept(e) /\ InvalidateEyeTreatments
    /\ UNCHANGED <<host, frame, open, pixels, resubmit, withheld, banks, kept,
                   keptFrame, shown>>

\* features.latch: the first eye decides for the pair, and a withheld frame
\* closes the FSS heal.
SubmitWithheld(e) ==
    /\ MaySubmit(e) /\ pixels
    /\ withheld \in {"unknown", "yes"} /\ withheld' = "yes"
    /\ Accept(e)
    /\ fss' = [fss EXCEPT !.open = FALSE, !.consumed = {}]
    /\ UNCHANGED <<host, frame, open, pixels, resubmit, deferredEye, banks,
                   kept, keptFrame, shown>>

\* fss.treat(): once per eye and frame, while the heal's frame is open.
Treat(e) ==
    /\ withheld \in {"unknown", "no"} /\ withheld' = "no"
    /\ fss.acquired => fss.open /\ e \notin fss.consumed
Consumed(e) == IF fss.acquired THEN [fss EXCEPT !.consumed = @ \cup {e}] ELSE fss

\* The heal's target came first and the donor has not been treated: the eye is
\* accepted now and copied by the other eye's Submit.
DeferEye(e) ==
    /\ MaySubmit(e) /\ pixels /\ Treat(e)
    /\ fss.acquired /\ Other(e) \notin fss.consumed /\ deferredEye = "none"
    /\ deferredEye' = e /\ Accept(e) /\ fss' = Consumed(e)
    /\ UNCHANGED <<host, frame, open, pixels, resubmit, banks, kept, keptFrame,
                   shown>>

\* captureShared() into the slot s: a handoff left by an unfinished pair is
\* received, then the eye is published.
Capture(s, size) ==
    LET Send(t) == Enqueue(t, frame, size)
    IN  Then(Then(Opened(s), Emptied), Send)
Failed(a) == a.result # "ok"

\* The eye record after a capture that answered a: the copy stays until the
\* eye is received, even when its slot has replaced the texture.
Detached(eye, e, t) ==
    IF eye.from # transfersOf \/ t.size = slots[transfersOf][e].size THEN eye
    ELSE [eye EXCEPT !.from = 0, !.old = slots[transfersOf][e].private]
AfterCapture(eye, e, a) ==
    IF Failed(a) THEN [Detached(eye, e, a.slot) EXCEPT !.pending = @ /\ a.slot.pending]
    ELSE [Detached(eye, e, a.slot) EXCEPT !.captured = FALSE, !.pending = TRUE]

\* The captures of the eyes that have an answer.
CaptureEyes(answers) ==
    /\ slots' = [slots EXCEPT ![transfersOf] =
          [e \in Eye |-> IF e \in DOMAIN answers THEN answers[e].slot ELSE @[e]]]
    /\ eyes' = [b \in Bank |-> [e \in Eye |->
          IF e \notin DOMAIN answers THEN eyes[b][e]
          ELSE IF b = eyesOf THEN AfterCapture(eyes[b][e], e, answers[e])
          ELSE Detached(eyes[b][e], e, answers[e].slot)]]

\* The Submit that captures: the deferred eye first, if there is one, then
\* its own.  Either failure refuses this eye; the deferred one stays accepted
\* and is not tried again.
SubmitEye(e) ==
    /\ MaySubmit(e) /\ pixels /\ Treat(e)
    /\ LET es == {e} \cup ({deferredEye} \cap Eye)
       IN  \E size \in Sizes :
           LET May(f) == Capture(slots[transfersOf][f], size)
           IN  \E d \in [es -> UNION {May(f) : f \in es}] :
                 /\ \A f \in es : d[f] \in May(f)
                 /\ CaptureEyes(d)
                 /\ IF \E f \in es : Failed(d[f])
                    THEN InvalidateEyeTreatments /\ UNCHANGED accepted
                    ELSE Accept(e) /\ deferredEye' = "none" /\ fss' = Consumed(e)
    /\ UNCHANGED <<host, frame, open, pixels, resubmit, eyesOf, transfersOf,
                   kept, keptFrame, shown>>
-----------------------------------------------------------------------------
\* sceneLayerAvailable().
SceneLayerAvailable == withheld # "yes" \/ (resubmit /\ kept)
Finishing == host = "up" /\ PairReady

\* A pair that ends without a layer: not rendered, withheld with nothing to
\* show, or refused by the runtime's own late answer.
FinishEmpty ==
    /\ Finishing
    /\ open' = FALSE
    /\ UNCHANGED <<host, frame, pixels, resubmit, submission, banks, kept,
                   keptFrame, shown>>

\* renderCaptured() draws a pair when both eyes hold a texture.
CanRender(es, b) == \A e \in Eye : es[b][e].captured
Show(es, ss, b, of) ==
    shown' = [of |-> of, eye |-> [e \in Eye |-> Pixels(es, ss, b, e)]]

\* A withheld frame shows the kept pair again.
FinishReplay ==
    /\ Finishing /\ pixels /\ withheld = "yes" /\ SceneLayerAvailable
    /\ CanRender(eyes, OtherBank(eyesOf))
    /\ Show(eyes, slots, OtherBank(eyesOf), keptFrame)
    /\ open' = FALSE
    /\ UNCHANGED <<host, frame, pixels, resubmit, submission, banks, kept,
                   keptFrame>>

\* completePending(): the pending eyes are received in order, up to the first
\* that fails.
Pending == {e \in Eye : eyes[eyesOf][e].pending}
Receivings ==
    {d \in [Pending -> UNION {Receive(slots[transfersOf][e]) : e \in Pending}] :
        \A e \in Pending : d[e] \in Receive(slots[transfersOf][e])}
Reached(d) ==
    IF "left" \in Pending /\ Failed(d["left"]) THEN {"left"} ELSE Pending
CompletePending(d) ==
    /\ slots' = [slots EXCEPT ![transfersOf] =
          [e \in Eye |-> IF e \in Reached(d) THEN d[e].slot ELSE @[e]]]
    /\ eyes' = [eyes EXCEPT ![eyesOf] = [e \in Eye |->
          IF e \in Reached(d) /\ ~Failed(d[e])
          THEN [captured |-> TRUE, pending |-> FALSE, from |-> transfersOf, old |-> 0]
          ELSE @[e]]]

\* The pair cannot be received, drawn or ended: publishFatalFailure().
FinishFails ==
    /\ Finishing /\ pixels /\ SceneLayerAvailable
    /\ IF withheld = "yes" THEN UNCHANGED <<slots, eyes>>
       ELSE \E d \in Receivings : CompletePending(d)
    /\ host' = "failed" /\ open' = FALSE /\ kept' = FALSE
    /\ InvalidateEyeTreatments
    /\ UNCHANGED <<frame, pixels, resubmit, accepted, withheld, eyesOf,
                   transfersOf, keptFrame, shown>>

\* exchangeBuffers() with previousPair, refused while anything is pending:
\* both the eye records and their transfers change hands.  The mutant leaves
\* the transfers.
ExchangeEyesOnly == eyesOf' = OtherBank(eyesOf) /\ UNCHANGED transfersOf
Exchange == eyesOf' = OtherBank(eyesOf) /\ transfersOf' = OtherBank(transfersOf)
MayExchange(es, ss) ==
    \A b \in Bank, e \in Eye : ~es[b][e].pending /\ ~ss[b][e].pending

\* The pair is received, drawn and ended; sceneFinished() keeps it.
FinishPair ==
    /\ Finishing /\ pixels /\ withheld = "no"
    /\ \E d \in Receivings :
          (\A e \in Pending : ~Failed(d[e])) /\ CompletePending(d)
    /\ CanRender(eyes', eyesOf)
    /\ Show(eyes', slots', eyesOf, frame)
    /\ open' = FALSE
    /\ IF resubmit /\ MayExchange(eyes', slots')
       THEN Exchange /\ kept' = TRUE /\ keptFrame' = frame
       ELSE kept' = (kept /\ ~resubmit) /\ UNCHANGED <<eyesOf, transfersOf, keptFrame>>
    /\ UNCHANGED <<host, frame, pixels, resubmit, submission>>
-----------------------------------------------------------------------------
\* close(): once the XR context is drained the transfers of both captures are
\* retired, each whatever the others answered; one that cannot be keeps the
\* whole host.
TransfersOf(b) == IF b = eyesOf THEN transfersOf ELSE OtherBank(transfersOf)
Retired(b) == {[left |-> l, right |-> r] : l \in Shutdown(slots[b]["left"]),
                                            r \in Shutdown(slots[b]["right"])}
Close ==
    /\ host \in {"up", "failed"} /\ ~PairReady
    /\ \E d1 \in Retired(1), d2 \in Retired(2) :
          LET d == <<d1, d2>>
              Done(b) == \A e \in Eye : ~Failed(d[b][e])
          IN  /\ slots' = [b \in Bank |-> [e \in Eye |-> d[b][e].slot]]
              /\ eyes' = [b \in Bank |-> IF Done(TransfersOf(b))
                                         THEN [e \in Eye |-> NewEye] ELSE eyes[b]]
              /\ host' = IF Done(1) /\ Done(2) THEN "released" ELSE "retained"
    /\ kept' = FALSE /\ open' = FALSE
    /\ UNCHANGED <<frame, pixels, resubmit, submission, eyesOf, transfersOf,
                   keptFrame, shown>>

\* stereo.drain() does not finish: nothing is retired.
CloseUndrained ==
    /\ host \in {"up", "failed"} /\ ~PairReady
    /\ host' = "retained" /\ kept' = FALSE /\ open' = FALSE
    /\ UNCHANGED <<frame, pixels, resubmit, submission, banks, keptFrame, shown>>

Next ==
    \/ BeginFrame \/ ClearSubmitted \/ InvalidateOrigin \/ RefuseSubmit
    \/ \E e \in Eye :
          SubmitUnrendered(e) \/ SubmitWithheld(e) \/ DeferEye(e) \/ SubmitEye(e)
    \/ FinishReplay \/ FinishEmpty \/ FinishFails \/ FinishPair
    \/ Close \/ CloseUndrained

Spec == Init /\ [][Next]_vars
-----------------------------------------------------------------------------
\* The type invariant, and what keeps the two captures apart: a handoff is
\* pending in a slot exactly while its eye record says so, only the capture in
\* use has one, and the mutex is with the side whose turn it is
\* (eye_capture.cpp:193-214, shared_texture_transfer.cpp:299-302).
Consistent ==
    /\ host \in {"up", "failed", "retained", "released"}
    /\ frame \in Frames /\ keptFrame \in Frames
    /\ {open, pixels, resubmit, kept} \subseteq BOOLEAN
    /\ accepted \in [Eye -> BOOLEAN] /\ withheld \in {"unknown", "yes", "no"}
    /\ fss \in [acquired : BOOLEAN, open : BOOLEAN, consumed : SUBSET Eye]
    /\ deferredEye \in Eye \cup {"none"}
    /\ slots \in [Bank -> [Eye -> SlotType(Frames, Sizes)]]
    /\ eyes \in [Bank -> [Eye -> [captured : BOOLEAN, pending : BOOLEAN,
                                   from : {0} \cup Bank, old : Frames]]]
    /\ eyesOf \in Bank /\ transfersOf \in Bank
    /\ shown \in [of : Frames, eye : [Eye -> Frames]]
    /\ \A b \in Bank, e \in Eye :
          /\ SlotConsistent(slots[b][e])
          /\ host \in {"up", "failed"} =>
                (eyes[b][e].pending <=> slots[TransfersOf(b)][e].pending)
          /\ eyes[b][e].pending => b = eyesOf

\* Both eyes the runtime is shown are of the frame whose views it is shown
\* them with, whether the pair is new or shown again, and whatever was
\* deferred, refused, retried, timed out or resized in between
\* (native_runtime_host.h:1686-1763, 1904-1936, eye_capture.cpp:296-316).
ShownIsOfItsFrame == \A e \in Eye : shown.eye[e] = shown.of

\* The kept pair is not written to while it may be shown again: the next
\* frame's captures use the other transfers (eye_capture.cpp:120-123).
KeptPairIsIntact ==
    kept => \A e \in Eye :
        /\ eyes[OtherBank(eyesOf)][e].captured
        /\ Pixels(eyes, slots, OtherBank(eyesOf), e) = keptFrame

\* A host that released its captures left no slot in use and no mutex with
\* the consumer: the destructors find nothing to terminate on
\* (shared_texture_transfer.cpp:410-412, native_runtime_host.h:2214-2229).
RetirementIsComplete ==
    host = "released" =>
        \A b \in Bank, e \in Eye : slots[b][e] = NewSlot /\ eyes[b][e] = NewEye

\* The three together: what the captures promise about the pairs they took.
PairContract == ShownIsOfItsFrame /\ KeptPairIsIntact /\ RetirementIsComplete
=============================================================================
