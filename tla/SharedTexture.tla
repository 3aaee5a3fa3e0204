--------------------------- MODULE SharedTexture ---------------------------
(***************************************************************************)
(* SharedTextureTransfer (src/src/openxr/shared_texture_transfer.cpp): one *)
(* slot that hands a texture from the game's device to the XR device under *)
(* a keyed mutex.  The producer copies under key 0 and releases key 1, the *)
(* consumer copies under key 1 into a private texture and releases key 0.  *)
(* Every call runs on the XR owner; what the GPU, the mutex and the        *)
(* producer's executor answer is a choice.  An operation on a slot is the  *)
(* set of the answers it may give: the slot it leaves and its result.      *)
(*                                                                         *)
(* A texture's pixels are the number of the frame or set they belong to;   *)
(* 0 stands for none.                                                      *)
(***************************************************************************)
EXTENDS Naturals

\* initialized, faulted, pendingStage = ConsumerAcquire, the key the mutex was
\* last released with, the size of the resources (0: none), and the pixels of
\* the shared and of the private texture.
NewSlot == [up |-> FALSE, faulted |-> FALSE, pending |-> FALSE, key |-> 0,
            size |-> 0, shared |-> 0, private |-> 0]

SlotType(Pixels, Sizes) ==
    [up : BOOLEAN, faulted : BOOLEAN, pending : BOOLEAN, key : {0, 1},
     size : {0} \cup Sizes, shared : Pixels, private : Pixels]

Fault(s) == [s EXCEPT !.faulted = TRUE]
Answer(s, r) == [slot |-> s, result |-> r]

\* What follows a call that answered S_OK; any other answer is returned.
Then(answers, Op(_)) ==
    UNION {IF a.result = "ok" THEN Op(a.slot) ELSE {a} : a \in answers}

\* initialize(), called again by a capture that finds the slot not ready.
Initialize(s) ==
    {Answer([s EXCEPT !.up = TRUE], "ok"), Answer(s, "failed")}

\* consume(): the acquire of key 1 may time out, which leaves the handoff
\* published; any other failure, before or after the copy, faults the slot.
\* The mutant forgets the handoff on a timeout.
ReceiveForgets(s) ==
    IF ~s.up \/ s.faulted \/ ~s.pending THEN {Answer(s, "failed")}
    ELSE {Answer([s EXCEPT !.private = s.shared, !.key = 0, !.pending = FALSE], "ok"),
          Answer([s EXCEPT !.pending = FALSE], "failed"),
          Answer(Fault(s), "failed")}
Receive(s) ==
    IF ~s.up \/ s.faulted \/ ~s.pending THEN {Answer(s, "failed")}
    ELSE {Answer([s EXCEPT !.private = s.shared, !.key = 0, !.pending = FALSE], "ok"),
          Answer(s, "failed"),
          Answer(Fault(s), "failed"),
          Answer(Fault([s EXCEPT !.private = s.shared, !.key = 0]), "failed")}

\* createResources(): a change of size drains the consumer, which may time
\* out or fault, and replaces both textures.
Sized(s, size) ==
    IF s.size = size THEN {Answer(s, "ok")}
    ELSE {Answer([s EXCEPT !.size = size, !.shared = 0, !.private = 0, !.key = 0], "ok"),
          Answer(s, "failed")}
         \cup IF s.size = 0 THEN {} ELSE {Answer(Fault(s), "failed")}

\* producerCopy(): the executor may refuse and the acquire of key 0 may time
\* out; anything else that fails faults the slot.
Produce(s, pixels) ==
    (IF s.key = 0
     THEN {Answer([s EXCEPT !.shared = pixels, !.key = 1, !.pending = TRUE], "ok")}
     ELSE {})
    \cup {Answer(s, "failed"), Answer(Fault(s), "failed")}

\* enqueue(): refused while a handoff is pending.
Enqueue(s, pixels, size) ==
    LET Copied(t) == Produce(t, pixels)
    IN  IF ~s.up \/ s.faulted \/ s.pending THEN {Answer(s, "failed")}
        ELSE Then(Sized(s, size), Copied)

\* copy(): enqueue and receive at once.
Copy(s, pixels, size) == Then(Enqueue(s, pixels, size), Receive)

\* What both captures do before they enqueue: a slot that is neither up nor
\* faulted is initialized, and an older handoff is received.
Opened(s) == IF s.up \/ s.faulted THEN {Answer(s, "ok")} ELSE Initialize(s)
Emptied(s) == IF s.pending THEN Receive(s) ELSE {Answer(s, "ok")}

\* shutdown(): a pending handoff is received first, then the consumer is
\* drained; a fault or a timeout leaves the slot as it is.
Drained(s) ==
    {Answer(NewSlot, "ok"), Answer(s, "failed"), Answer(Fault(s), "failed")}
Shutdown(s) ==
    IF ~s.up THEN {Answer(s, "ok")}
    ELSE IF s.faulted THEN {Answer(s, "failed")}
    ELSE Then(Emptied(s), Drained)

\* A published handoff is pending until it is received: the key says whose
\* turn it is, unless the slot has faulted.
SlotConsistent(s) ==
    /\ s.up /\ ~s.faulted => (s.key = 1 <=> s.pending)
    /\ s.pending => s.up /\ s.size # 0
    /\ s.faulted => s.up
=============================================================================
