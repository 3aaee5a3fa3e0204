--------------------------- MODULE SkyboxTransfer --------------------------
(***************************************************************************)
(* The skybox the game sets while it loads, on a separate XR device        *)
(* (src/src/openxr/skybox_capture.cpp): two banks of one texture transfer  *)
(* per face.  A set copies every face into the bank that is not published  *)
(* and publishes it only when all of them arrived; it may fail at any face *)
(* and be tried again.  Every action is one operation on the XR owner.     *)
(***************************************************************************)
EXTENDS SharedTexture

CONSTANTS NumFaces,   \* six in the code
          MaxSets,    \* skyboxes the game sets
          Sizes       \* sizes of a face

VARIABLES
    host,        \* the capture: up, retained (a shutdown failed), released
    slots,       \* sharedBanks_, by bank and face
    committed,   \* committedBank_; 0 stands for none
    complete,    \* complete_
    sets,        \* sets asked for so far; the pixels of the nth set are n
    published    \* (history) the set that was accepted last
vars == <<host, slots, committed, complete, sets, published>>

Bank == {1, 2}
Face == 1 .. NumFaces
Pixels == 0 .. MaxSets

\* initializeShared() starts the first transfer.
Init ==
    /\ host = "up" /\ committed = 0 /\ complete = FALSE
    /\ slots = [b \in Bank |-> [f \in Face |->
                  [NewSlot EXCEPT !.up = (b = 1 /\ f = 1)]]]
    /\ sets = 0 /\ published = 0

\* The bank a set writes to.  The mutant writes to the published one.
InactivePublished == IF committed = 2 THEN 2 ELSE 1
Inactive == IF committed = 1 THEN 2 ELSE 1

\* One face of a set: an older handoff is received, then the face is copied.
FaceCopied(s, set, size) ==
    LET Sent(t) == Copy(t, set, size)
    IN  Then(Then(Opened(s), Emptied), Sent)

\* setShared(): the faces up to some face are copied, in order; the set is
\* published when the last one is.  A refused set leaves what it copied.
SetSkybox ==
    /\ host = "up" /\ sets < MaxSets
    /\ sets' = sets + 1
    /\ \E size \in Sizes, last \in Face :
          LET May(f) == FaceCopied(slots[Inactive][f], sets + 1, size)
          IN  \E d \in [1 .. last -> UNION {May(f) : f \in 1 .. last}] :
                /\ \A f \in 1 .. last : d[f] \in May(f)
                /\ \A f \in 1 .. last - 1 : d[f].result = "ok"
                /\ d[last].result = "ok" => last = NumFaces
                /\ slots' = [slots EXCEPT ![Inactive] =
                      [f \in Face |-> IF f <= last THEN d[f].slot ELSE @[f]]]
                /\ IF d[last].result = "ok"
                   THEN committed' = Inactive /\ complete' = TRUE /\ published' = sets + 1
                   ELSE UNCHANGED <<committed, complete, published>>
    /\ UNCHANGED host

\* A set refused by the validation of its textures.
RefuseSkybox ==
    /\ host = "up" /\ sets < MaxSets
    /\ sets' = sets + 1
    /\ UNCHANGED <<host, slots, committed, complete, published>>

\* clear(): nothing is published; the transfers stay.
ClearSkybox ==
    /\ host = "up"
    /\ committed' = 0 /\ complete' = FALSE
    /\ UNCHANGED <<host, slots, sets, published>>

\* shutdownShared(): every transfer is asked, and one that cannot be retired
\* keeps them all.
RetiredBank(b) ==
    {d \in [Face -> UNION {Shutdown(slots[b][f]) : f \in Face}] :
        \A f \in Face : d[f] \in Shutdown(slots[b][f])}
ShutdownShared ==
    /\ host = "up"
    /\ \E d1 \in RetiredBank(1), d2 \in RetiredBank(2) :
          LET d == <<d1, d2>>
              done == \A b \in Bank, f \in Face : d[b][f].result = "ok"
          IN  /\ slots' = [b \in Bank |-> [f \in Face |-> d[b][f].slot]]
              /\ host' = IF done THEN "released" ELSE "retained"
              /\ committed' = IF done THEN 0 ELSE committed
              /\ complete' = (complete /\ ~done)
    /\ UNCHANGED <<sets, published>>

Next == SetSkybox \/ RefuseSkybox \/ ClearSkybox \/ ShutdownShared

Spec == Init /\ [][Next]_vars
-----------------------------------------------------------------------------
\* The published skybox is whole: while the capture serves, every face shows
\* the set that was accepted last, whatever later sets failed half way, timed
\* out or were resized (skybox_capture.cpp:168-205); a released capture has no
\* transfer in use (skybox_capture.cpp:113-137).
IsWhole ==
    /\ slots \in [Bank -> [Face -> SlotType(Pixels, Sizes)]]
    /\ \A b \in Bank, f \in Face : SlotConsistent(slots[b][f])
    /\ complete <=> committed # 0
    /\ host = "up" /\ complete =>
          \A f \in Face : slots[committed][f].private = published
    /\ host = "released" =>
          ~complete /\ \A b \in Bank, f \in Face : slots[b][f] = NewSlot
=============================================================================
