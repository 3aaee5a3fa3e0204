--------------------------- MODULE MCFrameEndOverlap --------------------------
(***************************************************************************)
(* The deferred frame end under names of its own, so that it can be        *)
(* checked and proved about beside the other parts of the render thread.   *)
(***************************************************************************)
EXTENDS Naturals

CONSTANTS Games, Presenter, Capacity, MaxFrames

ASSUME OverlapAssumption == /\ Presenter \notin Games /\ "none" \notin Games \cup {Presenter}
                            /\ Capacity \in Nat \ {0} /\ MaxFrames \in Nat \ {0}

VARIABLES queue, calling, service, running, terminal, frame, frames, accepted,
          pendingFinish, serviceFailed, gateStopped, lost, refused

Overlap == INSTANCE FrameEndOverlap

OverlapSpec == Overlap!Spec
OverlapFairSpec == Overlap!FairSpec

\* With one game thread, a pair whose Submit was answered is composed and ended as
\* the frame it was rendered for: no wait, clear, reset, loading frame, session stop
\* or shutdown ends that frame empty first (native_runtime_host.h:720-728, 2146-2151).
NoPairIsLost == Overlap!NoPairIsLost

\* A finish that was put off is done, by its job or by close
\* (native_runtime_host.h:720-728, 1281-1300).
FinishHappens == Overlap!FinishHappens

\* native_runtime_host.h:1290-1295 "Cannot happen today -- gate.requestStop() is only
\* called from close()": the gate never turns the finish job away.
FinishIsAdmitted == Overlap!FinishIsAdmitted
===============================================================================
