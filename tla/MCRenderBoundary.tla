--------------------------- MODULE MCRenderBoundary ---------------------------
(***************************************************************************)
(* The lease of the render boundary under names of its own, so that it can *)
(* be checked and proved about beside the other parts of the render        *)
(* thread.                                                                 *)
(***************************************************************************)
EXTENDS Naturals

CONSTANTS Presenters, Bindings, MaxDepth

VARIABLES registered, firstThread, renderThread, lease, admitted, active, allocated,
          calls, phase, ready, failed, workClosed, boundThread, admits, client, closeResult

Lease == INSTANCE RenderBoundary WITH Threads <- Presenters

ASSUME NamesAssumption == Lease!NoThread \notin Presenters /\ Lease!NoLease \notin Bindings

LeaseSpec == Lease!Spec
LeaseFairSpec == Lease!FairSpec

\* Types; lease->active is a flag although the code counts, and the lease that exists
\* is the owner's: a second binding waits until the first is released
\* (render_boundary.cpp:176-181, 230-231).
LeaseConsistent == Lease!Consistent

\* What the lease promises its user, whichever Presents, closes and releases race: it
\* is alive as long as a Present uses it, its callbacks are serial and on the render
\* thread, and a close that answered S_OK is the end of them
\* (render_boundary.cpp:63-90, 170-194).
LeaseContract == Lease!LeaseContract

\* A user that keeps releasing gets its lease back whatever Presents race it
\* (render_boundary.cpp:74-90, native_render_binding.h:51-57).
LeaseIsReleased == Lease!LeaseIsReleased
===============================================================================
