---------------------------- MODULE Publications ----------------------------
(***************************************************************************)
(* The seated origin and what the native runtime host publishes under it:  *)
(* CompositorPublication and SystemPublication (poses and geometry), the   *)
(* ResetEvents queue, the ReferenceChanges policy, the SeatedSpace and the *)
(* host operations that tie them together (src/src/openxr/                 *)
(* compositor_publication.h, system_publication.h, reset_events.h,         *)
(* reference_changes.h, seated_space.h, native_runtime_host.h).            *)
(*                                                                         *)
(* Every operation here is one job of the owner thread under a RuntimeGate *)
(* lease, so one action is one host operation: WaitGetPoses, a loading     *)
(* frame, the second Submit, ResetSeatedZeroPose, the intro recentre that  *)
(* WaitGetPoses serves instead of a frame, the startup centre, the idle    *)
(* event pump, PollNextEvent and stop.  What the runtime decides (times,   *)
(* results, when it announces that its LOCAL space will jump) is chosen    *)
(* with \E.                                                                *)
(*                                                                         *)
(* A located pose is abstracted to what it is relative to: the XrSpace and *)
(* the announced LOCAL changes already in effect at its time (Located).    *)
(***************************************************************************)
EXTENDS Naturals, Sequences, FiniteSets

CONSTANTS
    MaxTime,         \* XR times are 1..MaxTime
    MaxFrames,       \* frames begun in one session run (bound)
    MaxSessions,     \* session runs, the first included (bound)
    MaxChanges,      \* LOCAL changes the runtime announces (bound)
    MaxSpaces,       \* seated spaces the host creates (bound)
    EventCapacity,   \* ResetEvents::capacity (16 in the code)
    ChangeCapacity   \* ReferenceChanges::kCapacity (16 in the code)

ASSUME PublicationsAssumption ==
    /\ MaxTime \in Nat /\ MaxFrames \in Nat /\ MaxSessions \in Nat \ {0}
    /\ MaxChanges \in Nat /\ MaxSpaces \in Nat
    /\ EventCapacity \in Nat \ {0} /\ ChangeCapacity \in Nat \ {0}

VARIABLES
    service,   \* "centring" and "startup" inside start(), then "live",
               \* "failed" (serviceFailed) or "closed" (stopped, retired)
    quit,      \* quitEventPending
    session,   \* [running, sequence, runs]: SessionState
    numbering, \* [offset, last]: frameSequenceOffset, lastPublishedFrameSequence
    frame,     \* [open, ready, id]: the begun frame, its frameSpace and epoch
    seated,    \* [space, usable]: SeatedSpace; space 0 is the natural LOCAL
    changes,   \* [active, pending, target]: ReferenceChanges
    poses,     \* [origin, sequence, available]: CompositorPublication
    geometry,  \* [sequence, valid]: SystemPublication
    events,    \* ResetEvents: a sequence of [origin, id]
    previous,  \* [valid, id, reference]: the pair kept for a replay
    intro,     \* the d3d11 half's one-shot request: "none", "asked", "done"
    now,       \* the time of the last current-time locate
    noted,     \* history: the change times the pump received, in order
    named,     \* history: the ids of the poses published, and of the valid
               \* poses of polled events, under the current origin generation
    misplaced, \* history: a composed layer was not relative to its frame's
               \* origin, or its space was not the host's
    refused,   \* history: the publication refused a frame the host located
    blocked    \* history: an intro recentre found a frame open

hostVars == <<service, quit, session, numbering, frame, seated, changes>>
pubVars  == <<poses, geometry, events, previous, intro, now>>
ghosts   == <<noted, named, misplaced, refused, blocked>>
vars     == <<hostVars, pubVars, ghosts>>

Times == 1..MaxTime
\* What a pose located in space s at time t is relative to.
Located(s, t) ==
    [space |-> s, crossed |-> {i \in DOMAIN noted : noted[i] <= t}]
NoId == [space |-> 0, crossed |-> {}]
NoFrame == [open |-> FALSE, ready |-> FALSE, id |-> NoId]
NoPair == [valid |-> FALSE, id |-> NoId, reference |-> 0]

Init ==
    /\ service = "centring" /\ quit = FALSE
    /\ session = [running |-> TRUE, sequence |-> 0, runs |-> 1]
    /\ numbering = [offset |-> 0, last |-> 0]
    /\ frame = NoFrame
    /\ seated = [space |-> 0, usable |-> TRUE]
    /\ changes = [active |-> TRUE, pending |-> <<>>, target |-> 0]
    /\ poses = [origin |-> 1, sequence |-> 0, available |-> FALSE]
    /\ geometry = [sequence |-> 0, valid |-> FALSE]
    /\ events = <<>>
    /\ previous = NoPair
    /\ intro = "none" /\ now = 0
    /\ noted = <<>> /\ named = [poses |-> {}, events |-> {}]
    /\ misplaced = FALSE /\ refused = FALSE /\ blocked = FALSE

(***************************************************************************)
(* ReferenceChanges.                                                       *)
(***************************************************************************)
Retired == [active |-> FALSE, pending |-> <<>>, target |-> 0]

\* The number of queued changes that stand before one at time c: equal
\* times keep their order of arrival.
PlaceLast(c) == Len(changes.pending)
Place(c) == Cardinality({i \in DOMAIN changes.pending : changes.pending[i] <= c})

\* note(): sorted insertion; a full queue retires the policy.
Note(c) ==
    IF Len(changes.pending) = ChangeCapacity THEN Retired
    ELSE [changes EXCEPT !.pending =
            SubSeq(@, 1, Place(c)) \o <<c>> \o SubSeq(@, Place(c) + 1, Len(@))]

\* advance(): the prefix of the queue that is due at time t.
Due(t) ==
    CHOOSE n \in 0..Len(changes.pending) :
        /\ \A i \in 1..n : changes.pending[i] <= t
        /\ n < Len(changes.pending) => changes.pending[n + 1] > t
Advanced(t) ==
    [active  |-> TRUE,
     pending |-> SubSeq(changes.pending, Due(t) + 1, Len(changes.pending)),
     target  |-> t]
MayAdvance(t) == changes.active /\ t >= changes.target

\* crosses(): a queued change in (from, to].
CrossesBefore(from, to) ==
    \E i \in DOMAIN Advanced(from).pending :
        from < Advanced(from).pending[i] /\ Advanced(from).pending[i] < to
Crosses(from, to) ==
    \E i \in DOMAIN Advanced(from).pending :
        from < Advanced(from).pending[i] /\ Advanced(from).pending[i] <= to

(***************************************************************************)
(* The publications.                                                       *)
(***************************************************************************)
ClearedPoses == [poses EXCEPT !.available = FALSE]
NoGeometry   == [geometry EXCEPT !.valid = FALSE]

\* resetOrigin(): another generation, with an empty cache.
ResetOrigin == [poses EXCEPT !.origin = @ + 1, !.available = FALSE]

\* The history of the current generation is empty once another one begins.
NamedUnder(p) ==
    IF p.origin = poses.origin THEN named ELSE [poses |-> {}, events |-> {}]

\* invalidateOrigin(): poses under a new origin generation, no geometry, no
\* pair kept for replay.
InvalidateOrigin ==
    /\ poses' = ResetOrigin /\ named' = NamedUnder(ResetOrigin)
    /\ geometry' = NoGeometry
    /\ previous' = NoPair

\* publishFatalFailure(), for a service that has not failed yet.
Fatal ==
    /\ service' = "failed" /\ quit' = TRUE
    /\ poses' = ClearedPoses /\ geometry' = NoGeometry
    /\ previous' = NoPair

\* stop() and close(), also after a failed start(): everything is retired and
\* the host destroyed.
Retire ==
    /\ service' = "closed" /\ quit' = FALSE
    /\ session' = [running |-> FALSE, sequence |-> 0, runs |-> session.runs]
    /\ numbering' = [offset |-> 0, last |-> 0]
    /\ frame' = NoFrame /\ changes' = Retired
    /\ seated' = [seated EXCEPT !.usable = FALSE]
    /\ poses' = [origin |-> 0, sequence |-> 0, available |-> FALSE]
    /\ geometry' = [sequence |-> 0, valid |-> FALSE]
    /\ events' = <<>> /\ previous' = NoPair
    /\ named' = [poses |-> {}, events |-> {}]
    /\ UNCHANGED <<intro, now, misplaced, refused, blocked>>

Starting == service \in {"centring", "startup"}

(***************************************************************************)
(* Frames.                                                                 *)
(***************************************************************************)
\* waitPoses() passes its admission checks.
WaitAdmitted ==
    /\ Starting \/ service = "live"
    /\ session.running /\ seated.usable /\ changes.active

\* boundary.waitAndBegin() and applyFrameSequence(): the session's number
\* for the frame, moved above every number of its earlier runs.
NextSequence == numbering.offset + session.sequence + 1
BeginFrame ==
    /\ session.sequence < MaxFrames
    /\ session' = [session EXCEPT !.sequence = @ + 1]
    /\ numbering' = [numbering EXCEPT !.last =
                        IF NextSequence > @ THEN NextSequence ELSE @]

\* The part of waitPoses() after the frame is located and before its poses
\* are published: advance, invalidateOrigin when a change was due.
AdvanceOrigin(t) == IF Due(t) > 0 THEN ResetOrigin ELSE poses

\* SystemPublication::publish() of the frame being waited for.
GeometryPublished(valid) ==
    IF NextSequence <= geometry.sequence THEN geometry
    ELSE [sequence |-> NextSequence, valid |-> valid]

\* WaitGetPoses locates the frame: the render pose at the display time t, the
\* game pose one period later unless a queued change lies between, geometry
\* that may be invalid, and features that may drop the kept pair.  The pose
\* publication refuses a number that does not exceed its last one, which
\* clears both caches and ends the frame.
WaitPublishes(t, period, gameLocated, valid, drop) ==
    LET id       == Located(seated.space, t)
        base     == AdvanceOrigin(t)
        game     == gameLocated /\ ~Crosses(t, t + period)
        accepted == NextSequence > poses.sequence
        located  == {id} \cup IF game THEN {Located(seated.space, t + period)}
                              ELSE {}
    IN  /\ WaitAdmitted /\ intro # "asked"
        /\ t > now /\ MayAdvance(t)
        /\ BeginFrame
        /\ changes' = Advanced(t)
        /\ poses' = IF accepted
                    THEN [base EXCEPT !.sequence = NextSequence, !.available = TRUE]
                    ELSE [base EXCEPT !.available = FALSE]
        /\ geometry' = IF accepted THEN GeometryPublished(valid) ELSE NoGeometry
        /\ frame' = IF Starting \/ ~accepted THEN NoFrame
                    ELSE [open |-> TRUE, ready |-> geometry'.valid, id |-> id]
        /\ previous' = IF Due(t) > 0 \/ drop THEN NoPair ELSE previous
        /\ named' = [NamedUnder(base) EXCEPT !.poses =
                        IF accepted THEN @ \cup located ELSE @]
        /\ refused' = (refused \/ ~accepted)
        /\ UNCHANGED <<service, quit, seated, events, intro, now,
                       noted, misplaced, blocked>>

\* WaitGetPoses fails after the frame was begun and before the publications:
\* the time went back, which retires the policy, or a locate or a provider
\* failed.  The frame is ended empty unless the locate failed hard.
WaitFails(t, hard, drop) ==
    /\ service = "live" /\ WaitAdmitted /\ intro # "asked" /\ t > now
    /\ BeginFrame
    /\ changes' = IF MayAdvance(t) THEN Advanced(t) ELSE Retired
    /\ poses' = [(IF MayAdvance(t) THEN AdvanceOrigin(t) ELSE poses)
                    EXCEPT !.available = FALSE]
    /\ geometry' = NoGeometry
    /\ frame' = [NoFrame EXCEPT !.open = hard /\ MayAdvance(t)]
    /\ previous' = IF MayAdvance(t) /\ (Due(t) > 0 \/ drop) THEN NoPair
                   ELSE previous
    /\ named' = NamedUnder(poses')
    /\ UNCHANGED <<service, quit, seated, events, intro, now,
                   noted, misplaced, refused, blocked>>

\* sceneLayerAvailable(): a withheld frame is shown only by replaying a pair
\* of the same space and the same origin generation.
LayerAvailable(withheld) ==
    withheld => /\ previous.valid
                /\ previous.id.space = frame.id.space
                /\ previous.reference = poses.origin

\* A layer of a pair located as id, in a frame located as current, is not
\* relative to that frame's origin or names a space the host gave up.
Misplaced(id, current) ==
    id # current \/ id.space # seated.space \/ ~seated.usable

\* The second Submit: the pair is composed, or the kept one replayed, or the
\* frame ends without a layer; sceneFinished() keeps the new pair when the
\* resubmit setting is on and the buffers could be exchanged.
SubmitPair(withheld, shouldRender, keep) ==
    LET pixels == frame.ready /\ shouldRender /\ LayerAvailable(withheld)
        shown  == IF withheld THEN previous.id ELSE frame.id
    IN  /\ service = "live" /\ session.running /\ frame.open
        /\ frame' = NoFrame
        /\ misplaced' = (misplaced \/ (pixels /\ Misplaced(shown, frame.id)))
        /\ previous' = CASE ~pixels \/ withheld \/ keep = "off" -> previous
                         [] keep = "lost" -> NoPair
                         [] OTHER -> [valid |-> TRUE, id |-> frame.id,
                                      reference |-> poses.origin]
        /\ UNCHANGED <<service, quit, session, numbering, seated, changes,
                       poses, geometry, events, intro, now,
                       noted, named, refused, blocked>>

\* A loading frame: begun, located and ended with the game's skybox, or ended
\* empty before it reaches the policy.
LoadingFrame(t, layered) ==
    /\ service = "live" /\ session.running /\ ~frame.open /\ t > now
    /\ BeginFrame
    /\ IF layered
       THEN /\ MayAdvance(t) /\ seated.usable
            /\ changes' = Advanced(t)
            /\ IF Due(t) > 0 THEN InvalidateOrigin
               ELSE UNCHANGED <<poses, geometry, previous, named>>
       ELSE UNCHANGED <<changes, poses, geometry, previous, named>>
    /\ UNCHANGED <<service, quit, frame, seated, events, intro, now,
                   noted, misplaced, refused, blocked>>

\* A loading frame that fails ends the service: the time went back, the
\* seated space is unusable, or a locate or the compositor failed.
LoadingFails ==
    /\ service = "live" /\ session.running /\ ~frame.open
    /\ Fatal
    /\ UNCHANGED <<session, numbering, frame, seated, changes, events, intro,
                   now, ghosts>>

(***************************************************************************)
(* The idle event pump (and, inside start(), its own poll).                *)
(***************************************************************************)
\* The runtime announced a LOCAL change at time c, in time or late.
PumpNotes(c) ==
    /\ Starting \/ service = "live"
    /\ changes.active /\ Len(noted) < MaxChanges
    /\ noted' = Append(noted, c)
    /\ CASE Note(c).active ->
                /\ changes' = Note(c)
                /\ UNCHANGED <<service, quit, session, numbering, frame,
                               seated, pubVars, named, misplaced, refused,
                               blocked>>
         [] ~Note(c).active /\ Starting -> Retire
         [] OTHER ->
                /\ changes' = Retired /\ Fatal
                /\ UNCHANGED <<session, numbering, frame, seated, events,
                               intro, now, named, misplaced, refused, blocked>>

\* The pump finds the policy retired, and the mutant that does not look.
FindsNothing == FALSE
FindsRetired == ~changes.active

PumpFails ==
    /\ service = "live" /\ FindsRetired
    /\ Fatal
    /\ UNCHANGED <<session, numbering, frame, seated, changes, events, intro,
                   now, ghosts>>

\* STOPPING: the frame is drained, the session ended, the caches cleared.
PumpStops ==
    /\ service = "live" /\ changes.active /\ session.running
    /\ session' = [session EXCEPT !.running = FALSE]
    /\ frame' = NoFrame
    /\ poses' = ClearedPoses /\ geometry' = NoGeometry
    /\ UNCHANGED <<service, quit, numbering, seated, changes, events, previous,
                   intro, now, ghosts>>

\* READY again: prepareSessionRestart() moves the frame numbers above every
\* one admitted so far, then the session restarts its own count.
RestartFromZero  == [numbering EXCEPT !.offset = 0]
RestartNumbering == [numbering EXCEPT !.offset = numbering.last]
PumpRestarts ==
    /\ service = "live" /\ changes.active /\ ~session.running
    /\ session.runs < MaxSessions
    /\ numbering' = RestartNumbering
    /\ InvalidateOrigin
    /\ session' = [running |-> TRUE, sequence |-> 0, runs |-> session.runs + 1]
    /\ UNCHANGED <<service, quit, frame, seated, changes, events, intro, now,
                   noted, misplaced, refused, blocked>>

Pump == PumpFails \/ PumpStops \/ PumpRestarts \/ \E c \in Times : PumpNotes(c)

(***************************************************************************)
(* Replacing the seated origin.                                            *)
(***************************************************************************)
Room == Len(events) < EventCapacity

\* applySeatedReset() at time r, with the head located in the natural LOCAL:
\* creating the space may fail, destroying the old one may fail, the new one
\* may not be locatable, or the reset succeeds and is queued for the game.
Outcomes == {"create", "destroy", "unlocated", "applied"}
ReplaceOrigin(r, notify, outcome) ==
    /\ seated.space < MaxSpaces
    /\ outcome = "destroy" => seated.space # 0
    /\ now' = r
    /\ seated' = [space  |-> seated.space + (IF outcome = "create" THEN 0 ELSE 1),
                  usable |-> outcome \in {"unlocated", "applied"}]
    /\ IF outcome \in {"create", "destroy"}
       THEN /\ poses' = ClearedPoses /\ geometry' = NoGeometry
            /\ UNCHANGED <<previous, named>>
       ELSE InvalidateOrigin
    /\ events' = IF notify /\ outcome = "applied"
                 THEN Append(events, [origin |-> poses'.origin,
                                      id |-> Located(seated.space + 1, r)])
                 ELSE events

\* ResetSeatedZeroPose: the open frame is ended before its space is replaced.
FrameAfterReset == NoFrame
ResetSeated(r, outcome) ==
    /\ service = "live" /\ session.running /\ seated.usable /\ changes.active
    /\ Room /\ r >= now
    /\ frame' = FrameAfterReset
    /\ ReplaceOrigin(r, TRUE, outcome)
    /\ UNCHANGED <<service, quit, session, numbering, changes, intro,
                   noted, misplaced, refused, blocked>>

\* The reset finds no head pose and changes nothing else.
ResetUnlocated ==
    /\ service = "live" /\ session.running /\ seated.usable /\ changes.active
    /\ Room /\ frame.open
    /\ frame' = NoFrame
    /\ UNCHANGED <<service, quit, session, numbering, seated, changes,
                   pubVars, ghosts>>

\* The d3d11 half asks once, when the game, its start done, draws its first
\* intro composite; requestIntroRecentre and its peers (frame_flag.cpp:820-834)
\* set, read and clear the shared word.
AskIntro ==
    /\ service = "live" /\ intro = "none"
    /\ intro' = "asked"
    /\ UNCHANGED <<hostVars, poses, geometry, events, previous, now, ghosts>>

\* WaitGetPoses with a request pending recentres instead of beginning a
\* frame, and keeps the request unless the recentre succeeded.
IntroRecentre(r, outcome) ==
    /\ service = "live" /\ WaitAdmitted /\ intro = "asked"
    /\ ~frame.open /\ Room /\ r >= now
    /\ ReplaceOrigin(r, TRUE, outcome)
    /\ intro' = IF outcome = "applied" THEN "done" ELSE "asked"
    /\ UNCHANGED <<service, quit, session, numbering, frame, changes,
                   noted, misplaced, refused, blocked>>
IntroBlocked ==
    /\ service = "live" /\ WaitAdmitted /\ intro = "asked" /\ frame.open
    /\ blocked' = TRUE
    /\ UNCHANGED <<hostVars, pubVars, noted, named, misplaced, refused>>

\* centreAtStartup(), between two zero-layer frames of start(); a failed
\* reset fails the start, a tracking deadline leaves the origin alone.
StartupCentre(r, outcome) ==
    /\ service = "centring" /\ geometry.valid /\ r >= now
    /\ ReplaceOrigin(r, FALSE, outcome) /\ outcome = "applied"
    /\ service' = "startup"
    /\ UNCHANGED <<quit, session, numbering, frame, changes, intro,
                   noted, misplaced, refused, blocked>>
StartupExpire ==
    /\ service = "centring" /\ geometry.valid
    /\ service' = "startup"
    /\ UNCHANGED <<quit, session, numbering, frame, seated, changes, pubVars,
                   ghosts>>
\* start() returns the interfaces once a frame has valid geometry.
StartupDone ==
    /\ service = "startup" /\ geometry.valid
    /\ service' = "live"
    /\ UNCHANGED <<quit, session, numbering, frame, seated, changes, pubVars,
                   ghosts>>

(***************************************************************************)
(* PollNextEvent and stop.                                                 *)
(***************************************************************************)
\* pop(): the pose is valid only under the origin generation it was taken in.
EventPose(event) == event.origin = poses.origin

PollEvent ==
    /\ service \in {"live", "failed"}
    /\ \/ /\ quit /\ quit' = FALSE
          /\ UNCHANGED <<events, named>>
       \/ /\ ~quit /\ events # <<>>
          /\ events' = Tail(events)
          /\ named' = IF EventPose(Head(events))
                      THEN [named EXCEPT !.events = @ \cup {Head(events).id}]
                      ELSE named
          /\ UNCHANGED quit
    /\ UNCHANGED <<service, session, numbering, frame, seated, changes, poses,
                   geometry, previous, intro, now, noted, misplaced,
                   refused, blocked>>

\* stop(), or a start() that failed, was cancelled or ran out of time.
Stop == service # "closed" /\ Retire /\ UNCHANGED noted

Next ==
    \/ \E t \in Times, period \in 1..2, gameLocated, valid, drop \in BOOLEAN :
          WaitPublishes(t, period, gameLocated, valid, drop)
    \/ \E t \in Times, hard, drop \in BOOLEAN : WaitFails(t, hard, drop)
    \/ \E withheld, shouldRender \in BOOLEAN, keep \in {"off", "kept", "lost"} :
          SubmitPair(withheld, shouldRender, keep)
    \/ \E t \in Times, layered \in BOOLEAN : LoadingFrame(t, layered)
    \/ LoadingFails
    \/ Pump
    \/ \E r \in Times, outcome \in Outcomes :
          \/ ResetSeated(r, outcome)
          \/ IntroRecentre(r, outcome)
          \/ StartupCentre(r, outcome)
    \/ ResetUnlocated \/ AskIntro \/ IntroBlocked
    \/ StartupExpire \/ StartupDone
    \/ PollEvent \/ Stop

Spec == Init /\ [][Next]_vars

\* The owner's idle cadence keeps running the pump.
FairSpec == Spec /\ WF_vars(Pump)

(***************************************************************************)
(* Properties.                                                             *)
(***************************************************************************)
Ids == [space : 0..MaxSpaces, crossed : SUBSET (1..MaxChanges)]
TypeOK ==
    /\ service \in {"centring", "startup", "live", "failed", "closed"}
    /\ quit \in BOOLEAN
    /\ session \in [running : BOOLEAN, sequence : 0..MaxFrames,
                    runs : 1..MaxSessions]
    /\ numbering \in [offset : Nat, last : Nat]
    /\ frame \in [open : BOOLEAN, ready : BOOLEAN, id : Ids]
    /\ seated \in [space : 0..MaxSpaces, usable : BOOLEAN]
    /\ changes \in [active : BOOLEAN, pending : Seq(Times), target : 0..MaxTime]
    /\ poses \in [origin : Nat, sequence : Nat, available : BOOLEAN]
    /\ geometry \in [sequence : Nat, valid : BOOLEAN]
    /\ events \in Seq([origin : Nat, id : Ids])
    /\ previous \in [valid : BOOLEAN, id : Ids, reference : Nat]
    /\ intro \in {"none", "asked", "done"} /\ now \in 0..MaxTime
    /\ noted \in Seq(Times)
    /\ named \in [poses : SUBSET Ids, events : SUBSET Ids]
    /\ misplaced \in BOOLEAN /\ refused \in BOOLEAN /\ blocked \in BOOLEAN

\* reference_changes.h: the queue stays sorted and within its capacity.
PendingSorted ==
    /\ Len(changes.pending) <= ChangeCapacity
    /\ \A i, j \in DOMAIN changes.pending :
          i < j => changes.pending[i] <= changes.pending[j]

\* reset_events.h: queued resets stand in the order of their origins, none of
\* them newer than the origin the compositor publishes.
EventsOrdered ==
    /\ Len(events) <= EventCapacity
    /\ \A i \in DOMAIN events : events[i].origin <= poses.origin
    /\ \A i, j \in DOMAIN events : i < j => events[i].origin < events[j].origin

\* The state of the publications is well formed: types, a sorted reference
\* queue, ordered reset events, and published numbers that the next run of
\* the session starts above (compositor_publication.h, reference_changes.h,
\* reset_events.h, native_runtime_host.h:2118).
Consistent ==
    /\ TypeOK /\ PendingSorted /\ EventsOrdered
    /\ poses.sequence <= numbering.last /\ geometry.sequence <= numbering.last
    /\ numbering.offset <= numbering.last
    /\ frame.open => service \in {"live", "failed"} /\ session.running

\* An origin generation names one origin: all the render and game poses
\* published under it are relative to the same seated space after the same
\* announced LOCAL changes, and a reset event delivered with a valid pose
\* names the space of that generation (native_runtime_host.h:872,997,1009,
\* reset_events.h:38).
OriginNamesItsSpace ==
    /\ \A a, b \in named.poses : a = b
    /\ \A a \in named.poses, e \in named.events : a.space = e.space

\* The publications never refuse a frame the host begins: the numbers of a
\* restarted session continue above those already published
\* (native_runtime_host.h:2118-2135, compositor_publication.h:19).
FramesAreAccepted == ~refused

\* A layer handed to the runtime, replayed pairs included, shows poses that
\* are relative to the frame's own origin, in the space the host still owns
\* (native_runtime_host.h:1921, seated_space.h:11).
LayerIsCurrent == ~misplaced

\* What a game that reads poses, events and images by their numbers relies on,
\* however resets, LOCAL changes, restarts and frames interleave.
OriginContract == OriginNamesItsSpace /\ LayerIsCurrent

\* A retired reference-change policy ends the service, so that the game sees
\* a quit event instead of invalid poses for ever
\* (native_runtime_host.h:737-742).
RetiredPolicyQuits ==
    service = "live" /\ ~changes.active ~> service \in {"failed", "closed"}

\* What docs/openxr-seated-origin-2026-09-12.md:69 says of a polled reset: its
\* pose is valid only while the origin is the one it was taken in, so it and
\* the poses published under its generation follow the same LOCAL changes.
EventPoseIsCurrent ==
    \A a \in named.poses, e \in named.events : a = e

\* What native_runtime_host.h:942 says of WaitGetPoses when it serves the
\* intro recentre: no frame of the host is open at that point.
RecentreFindsNoFrame == ~blocked
====
