# TLA+ models of the EDVR native runtime

EDVR puts a native OpenXR runtime behind the OpenVR entry points that Elite Dangerous calls, and
patches the game's Direct3D 11 rendering. This directory holds TLA+ models of the part of it that
is hard to test: the threads, queues, leases and state machines that let one OpenXR session be
driven by a game that owns neither the thread nor the loop, the hand-off of textures between two
devices, the crash sentinel and the log, and the installer with its roll-back. TLC checks the
models on small instances; TLAPS proves the safety properties the runs check for every value of the
constants, two of the installer's excepted.

Paths are relative to the repository root; source file names without a directory are in
`src/openxr/`.

## 1. The system

Elite loads two DLLs. `d3d11.dll` (`src/d3d11`, `src/common`) is a proxy of Direct3D: it hooks the
game's device and swap chain and carries the rendering fixes. `openvr_api.dll` (`src/openxr`) is
the native runtime: it exports the OpenVR functions and runs an OpenXR session. `src/installer`
puts both in place.

Four kinds of thread meet in the native runtime:

- **game threads** call the OpenVR interfaces: init, shutdown, WaitGetPoses, Submit, Clear;
- **the render thread** calls Present; the proxy calls the module back from inside it, and only
  there may the game's D3D11 context be used;
- **the owner thread** (`OwnerService`) makes every OpenXR call but one;
- **the pacer thread** (`FramePacer`) makes that one, a blocking xrWaitFrame, ahead of time.

```
 game thread --VR_Init/Shutdown--> RuntimeLifecycle --start/stop--> ModuleBackend
      |                                                                  |
      | WaitGetPoses/Submit/Clear                                        | owns, per generation
      v                                                                  v
 OwnerService (queue, owner thread) --> NativeRuntimeHost --> FrameBoundary --> SessionState --> OpenXR
      ^            |                          |                   |
      |            | graphics jobs            | deferred finish   +--> FramePacer (pacer thread)
      |            v
 RenderThreadDispatcher (rendezvous) <-- PresentWorkQueue <-- NativeRenderBinding
                                                 ^                  ^ lease
                                                 |                  |
                                         render thread: Present -- render boundary (d3d11 proxy)
```

### Inventory

| Component | Source | State | Operations | What makes it correct |
|---|---|---|---|---|
| Present work queue | `present_work_queue.h` | bounded queue, bound thread, closed, active, invoker count, per-request flags | bind, invoke with deadline, pump, close | nothing of a call outlives it, a callback runs at most once, every call returns |
| Owner service | `owner_service.h` | queue, worker, running/stopping/joining, outcome | start, invoke, submit, stop with finalizer, idle | each accepted request reported once, finalizer last and once, restart is clean |
| Render thread dispatcher | `render_thread_dispatcher.h` | one rendezvous, one graphics job | invokeOwner, invoke, close | the context is lent to the rendezvous only, both sides are released whatever closes |
| Runtime lifecycle | `runtime_lifecycle.h` | state, token, cancelled, interfaces | init, shutdown, getInterface | one user of the backend, a start is stopped once, tokens never revive |
| Render boundary and binding | `src/d3d11/render_boundary.cpp`, `native_render_binding.h` | owner, render thread, lease, admission, active flag | register, Present, acquire, close, release | no callback after close or on a deleted lease, none re-entered |
| Frame loop | `session_state.h`, `frame_boundary.h`, `frame_pacer.h` | session state, open/deferred frame, times, pending wait | poll, start, stop, waitAndBegin, finish, clear, drain, take | OpenXR's call order, failures published, nothing blocks for ever |
| Native runtime host | `native_runtime_host.h` | service flags, gate, deferred finish, loading state | waitPoses, submitEye, clearSubmitted, resetSeated, loadingBoundary, pumpEvents, stop, close | a captured pair is ended once as its own frame |
| Operation gate | `runtime_gate.h` | generation, state, lease | begin, tryEnter, requestStop, finish | nothing enters a stopping generation |
| Module backend, exports | `native_module.cpp` | generation list, status, trace registration | start, stop, retain, configure | failed teardown keeps everything and blocks restart |
| Shutdown coordination | `render_route.h`, `render_shutdown*.h` | - | route.invoke, drain, finalize at a boundary | nothing uses the GPU after the drain |
| Publications | `compositor_publication.h`, `system_publication.h`, `reset_events.h`, `reference_changes.h`, `seated_space.h` | generation, sequence, origin, ring of 16 | begin, publish, change, retire, read | stale writers are turned away |
| Texture transfer, swapchains | `shared_texture_transfer.cpp`, `d3d11_stereo.cpp` | keyed mutex stage, pending slot, fault | copy, enqueue, receive, shutdown | a pending hand-off survives time-outs |
| OpenVR facades, feature clients | `openvr_*.cpp`, `native_*_client.h` | function tables | one call each | translation only |
| Shared frame channel | `src/common/frame_flag.cpp` | words in shared memory | publish, read, countdown | words are not torn |
| Guard, sentinel, log | `src/common/guard.cpp`, `log.cpp` | fault budget, armed file, two buffers | charge, arm, confirm, trip, append, flush, close, detach | a launch after a death of unproved hooks is bare, no other is; lines and drops are not lost |
| Device hooks | `src/d3d11/device_hook.cpp`, `d3d11_proxy.cpp` | device, swap chain, factory, recovery | attach, hook device, swap chain and factory, Present, exit | nothing is patched while recovering |
| Hooks | `src/common/vtable_hook.cpp`, `code_hook.cpp`, `iat_hook.cpp` | patched slots, registry | commit, reclaim, uninstall | two hooks on one slot never forward to each other |
| GPU timing | `src/common/gpu_span_state.h`, `gpu_disjoint_clock.h`, `src/d3d11/gpu_*` | query rings | begin, end, poll | no begin on an uncertain scope |
| Rendering fixes, upscalers, frame policies | `src/d3d11` | game memory, shaders, images | per draw, per frame | visual |
| Installer | `src/installer` | plan, snapshots, undo list, state file | survey, plan, apply, roll back, mirror | a failed run leaves the folder as it was, no file is lost |

`PROJECT.json` lists every component with its status, and the hazards of the code at the lines where
they bite, each with the properties that would catch it going wrong. Hazards of parts not modelled:
a GPU query scope whose end failed (`gpu_span_state.h:93`), two hooks on one slot that take each
other for strangers (`vtable_hook.cpp:3031`), and words of the shared frame channel that belong
together and are read one by one (`frame_flag.cpp`).

**What is hard here.** Callbacks capture their caller's stack by reference, so a request that is
still reachable when its call has returned is a use after free: deadlines, closes and pumps race
for exactly that. Threads park for each other (the render thread for the owner, the owner for the
render thread, stop for the worker, the owner for the pacer). Shutdown may come at any moment and
from any of these threads, including from inside a callback. OpenXR imposes a call order that two
threads must keep together, each call may fail or announce a loss, and a session may stop and start
again. A start can be cancelled while it is in flight. Poses are predicted for a time at which the
origin may already be another one. A texture is handed to another device under a keyed mutex whose
acquire may time out with the hand-off still pending. The game may die at any instruction with
hooks half installed, and the installer between any two file operations, in a folder that a game
update or another installer changes under it.

## 2. Modules

| Module | Models | Lines of state that matter |
|---|---|---|
| `Executor` | abstract: what the two hand-offs promise | open; status and verdict of each request |
| `PresentWorkQueue` | `present_work_queue.h` | a request is named by the thread whose invoke made it |
| `OwnerService` | `owner_service.h` | callers and the owner; generations of the service |
| `RenderThreadDispatcher` | `render_thread_dispatcher.h` over `Executor` | the rendezvous, the graphics job, who waits where |
| `RuntimeLifecycle` | `runtime_lifecycle.h` over any backend | state, token, interfaces; each caller's place in init or shutdown |
| `ModuleExports` | the exports of `native_module.cpp`, extending `RuntimeLifecycle` | configuration, trace registration, each caller's place around the lifecycle |
| `ModuleBackend` | `native_module.cpp` start, stop, retain with `render_route.h` and `render_shutdown*.h` | one generation: route, queue, dispatcher, owner, lease, host and pending GPU work |
| `RenderBoundary` | `render_boundary.cpp` with `native_render_binding.h` | the lease, its admission and active flag, each Present's place |
| `FrameLoop` | `session_state.h`, `frame_boundary.h`, `frame_pacer.h` and the host entry points that drive them | both records of the open frame, the pacer's slot, what the runtime saw |
| `FrameEndOverlap` | the deferred frame end of `native_runtime_host.h` | the owner queue, the open frame, the pending finish |
| `Publications` | `compositor_publication.h`, `system_publication.h`, `reset_events.h`, `reference_changes.h`, `seated_space.h` and the host code that feeds them | origin generations, announced changes, published frames, events, time |
| `SharedTexture` | `shared_texture_transfer.cpp` | operators on one slot: stage of the mutex, pending, fault, what each side's texture shows |
| `EyeTransfer` | `eye_capture.cpp` and submitEye/finish of the host on a separate device | slots of both banks, eye records, the kept pair, the heal's deferred eye |
| `SkyboxTransfer` | `skybox_capture.cpp` on a separate device | two banks of slots, the published bank |
| `DeviceHooks` | `device_hook.cpp`, `d3d11_proxy.cpp`, `guard.cpp` | the sentinel's file over several processes; one process's hooks |
| `Log` | `log.cpp` | two buffers, the flusher's place, drops, what the file holds |
| `MCParts` | the last four in one model | they share no state: each is explored with the others idle |
| `InstallerPlan` | `plan.cpp` | operators: survey, the steps of an install or uninstall, from a folder |
| `Installer` | `apply.cpp`, `mirror.cpp`, `app.cpp` over `InstallerPlan` | the folder, backups, snapshots, mirror, record; the run's place and its undo list |
| `MCRenderBoundary`, `MCFrameEndOverlap`, `MCModuleExports` | the module of that name under names of its own | none of their own: they let one proof module hold several parts |
| `PresentWorkQueueProofs`, `OwnerServiceProofs`, `FrameLoopProofs`, `PublicationsProofs`, `InstallerProofs` | theorems about the module of that name | the inductive invariants |
| `RenderThreadProofs` | theorems about `RenderThreadDispatcher`, `RenderBoundary` and `FrameEndOverlap` | |
| `ModuleProofs` | theorems about `ModuleBackend`, `RuntimeLifecycle` and `ModuleExports` | |
| `PartsProofs` | theorems about `DeviceHooks`, `SkyboxTransfer`, `EyeTransfer`, `Log`, as `MCParts` composes them | |

**Grain.** In the modules with mutexes an action is one critical section, or one stretch of user
code between two of them; a condition-variable wait is the guard of the step that follows it where
every writer notifies all under the mutex, and is modelled with its sleepers (`awake`) in
`PresentWorkQueue`, where a lost notification would matter. In `FrameLoop` a step ends at each
call into the OpenXR runtime and wherever the pacer's worker may run. In `FrameEndOverlap` one job
of the owner is one action, because the owner runs one at a time and its steps are `FrameLoop`'s.
Calls that return without changing anything are stuttering steps. Names follow the source with the
trailing underscore dropped (`queue_` is `queue`); sets stand for per-request flags (`captured`,
`done`, `success`). Variables under "history" are the specification's own record of what happened.

**How they fit.** `PresentWorkQueue` and `OwnerService` are each shown to implement `Executor`
(`IsExecutor`), and `RenderThreadDispatcher` uses that `Executor` for the owner service instead of
its code. `RuntimeLifecycle` takes the backend as any sequence of answers; `ModuleExports` is that
module with the exports' own steps before and after each lifecycle call, so its run checks both.
`ModuleBackend` composes queue, dispatcher, owner, lease and host for one start and its stop, each by
what its own module promises.
`RenderBoundary` leaves the work it pumps to `PresentWorkQueue`. `FrameEndOverlap` leaves the queue
to `OwnerService` and the frame to `FrameLoop`. `EyeTransfer` and `SkyboxTransfer` use
`SharedTexture`; `Installer` carries out the plans of `InstallerPlan`.

**External.** The OpenXR runtime: each call succeeds, fails or announces a loss; xrWaitFrame does
not return while the frame of the previous wait has not begun; predicted times are arbitrary. The
runtime backend in `RuntimeLifecycle`. User callbacks: they return or throw, and may call back into
the component where the code allows it.

## 3. Runs

Twelve runs, with their distinct states. Every property of a passing run has a mutant: a plausible
mistake in one mapped definition under which TLC finds it violated. Properties that would be found
by the same reader are conjunctions of named parts (`InvokeContract` and the like).

**`queue`** (`PresentWorkQueue`, 3 threads, capacity 1; 8 080). `Consistent`: an unfinished request
has exactly one holder (a place in the queue, the pump, one closer, its own timed-out caller) and
`activeInvokers_` counts the invokes in flight. `InvokeContract`: when invoke returned nobody can
reach its callback or captures (`NothingOutlivesInvoke`); at most one run, none after a
cancellation, true exactly for a run that did not throw (`ResultTruthful`); a host that closed the
queue and joined its threads does not meet the destructor's terminate (`DestructorSafe`).
`IsExecutor`: it implements `Executor`. `CallsReturn`: every accepted invoke and every close returns
although the render thread may never pump again. Any of the three becomes the render thread, so two
compete for one place: full queue, deadline against pump against close, two closers all occur.

**`owner`** (`OwnerService`, 2 callers and the owner, 2 requests, capacity 1, 2 starts; 294 663).
`Consistent`: every accepted request is reported exactly once, after its captures are gone, and
nothing is left between two generations. `StopContract`: the finalizer of the stop that closed
admission runs once and last, a stop that wakes late does not report the next generation's outcome,
a start never overwrites an unjoined thread. `IsExecutor`, `CallsReturn`. Two callers give two
racing stops with the owner's own stop as a third; one restart is enough for a late waker.

**`dispatcher`** (`RenderThreadDispatcher`, 2 foreign closers; 1 464). `RendezvousContract`: a
graphics job exists only while its rendezvous callback runs and waits for it, neither outlives the
stack it borrows, and the results are truthful. `Consistent` (the destructor's check), and
`CallsReturn`: the render thread and the owner never stay parked for each other.

**`module_exports`** (`MCModuleExports`, 3 callers, 2 configurations, a token counter of 3 values;
980 600). `LifecycleConsistent`: one thread in the backend at a time, every start stopped exactly once.
`InitContract`: what is published is up, dead tokens stay dead, a cancelled init fails, a failed
stop blocks every restart. `ExportContract`: however many inits and explicit configurations race,
one configuration becomes the module, a caller is in the lifecycle exactly while an export waits for
it, and when the trace is registered without a runtime some export on its way will unregister it.
`StoppingEnds`: a stop that began ends. Three callers give an initializer, a shutdown that cancels
it and a third that meets both; the counter reaches its end, so the refused start is reached.

**`module_backend`** (`ModuleBackend`, 2 attempts at a foreign shutdown; 44 156). `ThreadsAgree`:
the parts of one generation agree on who is where, and nobody enters a host that is gone.
`ShutdownContract`: session and images are destroyed only when the GPU has finished with them;
after stop answered, the generation is closed and joined, released or kept, and nothing runs on it. `CallsReturn`:
driver, render thread and owner come out of every call, whether shutdown starts on a foreign
thread, the render thread or the owner.

**`render_boundary`** (`MCRenderBoundary`, 2 presenting threads, 2 bindings, nesting 2; 6 743).
`LeaseContract`: no Present touches a deleted lease, callbacks are serial and on one thread, after
close answered S_OK no callback is on the way. `LeaseConsistent`, and `LeaseIsReleased`: a user that
keeps releasing gets through. The nesting bound is one more than the code allows, so that a missing
guard would show.

**`frame_loop`** (`FrameLoop`, times 0..2; 76 659). `SessionContract`: at each OpenXR call, with
the worker wherever it may be, the order OpenXR demands (`CallOrder`); an ended session leaves no
frame, wait or worker behind (`EndedIsQuiet`); a failure that no entry point has published is of a
terminal session, which admits no further frame (`FailureIsContained`). There is such a failure:
resetSeated returns false when its clear fails and publishes nothing (`native_runtime_host.h:1986`).
`FailureIsPublished` is what is left to promise: a failed boundary is published in the end, by a
later entry or by the idle pump. `Consistent`: a deferred frame always has a wait to take and the
two records of the open frame agree. `CallsReturn`. Three times are enough for a synthesized time
above, equal to and below the next real one; 0 is the time the code refuses.

**`overlap`** (`MCFrameEndOverlap`, 1 game thread and the presenter, queue 3, 3 frames; 1 171).
`NoPairIsLost`: no wait, clear, reset, loading frame, stop or close ends a captured pair's frame
empty. `FinishHappens`: a finish that was put off is done, by its job or by close.

**`publications`** (`Publications`, times 0..2, 2 frames, 2 sessions, 3 changes, 2 spaces, 1 event,
2 pending changes; 1 473 645). `Consistent`. `OriginContract`: all poses published
under one origin generation are relative to one space after the same announced changes, an event
with a valid pose names the space of its generation, and a layer shows poses of the frame's own
origin. `FramesAreAccepted`: the publications never refuse a frame the host begins, restarted
sessions included. `RetiredPolicyQuits`: a change policy that retired (too many pending
changes, or time going back) ends the service. The ring holds 16 in the code; 2 let it overflow.

**`parts`** (`MCParts`, 3 frames, 2 sizes; 2 faces, 3 sets; 3 launches, 2 credited frames, 2 faults;
5 lines, buffers of 2, a cap of 3; 2.7 million). `Consistent` and `PairContract`: both eyes shown
are of the frame whose views they are shown with, the kept pair is not written to while it may be
shown again, and a released host left no slot in use, whatever was deferred, refused, withheld,
timed out, faulted or resized. `SkyboxIsWhole`: every face of the published skybox is of the set
accepted last. `SentinelContract`: the launch after a death of unproved hooks patches nothing on any
device unless told to ignore the sentinel, each such death costs one session and nothing else costs
any, and a recovering process has no hook. `LogContract`: file and buffers hold every line taken,
once and in order, drops are told before the next pass, and the end of the process loses neither
unless it interrupts an update. Three frames are a kept one, its replay and the next; three launches
are a death, a recovery and a normal run.

**`installer`** (`Installer`, 3 runs, up to 2 failing operations or crashes and up to 3 changes by
other programs; 3 124 449). Copies to and from the mirror fail and tear like any other. Others
change, delete or add files between the runs and while a plan is shown. `MaxEvents` bounds the mix:
in three runs 2 faults without a change, 1 with two, none with three; in two runs 2 faults and a
change. The first change is of any kind, the later ones are game updates, wiped folders and lost
originals, the ones whose combinations matter to an uninstall.
`Consistent`. `RolledBackIsAsFound`: a run that reports its roll-back left the folder as it found it,
whichever step had failed. `KeepsOriginals`: no file that a plan knew of is lost at any point, a
crash between any two operations and an incomplete roll-back included, and while a genuine runtime
is left anywhere, EDVR's own never stands in the folder without one an uninstall finds. A file that
lands where the survey saw none, while the plan is shown, is excepted: it is lost, see
`Installer_window.cfg` below. `UninstallRestores`: an uninstall that reports success has put back the
runtime displaced last, but for two cases, both with the parked original gone: a `restored-` folder
sorts above newer backups; and an update that lands while the uninstall's plan is shown is overwritten
by the backup, and kept in the run's own backup folder. Both cases occur within the bounds.

**`hooks_off`** (`DeviceHooks`, `OffSwitchIsSafe`, violated). See below.

Deadlock is checked in `queue`, `owner`, `dispatcher`, `module_exports` and `render_boundary`; the
other programs close, stop or are run a bounded number of times.

### What disagrees with the code's own words

**`hooks_off`**. `src/d3d11/device_hook.cpp:2232-2234` says of `advanced.d3d11_fixes = 0` that it
"retains the Present and DXGI factory hooks; Present only updates its bookkeeping", and
`docs/troubleshooting.md:82-91` offers it to users whose game crashes. hookDevice returns before it
records the device; the swap chain is hooked nevertheless, and hookedPresent (986) calls
`g_state->device->GetImmediateContext` without a test and outside any guard. The first Present of
the hooked swap chain dereferences a null pointer. The same happens with the fixes on when the
device's table cannot be attached or committed.

Ten further configurations are kept beside the runs. Each checks one property that states a comment
or a document, and TLC finds each violated:

| Configuration | Property | Says | The code |
|---|---|---|---|
| `FrameLoop_drain.cfg` | `DrainedWaitIsBegun` | `frame_boundary.h:299-304`: a wait drain() takes that admits a real frame "is begun and ended with zero layers" | pumpEvents drains only in STOPPING, where beginWaited refuses every wait; only close() takes that branch |
| `FrameEndOverlap_gate.cfg` (of `MCFrameEndOverlap`) | `FinishIsAdmitted` | `native_runtime_host.h:1290`: "Cannot happen today -- gate.requestStop() is only called from close()" | publishFatalFailure (2104) and stop (713) call it; a clear that fails before the finish job turns that job away |
| `ModuleBackend_fence.cfg` | `FenceIsFinal` | `native_module.cpp:127`: "Disable idle frame activity before the final GPU fence." | a READY event after the drain restarts the session from the idle pump; the finalizer then retains instead of releasing |
| `Publications_event.cfg` | `EventPoseIsCurrent` | `docs/openxr-seated-origin-2026-09-12.md:69`: a changed origin "invalidates an older event's pose" | a reset between a change's application and its time stamps an old pose with the new generation |
| `Publications_recentre.cfg` | `RecentreFindsNoFrame` | `native_runtime_host.h:942`: "No frame of ours is open yet at this point in WaitGetPoses" | a frame with a missing Submit is open; WaitGetPoses fails until the game completes or clears it |
| `Installer_window.cfg` | `ReplacedIsKept` | `docs/installer.md:293`: "Everything replaced is copied into `edvr_backup\<timestamp>\` first" | a write where the survey saw no file has no backup and nothing to compare (`apply.cpp:166`): a `d3d11.dll` a mod puts there while the plan is shown is overwritten, and its snapshot deleted on success (305-306) |
| `Installer_chain.cfg` | `RealDllNamesAFile` | `docs/installer.md:90`: a chain target that has gone is cleared, "asked on every run" | asked only when the record names a chain |
| `Installer_kept.cfg` | `KeptChainIsWired` | `plan.cpp:396`: "Keeping the chain to" the mod | with the settings replaced, edvr.ini no longer names it |
| `Installer_mirror.cfg` | `MirrorHasOriginal` | `mirror.h:67`: the pair recovers "the game's ORIGINAL runtime" | the second install mirrors EDVR's own older build |
| `Installer_newest.cfg` | `RestoresNewest` | `plan.cpp:147`: "newest first" | `restored-` folders sort above every later stamp |

Other observations made while modelling, none of which a run is about:

- resetSeated does not publish a clear that failed (`native_runtime_host.h:1986`), as clearSubmitted
  does (1431-1434): the game learns of it when something else enters the host, or from the idle pump.
- An uninstall that copies the runtime back from a backup checks nothing about the file it replaces
  (`plan.cpp:738-740` has no expectSha), so an update that landed meanwhile is replaced by an older
  runtime. It is in that run's backup folder.
- A crash between the delete and the rename of an uninstall leaves the original under its parked
  name; a second uninstall does not rename it back, an install followed by an uninstall does.
- A late `trace.stop` of one shutdown may unregister the trace of a runtime started since.
- An unusable seated space makes WaitGetPoses refuse for ever without a quit event; a reset whose
  locate fails has already moved the origin and posts no event; a full event queue with a pending
  intro request makes every WaitGetPoses fail until the game polls.
- The log writes its buffers at the end of the process even after the message that nothing further
  will be written; a short line accepted after a longer one was dropped precedes the notice of it.
- A process killed between the write of the sentinel and the flag that says so leaves a file that
  refuses the next launch (the model takes that as one step).

## 4. Fairness

Liveness is checked under what the scheduler, the clock and the callers' contract give, never under
fairness of a caller: nothing makes a game call Submit, or the render thread Present.

- A thread inside a call runs on (weak fairness of its steps). Mutexes are held for a few lines.
- A deadline elapses: `invoke`'s wait_until has one, so its time-out is a step the clock owes.
- User callbacks return. The step is strongly fair because the callback may meanwhile call close,
  stop or submit, which disables nothing for good but interleaves; the headers demand the same
  ("Entered runtime calls still require completion").
- The owner takes what is queued: its queue is first in, first out, hence strong fairness of the
  rendezvous callback's turn in `RenderThreadDispatcher`, where other work is one abstract request.
- xrWaitFrame returns once the frame of the last wait has begun, which is what OpenXR promises.
- In `RenderBoundary` the user keeps trying to release, as the loop in `ModuleBackend::stop` does.
  (That loop gives up after five seconds and retains; the property says the retry gets through.)
- `ModuleFairSpec` of `ModuleExports`: a caller inside an export runs on and the backend answers.
- `ModuleBackend`: the steps of the driver, the render thread inside a call and the owner, the clean
  up of a failed start, and the queue's time-outs. Nobody has to Present, submit or shut down.
- `Publications`, `FrameLoop`: the pump runs, which is the owner's idle cadence of 5 ms
  (`owner_service.h:154`, 174). In `FrameLoop` only the pump that finds a failed boundary has to.

## 5. Proofs

| Theorem | In | Property |
|---|---|---|
| `Consistency`, `KeepsContract` | `PresentWorkQueueProofs` | `Consistent`, `InvokeContract` |
| `RefinesExecutor` | `PresentWorkQueueProofs`, `OwnerServiceProofs` | `IsExecutor` |
| `Consistency`, `KeepsContract` | `OwnerServiceProofs` | `Consistent`, `StopContract` |
| `Consistency`, `KeepsContract` | `RenderThreadProofs` | `Consistent`, `RendezvousContract` |
| `LeaseConsistency`, `LeaseKept` | `RenderThreadProofs` | `LeaseConsistent`, `LeaseContract` |
| `KeepsPairs`, `AdmitsTheFinish` | `RenderThreadProofs` | `NoPairIsLost`, `FinishIsAdmitted` |
| `LifecycleAgrees`, `InitKept` | `ModuleProofs` | `LifecycleConsistent`, `InitContract` |
| `DrivesLifecycle`, `ExportsKeepContract` | `ModuleProofs` | `ExportsSpec => LifecycleSpec`, `ExportContract` |
| `Consistency`, `KeepsContract` | `FrameLoopProofs` | `Consistent`, `SessionContract` |
| `Agreement`, `ShutdownKept` | `ModuleProofs` | `ThreadsAgree`, `ShutdownContract` |
| `Consistency`, `KeepsContract`, `AcceptsFrames` | `PublicationsProofs` | `Consistent`, `OriginContract`, `FramesAreAccepted` |
| `KeepsSentinel`, `KeepsSkybox`, `CapturesConsistent`, `KeepsPairs`, `KeepsLog` | `PartsProofs` | `SentinelContract`, `SkyboxIsWhole`, `Consistent`, `PairContract`, `LogContract` |
| `RollsBack`, `Consistency` | `InstallerProofs` | `RolledBackIsAsFound`, `Consistent` |

Each is stated for every value of the constants: any number of threads, callers, requests, starts,
bindings, frames, faces, sets, launches, lines, mods, runs and faults, any capacity, any range of
times. The assumptions are the named ASSUMEs of the modules (finite sets of threads, a positive capacity, a token counter
with room for a start and its invalidation, names that differ), which TLC evaluates on the runs'
instances. One theorem has a hypothesis of its own, `OneGame`, explained below. None of the
properties is inductive; what follows says what had to be added and why.

**`PresentWorkQueue`.** That a request has one holder is kept by pump only if the pumping thread is
the bound one and `active_` keeps a second pump out (`PumpInv`); by close only if two closers never
hold the same request (`CloseInv`); and the fields of a request have to be known for each place it
can be in: queued means captured, not running, not cancelled, never started; held by the pump before
the callback, in it, after it; held by a closer or its caller means cancelled. Three lemmas say what
push_back, pop_front and erase do to the set of queued requests; the counter uses the library's
cardinality theorems.

**`OwnerService`.** Four layers, each kept with the help of the ones before. `Life`: the worker and
the std::thread agree with `running_`, one stop at a time cancels and one joins. `Count`:
`stopCallers_` is the number of external stops under way, which is what keeps a start from
beginning under a stop that has not woken. `Held`: a request that is not done is in exactly one of
the queue, the worker's hands and the cancelling stop's list. `Outcomes` and `Finals`: a stop belongs
to the newest generation until it returns, the outcome of a generation does not change once a stop
has reported it, and the finalizer is the one the first stop gave until the worker has run it.

**The two refinements of `Executor`.** Every action of the queue and of the service is matched with
a step of the abstract hand-off or a stutter, from the invariants above: without one holder a second
report would be a second finish, and without `Held` a cancelled request could begin. This is what
entitles `RenderThreadDispatcher` to use `Executor` for the owner service.

**`RenderThreadDispatcher`.** `ThreadsMeet` (the program counters of both threads agree with the
service), `JobHasOneHolder` (the slot, the render thread or one closer), `Outcome` (the Boundary's
fields agree with how the callback ended).

**`RuntimeLifecycle`, `ModuleExports`.** `StateMatchesUser`: the state under the mutex says where the
one caller inside the backend is, and a start seen in the state Stopping has been cancelled.
`AttemptIsFresh`: handed-out tokens lie below the counter, an uncancelled start holds the newest
token and there is room for one more increment; so the increment of shutdown does not wrap. `Doom`: a
start that a shutdown found in flight carries ShuttingDown to its return. `FailedStop`: a failed stop
is on its way to Failed or there. The exports' steps are lifecycle steps or leave its variables alone
(`DrivesLifecycle`), so all of this holds of them, and `ExportContract` is proved on top of it.

**`ModuleBackend`.** The properties speak of a stop that has answered, or of a frame that reaches the
host; what makes them true is spread over three threads that each see a part. A request is in the
queue exactly while its user waits for it and the driver's is the one of the step it is in (`Queued`,
over lemmas on append, pop and erase); the render thread is parked in a rendezvous exactly for the
user whose request runs (`Waits`), and the owner's job is that rendezvous (`Works`). Then the driver's
place says what has been done to the generation (`Progress`): an owner runs from start until drain and
finish, the host is up wherever a frame can still come from and destroyed only by the owner's
finalizer with nothing pending on the GPU (`Hosted`), and what stop leaves stays until the next start
(`Ended`). `Waits` is the heart: without it a late answer of one job could be taken for that of the
next, and a shutdown from inside a callback could close a lease it is standing on.

**`RenderBoundary`.** The count in the lease agrees with the threads' stacks (`CountIsStack`), the
render thread is settled before the first callback (`ThreadIsSettled`), a binding is acquired once
(`AcquiredOnce`).

**`FrameLoop`.** For each step of the owner's call, what the step may rely on: which entry point and
function it is in (`Shape`), that the gate is open (`Gate`), that the session runs (`Live`), which
frame is open and what the runtime has been told of it (`Frames`), who holds the wait that was asked
for - worker, pacer's result, or the owner about to begin it (`Tokens`) - and that a loss noticed
inside the call is on its way to be published, or belongs to a reset and a terminal session
(`Health`). `CallOrder` is `Frames` and `Tokens` read at the calls.

**`FrameEndOverlap`.** With one game thread the put-off finish is the next job that does anything:
only loading boundaries, which a frame in flight turns into nothing, can be ahead of it (`Due`,
`JobOfFinish`). The hypothesis is what was measured of the game
(`docs/openxr-implementation-status.md:743`: "wait, left submit, right submit, Present on one
thread"; the theorem lets Present be on another) and nothing in the code enforces it. It is needed:
with two game threads `FrameEndOverlap_gate.cfg` shows the gate turning the finish away.

**`Publications`.** That one origin generation names one space is not inductive. Which announced
changes a pose has crossed is decided when the policy advances past them, so the invariant follows
each change until then: it is queued, or every pose of the current origin has crossed it (`Applied`,
with the lemma that advance removes exactly the due prefix of a sorted queue). Poses, events and
events still queued agree with the host's space as long as that is usable (`Spaces`), and what the
next Submit may show was named under the current origin (`Shown`). Frames are accepted because the
host's numbers run on through restarted sessions and no publication is ahead of them (`Numbers`).

**`DeviceHooks`.** From the first patched table until the hooks have proved themselves the file is
there and the process would take it down (`Guarded`); after a death of unproved hooks it is there
until a process has seen it, and that process patches nothing (`DeathIsSeen`, `Decided`). A file that
is not the living process's own stands for a death no session was paid for (`FileIsDebt`), so no
death costs two sessions.

**`SkyboxTransfer`, `EyeTransfer`.** Lemmas say what each operator of `SharedTexture` does to a slot.
For the skybox (`SkyInv`): a skybox is complete exactly while a bank is committed, and every slot of
that bank is in order and shows the accepted set, whatever happens to the other one.
For the eyes: records and transfers change hands together, and a record's copy is in its own bank
(`EyeBanks`); an accepted eye of the current frame is taken or deferred as long as the heal serves,
and a pair is ready only if both are (`EyeFresh`).

**`Log`.** What is written, discarded by the cap and still buffered, in this order, is what was taken
(`LogKept`). A flush keeps that only because the buffer the flusher has passed is empty (`Passed`) and
nothing is written after the cap was reached (`Capped`); `Told` follows the count of drops through the
two steps of a notice. That no line appears twice needs the numbers of the lines taken (`Numbered`)
and a lemma on concatenations of injective sequences.

**`Installer`.** `RolledBackIsAsFound` speaks of the end of a roll-back; the invariant says of every
moment before that the undo list leads back, entry by entry, to the folder the run found: there is a
sequence of folders, from the one on disk to the one found, in which undoing each entry gives the next
(`Chain`). A snapshot is taken before the file is replaced, so while a step is at work the last of
these folders may differ in that one file (`Shielded`). That every step adds an entry that undoes it
is proved from the shape of a plan's steps alone (`IsStep`): a backup goes into the run's own folder,
which is new (`Planning`); a file is renamed only to a name of its kind (`Swaps`); and where a backup
is copied over `openvr_api.dll`, no earlier step of the plan has taken that file away. Both planners
are proved to make such plans from any folder (`InstallPlanned`, `UninstallPlanned`). Other programs
may change the folder while the plan is shown, copies out of the mirror may have failed, and the
command line may have planned for the folder before them: the proof uses nothing of what the survey
saw but this shape.

Two proofs corrected their models. In `FrameLoop`, a deferred frame that waitAndBegin's own clear()
completes and ends empty had been taken for the frame that call admits (`Admitting` tells them
apart). In `Installer`, a move-back whose file is gone had no meaning; MoveFileExW fails there
(`Movable`), and the invariant shows that a roll-back in which nothing failed never meets that case.

**Only model-checked.** The liveness properties (`CallsReturn`, `LeaseIsReleased`, `FinishHappens`,
`StoppingEnds`, `RetiredPolicyQuits`, `FailureIsPublished`): the prover has no rules for fairness in
this version.
Of `Installer`, `KeepsOriginals` and `UninstallRestores`: they depend on the contents and the order
of a plan's steps, so an invariant would have to know, for each place in each plan, which contents
can stand where; only the shape of the steps is proved.

## 6. Not modelled, and what the models leave out

- The d3d11 proxy's rendering fixes, probes, shaders, upscalers: recognition of draws and image
  arithmetic over game memory; their correctness is visual and not a question about states.
- Text: INI parsing and editing, manifests, log wording, the installer's windows and log bundle.
- Facades and clients that translate one call into another; vendored code; tests and tools.
- Inside the modelled parts: failed allocations that only make a call fail; the wall-clock step of
  synthesized times (any step up to two periods instead); layers, poses and pixels (whether a frame
  has anything to show, and whether composing works, is any choice); timing records; trace output.
- `RuntimeGate`: only its stop and its admission, inside the host models.
- `FrameLoop`: the floor admitFrame puts under the times it hands out (`frame_boundary.h:195-207`);
  what a time that goes back does is in `Publications`. closeDiagnosticFrame is the same clear as
  resetSeated's and has no action of its own.
- `ModuleBackend`: a frame is open and a pair complete whenever the session runs; the sub-steps of
  `binding.close` are one action; the manifest and the launch's waiting are left out.
- `Publications`: a generation is a number without the overflow at 2^64.
- `EyeTransfer`, `SkyboxTransfer`: the capture on a separate device. On the shared device a capture
  is one copy on one context.
- `DeviceHooks`: patching itself, the context's hooks and the frame work. Writing the sentinel and
  remembering it is one step.
- `Log`: a line of one byte or two; a thread inside note() while close() runs, which the unload of a
  module excludes. WriteFile is taken to succeed: `log.cpp:301-307` does not look at its result and
  empties the buffer, so the lines of a failed or short write are lost without a notice.
- `Installer`: a process that dies among the copies of restoreFromMirror leaves what some of its
  failures leave when the plan is declined, and has no action of its own. Left out: finding
  the game, probing DLLs, the settings window, directories, messages; "loader" stands for the loader
  and its licence.

Most of the repository's 165 000 lines are outside any state model worth checking. About 100 000
are draw recognition, shader sources, image arithmetic and instruments of the d3d11 proxy; the rest
of what is left out is vendored headers, tests, tools, text handling and call translation. The
models cover the code whose correctness is a question about states and orders of steps.

## 7. Plan

1. Proofs: `KeepsOriginals`, with what each place of a plan has already backed up as part of the
   invariant; then `UninstallRestores`.
2. Small state machines still to model: `GpuSpanState` and the disjoint clock, shared-slot ownership
   in `VTableHook`, the multi-word entries of the shared frame channel, the command-list permit of
   the graphics bridge.
3. The LOD governor and the transition flash hold of the proxy's frame policies.

Where a new property is worth more than an old one, the shallower one goes.
