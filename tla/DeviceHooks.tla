---------------------------- MODULE DeviceHooks -----------------------------
(***************************************************************************)
(* How the d3d11 proxy puts its hooks on the game's device and swap chain, *)
(* and the crash sentinel that keeps a run that died of them from being    *)
(* repeated (src/src/d3d11/d3d11_proxy.cpp, device_hook.cpp,               *)
(* src/src/common/guard.cpp).  The sentinel is a file: it is written       *)
(* before the device's table is patched and deleted when the hooks have    *)
(* proved themselves; a launch that finds it installs nothing.  The game   *)
(* is started again and again; it may exit, or die, at any point.  The     *)
(* frame work under the hooks is left out.                                 *)
(***************************************************************************)
EXTENDS Naturals

CONSTANTS MaxLaunches,   \* how often the game is started
          ConfirmAfter,  \* credited frames that prove the hooks (6 s in the code)
          FaultLimit     \* faults g_createBudget absorbs (3 in the code)

VARIABLES
    file,      \* the sentinel's file is on the disk
    run,       \* the running process; see NewRun
    launches,  \* processes started so far
    ended,     \* how the last one ended: none, exit, crash, present, off
    died,      \* (history) the last one died of hooks it had not proved yet
    deaths,    \* (history) processes that did
    trips,     \* (history) processes that recovered: they installed nothing
    stuck      \* (history) a delete of the file failed
vars == <<file, run, launches, ended, died, deaths, trips, stuck>>

\* A process: its settings, where attachToDevice stands, the State of
\* device_hook.cpp and its Sentinel.  touched and guarded are history: the
\* device's table may be patched; the sentinel's file was written before.
NewRun(fixes, ignore) ==
    [up |-> TRUE,
     fixes |-> fixes, ignore |-> ignore,     \* d3d11_fixes, ignore_sentinel
     pc |-> "idle",                          \* or hooking, arming, chaining
     withChain |-> FALSE,                    \* the create made a swap chain too
     budget |-> FaultLimit,                  \* g_createBudget
     made |-> FALSE, tripped |-> FALSE, armed |-> FALSE,
     recoveryDisabled |-> FALSE,
     device |-> FALSE, swapChain |-> FALSE, factory |-> FALSE,
     confirmed |-> FALSE, presenting |-> 0,  \* sentinelConfirmed, presentingMs
     touched |-> FALSE, guarded |-> FALSE]
NoRun == [NewRun(FALSE, FALSE) EXCEPT !.up = FALSE]

Init ==
    /\ file = FALSE /\ run = NoRun /\ launches = 0 /\ ended = "none"
    /\ died = FALSE /\ deaths = 0 /\ trips = 0 /\ stuck = FALSE

Launch ==
    /\ ~run.up /\ launches < MaxLaunches
    /\ launches' = launches + 1
    /\ \E fixes, ignore \in BOOLEAN : run' = NewRun(fixes, ignore)
    /\ UNCHANGED <<file, ended, died, deaths, trips, stuck>>
-----------------------------------------------------------------------------
\* The sentinel.

\* The constructor looks for the file.
Made(r) == IF r.made THEN r ELSE [r EXCEPT !.made = TRUE, !.tripped = file]

\* DeleteFileW, which may fail.
DeleteFile ==
    \/ file' = FALSE /\ UNCHANGED stuck
    \/ file /\ file' = TRUE /\ stuck' = TRUE

\* arm(): the file is written, or it could not be and nothing protects the run.
ArmSentinel(r) ==
    \/ file' = TRUE /\ run' = [r EXCEPT !.armed = TRUE, !.guarded = TRUE]
    \/ UNCHANGED file /\ run' = r

\* confirm(): an armed sentinel takes its file down.
Confirm(r) ==
    IF r.armed THEN DeleteFile /\ run' = [r EXCEPT !.armed = FALSE]
               ELSE run' = r /\ UNCHANGED <<file, stuck>>

\* clearTrip(): the trip is forgotten only when the file is gone.
ClearTrip(r) == DeleteFile /\ run' = [r EXCEPT !.tripped = file']
-----------------------------------------------------------------------------
\* attachToDevice, on the thread that creates a device.

At(pc) == run.up /\ run.pc = pc
Chained(r) == [r EXCEPT !.pc = "chaining"]

CreateDevice ==
    /\ At("idle") /\ run.budget > 0
    /\ \E c \in BOOLEAN : run' = [run EXCEPT !.pc = "hooking", !.withChain = c]
    /\ UNCHANGED <<file, launches, ended, died, deaths, trips, stuck>>

\* hookDevice returns early: the process recovers, or has its device.
DeclineDevice ==
    /\ At("hooking") /\ (run.recoveryDisabled \/ run.device)
    /\ run' = Chained(run)
    /\ UNCHANGED <<file, launches, ended, died, deaths, trips, stuck>>

MayHook == At("hooking") /\ ~run.recoveryDisabled /\ ~run.device
Refused(r) == r.tripped /\ ~r.ignore

\* The off switch: an older trip is cleared, the device is not hooked.
FixesOff ==
    /\ MayHook /\ ~run.fixes
    /\ LET r == Chained(Made(run))
       IN  IF r.tripped THEN ClearTrip(r) ELSE run' = r /\ UNCHANGED <<file, stuck>>
    /\ UNCHANGED <<launches, ended, died, deaths, trips>>

\* The previous run never confirmed: this one installs nothing, on any device.
\* The mutant lets the next device of the process try again.
RecoveredForgets(r) == r
Recovered(r) == [r EXCEPT !.recoveryDisabled = TRUE]
Recover ==
    /\ MayHook /\ run.fixes /\ Refused(Made(run))
    /\ ClearTrip(Recovered(Chained(Made(run))))
    /\ trips' = trips + 1
    /\ UNCHANGED <<launches, ended, died, deaths>>

\* The device's table cannot be hooked.
TableUnusable ==
    /\ MayHook /\ run.fixes /\ ~Refused(Made(run))
    /\ run' = Chained(Made(run))
    /\ UNCHANGED <<file, launches, ended, died, deaths, trips, stuck>>

Arm ==
    /\ MayHook /\ run.fixes /\ ~Refused(Made(run))
    /\ ArmSentinel([Made(run) EXCEPT !.pc = "arming", !.touched = TRUE])
    /\ UNCHANGED <<launches, ended, died, deaths, trips, stuck>>

\* The table is patched; hookDevice ends with the factory's hook, which may fail.
Commit ==
    /\ At("arming")
    /\ \E f \in BOOLEAN :
          run' = [Chained(run) EXCEPT !.device = TRUE, !.factory = run.factory \/ f]
    /\ UNCHANGED <<file, launches, ended, died, deaths, trips, stuck>>

CommitFails ==
    /\ At("arming")
    /\ Confirm([Chained(run) EXCEPT !.touched = FALSE, !.guarded = FALSE])
    /\ UNCHANGED <<launches, ended, died, deaths, trips>>

\* hookSwapChain for the swap chain that came with the device, or
\* hookFactoryForDevice; either may fail to install.
Chain ==
    /\ At("chaining")
    /\ \E ok \in BOOLEAN :
          LET hooked == ok /\ ~run.recoveryDisabled
          IN  run' = [run EXCEPT !.pc = "idle",
                        !.swapChain = @ \/ (hooked /\ run.withChain),
                        !.factory = @ \/ (hooked /\ ~run.withChain)]
    /\ UNCHANGED <<file, launches, ended, died, deaths, trips, stuck>>

\* guardedBudget absorbs a fault of attachToDevice and charges it.
AbsorbFault ==
    /\ run.up /\ run.pc # "idle"
    /\ run' = [run EXCEPT !.pc = "idle", !.budget = @ - 1]
    /\ UNCHANGED <<file, launches, ended, died, deaths, trips, stuck>>
-----------------------------------------------------------------------------
\* The other threads, and the end of a process.

\* hookedCreateSwapChain, on the hooked factory.
CreateSwapChain ==
    /\ run.up /\ run.factory /\ ~run.swapChain /\ ~run.recoveryDisabled
    /\ run' = [run EXCEPT !.swapChain = TRUE]
    /\ UNCHANGED <<file, launches, ended, died, deaths, trips, stuck>>

\* hookedPresent until the hooks are confirmed: a short frame is credited.
Present ==
    /\ run.up /\ run.swapChain /\ run.device /\ ~run.confirmed
    /\ \E credit \in {0, 1} :
          LET sum == run.presenting + credit
          IN  IF sum >= ConfirmAfter
              THEN Confirm([run EXCEPT !.presenting = sum, !.confirmed = TRUE])
              ELSE run' = [run EXCEPT !.presenting = sum] /\ UNCHANGED <<file, stuck>>
    /\ UNCHANGED <<launches, ended, died, deaths, trips>>

Dies(how) ==
    LET fatal == run.touched /\ run.guarded /\ ~run.confirmed
    IN  /\ run.up
        /\ run' = NoRun /\ ended' = how
        /\ died' = fatal /\ deaths' = IF fatal THEN deaths + 1 ELSE deaths
        /\ UNCHANGED <<file, launches, trips, stuck>>

\* hookedPresent asks the State's device for its context without a test.
PresentWithoutDevice ==
    /\ run.swapChain /\ ~run.device
    /\ Dies(IF run.fixes THEN "present" ELSE "off")

\* Death for any other reason; nothing of the module runs.
Crash == Dies("crash")

\* deviceHookNoteCleanExit, at the end of the process or at FreeLibrary.
Exit ==
    /\ run.up
    /\ \/ run.made /\ ~run.confirmed /\ run.armed /\ DeleteFile
       \/ ~(run.made /\ ~run.confirmed /\ run.armed) /\ UNCHANGED <<file, stuck>>
    /\ run' = NoRun /\ ended' = "exit" /\ died' = FALSE
    /\ UNCHANGED <<launches, deaths, trips>>

Next ==
    \/ Launch \/ CreateDevice \/ DeclineDevice \/ FixesOff \/ Recover
    \/ TableUnusable \/ Arm \/ Commit \/ CommitFails \/ Chain \/ AbsorbFault
    \/ CreateSwapChain \/ Present \/ PresentWithoutDevice \/ Crash \/ Exit

Spec == Init /\ [][Next]_vars
-----------------------------------------------------------------------------
\* A process started after one that died of unproved hooks patches nothing, on
\* any device, unless told to ignore the sentinel (device_hook.cpp:2267-2299).
Protects == run.touched /\ ~run.ignore => ~died

\* Such a death costs one session, and nothing else costs any: a run that
\* exits, was confirmed or never patched is not held against the next one
\* (guard.cpp:187-200, device_hook.cpp:2386-2392, 2744-2777).
OneSession == stuck \/ trips <= deaths

\* A process that recovers has no hook of this module at all
\* (device_hook.cpp:2232-2235).
RecoveryIsBare ==
    run.recoveryDisabled => ~(run.touched \/ run.device \/ run.swapChain \/ run.factory)

SentinelContract == Protects /\ OneSession /\ RecoveryIsBare

\* "Present only updates its bookkeeping while graphicsRuntimeDisabled is set"
\* (device_hook.cpp:2232-2234): with the fixes switched off, no process dies in
\* the hooked Present for want of a device.
OffSwitchIsSafe == ended # "off"
=============================================================================
