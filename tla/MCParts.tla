------------------------------ MODULE MCParts -------------------------------
(***************************************************************************)
(* Four parts of the two modules that share no state, in one model: the    *)
(* transfers of the eyes and of the skybox, the device hooks with their    *)
(* crash sentinel, and the log.  Each is explored with the others idle.    *)
(***************************************************************************)
EXTENDS EyeTransfer

CONSTANTS NumFaces, MaxSets,
          MaxLaunches, ConfirmAfter, FaultLimit,
          MaxLines, LineSizes, BufferCap, MaxBytes

ASSUME PartsAssumption ==
    /\ {NumFaces, MaxSets, MaxLaunches, ConfirmAfter, FaultLimit} \subseteq Nat \ {0}
    /\ {MaxLines, BufferCap, MaxBytes} \subseteq Nat /\ LineSizes \subseteq 1 .. BufferCap

VARIABLES skyHost, skySlots, committed, complete, sets, published
skyVars == <<skyHost, skySlots, committed, complete, sets, published>>
Skybox == INSTANCE SkyboxTransfer WITH host <- skyHost, slots <- skySlots

VARIABLES file, run, launches, ended, died, deaths, trips, stuck
hookVars == <<file, run, launches, ended, died, deaths, trips, stuck>>
Hooks == INSTANCE DeviceHooks

VARIABLES stage, buf, active, pc, full, lost, log, bytes, capped, dropped,
          reported, told, lines, taken, discarded, before, torn
logVars == <<stage, buf, active, pc, full, lost, log, bytes, capped, dropped,
             reported, told, lines, taken, discarded, before, torn>>
Logging == INSTANCE Log

PartsInit == Init /\ Skybox!Init /\ Hooks!Init /\ Logging!Init

PartsNext ==
    \/ /\ Skybox!Init /\ Hooks!Init /\ Logging!Init /\ Next
       /\ UNCHANGED <<skyVars, hookVars, logVars>>
    \/ /\ Init /\ Hooks!Init /\ Logging!Init /\ Skybox!Next
       /\ UNCHANGED <<vars, hookVars, logVars>>
    \/ /\ Init /\ Skybox!Init /\ Logging!Init /\ Hooks!Next
       /\ UNCHANGED <<vars, skyVars, logVars>>
    \/ /\ Init /\ Skybox!Init /\ Hooks!Init /\ Logging!Next
       /\ UNCHANGED <<vars, skyVars, hookVars>>

PartsSpec == PartsInit /\ [][PartsNext]_<<vars, skyVars, hookVars, logVars>>
-----------------------------------------------------------------------------
\* While the skybox capture serves, every face of the published skybox shows the
\* set that was accepted last, whatever later sets failed half way, timed out or
\* were resized (skybox_capture.cpp:168-205); a released capture has no transfer
\* in use (skybox_capture.cpp:113-137).
SkyboxIsWhole == Skybox!IsWhole

\* A launch after a death of unproved hooks patches nothing, that death costs
\* one session and nothing else costs any, and a recovering process has no hook
\* (device_hook.cpp:2187-2395, 2744-2777; guard.cpp:146-213).
SentinelContract == Hooks!SentinelContract

\* The log keeps every line it took, once and in order, tells of every drop, and
\* saves both at the end of the process (log.cpp:250-486).
LogContract == Logging!LogContract
=============================================================================
