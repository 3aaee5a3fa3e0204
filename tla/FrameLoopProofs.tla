---------------------------- MODULE FrameLoopProofs ----------------------------
(***************************************************************************)
(* The frame loop keeps its records true and its calls in order for every  *)
(* MaxTime.  The invariant says, at each step of the owner's call, what    *)
(* the step may rely on: who the call is (Shape), that the session runs    *)
(* (Live), which frame is open and begun (Frames), who holds the wait that *)
(* was asked for (Tokens) and what has failed so far (Health).             *)
(***************************************************************************)
EXTENDS FrameLoop, TLAPS

\* What TypeOK says, the flags apart: Zenon has them, SMT the rest.
Flags ==
  /\ {running, frameOpen, sessionDeferred, deferred, failed, turbo} \subseteq BOOLEAN
  /\ {geometryReady, pending, done, serviceFailed, serviceStopped, gateStopped} \subseteq BOOLEAN

Types ==
  /\ state \in {"unknown", "idle", "ready", "active", "stopping"}
  /\ status \in {"ok", "loss", "gone", "hard"}
  /\ frameTime \in 0 .. MaxTime + 2 /\ accepted \in SUBSET Eyes
  /\ lastReal \in Times
  /\ result \in Waits /\ worker \in {"none", "idle", "xrWaitFrame"}
  /\ op \in {"none", "pump", "wait", "load", "clear", "submit", "reset", "close"}
  /\ fn \in {"none", "waitAndBegin", "finish", "clear", "drain", "settle", "giveUp", "abort"}
  /\ pc \in {"idle", "stop", "admitted", "choose", "xrWaitFrame", "clear", "drain", "take",
             "xrBeginFrame", "xrEndEmpty", "compose", "xrEndFrame", "release", "join",
             "xrDestroySession", "closed"}
  /\ waited \in Waits
  /\ waitReturned \in Times \cup {None} /\ begun \in Times \cup {None}

Closing == {"release", "join", "xrDestroySession", "closed"}

\* Which call may be in which function at which step.
Shape ==
  /\ pc = "idle" <=> op = "none"
  /\ fn = "none" <=> pc \in {"idle", "stop"} \cup Closing
  /\ pc \in Closing => op = "close"
  /\ op = "close" => fn \in {"none", "drain", "settle"}
  /\ fn \in {"drain", "settle"} => op \in {"pump", "close"}
  /\ fn = "waitAndBegin" => op \in {"wait", "load"}
  /\ op = "reset" => fn = "clear"
  /\ pc = "stop" => op = "pump"
  /\ pc = "drain" => fn = "drain"
  /\ pc \in {"choose", "xrWaitFrame", "admitted"} => fn = "waitAndBegin"
  /\ pc = "clear" => fn \in {"waitAndBegin", "drain", "clear", "giveUp", "abort"}
  /\ pc \in {"compose", "xrEndFrame"} => fn = "finish"
  /\ pc = "xrEndEmpty" => fn # "finish"
  /\ fn = "settle" => pc \in {"take", "xrBeginFrame", "xrEndEmpty"}
  /\ fn = "settle" /\ pc # "take" => op = "close"
  /\ op = "pump" => state = "stopping"

\* The gate is open for every call but close.
Gate ==
  /\ op = "close" => gateStopped
  /\ op \notin {"none", "close"} => ~gateStopped
  /\ serviceFailed => gateStopped

\* A call past its first step has a session that runs; one that does not run,
\* and was not given up, has nothing out.
Live ==
  /\ pc \notin {"idle", "clear"} \cup Closing => running
  /\ pc = "clear" => running \/ (fn = "clear" /\ ~frameOpen)
  /\ ~running /\ ~serviceFailed => ~frameOpen /\ ~pending

\* The open frame: whether it is deferred, and what the runtime was told of it.
Frames ==
  /\ DeferredHasItsWait
  /\ pc \in {"xrBeginFrame", "compose", "xrEndFrame", "xrEndEmpty"} => ~deferred
  /\ pc \in {"compose", "xrEndFrame", "xrEndEmpty", "admitted"} => frameOpen
  /\ pc \in {"stop", "drain", "choose", "xrWaitFrame"} => ~frameOpen
  /\ fn = "settle" /\ pc = "take" => ~frameOpen
  /\ pc = "admitted" /\ op = "load" => ~deferred
  /\ begun = IF frameOpen /\ ~deferred /\ pc # "xrBeginFrame" THEN frameTime ELSE None

\* A wait that was asked for is with the worker, in the pacer's result, with the
\* owner about to begin it, or given up with its session.
Tokens ==
  /\ worker = "xrWaitFrame" => pending /\ ~done
  /\ pc \in {"stop", "xrBeginFrame", "xrWaitFrame", "xrDestroySession", "closed"} => ~pending
  /\ pc \in {"xrDestroySession", "closed"} => worker = "none"
  /\ pending /\ ~done => waitReturned = None
  /\ pending /\ done => waitReturned = IF result.r = "fail" THEN None ELSE result.time
  /\ pc = "xrBeginFrame" => waitReturned = waited.time
  /\ ~pending /\ waitReturned # None
       => pc \in {"xrBeginFrame", "stop"} \/ ~running \/ gateStopped

\* A boundary that failed is left alone.  While the gate is open only resetSeated
\* leaves one so, with its frame closed and the session terminal; short of that
\* a pending loss is on its way to be noticed by the end of the frame.
Health ==
  /\ failed => pc \in {"idle"} \cup Closing
  /\ ~gateStopped /\ failed => status \in {"loss", "hard"} /\ ~frameOpen
  /\ ~gateStopped /\ ~failed => status \in {"ok", "loss"}
  /\ ~gateStopped /\ ~failed /\ status = "loss"
       => /\ pc \in {"admitted", "clear", "compose", "xrEndEmpty", "xrEndFrame"}
          /\ frameOpen /\ ~deferred

IInv == Flags /\ Types /\ Shape /\ Gate /\ Live /\ Frames /\ Tokens /\ Health

\* Where clear() may return to.
Clearing == {"waitAndBegin", "drain", "clear", "giveUp", "abort"}

\* What a clear() that is done may change beside the owner's place.
LEMMA ClearedEffect ==
  ASSUME Cleared, fn \in Clearing
  PROVE  /\ UNCHANGED failed \/ failed' = TRUE
         /\ \/ UNCHANGED <<serviceFailed, serviceStopped, gateStopped>>
            \/ serviceFailed' = TRUE /\ serviceStopped' = FALSE /\ gateStopped' = TRUE
  BY DEF Cleared, Clearing, service, publishFatalFailure

\* The same, case by case.
LEMMA ClearedCases ==
  ASSUME Cleared, fn \in Clearing
  PROVE  \/ /\ fn = "waitAndBegin" /\ pc' = "choose"
            /\ UNCHANGED <<failed, op, fn, waited, service>>
         \/ fn = "drain" /\ pc' = "drain" /\ UNCHANGED <<failed, op, fn, waited, service>>
         \/ fn = "clear" /\ Return /\ UNCHANGED <<failed, service>>
         \/ fn = "giveUp" /\ Return /\ publishFatalFailure /\ UNCHANGED failed
         \/ fn = "abort" /\ failed' = TRUE /\ Return /\ publishFatalFailure
  BY DEF Cleared, Clearing

\* An end without layers fails, settles a wait, or clears.
LEMMA EndEmptyCases ==
  ASSUME EndEmpty, Shape, Types, failed \in BOOLEAN
  PROVE  \/ /\ failed' = TRUE \/ UNCHANGED failed
            /\ FailedReturn /\ UNCHANGED eyes
         \/ fn = "settle" /\ Drained /\ UNCHANGED <<failed, eyes, op, waited, service>>
         \/ fn \in Clearing /\ ForgetEyes /\ Cleared
<1>1. PICK r \in Results :
        CASE Noted(r) # "ok" -> /\ failed' = (fn # "settle" \/ r = "fail" \/ failed)
                                /\ FailedReturn /\ UNCHANGED eyes
          [] Noted(r) = "ok" /\ fn = "settle" ->
               Drained /\ UNCHANGED <<failed, eyes, op, waited, service>>
          [] OTHER -> ForgetEyes /\ Cleared
  BY DEF EndEmpty
<1>2. CASE Noted(r) # "ok"
  <2>1. /\ failed' = (fn # "settle" \/ r = "fail" \/ failed)
        /\ FailedReturn /\ UNCHANGED eyes
    BY <1>1, <1>2
  <2>2. failed' = TRUE \/ UNCHANGED failed
    BY <2>1, Zenon
  <2> QED
    BY <2>1, <2>2
<1>3. CASE Noted(r) = "ok" /\ fn = "settle"
  BY <1>1, <1>3
<1>4. CASE Noted(r) = "ok" /\ fn # "settle"
  <2>1. ForgetEyes /\ Cleared
    BY <1>1, <1>4
  <2>2. fn \in Clearing
    BY <1>4 DEF EndEmpty, Shape, Types, Closing, Clearing
  <2> QED
    BY <2>1, <2>2
<1> QED
  BY <1>2, <1>3, <1>4

\* The flags stay Boolean.
LEMMA FlagsStay == Flags /\ Types /\ Shape /\ [Next]_vars => Flags'
<1> SUFFICES ASSUME Flags, Types, Shape, [Next]_vars PROVE Flags'
  OBVIOUS
<1> USE DEF Flags, session, frame, eyes, pacer, service, owner, runtime
<1>1. CASE PumpRefused
  BY <1>1, Zenon DEF PumpRefused, publishFatalFailure
<1>2. CASE PumpQuiet
  BY <1>2, Zenon DEF PumpQuiet, PumpMay, NextStates
<1>3. CASE PumpReady
  BY <1>3, Zenon DEF PumpReady, PumpMay, NextStates, note, publishFatalFailure, clearFrame,
     Results
<1>4. CASE PumpStopping
  BY <1>4, Zenon DEF PumpStopping, PumpMay, NextStates, Goto
<1>5. CASE PumpTerminal
  BY <1>5, Zenon DEF PumpTerminal, PumpMay, publishFatalFailure
<1>6. CASE WaitPoses
  BY <1>6, Zenon DEF WaitPoses, ServiceMay, Goto
<1>7. CASE LoadingBoundary
  BY <1>7, Zenon DEF LoadingBoundary, ServiceMay, Goto
<1>8. CASE ClearSubmitted
  BY <1>8, Zenon DEF ClearSubmitted, ServiceMay, Goto
<1>9. CASE Close
  BY <1>9, Zenon DEF Close, Goto
<1>10. ASSUME NEW eye \in Eyes, SubmitEye(eye) PROVE Flags'
  BY <1>10, Zenon DEF SubmitEye, ServiceMay, Goto, Eyes
<1>r. CASE ResetSeated
  BY <1>r, Zenon DEF ResetSeated, Goto
<1>p. CASE PumpFailed
  BY <1>p, Zenon DEF PumpFailed, publishFatalFailure
<1>f. CASE FailedEntry
  BY <1>f, Zenon DEF FailedEntry, ServiceMay, publishFatalFailure
<1>11. CASE Stop
  BY <1>11, Zenon DEF Stop, note, Noted, clearFrame, publishFatalFailure, Return, Results
<1>12. CASE AdmittedWait
  BY <1>12, Zenon DEF AdmittedWait, Goto, Return
<1>13. CASE AdmittedLoad
  BY <1>13, Zenon DEF AdmittedLoad, Goto, Return, publishFatalFailure
<1>14. CASE ChooseSynthesize
  BY <1>14, Zenon DEF ChooseSynthesize, OpenDeferred, Admissible, canSynthesize, Turbo,
     FailedReturn, Goto, Return, publishFatalFailure
<1>15. CASE ChooseTake
  BY <1>15, Zenon DEF ChooseTake
<1>16. CASE ChooseKick
  BY <1>16, Zenon DEF ChooseKick, OpenDeferred, Admissible, canSynthesize, Turbo, FailedReturn, Goto, Return, publishFatalFailure, kick
<1>17. CASE ChooseWait
  BY <1>17, Zenon DEF ChooseWait
<1>18. CASE WaitFrame
  BY <1>18, Zenon DEF WaitFrame, Admissible, FailedReturn, Goto, Return, publishFatalFailure,
     note
<1>19. CASE Clear
  <2>1. CASE frameOpen
    BY <1>19, <2>1, Zenon DEF Clear, session, eyes, pacer, service, runtime, Flags
  <2>2. CASE ~frameOpen
    <3>1. /\ UNCHANGED failed \/ failed' = TRUE
          /\ \/ UNCHANGED <<serviceFailed, serviceStopped, gateStopped>>
             \/ serviceFailed' = TRUE /\ serviceStopped' = FALSE /\ gateStopped' = TRUE
      BY <1>19, <2>2, ClearedEffect DEF Clear, Shape, Clearing
    <3> QED
      BY <1>19, <2>2, <3>1, Zenon DEF Clear, ForgetEyes, session, pacer, runtime, Flags
  <2> QED
    BY <2>1, <2>2
<1>20. CASE Drain
  BY <1>20, Zenon DEF Drain, Drained, Goto
<1>21. CASE TakeDeferred
  BY <1>21, Zenon DEF TakeDeferred, Take, noteReal, note, FailedReturn, Goto, Return,
     publishFatalFailure
<1>22. CASE TakeWaited
  BY <1>22, Zenon DEF TakeWaited, Take, Admissible, noteReal, note, FailedReturn, Goto, Return,
     publishFatalFailure
<1>23. CASE TakeSettled
  BY <1>23, Zenon DEF TakeSettled, Take, Admissible, noteReal, Drained, Goto
<1>24. CASE BeginFrame
  BY <1>24, Zenon DEF BeginFrame, Admitting, note, noteReal, FailedReturn,
     Goto, Return, publishFatalFailure, clearFrame, Drained, Results
<1>25. CASE EndEmpty
  <2>1. failed \in BOOLEAN
    BY Zenon DEF Flags
  <2>2. \/ /\ failed' = TRUE \/ UNCHANGED failed
           /\ FailedReturn /\ UNCHANGED eyes
        \/ fn = "settle" /\ Drained /\ UNCHANGED <<failed, eyes, op, waited, service>>
        \/ fn \in Clearing /\ ForgetEyes /\ Cleared
    BY <1>25, <2>1, EndEmptyCases
  <2>3. /\ frameOpen' = FALSE /\ sessionDeferred' = FALSE
        /\ UNCHANGED <<running, deferred, turbo, pending, done>>
    BY <1>25 DEF EndEmpty, clearFrame, pacer
  <2>4. CASE FailedReturn /\ UNCHANGED eyes /\ (failed' = TRUE \/ UNCHANGED failed)
    BY <2>3, <2>4, Zenon DEF FailedReturn, Return, publishFatalFailure, eyes, service, Flags
  <2>5. CASE Drained /\ UNCHANGED <<failed, eyes, op, waited, service>>
    BY <2>3, <2>5, Zenon DEF eyes, service, Flags
  <2>6. CASE fn \in Clearing /\ ForgetEyes /\ Cleared
    <3>1. /\ UNCHANGED failed \/ failed' = TRUE
          /\ \/ UNCHANGED <<serviceFailed, serviceStopped, gateStopped>>
             \/ serviceFailed' = TRUE /\ serviceStopped' = FALSE /\ gateStopped' = TRUE
      BY <2>6, ClearedEffect
    <3> QED
      BY <2>3, <2>6, <3>1, Zenon DEF ForgetEyes, Flags
  <2> QED
    BY <2>2, <2>4, <2>5, <2>6
<1>26. CASE Compose
  BY <1>26, Zenon DEF Compose, Goto, FailedReturn, Return, publishFatalFailure
<1>27. CASE EndFrame
  BY <1>27, Zenon DEF EndFrame, clearFrame, note, Noted, Return, kick, FailedReturn, Goto,
     publishFatalFailure, Results
<1>28. CASE CloseReleases
  BY <1>28, Zenon DEF CloseReleases, Return
<1>29. CASE Join
  BY <1>29, Zenon DEF Join
<1>30. CASE Destroy
  BY <1>30, Zenon DEF Destroy, clearFrame
<1>31. CASE WorkerCalls
  BY <1>31, Zenon DEF WorkerCalls
<1>32. CASE WorkerReturns
  BY <1>32, Zenon DEF WorkerReturns
<1>33. CASE UNCHANGED vars
  BY <1>33, Zenon DEF vars
<1> QED
  BY <1>1, <1>2, <1>3, <1>4, <1>5, <1>6, <1>7, <1>8, <1>9, <1>10, <1>11, <1>12, <1>13, <1>14,
     <1>15, <1>16, <1>17, <1>18, <1>19, <1>20, <1>21, <1>22, <1>23, <1>24, <1>25, <1>26, <1>27,
     <1>28, <1>29, <1>30, <1>31, <1>32, <1>33, <1>r, <1>p, <1>f
  DEF Next, OwnerEnters, OwnerSteps, WorkerSteps

\* Every step keeps the other types.
LEMMA TypesStay == Types /\ Flags /\ Shape /\ Tokens /\ [Next]_vars => Types'
<1> SUFFICES ASSUME Types, Flags, Shape, Tokens, [Next]_vars PROVE Types'
  OBVIOUS
<1>b. failed \in BOOLEAN
  BY Zenon DEF Flags
<1>w. NoWait \in Waits /\ \A w \in Waits : w.r \in Results /\ w.time \in Times
  BY TimeAssumption DEF NoWait, Waits, Results, Times, TimeAssumption
<1> USE <1>b, <1>w
<1> USE TimeAssumption DEF TimeAssumption, Types, Shape, Tokens, session, frame, eyes, pacer, service, owner, runtime, Times, None
<1>1. CASE PumpRefused
  BY <1>1 DEF PumpRefused, publishFatalFailure
<1>2. CASE PumpQuiet
  BY <1>2 DEF PumpQuiet, PumpMay, NextStates
<1>3. CASE PumpReady
  BY <1>3 DEF PumpReady, PumpMay, NextStates, note, publishFatalFailure, clearFrame, Results
<1>4. CASE PumpStopping
  BY <1>4 DEF PumpStopping, PumpMay, NextStates, Goto
<1>5. CASE PumpTerminal
  BY <1>5 DEF PumpTerminal, PumpMay, publishFatalFailure
<1>6. CASE WaitPoses
  BY <1>6 DEF WaitPoses, ServiceMay, Goto
<1>7. CASE LoadingBoundary
  BY <1>7 DEF LoadingBoundary, ServiceMay, Goto
<1>8. CASE ClearSubmitted
  BY <1>8 DEF ClearSubmitted, ServiceMay, Goto
<1>9. CASE Close
  BY <1>9 DEF Close, Goto
<1>10. ASSUME NEW eye \in Eyes, SubmitEye(eye) PROVE Types'
  BY <1>10 DEF SubmitEye, ServiceMay, Goto, Eyes
<1>r. CASE ResetSeated
  BY <1>r DEF ResetSeated, Goto
<1>p. CASE PumpFailed
  BY <1>p DEF PumpFailed, publishFatalFailure
<1>f. CASE FailedEntry
  BY <1>f DEF FailedEntry, ServiceMay, publishFatalFailure
<1>11. CASE Stop
  BY <1>11 DEF Stop, note, Noted, clearFrame, publishFatalFailure, Return, Results
<1>12. CASE AdmittedWait
  BY <1>12 DEF AdmittedWait, Goto, Return
<1>13. CASE AdmittedLoad
  BY <1>13 DEF AdmittedLoad, Goto, Return, publishFatalFailure
<1>14. CASE ChooseSynthesize
  BY <1>14 DEF ChooseSynthesize, OpenDeferred, Admissible, canSynthesize, Turbo, FailedReturn, Goto, Return, publishFatalFailure
<1>15. CASE ChooseTake
  BY <1>15 DEF ChooseTake
<1>16. CASE ChooseKick
  BY <1>16 DEF ChooseKick, OpenDeferred, Admissible, canSynthesize, Turbo, FailedReturn, Goto, Return, publishFatalFailure, kick
<1>17. CASE ChooseWait
  BY <1>17 DEF ChooseWait
<1>18. CASE WaitFrame
  BY <1>18 DEF WaitFrame, Admissible, FailedReturn, Goto, Return, publishFatalFailure, note
<1>19. CASE Clear
  <2>1. CASE frameOpen
    BY <1>19, <2>1 DEF Types, Clear, session, eyes, pacer, runtime
  <2>2. CASE ~frameOpen
    <3>1. fn \in Clearing /\ Cleared
      BY <1>19, <2>2 DEF Clear, Shape, Clearing
    <3>2. /\ UNCHANGED <<state, status, frameTime, lastReal, result, worker>>
          /\ UNCHANGED <<waitReturned, begun>> /\ accepted' = {}
      BY <1>19, <2>2 DEF Clear, ForgetEyes, session, pacer, runtime
    <3>3. /\ op' \in {op, "none"} /\ fn' \in {fn, "none"} /\ waited' \in {waited, NoWait}
          /\ pc' \in {"choose", "drain", "idle"}
      BY <3>1, ClearedCases DEF Return
    <3> QED
      BY <3>2, <3>3 DEF Types
  <2> QED
    BY <2>1, <2>2
<1>20. CASE Drain
  BY <1>20 DEF Drain, Drained, Goto
<1>21. CASE TakeDeferred
  BY <1>21 DEF TakeDeferred, Take, noteReal, note, FailedReturn, Goto, Return,
     publishFatalFailure
<1>22. CASE TakeWaited
  BY <1>22 DEF TakeWaited, Take, Admissible, noteReal, note, FailedReturn, Goto, Return,
     publishFatalFailure
<1>23. CASE TakeSettled
  BY <1>23 DEF TakeSettled, Take, Admissible, noteReal, Drained, Goto
<1>24. CASE BeginFrame
  BY <1>24 DEF BeginFrame, Admitting, note, noteReal, FailedReturn, Goto,
     Return, publishFatalFailure, clearFrame, Drained, Results
<1>25. CASE EndEmpty
  <2>1. \/ FailedReturn /\ UNCHANGED eyes
        \/ fn = "settle" /\ Drained /\ UNCHANGED <<failed, eyes, op, waited, service>>
        \/ fn \in Clearing /\ ForgetEyes /\ Cleared
    BY <1>25, EndEmptyCases
  <2>2. /\ UNCHANGED <<state, lastReal, result, worker, waitReturned>>
        /\ begun' = None /\ frameTime' = 0 /\ status' \in {"ok", "loss", "gone", "hard"}
    BY <1>25 DEF EndEmpty, clearFrame, note, pacer, Types
  <2>3. CASE FailedReturn /\ UNCHANGED eyes
    BY <2>2, <2>3 DEF FailedReturn, Goto, Return, eyes, Types
  <2>4. CASE Drained /\ UNCHANGED <<failed, eyes, op, waited, service>>
    BY <2>2, <2>4 DEF Drained, Goto, eyes, Types
  <2>5. CASE fn \in Clearing /\ ForgetEyes /\ Cleared
    <3>1. /\ op' \in {op, "none"} /\ fn' \in {fn, "none"} /\ waited' \in {waited, NoWait}
          /\ pc' \in {"choose", "drain", "idle"}
      BY <2>5, ClearedCases DEF Return
    <3> QED
      BY <2>2, <2>5, <3>1 DEF ForgetEyes, Types
  <2> QED
    BY <2>1, <2>3, <2>4, <2>5
<1>26. CASE Compose
  BY <1>26 DEF Compose, Goto, FailedReturn, Return, publishFatalFailure
<1>27. CASE EndFrame
  BY <1>27 DEF EndFrame, clearFrame, note, Noted, Return, kick, FailedReturn, Goto,
     publishFatalFailure, Results
<1>28. CASE CloseReleases
  BY <1>28 DEF CloseReleases, Return
<1>29. CASE Join
  BY <1>29 DEF Join
<1>30. CASE Destroy
  BY <1>30 DEF Destroy, clearFrame
<1>31. CASE WorkerCalls
  BY <1>31 DEF WorkerCalls
<1>32. CASE WorkerReturns
  BY <1>32 DEF WorkerReturns
<1>33. CASE UNCHANGED vars
  BY <1>33 DEF vars
<1> QED
  BY <1>1, <1>2, <1>3, <1>4, <1>5, <1>6, <1>7, <1>8, <1>9, <1>10, <1>11, <1>12, <1>13, <1>14,
     <1>15, <1>16, <1>17, <1>18, <1>19, <1>20, <1>21, <1>22, <1>23, <1>24, <1>25, <1>26, <1>27,
     <1>28, <1>29, <1>30, <1>31, <1>32, <1>33, <1>r, <1>p, <1>f
  DEF Next, OwnerEnters, OwnerSteps, WorkerSteps

\* A step takes its call where the code goes.
LEMMA ShapeStay == Shape /\ Flags /\ Types /\ Live /\ Frames /\ [Next]_vars => Shape'
<1> SUFFICES ASSUME Shape, Flags, Types, Live, Frames, [Next]_vars PROVE Shape'
  OBVIOUS
<1>b. failed \in BOOLEAN
  BY Zenon DEF Flags
<1> USE <1>b
<1> USE TimeAssumption DEF TimeAssumption, Shape, Types, Live, Frames, Closing,
        DeferredHasItsWait, session, frame, eyes, pacer, service, owner, runtime
<1>1. CASE PumpRefused
  BY <1>1 DEF PumpRefused, publishFatalFailure
<1>2. CASE PumpQuiet
  BY <1>2 DEF PumpQuiet, PumpMay, NextStates
<1>3. CASE PumpReady
  BY <1>3 DEF PumpReady, PumpMay, NextStates, note, publishFatalFailure, clearFrame, Results
<1>4. CASE PumpStopping
  BY <1>4 DEF PumpStopping, PumpMay, NextStates, Goto
<1>5. CASE PumpTerminal
  BY <1>5 DEF PumpTerminal, PumpMay, publishFatalFailure
<1>6. CASE WaitPoses
  BY <1>6 DEF WaitPoses, ServiceMay, Goto
<1>7. CASE LoadingBoundary
  BY <1>7 DEF LoadingBoundary, ServiceMay, Goto
<1>8. CASE ClearSubmitted
  BY <1>8 DEF ClearSubmitted, ServiceMay, Goto
<1>9. CASE Close
  BY <1>9 DEF Close, Goto
<1>10. ASSUME NEW eye \in Eyes, SubmitEye(eye) PROVE Shape'
  BY <1>10 DEF SubmitEye, ServiceMay, Goto, Eyes
<1>r. CASE ResetSeated
  BY <1>r DEF ResetSeated, Goto
<1>p. CASE PumpFailed
  BY <1>p DEF PumpFailed, publishFatalFailure
<1>f. CASE FailedEntry
  BY <1>f DEF FailedEntry, ServiceMay, publishFatalFailure
<1>11. CASE Stop
  BY <1>11 DEF Stop, note, Noted, clearFrame, publishFatalFailure, Return, Results
<1>12. CASE AdmittedWait
  BY <1>12 DEF AdmittedWait, Goto, Return
<1>13. CASE AdmittedLoad
  BY <1>13 DEF AdmittedLoad, Goto, Return, publishFatalFailure
<1>14. CASE ChooseSynthesize
  BY <1>14 DEF ChooseSynthesize, OpenDeferred, Admissible, canSynthesize, Turbo, FailedReturn, Goto, Return, publishFatalFailure
<1>15. CASE ChooseTake
  BY <1>15 DEF ChooseTake
<1>16. CASE ChooseKick
  BY <1>16 DEF ChooseKick, OpenDeferred, Admissible, canSynthesize, Turbo, FailedReturn, Goto, Return, publishFatalFailure, kick
<1>17. CASE ChooseWait
  BY <1>17 DEF ChooseWait
<1>18. CASE WaitFrame
  BY <1>18 DEF WaitFrame, Admissible, FailedReturn, Goto, Return, publishFatalFailure, note
<1>19. CASE Clear
  BY <1>19 DEF Clear, ForgetEyes, Cleared, Return, publishFatalFailure
<1>20. CASE Drain
  BY <1>20 DEF Drain, Drained, Goto
<1>21. CASE TakeDeferred
  BY <1>21 DEF TakeDeferred, Take, noteReal, note, FailedReturn, Goto, Return,
     publishFatalFailure
<1>22. CASE TakeWaited
  BY <1>22 DEF TakeWaited, Take, Admissible, noteReal, note, FailedReturn, Goto, Return,
     publishFatalFailure
<1>23. CASE TakeSettled
  BY <1>23 DEF TakeSettled, Take, Admissible, noteReal, Drained, Goto
<1>24. CASE BeginFrame
  BY <1>24 DEF BeginFrame, Admitting, note, noteReal, FailedReturn, Goto,
     Return, publishFatalFailure, clearFrame, Drained, Results
<1>25. CASE EndEmpty
  <2>1. \/ FailedReturn /\ UNCHANGED eyes
        \/ fn = "settle" /\ Drained /\ UNCHANGED <<failed, eyes, op, waited, service>>
        \/ fn \in Clearing /\ ForgetEyes /\ Cleared
    BY <1>25, EndEmptyCases
  <2>2. pc = "xrEndEmpty" /\ UNCHANGED state
    BY <1>25 DEF EndEmpty
  <2>3. CASE FailedReturn /\ UNCHANGED eyes
    BY <2>2, <2>3 DEF FailedReturn, Goto, Return, Types, Shape, Closing
  <2>4. CASE fn = "settle" /\ Drained /\ UNCHANGED <<failed, eyes, op, waited, service>>
    BY <2>2, <2>4 DEF Drained, Goto, Types, Shape, Closing
  <2>5. CASE fn \in Clearing /\ ForgetEyes /\ Cleared
    BY <2>2, <2>5, ClearedCases DEF Clearing, Return, Types, Shape, Closing
  <2> QED
    BY <2>1, <2>3, <2>4, <2>5
<1>26. CASE Compose
  BY <1>26 DEF Compose, Goto, FailedReturn, Return, publishFatalFailure
<1>27. CASE EndFrame
  BY <1>27 DEF EndFrame, clearFrame, note, Noted, Return, kick, FailedReturn, Goto,
     publishFatalFailure, Results
<1>28. CASE CloseReleases
  BY <1>28 DEF CloseReleases, Return
<1>29. CASE Join
  BY <1>29 DEF Join
<1>30. CASE Destroy
  BY <1>30 DEF Destroy, clearFrame
<1>31. CASE WorkerCalls
  BY <1>31 DEF WorkerCalls
<1>32. CASE WorkerReturns
  BY <1>32 DEF WorkerReturns
<1>33. CASE UNCHANGED vars
  BY <1>33 DEF vars
<1> QED
  BY <1>1, <1>2, <1>3, <1>4, <1>5, <1>6, <1>7, <1>8, <1>9, <1>10, <1>11, <1>12, <1>13, <1>14,
     <1>15, <1>16, <1>17, <1>18, <1>19, <1>20, <1>21, <1>22, <1>23, <1>24, <1>25, <1>26, <1>27,
     <1>28, <1>29, <1>30, <1>31, <1>32, <1>33, <1>r, <1>p, <1>f
  DEF Next, OwnerEnters, OwnerSteps, WorkerSteps

\* Only a return of a failed call, or close, shuts the gate.
LEMMA GateStay == Gate /\ Types /\ Shape /\ [Next]_vars => Gate'
<1> SUFFICES ASSUME Gate, Types, Shape, [Next]_vars PROVE Gate'
  OBVIOUS
<1> USE TimeAssumption DEF TimeAssumption, Gate, Types, Shape, Closing, session, frame, eyes,
        pacer, service, owner, runtime
<1>1. CASE PumpRefused
  BY <1>1 DEF PumpRefused, publishFatalFailure
<1>2. CASE PumpQuiet
  BY <1>2 DEF PumpQuiet, PumpMay, NextStates
<1>3. CASE PumpReady
  BY <1>3 DEF PumpReady, PumpMay, NextStates, note, publishFatalFailure, clearFrame, Results
<1>4. CASE PumpStopping
  BY <1>4 DEF PumpStopping, PumpMay, NextStates, Goto
<1>5. CASE PumpTerminal
  BY <1>5 DEF PumpTerminal, PumpMay, publishFatalFailure
<1>6. CASE WaitPoses
  BY <1>6 DEF WaitPoses, ServiceMay, Goto
<1>7. CASE LoadingBoundary
  BY <1>7 DEF LoadingBoundary, ServiceMay, Goto
<1>8. CASE ClearSubmitted
  BY <1>8 DEF ClearSubmitted, ServiceMay, Goto
<1>9. CASE Close
  BY <1>9 DEF Close, Goto
<1>10. ASSUME NEW eye \in Eyes, SubmitEye(eye) PROVE Gate'
  BY <1>10 DEF SubmitEye, ServiceMay, Goto, Eyes
<1>r. CASE ResetSeated
  BY <1>r DEF ResetSeated, Goto
<1>p. CASE PumpFailed
  BY <1>p DEF PumpFailed, publishFatalFailure
<1>f. CASE FailedEntry
  BY <1>f DEF FailedEntry, ServiceMay, publishFatalFailure
<1>11. CASE Stop
  BY <1>11 DEF Stop, note, Noted, clearFrame, publishFatalFailure, Return, Results
<1>12. CASE AdmittedWait
  BY <1>12 DEF AdmittedWait, Goto, Return
<1>13. CASE AdmittedLoad
  BY <1>13 DEF AdmittedLoad, Goto, Return, publishFatalFailure
<1>14. CASE ChooseSynthesize
  BY <1>14 DEF ChooseSynthesize, OpenDeferred, Admissible, canSynthesize, Turbo, FailedReturn, Goto, Return, publishFatalFailure
<1>15. CASE ChooseTake
  BY <1>15 DEF ChooseTake
<1>16. CASE ChooseKick
  BY <1>16 DEF ChooseKick, OpenDeferred, Admissible, canSynthesize, Turbo, FailedReturn, Goto, Return, publishFatalFailure, kick
<1>17. CASE ChooseWait
  BY <1>17 DEF ChooseWait
<1>18. CASE WaitFrame
  BY <1>18 DEF WaitFrame, Admissible, FailedReturn, Goto, Return, publishFatalFailure, note
<1>19. CASE Clear
  BY <1>19 DEF Clear, ForgetEyes, Cleared, Return, publishFatalFailure
<1>20. CASE Drain
  BY <1>20 DEF Drain, Drained, Goto
<1>21. CASE TakeDeferred
  BY <1>21 DEF TakeDeferred, Take, noteReal, note, FailedReturn, Goto, Return,
     publishFatalFailure
<1>22. CASE TakeWaited
  BY <1>22 DEF TakeWaited, Take, Admissible, noteReal, note, FailedReturn, Goto, Return,
     publishFatalFailure
<1>23. CASE TakeSettled
  BY <1>23 DEF TakeSettled, Take, Admissible, noteReal, Drained, Goto
<1>24. CASE BeginFrame
  BY <1>24 DEF BeginFrame, Admitting, note, noteReal, FailedReturn, Goto,
     Return, publishFatalFailure, clearFrame, Drained, Results
<1>25. CASE EndEmpty
  BY <1>25 DEF EndEmpty, clearFrame, note, Noted, FailedReturn, Goto, Return,
     publishFatalFailure, Drained, ForgetEyes, Cleared, Results
<1>26. CASE Compose
  BY <1>26 DEF Compose, Goto, FailedReturn, Return, publishFatalFailure
<1>27. CASE EndFrame
  BY <1>27 DEF EndFrame, clearFrame, note, Noted, Return, kick, FailedReturn, Goto,
     publishFatalFailure, Results
<1>28. CASE CloseReleases
  BY <1>28 DEF CloseReleases, Return
<1>29. CASE Join
  BY <1>29 DEF Join
<1>30. CASE Destroy
  BY <1>30 DEF Destroy, clearFrame
<1>31. CASE WorkerCalls
  BY <1>31 DEF WorkerCalls
<1>32. CASE WorkerReturns
  BY <1>32 DEF WorkerReturns
<1>33. CASE UNCHANGED vars
  BY <1>33 DEF vars
<1> QED
  BY <1>1, <1>2, <1>3, <1>4, <1>5, <1>6, <1>7, <1>8, <1>9, <1>10, <1>11, <1>12, <1>13, <1>14,
     <1>15, <1>16, <1>17, <1>18, <1>19, <1>20, <1>21, <1>22, <1>23, <1>24, <1>25, <1>26, <1>27,
     <1>28, <1>29, <1>30, <1>31, <1>32, <1>33, <1>r, <1>p, <1>f
  DEF Next, OwnerEnters, OwnerSteps, WorkerSteps

\* The session ends only when nothing is out.
LEMMA LiveStay == Live /\ Types /\ Shape /\ Gate /\ Frames /\ Tokens /\ [Next]_vars => Live'
<1> SUFFICES ASSUME Live, Types, Shape, Gate, Frames, Tokens, [Next]_vars PROVE Live'
  OBVIOUS
<1> USE TimeAssumption DEF TimeAssumption, Live, Types, Shape, Gate, Frames, Tokens, Closing,
        DeferredHasItsWait, session, frame, eyes, pacer, service, owner, runtime
<1>1. CASE PumpRefused
  BY <1>1 DEF PumpRefused, publishFatalFailure
<1>2. CASE PumpQuiet
  BY <1>2 DEF PumpQuiet, PumpMay, NextStates
<1>3. CASE PumpReady
  BY <1>3 DEF PumpReady, PumpMay, NextStates, note, publishFatalFailure, clearFrame, Results
<1>4. CASE PumpStopping
  BY <1>4 DEF PumpStopping, PumpMay, NextStates, Goto
<1>5. CASE PumpTerminal
  BY <1>5 DEF PumpTerminal, PumpMay, publishFatalFailure
<1>6. CASE WaitPoses
  BY <1>6 DEF WaitPoses, ServiceMay, Goto
<1>7. CASE LoadingBoundary
  BY <1>7 DEF LoadingBoundary, ServiceMay, Goto
<1>8. CASE ClearSubmitted
  BY <1>8 DEF ClearSubmitted, ServiceMay, Goto
<1>9. CASE Close
  BY <1>9 DEF Close, Goto
<1>10. ASSUME NEW eye \in Eyes, SubmitEye(eye) PROVE Live'
  BY <1>10 DEF SubmitEye, ServiceMay, Goto, Eyes
<1>r. CASE ResetSeated
  BY <1>r DEF ResetSeated, Goto
<1>p. CASE PumpFailed
  BY <1>p DEF PumpFailed, publishFatalFailure
<1>f. CASE FailedEntry
  BY <1>f DEF FailedEntry, ServiceMay, publishFatalFailure
<1>11. CASE Stop
  BY <1>11 DEF Stop, note, Noted, clearFrame, publishFatalFailure, Return, Results
<1>12. CASE AdmittedWait
  BY <1>12 DEF AdmittedWait, Goto, Return
<1>13. CASE AdmittedLoad
  BY <1>13 DEF AdmittedLoad, Goto, Return, publishFatalFailure
<1>14. CASE ChooseSynthesize
  BY <1>14 DEF ChooseSynthesize, OpenDeferred, Admissible, canSynthesize, Turbo, FailedReturn, Goto, Return, publishFatalFailure
<1>15. CASE ChooseTake
  BY <1>15 DEF ChooseTake
<1>16. CASE ChooseKick
  BY <1>16 DEF ChooseKick, OpenDeferred, Admissible, canSynthesize, Turbo, FailedReturn, Goto, Return, publishFatalFailure, kick
<1>17. CASE ChooseWait
  BY <1>17 DEF ChooseWait
<1>18. CASE WaitFrame
  BY <1>18 DEF WaitFrame, Admissible, FailedReturn, Goto, Return, publishFatalFailure, note
<1>19. CASE Clear
  BY <1>19 DEF Clear, ForgetEyes, Cleared, Return, publishFatalFailure
<1>20. CASE Drain
  BY <1>20 DEF Drain, Drained, Goto
<1>21. CASE TakeDeferred
  BY <1>21 DEF TakeDeferred, Take, noteReal, note, FailedReturn, Goto, Return,
     publishFatalFailure
<1>22. CASE TakeWaited
  BY <1>22 DEF TakeWaited, Take, Admissible, noteReal, note, FailedReturn, Goto, Return,
     publishFatalFailure
<1>23. CASE TakeSettled
  BY <1>23 DEF TakeSettled, Take, Admissible, noteReal, Drained, Goto
<1>24. CASE BeginFrame
  BY <1>24 DEF BeginFrame, Admitting, note, noteReal, FailedReturn, Goto,
     Return, publishFatalFailure, clearFrame, Drained, Results
<1>25. CASE EndEmpty
  BY <1>25 DEF EndEmpty, clearFrame, note, Noted, FailedReturn, Goto, Return,
     publishFatalFailure, Drained, ForgetEyes, Cleared, Results
<1>26. CASE Compose
  BY <1>26 DEF Compose, Goto, FailedReturn, Return, publishFatalFailure
<1>27. CASE EndFrame
  BY <1>27 DEF EndFrame, clearFrame, note, Noted, Return, kick, FailedReturn, Goto,
     publishFatalFailure, Results
<1>28. CASE CloseReleases
  BY <1>28 DEF CloseReleases, Return
<1>29. CASE Join
  BY <1>29 DEF Join
<1>30. CASE Destroy
  BY <1>30 DEF Destroy, clearFrame
<1>31. CASE WorkerCalls
  BY <1>31 DEF WorkerCalls
<1>32. CASE WorkerReturns
  BY <1>32 DEF WorkerReturns
<1>33. CASE UNCHANGED vars
  BY <1>33 DEF vars
<1> QED
  BY <1>1, <1>2, <1>3, <1>4, <1>5, <1>6, <1>7, <1>8, <1>9, <1>10, <1>11, <1>12, <1>13, <1>14,
     <1>15, <1>16, <1>17, <1>18, <1>19, <1>20, <1>21, <1>22, <1>23, <1>24, <1>25, <1>26, <1>27,
     <1>28, <1>29, <1>30, <1>31, <1>32, <1>33, <1>r, <1>p, <1>f
  DEF Next, OwnerEnters, OwnerSteps, WorkerSteps

\* What was said of the frame stays said.
LEMMA FramesStay ==
  Frames /\ Flags /\ Types /\ Shape /\ Gate /\ Live /\ Tokens /\ [Next]_vars => Frames'
<1> SUFFICES ASSUME Frames, Flags, Types, Shape, Gate, Live, Tokens, [Next]_vars PROVE Frames'
  OBVIOUS
<1>b. deferred \in BOOLEAN /\ sessionDeferred \in BOOLEAN /\ frameOpen \in BOOLEAN
  BY Zenon DEF Flags
<1> USE <1>b
<1> USE TimeAssumption DEF TimeAssumption, Frames, Types, Shape, Gate, Live, Tokens, Closing,
        DeferredHasItsWait, None, Times, Waits, session, frame, eyes, pacer, service,
        owner, runtime
<1>1. CASE PumpRefused
  BY <1>1 DEF PumpRefused, publishFatalFailure
<1>2. CASE PumpQuiet
  BY <1>2 DEF PumpQuiet, PumpMay, NextStates
<1>3. CASE PumpReady
  BY <1>3 DEF PumpReady, PumpMay, NextStates, note, publishFatalFailure, clearFrame, Results
<1>4. CASE PumpStopping
  BY <1>4 DEF PumpStopping, PumpMay, NextStates, Goto
<1>5. CASE PumpTerminal
  BY <1>5 DEF PumpTerminal, PumpMay, publishFatalFailure
<1>6. CASE WaitPoses
  BY <1>6 DEF WaitPoses, ServiceMay, Goto
<1>7. CASE LoadingBoundary
  BY <1>7 DEF LoadingBoundary, ServiceMay, Goto
<1>8. CASE ClearSubmitted
  BY <1>8 DEF ClearSubmitted, ServiceMay, Goto
<1>9. CASE Close
  BY <1>9 DEF Close, Goto
<1>10. ASSUME NEW eye \in Eyes, SubmitEye(eye) PROVE Frames'
  BY <1>10 DEF SubmitEye, ServiceMay, Goto, Eyes
<1>r. CASE ResetSeated
  BY <1>r DEF ResetSeated, Goto
<1>p. CASE PumpFailed
  BY <1>p DEF PumpFailed, publishFatalFailure
<1>f. CASE FailedEntry
  BY <1>f DEF FailedEntry, ServiceMay, publishFatalFailure
<1>11. CASE Stop
  BY <1>11 DEF Stop, note, Noted, clearFrame, publishFatalFailure, Return, Results
<1>12. CASE AdmittedWait
  BY <1>12 DEF AdmittedWait, Goto, Return
<1>13. CASE AdmittedLoad
  BY <1>13 DEF AdmittedLoad, Goto, Return, publishFatalFailure
<1>14. CASE ChooseSynthesize
  BY <1>14 DEF ChooseSynthesize, OpenDeferred, Admissible, canSynthesize, Turbo, FailedReturn, Goto, Return, publishFatalFailure
<1>15. CASE ChooseTake
  BY <1>15 DEF ChooseTake
<1>16. CASE ChooseKick
  BY <1>16 DEF ChooseKick, OpenDeferred, Admissible, canSynthesize, Turbo, FailedReturn, Goto, Return, publishFatalFailure, kick
<1>17. CASE ChooseWait
  BY <1>17 DEF ChooseWait
<1>18. CASE WaitFrame
  BY <1>18 DEF WaitFrame, Admissible, FailedReturn, Goto, Return, publishFatalFailure, note
<1>19. CASE Clear
  BY <1>19 DEF Clear, ForgetEyes, Cleared, Return, publishFatalFailure
<1>20. CASE Drain
  BY <1>20 DEF Drain, Drained, Goto
<1>21. CASE TakeDeferred
  BY <1>21 DEF TakeDeferred, Take, noteReal, note, FailedReturn, Goto, Return,
     publishFatalFailure
<1>22. CASE TakeWaited
  BY <1>22 DEF TakeWaited, Take, Admissible, noteReal, note, FailedReturn, Goto, Return,
     publishFatalFailure
<1>23. CASE TakeSettled
  BY <1>23 DEF TakeSettled, Take, Admissible, noteReal, Drained, Goto
<1>24. CASE BeginFrame
  BY <1>24 DEF BeginFrame, Admitting, note, noteReal, FailedReturn, Goto,
     Return, publishFatalFailure, clearFrame, Drained, Results
<1>25. CASE EndEmpty
  BY <1>25 DEF EndEmpty, clearFrame, note, Noted, FailedReturn, Goto, Return,
     publishFatalFailure, Drained, ForgetEyes, Cleared, Results
<1>26. CASE Compose
  BY <1>26 DEF Compose, Goto, FailedReturn, Return, publishFatalFailure
<1>27. CASE EndFrame
  BY <1>27 DEF EndFrame, clearFrame, note, Noted, Return, kick, FailedReturn, Goto,
     publishFatalFailure, Results
<1>28. CASE CloseReleases
  BY <1>28 DEF CloseReleases, Return
<1>29. CASE Join
  BY <1>29 DEF Join
<1>30. CASE Destroy
  BY <1>30 DEF Destroy, clearFrame
<1>31. CASE WorkerCalls
  BY <1>31 DEF WorkerCalls
<1>32. CASE WorkerReturns
  BY <1>32 DEF WorkerReturns
<1>33. CASE UNCHANGED vars
  BY <1>33 DEF vars
<1> QED
  BY <1>1, <1>2, <1>3, <1>4, <1>5, <1>6, <1>7, <1>8, <1>9, <1>10, <1>11, <1>12, <1>13, <1>14,
     <1>15, <1>16, <1>17, <1>18, <1>19, <1>20, <1>21, <1>22, <1>23, <1>24, <1>25, <1>26, <1>27,
     <1>28, <1>29, <1>30, <1>31, <1>32, <1>33, <1>r, <1>p, <1>f
  DEF Next, OwnerEnters, OwnerSteps, WorkerSteps

\* A wait is handed on, never doubled.
LEMMA TokensStay == Tokens /\ Types /\ Shape /\ Gate /\ Live /\ Frames /\ [Next]_vars => Tokens'
<1> SUFFICES ASSUME Tokens, Types, Shape, Gate, Live, Frames, [Next]_vars PROVE Tokens'
  OBVIOUS
<1> USE TimeAssumption DEF TimeAssumption, Tokens, Types, Shape, Gate, Live, Frames, Closing,
        DeferredHasItsWait, None, Times, Waits, NoWait, session, frame, eyes, pacer,
        service, owner, runtime
<1>1. CASE PumpRefused
  BY <1>1 DEF PumpRefused, publishFatalFailure
<1>2. CASE PumpQuiet
  BY <1>2 DEF PumpQuiet, PumpMay, NextStates
<1>3. CASE PumpReady
  BY <1>3 DEF PumpReady, PumpMay, NextStates, note, publishFatalFailure, clearFrame, Results
<1>4. CASE PumpStopping
  BY <1>4 DEF PumpStopping, PumpMay, NextStates, Goto
<1>5. CASE PumpTerminal
  BY <1>5 DEF PumpTerminal, PumpMay, publishFatalFailure
<1>6. CASE WaitPoses
  BY <1>6 DEF WaitPoses, ServiceMay, Goto
<1>7. CASE LoadingBoundary
  BY <1>7 DEF LoadingBoundary, ServiceMay, Goto
<1>8. CASE ClearSubmitted
  BY <1>8 DEF ClearSubmitted, ServiceMay, Goto
<1>9. CASE Close
  BY <1>9 DEF Close, Goto
<1>10. ASSUME NEW eye \in Eyes, SubmitEye(eye) PROVE Tokens'
  BY <1>10 DEF SubmitEye, ServiceMay, Goto, Eyes
<1>r. CASE ResetSeated
  BY <1>r DEF ResetSeated, Goto
<1>p. CASE PumpFailed
  BY <1>p DEF PumpFailed, publishFatalFailure
<1>f. CASE FailedEntry
  BY <1>f DEF FailedEntry, ServiceMay, publishFatalFailure
<1>11. CASE Stop
  BY <1>11 DEF Stop, note, Noted, clearFrame, publishFatalFailure, Return, Results
<1>12. CASE AdmittedWait
  BY <1>12 DEF AdmittedWait, Goto, Return
<1>13. CASE AdmittedLoad
  BY <1>13 DEF AdmittedLoad, Goto, Return, publishFatalFailure
<1>14. CASE ChooseSynthesize
  BY <1>14 DEF ChooseSynthesize, OpenDeferred, Admissible, canSynthesize, Turbo, FailedReturn, Goto, Return, publishFatalFailure
<1>15. CASE ChooseTake
  BY <1>15 DEF ChooseTake
<1>16. CASE ChooseKick
  BY <1>16 DEF ChooseKick, OpenDeferred, Admissible, canSynthesize, Turbo, FailedReturn, Goto, Return, publishFatalFailure, kick
<1>17. CASE ChooseWait
  BY <1>17 DEF ChooseWait
<1>18. CASE WaitFrame
  BY <1>18 DEF WaitFrame, Admissible, FailedReturn, Goto, Return, publishFatalFailure, note
<1>19. CASE Clear
  BY <1>19 DEF Clear, ForgetEyes, Cleared, Return, publishFatalFailure
<1>20. CASE Drain
  BY <1>20 DEF Drain, Drained, Goto
<1>21. CASE TakeDeferred
  BY <1>21 DEF TakeDeferred, Take, noteReal, note, FailedReturn, Goto, Return,
     publishFatalFailure
<1>22. CASE TakeWaited
  BY <1>22 DEF TakeWaited, Take, Admissible, noteReal, note, FailedReturn, Goto, Return,
     publishFatalFailure
<1>23. CASE TakeSettled
  BY <1>23 DEF TakeSettled, Take, Admissible, noteReal, Drained, Goto
<1>24. CASE BeginFrame
  BY <1>24 DEF BeginFrame, Admitting, note, noteReal, FailedReturn, Goto,
     Return, publishFatalFailure, clearFrame, Drained, Results
<1>25. CASE EndEmpty
  BY <1>25 DEF EndEmpty, clearFrame, note, Noted, FailedReturn, Goto, Return,
     publishFatalFailure, Drained, ForgetEyes, Cleared, Results
<1>26. CASE Compose
  BY <1>26 DEF Compose, Goto, FailedReturn, Return, publishFatalFailure
<1>27. CASE EndFrame
  BY <1>27 DEF EndFrame, clearFrame, note, Noted, Return, kick, FailedReturn, Goto,
     publishFatalFailure, Results
<1>28. CASE CloseReleases
  BY <1>28 DEF CloseReleases, Return
<1>29. CASE Join
  BY <1>29 DEF Join
<1>30. CASE Destroy
  BY <1>30 DEF Destroy, clearFrame
<1>31. CASE WorkerCalls
  BY <1>31 DEF WorkerCalls
<1>32. CASE WorkerReturns
  BY <1>32 DEF WorkerReturns
<1>33. CASE UNCHANGED vars
  BY <1>33 DEF vars
<1> QED
  BY <1>1, <1>2, <1>3, <1>4, <1>5, <1>6, <1>7, <1>8, <1>9, <1>10, <1>11, <1>12, <1>13, <1>14,
     <1>15, <1>16, <1>17, <1>18, <1>19, <1>20, <1>21, <1>22, <1>23, <1>24, <1>25, <1>26, <1>27,
     <1>28, <1>29, <1>30, <1>31, <1>32, <1>33, <1>r, <1>p, <1>f
  DEF Next, OwnerEnters, OwnerSteps, WorkerSteps

\* What fails shuts the gate.
LEMMA HealthStay ==
  Health /\ Types /\ Shape /\ Gate /\ Live /\ Frames /\ Tokens /\ [Next]_vars => Health'
<1> SUFFICES ASSUME Health, Types, Shape, Gate, Live, Frames, Tokens, [Next]_vars PROVE Health'
  OBVIOUS
<1> USE TimeAssumption DEF TimeAssumption, Health, Types, Shape, Gate, Live, Frames, Tokens,
        Closing, DeferredHasItsWait, session, frame, eyes, pacer, service, owner, runtime
<1>1. CASE PumpRefused
  BY <1>1 DEF PumpRefused, publishFatalFailure
<1>2. CASE PumpQuiet
  BY <1>2 DEF PumpQuiet, PumpMay, NextStates
<1>3. CASE PumpReady
  BY <1>3 DEF PumpReady, PumpMay, NextStates, note, publishFatalFailure, clearFrame, Results
<1>4. CASE PumpStopping
  BY <1>4 DEF PumpStopping, PumpMay, NextStates, Goto
<1>5. CASE PumpTerminal
  BY <1>5 DEF PumpTerminal, PumpMay, publishFatalFailure
<1>6. CASE WaitPoses
  BY <1>6 DEF WaitPoses, ServiceMay, Goto
<1>7. CASE LoadingBoundary
  BY <1>7 DEF LoadingBoundary, ServiceMay, Goto
<1>8. CASE ClearSubmitted
  BY <1>8 DEF ClearSubmitted, ServiceMay, Goto
<1>9. CASE Close
  BY <1>9 DEF Close, Goto
<1>10. ASSUME NEW eye \in Eyes, SubmitEye(eye) PROVE Health'
  BY <1>10 DEF SubmitEye, ServiceMay, Goto, Eyes
<1>r. CASE ResetSeated
  BY <1>r DEF ResetSeated, Goto
<1>p. CASE PumpFailed
  BY <1>p DEF PumpFailed, publishFatalFailure
<1>f. CASE FailedEntry
  BY <1>f DEF FailedEntry, ServiceMay, publishFatalFailure
<1>11. CASE Stop
  BY <1>11 DEF Stop, note, Noted, clearFrame, publishFatalFailure, Return, Results
<1>12. CASE AdmittedWait
  BY <1>12 DEF AdmittedWait, Goto, Return
<1>13. CASE AdmittedLoad
  BY <1>13 DEF AdmittedLoad, Goto, Return, publishFatalFailure
<1>14. CASE ChooseSynthesize
  BY <1>14 DEF ChooseSynthesize, OpenDeferred, Admissible, canSynthesize, Turbo, FailedReturn, Goto, Return, publishFatalFailure
<1>15. CASE ChooseTake
  BY <1>15 DEF ChooseTake
<1>16. CASE ChooseKick
  BY <1>16 DEF ChooseKick, OpenDeferred, Admissible, canSynthesize, Turbo, FailedReturn, Goto, Return, publishFatalFailure, kick
<1>17. CASE ChooseWait
  BY <1>17 DEF ChooseWait
<1>18. CASE WaitFrame
  BY <1>18 DEF WaitFrame, Admissible, FailedReturn, Goto, Return, publishFatalFailure, note
<1>19. CASE Clear
  BY <1>19 DEF Clear, ForgetEyes, Cleared, Return, publishFatalFailure
<1>20. CASE Drain
  BY <1>20 DEF Drain, Drained, Goto
<1>21. CASE TakeDeferred
  BY <1>21 DEF TakeDeferred, Take, noteReal, note, FailedReturn, Goto, Return,
     publishFatalFailure
<1>22. CASE TakeWaited
  BY <1>22 DEF TakeWaited, Take, Admissible, noteReal, note, FailedReturn, Goto, Return,
     publishFatalFailure
<1>23. CASE TakeSettled
  BY <1>23 DEF TakeSettled, Take, Admissible, noteReal, Drained, Goto
<1>24. CASE BeginFrame
  BY <1>24 DEF BeginFrame, Admitting, note, noteReal, FailedReturn, Goto,
     Return, publishFatalFailure, clearFrame, Drained, Results
<1>25. CASE EndEmpty
  BY <1>25 DEF EndEmpty, clearFrame, note, Noted, FailedReturn, Goto, Return,
     publishFatalFailure, Drained, ForgetEyes, Cleared, Results
<1>26. CASE Compose
  BY <1>26 DEF Compose, Goto, FailedReturn, Return, publishFatalFailure
<1>27. CASE EndFrame
  BY <1>27 DEF EndFrame, clearFrame, note, Noted, Return, kick, FailedReturn, Goto,
     publishFatalFailure, Results
<1>28. CASE CloseReleases
  BY <1>28 DEF CloseReleases, Return
<1>29. CASE Join
  BY <1>29 DEF Join
<1>30. CASE Destroy
  BY <1>30 DEF Destroy, clearFrame
<1>31. CASE WorkerCalls
  BY <1>31 DEF WorkerCalls
<1>32. CASE WorkerReturns
  BY <1>32 DEF WorkerReturns
<1>33. CASE UNCHANGED vars
  BY <1>33 DEF vars
<1> QED
  BY <1>1, <1>2, <1>3, <1>4, <1>5, <1>6, <1>7, <1>8, <1>9, <1>10, <1>11, <1>12, <1>13, <1>14,
     <1>15, <1>16, <1>17, <1>18, <1>19, <1>20, <1>21, <1>22, <1>23, <1>24, <1>25, <1>26, <1>27,
     <1>28, <1>29, <1>30, <1>31, <1>32, <1>33, <1>r, <1>p, <1>f
  DEF Next, OwnerEnters, OwnerSteps, WorkerSteps

\* The parts hold together.
LEMMA IInvKeeps == IInv /\ [Next]_vars => IInv'
  BY FlagsStay, TypesStay, ShapeStay, GateStay, LiveStay, FramesStay, TokensStay, HealthStay
  DEF IInv

\* No session, no frame, no wait.
LEMMA IInvHolds == Init => IInv
<1> SUFFICES ASSUME Init PROVE IInv
  OBVIOUS
<1>1. Flags
  BY Zenon DEF Init, Flags
<1>2. NoWait \in Waits
  BY TimeAssumption DEF NoWait, Waits, Results, Times, TimeAssumption
<1>3. Types
  BY <1>2, TimeAssumption DEF Init, Types, Times, None, TimeAssumption
<1>4. Shape /\ Gate /\ Live /\ Health
  BY DEF Init, Shape, Gate, Live, Health, Closing
<1>5. Frames /\ Tokens
  BY DEF Init, Frames, Tokens, DeferredHasItsWait
<1> QED
  BY <1>1, <1>3, <1>4, <1>5 DEF IInv

\* The invariant says what the runs check.
LEMMA IInvImplies == IInv => Consistent /\ SessionContract
<1> SUFFICES ASSUME IInv PROVE Consistent /\ SessionContract
  OBVIOUS
<1>1. /\ running \in BOOLEAN /\ frameOpen \in BOOLEAN /\ sessionDeferred \in BOOLEAN
      /\ deferred \in BOOLEAN /\ failed \in BOOLEAN /\ turbo \in BOOLEAN
      /\ geometryReady \in BOOLEAN /\ pending \in BOOLEAN /\ done \in BOOLEAN
      /\ serviceFailed \in BOOLEAN /\ serviceStopped \in BOOLEAN /\ gateStopped \in BOOLEAN
  BY Zenon DEF IInv, Flags
<1>2. TypeOK
  BY <1>1 DEF IInv, Types, TypeOK
<1>3. FrameIsBegun
  BY TimeAssumption DEF IInv, Types, Frames, FrameIsBegun, None, TimeAssumption
<1>4. CallOrder
  BY DEF IInv, Shape, Gate, Live, Frames, Tokens, CallOrder
<1>5. EndedIsQuiet
  BY DEF IInv, Live, Frames, Tokens, EndedIsQuiet
<1>6. FailureIsContained
  BY DEF IInv, Health, Frames, Closing, FailureIsContained
<1> QED
  BY <1>2, <1>3, <1>4, <1>5, <1>6 DEF IInv, Frames, Consistent, SessionContract

\* The session's record of its frame is the runtime's, and a frame whose begin
\* was put off always has a wait to be begun from (frame_boundary.h:216, :278),
\* with the pacer's thread wherever it may be.
THEOREM Consistency == Spec => []Consistent
<1>1. Init => IInv
  BY IInvHolds
<1>2. IInv /\ [Next]_vars => IInv'
  BY IInvKeeps
<1>3. IInv => Consistent
  BY IInvImplies
<1> QED
  BY <1>1, <1>2, <1>3, PTL DEF Spec

\* The runtime gets its calls in the order it requires, a session that ended has
\* left nothing behind, and after a failure no frame call is made again and no
\* frame is left open behind an open gate, resetSeated's silent return included
\* (session_state.h:181-186, frame_pacer.h:10-15, frame_boundary.h:345-347,
\* native_runtime_host.h:1979-1991).
THEOREM KeepsContract == Spec => []SessionContract
<1>1. Init => IInv
  BY IInvHolds
<1>2. IInv /\ [Next]_vars => IInv'
  BY IInvKeeps
<1>3. IInv => SessionContract
  BY IInvImplies
<1> QED
  BY <1>1, <1>2, <1>3, PTL DEF Spec
===============================================================================
