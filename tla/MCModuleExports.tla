---------------------------- MODULE MCModuleExports ----------------------------
(***************************************************************************)
(* The exports of the module, and the lifecycle behind them, under names   *)
(* of their own, so that they can be checked and proved about beside the   *)
(* backend they start and stop.                                            *)
(***************************************************************************)
EXTENDS Naturals

CONSTANTS Callers, MaxToken, InitialToken, Configs, NoModule

ASSUME ExportsAssumption == /\ MaxToken \in Nat \ {0, 1} /\ InitialToken \in 0 .. MaxToken
                            /\ NoModule \notin Configs

VARIABLES state, token, cancelled, interfaces, doing, attempt, startResult, returned, error,
          live, stopFailed, handed, doomed, module, export, found, trace, published

Exports == INSTANCE ModuleExports WITH pc <- doing, call <- export

LifecycleSpec == Exports!Spec
ExportsSpec == Exports!ModuleSpec
ExportsFairSpec == Exports!ModuleFairSpec

\* Types; whatever inits and shutdowns race, one thread at a time is inside the backend,
\* and every started backend is stopped once (runtime_lifecycle.h:58-76).
LifecycleConsistent == Exports!Consistent

\* What init promises whoever holds a token or a pointer, whatever shutdowns race it
\* (runtime_lifecycle.h:36-90).
InitContract == Exports!InitContract

\* One configuration becomes the module, a caller is inside the lifecycle exactly while
\* its export waits for it, and no trace registration outlives the runtime without an
\* export on its way to remove it (native_module.cpp:227-229, 298-306).
ExportContract == Exports!ExportContract

\* init and shutdown return, and a shutdown that only cancelled is followed by the
\* initializer's cleanup (runtime_lifecycle.h:60-76).
StoppingEnds == Exports!StoppingEnds
================================================================================
