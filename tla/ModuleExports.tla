---------------------------- MODULE ModuleExports ----------------------------
(***************************************************************************)
(* The exported functions of src/src/openxr/native_module.cpp, called by   *)
(* any number of threads: they publish one Module, call its                *)
(* RuntimeLifecycle, and register and unregister the CPU trace provider    *)
(* (native_cpu_trace.h) outside the lifecycle's mutex.                     *)
(*                                                                         *)
(* RuntimeLifecycle is extended: a step of its caller is a step here, and  *)
(* its properties are checked with the exports around it.  A configuration *)
(* (from the environment, beside the module or in the packaged layout) is  *)
(* one model value.  VR_GetGenericInterface and the other readers change   *)
(* nothing.                                                                *)
(***************************************************************************)
EXTENDS RuntimeLifecycle

CONSTANTS Configs,     \* RuntimeOptions
          NoModule

VARIABLES module,      \* the published Module's options
          call,        \* where each caller is in an export
          found,       \* the configuration an init has read
          trace,       \* NativeCpuTrace's handle_ is set
          published    \* history: configurations that became the module

moduleVars == <<vars, module, call, found, trace, published>>

ModuleInit ==
  /\ Init
  /\ module = NoModule /\ published = {}
  /\ call = [c \in Callers |-> "out"]
  /\ found = [c \in Callers |-> NoModule]
  /\ trace = FALSE

Goes(c, where) == call' = [call EXCEPT ![c] = where]

\* configureModule: E_PENDING for everyone but the first.
ConfigureModule(k) ==
  IF module = NoModule
  THEN module' = k /\ published' = published \cup {k}
  ELSE UNCHANGED <<module, published>>

EdvrConfigureNativeRuntime(c, k) ==
  /\ call[c] = "out"
  /\ ConfigureModule(k)
  /\ UNCHANGED <<vars, call, found, trace>>

\* VR_InitInternal finds the module, or a configuration to make one of.
VR_InitInternal(c) ==
  /\ call[c] = "out"
  /\ IF module # NoModule
     THEN Goes(c, "init") /\ UNCHANGED found
     ELSE \E k \in Configs : found' = [found EXCEPT ![c] = k] /\ Goes(c, "configure")
  /\ UNCHANGED <<vars, module, trace, published>>

\* Another init may have published the winner meanwhile.
Configure(c) ==
  /\ call[c] = "configure"
  /\ ConfigureModule(found[c])
  /\ found' = [found EXCEPT ![c] = NoModule]
  /\ Goes(c, "init")
  /\ UNCHANGED <<vars, trace>>

\* lifecycle.init: refused, shared with a running start, or begun.
InitModule(c) ==
  /\ call[c] = "init"
  /\ \/ \E scene \in BOOLEAN : InitRefused(c, scene) /\ Goes(c, "out")
     \/ InitShared(c) /\ Goes(c, "register")
     \/ InitBegins(c) /\ Goes(c, "busy")
  /\ UNCHANGED <<module, found, trace, published>>

\* Inside lifecycle.init or lifecycle.shutdown.
Lifecycle(c) ==
  /\ call[c] = "busy"
  /\ \/ Publish(c) /\ Goes(c, "register")
     \/ InitFails(c) /\ Goes(c, "out")
     \/ ShutdownReturns(c) /\ Goes(c, "unregister")
     \/ /\ \/ StartReturns(c)
           \/ \E b \in BOOLEAN : GiveUp(c, b) \/ StopReturns(c, b)
        /\ UNCHANGED call
  /\ UNCHANGED <<module, found, trace, published>>

\* trace.start(): EventRegister may fail.
Register(c) ==
  /\ call[c] = "register"
  /\ trace' \in {trace, TRUE}
  /\ Goes(c, "check")
  /\ UNCHANGED <<vars, module, found, published>>

KeepRegistration(c) == TRUE

MayKeep(c) == state = "Running"

\* if(!owner.lifecycle.running()) trace.stop()
CheckRunning(c) ==
  /\ call[c] = "check"
  /\ Goes(c, IF MayKeep(c) THEN "out" ELSE "unregister")
  /\ UNCHANGED <<vars, module, found, trace, published>>

\* VR_ShutdownInternal; without a module, or a start to end, only the trace.
VR_ShutdownInternal(c) ==
  /\ call[c] = "out"
  /\ \/ /\ module = NoModule \/ state \in {"Idle", "Failed", "Stopping"}
        /\ Goes(c, "unregister") /\ UNCHANGED vars
     \/ module # NoModule /\ ShutdownCancels(c) /\ Goes(c, "unregister")
     \/ module # NoModule /\ ShutdownStops(c) /\ Goes(c, "busy")
  /\ UNCHANGED <<module, found, trace, published>>

\* trace.stop()
Unregister(c) ==
  /\ call[c] = "unregister"
  /\ trace' = FALSE
  /\ Goes(c, "out")
  /\ UNCHANGED <<vars, module, found, published>>

ModuleNext == \E c \in Callers :
  \/ \E k \in Configs : EdvrConfigureNativeRuntime(c, k)
  \/ VR_InitInternal(c) \/ Configure(c) \/ InitModule(c) \/ Lifecycle(c)
  \/ Register(c) \/ CheckRunning(c)
  \/ VR_ShutdownInternal(c) \/ Unregister(c)

ModuleSpec == ModuleInit /\ [][ModuleNext]_moduleVars

\* The backend's calls return and a caller inside init or shutdown keeps running.
ModuleFairSpec ==
  ModuleSpec /\ \A c \in Callers : WF_moduleVars(InitModule(c)) /\ WF_moduleVars(Lifecycle(c))

(***************************************************************************)
(* Properties                                                              *)
(***************************************************************************)

\* Types of the exports; a caller is inside the lifecycle exactly while an export waits for it;
\* and only one configuration ever became the module, however many inits and
\* explicit configurations raced: native_module.cpp:298-306 and :396, "never
\* reconfigure a running module".
ModuleIsOne ==
  /\ call \in [Callers -> {"out", "configure", "init", "busy", "register", "check",
                           "unregister"}]
  /\ module \in Configs \cup {NoModule} /\ trace \in BOOLEAN
  /\ \A c \in Callers : (pc[c] # "out") = (call[c] = "busy")
  /\ (\A k, l \in published : k = l) /\ (module = NoModule => published = {})

\* :227-229, "Do not leave an idle registration after it wins": when the provider
\* is registered and no runtime runs, some export that is still on its way will
\* unregister it.
NoIdleRegistration ==
  trace /\ state # "Running" =>
    \E c \in Callers : \/ call[c] \in {"check", "unregister"}
                       \/ call[c] = "busy" /\ pc[c] \in {"closing", "closed", "closeFailed"}

\* What the exports keep true whichever of them race: one module, one user of the
\* lifecycle per call, and no registration without a runtime.
ExportContract == ModuleIsOne /\ NoIdleRegistration
=============================================================================
