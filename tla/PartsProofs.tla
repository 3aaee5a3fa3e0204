----------------------------- MODULE PartsProofs ------------------------------
(***************************************************************************)
(* Proofs about the four parts of MCParts: the device hooks and their      *)
(* crash sentinel, the slots of the texture transfers, the skybox, the eye *)
(* captures, and the log.  Each has an inductive invariant of its own; a   *)
(* step of the parts is a step of one of them and leaves the others alone. *)
(***************************************************************************)
EXTENDS MCParts, SequenceTheorems, Integers, TLAPS

-----------------------------------------------------------------------------
\* A process, with the types of its fields.
RunType ==
  [up : BOOLEAN, fixes : BOOLEAN, ignore : BOOLEAN,
   pc : {"idle", "hooking", "arming", "chaining"}, withChain : BOOLEAN,
   budget : Int, made : BOOLEAN, tripped : BOOLEAN, armed : BOOLEAN,
   recoveryDisabled : BOOLEAN, device : BOOLEAN, swapChain : BOOLEAN,
   factory : BOOLEAN, confirmed : BOOLEAN, presenting : Nat,
   touched : BOOLEAN, guarded : BOOLEAN]

\* The Boolean variables beside the process.
HooksFlags == {file, died, stuck} \subseteq BOOLEAN

\* The types of the hooks' variables.
HooksTypeOK ==
  /\ run \in RunType
  /\ HooksFlags
  /\ deaths \in Nat /\ trips \in Nat

\* A process that was allowed to hook has looked for the sentinel and was not
\* refused; one that was refused has no hook.
Decided ==
  /\ run.touched \/ run.armed \/ run.guarded \/ run.recoveryDisabled => run.made /\ run.fixes
  /\ run.fixes /\ (run.pc = "chaining" \/ run.device \/ run.swapChain \/ run.factory) => run.made
  /\ run.pc = "arming" => run.touched
  /\ run.fixes /\ run.made /\ ~run.recoveryDisabled => ~Hooks!Refused(run)
  /\ Hooks!RecoveryIsBare

\* From the moment the table may be patched until the hooks have proved
\* themselves, the file is there and this process would take it down.
Guarded ==
  /\ run.guarded => run.touched
  /\ run.guarded /\ ~run.confirmed => file /\ run.armed
  /\ run.confirmed => run.device

\* After a death of unproved hooks the file is there until a process has seen it.
DeathIsSeen ==
  /\ died /\ ~run.up => file
  /\ died /\ run.up /\ ~run.made => file
  /\ died /\ run.up /\ run.fixes /\ ~run.ignore => ~run.touched
  /\ died /\ run.up /\ run.made /\ run.fixes /\ ~run.ignore => run.recoveryDisabled

\* A file that is not this process' own stands for a death no session was paid for.
FileIsDebt ==
  ~stuck => /\ trips <= deaths
            /\ file => trips < deaths \/ (run.guarded /\ ~run.confirmed)

\* Between two processes no table is patched and nothing is guarded.
Blank == ~run.up => ~run.touched /\ ~run.guarded

\* The inductive invariant of the hooks.
HooksInv == HooksTypeOK /\ Decided /\ Guarded /\ DeathIsSeen /\ FileIsDebt /\ Blank

\* The flags beside the process stay Boolean: SMT does not see it, Zenon does.
LEMMA FlagsStay == HooksFlags /\ [Hooks!Next]_hookVars => HooksFlags'
<1> SUFFICES ASSUME HooksFlags, [Hooks!Next]_hookVars PROVE HooksFlags'
  OBVIOUS
<1> USE PartsAssumption
<1> USE DEF HooksFlags
<1>1. ASSUME Hooks!Launch PROVE HooksFlags'
  BY <1>1, Zenon DEF Hooks!Launch, Hooks!NewRun
<1>2. ASSUME Hooks!CreateDevice PROVE HooksFlags'
  BY <1>2, Zenon DEF Hooks!CreateDevice
<1>3. ASSUME Hooks!DeclineDevice PROVE HooksFlags'
  BY <1>3, Zenon DEF Hooks!DeclineDevice, Hooks!Chained
<1>4. ASSUME Hooks!FixesOff PROVE HooksFlags'
  BY <1>4, Zenon
  DEF Hooks!FixesOff, Hooks!MayHook, Hooks!Chained, Hooks!Made, Hooks!ClearTrip, Hooks!DeleteFile
<1>5. ASSUME Hooks!Recover PROVE HooksFlags'
  BY <1>5, Zenon
  DEF Hooks!Recover, Hooks!MayHook, Hooks!Chained, Hooks!Made, Hooks!Recovered, Hooks!ClearTrip,
      Hooks!DeleteFile
<1>6. ASSUME Hooks!TableUnusable PROVE HooksFlags'
  BY <1>6, Zenon DEF Hooks!TableUnusable, Hooks!MayHook, Hooks!Chained, Hooks!Made
<1>7. ASSUME Hooks!Arm PROVE HooksFlags'
  BY <1>7, Zenon DEF Hooks!Arm, Hooks!MayHook, Hooks!ArmSentinel, Hooks!Made
<1>8. ASSUME Hooks!Commit PROVE HooksFlags'
  BY <1>8, Zenon DEF Hooks!Commit, Hooks!Chained
<1>9. ASSUME Hooks!CommitFails PROVE HooksFlags'
  BY <1>9, Zenon DEF Hooks!CommitFails, Hooks!Chained, Hooks!Confirm, Hooks!DeleteFile
<1>10. ASSUME Hooks!Chain PROVE HooksFlags'
  BY <1>10, Zenon DEF Hooks!Chain
<1>11. ASSUME Hooks!AbsorbFault PROVE HooksFlags'
  BY <1>11, Zenon DEF Hooks!AbsorbFault
<1>12. ASSUME Hooks!CreateSwapChain PROVE HooksFlags'
  BY <1>12, Zenon DEF Hooks!CreateSwapChain
<1>13. ASSUME Hooks!Present PROVE HooksFlags'
  BY <1>13, Zenon DEF Hooks!Present, Hooks!Confirm, Hooks!DeleteFile
<1>14. ASSUME Hooks!PresentWithoutDevice PROVE HooksFlags'
  BY <1>14, Zenon DEF Hooks!PresentWithoutDevice, Hooks!Dies
<1>15. ASSUME Hooks!Crash PROVE HooksFlags'
  BY <1>15, Zenon DEF Hooks!Crash, Hooks!Dies
<1>16. ASSUME Hooks!Exit PROVE HooksFlags'
  BY <1>16, Zenon DEF Hooks!Exit, Hooks!DeleteFile
<1>17. CASE UNCHANGED hookVars
  BY <1>17, Zenon DEF hookVars
<1> QED
  BY <1>1, <1>2, <1>3, <1>4, <1>5, <1>6, <1>7, <1>8, <1>9, <1>10, <1>11, <1>12, <1>13, <1>14,
      <1>15, <1>16, <1>17
  DEF Hooks!Next

\* What Made, the empty process and a flag set one at a time give.
LEMMA MadeFacts ==
  ASSUME NEW r \in RunType, HooksFlags
  PROVE  LET m == Hooks!Made(r)
         IN  /\ m \in RunType /\ m.made /\ m.tripped = (IF r.made THEN r.tripped ELSE file)
             /\ m.up = r.up /\ m.fixes = r.fixes /\ m.ignore = r.ignore /\ m.pc = r.pc
             /\ m.withChain = r.withChain /\ m.budget = r.budget /\ m.armed = r.armed
             /\ m.recoveryDisabled = r.recoveryDisabled /\ m.device = r.device
             /\ m.swapChain = r.swapChain /\ m.factory = r.factory
             /\ m.confirmed = r.confirmed /\ m.presenting = r.presenting
             /\ m.touched = r.touched /\ m.guarded = r.guarded
<1>0. file \in BOOLEAN
  BY Zenon DEF HooksFlags
<1>1. CASE r.made
  BY <1>1 DEF Hooks!Made, RunType
<1>2. CASE ~r.made
  BY <1>0, <1>2 DEF Hooks!Made, RunType
<1> QED
  BY <1>1, <1>2

\* What hooking the swap chain and the factory changes of a process.
LEMMA ChainedFacts ==
  ASSUME NEW r \in RunType
  PROVE  LET m == Hooks!Chained(r)
         IN  /\ m \in RunType /\ m.pc = "chaining"
             /\ m.up = r.up /\ m.fixes = r.fixes /\ m.ignore = r.ignore
             /\ m.withChain = r.withChain /\ m.budget = r.budget /\ m.made = r.made
             /\ m.tripped = r.tripped /\ m.armed = r.armed
             /\ m.recoveryDisabled = r.recoveryDisabled /\ m.device = r.device
             /\ m.swapChain = r.swapChain /\ m.factory = r.factory
             /\ m.confirmed = r.confirmed /\ m.presenting = r.presenting
             /\ m.touched = r.touched /\ m.guarded = r.guarded
  BY DEF RunType, Hooks!Chained

\* The process that has not been started.
LEMMA NoRunFacts ==
  LET m == Hooks!NoRun
  IN  /\ m \in RunType /\ ~m.up /\ ~m.fixes /\ ~m.made /\ ~m.armed /\ ~m.recoveryDisabled
      /\ ~m.device /\ ~m.swapChain /\ ~m.factory /\ ~m.confirmed /\ ~m.touched /\ ~m.guarded
      /\ m.pc = "idle"
<1>1. FaultLimit \in Int
  BY PartsAssumption DEF PartsAssumption
<1> DEFINE n == Hooks!NewRun(FALSE, FALSE)
<1>2. n \in RunType
  BY <1>1 DEF RunType, Hooks!NewRun
<1>3. /\ ~n.fixes /\ ~n.made /\ ~n.armed /\ ~n.recoveryDisabled
      /\ ~n.device /\ ~n.swapChain /\ ~n.factory /\ ~n.confirmed /\ ~n.touched /\ ~n.guarded
      /\ n.pc = "idle"
  BY DEF Hooks!NewRun
<1>4. Hooks!NoRun = [n EXCEPT !.up = FALSE]
  BY DEF Hooks!NoRun
<1> HIDE DEF n
<1> QED
  BY <1>2, <1>3, <1>4 DEF RunType

\* A new process starts with nothing made, armed or hooked.
LEMMA LaunchKeeps == ASSUME HooksInv, Hooks!Launch PROVE HooksInv'
<1>f. HooksFlags'
  BY FlagsStay DEF HooksInv, HooksTypeOK, Hooks!Next
<1>1. PICK fixes, ignore \in BOOLEAN : run' = Hooks!NewRun(fixes, ignore)
  BY DEF Hooks!Launch
<1>2. FaultLimit \in Int
  BY PartsAssumption DEF PartsAssumption
<1>3. /\ run' \in RunType /\ run'.up /\ run'.pc = "idle" /\ ~run'.made /\ ~run'.armed
      /\ ~run'.recoveryDisabled /\ ~run'.device /\ ~run'.swapChain /\ ~run'.factory
      /\ ~run'.confirmed /\ ~run'.touched /\ ~run'.guarded
  BY <1>1, <1>2 DEF RunType, Hooks!NewRun
<1>4. ~run.up /\ UNCHANGED <<file, died, deaths, trips, stuck>>
  BY DEF Hooks!Launch
<1>types. HooksTypeOK'
  BY <1>f, <1>3, <1>4 DEF HooksInv, HooksTypeOK, RunType
<1>decided. Decided'
  BY <1>3, <1>4 DEF HooksInv, HooksTypeOK, Decided, Hooks!Refused, Hooks!RecoveryIsBare, RunType
<1>guarded. Guarded'
  BY <1>3, <1>4 DEF HooksInv, HooksTypeOK, Guarded, Decided, Blank, Hooks!Refused, RunType
<1>seen. DeathIsSeen'
  BY <1>3, <1>4 DEF HooksInv, HooksTypeOK, DeathIsSeen, Guarded, Decided, Hooks!Refused, RunType
<1>debt. FileIsDebt'
  BY <1>3, <1>4 DEF HooksInv, HooksTypeOK, FileIsDebt, Guarded, Decided, DeathIsSeen, Blank,
      Hooks!Refused, RunType
<1>blank. Blank'
  BY <1>3, <1>4 DEF HooksInv, HooksTypeOK, Blank, RunType
<1> QED
  BY <1>types, <1>decided, <1>guarded, <1>seen, <1>debt, <1>blank DEF HooksInv

\* A create that is let through only opens attachToDevice.
LEMMA CreateDeviceKeeps == ASSUME HooksInv, Hooks!CreateDevice PROVE HooksInv'
<1>f. HooksFlags'
  BY FlagsStay DEF HooksInv, HooksTypeOK, Hooks!Next
<1>1. /\ run' \in RunType
      /\ run'.up = run.up /\ run'.fixes = run.fixes /\ run'.ignore = run.ignore
      /\ run'.budget = run.budget /\ run'.made = run.made /\ run'.tripped = run.tripped
      /\ run'.armed = run.armed /\ run'.recoveryDisabled = run.recoveryDisabled
      /\ run'.device = run.device /\ run'.swapChain = run.swapChain
      /\ run'.factory = run.factory /\ run'.confirmed = run.confirmed
      /\ run'.presenting = run.presenting /\ run'.touched = run.touched
      /\ run'.guarded = run.guarded
      /\ run'.pc = "hooking"
  BY DEF HooksInv, HooksTypeOK, RunType, Hooks!CreateDevice, Hooks!At
<1>2. UNCHANGED <<file, died, deaths, trips, stuck>>
  BY DEF Hooks!CreateDevice
<1>types. HooksTypeOK'
  BY <1>f, <1>1, <1>2 DEF HooksInv, HooksTypeOK, Hooks!CreateDevice, Hooks!At
<1>decided. Decided'
  BY <1>1, <1>2 DEF HooksInv, HooksTypeOK, Decided, Hooks!Refused, Hooks!RecoveryIsBare,
      Hooks!CreateDevice, Hooks!At
<1>guarded. Guarded'
  BY <1>1, <1>2 DEF HooksInv, HooksTypeOK, Guarded, Decided, Blank, Hooks!Refused,
      Hooks!CreateDevice, Hooks!At
<1>seen. DeathIsSeen'
  BY <1>1, <1>2 DEF HooksInv, HooksTypeOK, DeathIsSeen, Guarded, Decided, Hooks!Refused,
      Hooks!CreateDevice, Hooks!At
<1>debt. FileIsDebt'
  BY <1>1, <1>2 DEF HooksInv, HooksTypeOK, FileIsDebt, Guarded, Decided, DeathIsSeen, Blank,
      Hooks!Refused, Hooks!CreateDevice, Hooks!At
<1>blank. Blank'
  BY <1>1, <1>2 DEF HooksInv, HooksTypeOK, Blank, Hooks!CreateDevice, Hooks!At
<1> QED
  BY <1>types, <1>decided, <1>guarded, <1>seen, <1>debt, <1>blank DEF HooksInv

\* A declined device was declined by a process that looked for the file.
LEMMA DeclineDeviceKeeps == ASSUME HooksInv, Hooks!DeclineDevice PROVE HooksInv'
<1>f. HooksFlags'
  BY FlagsStay DEF HooksInv, HooksTypeOK, Hooks!Next
<1>1. /\ run' \in RunType
      /\ run'.up = run.up /\ run'.fixes = run.fixes /\ run'.ignore = run.ignore
      /\ run'.withChain = run.withChain /\ run'.budget = run.budget
      /\ run'.made = run.made /\ run'.tripped = run.tripped /\ run'.armed = run.armed
      /\ run'.recoveryDisabled = run.recoveryDisabled /\ run'.device = run.device
      /\ run'.swapChain = run.swapChain /\ run'.factory = run.factory
      /\ run'.confirmed = run.confirmed /\ run'.presenting = run.presenting
      /\ run'.touched = run.touched /\ run'.guarded = run.guarded
      /\ run'.pc = "chaining"
  BY DEF HooksInv, HooksTypeOK, RunType, Hooks!DeclineDevice, Hooks!At, Hooks!Chained
<1>2. UNCHANGED <<file, died, deaths, trips, stuck>>
  BY DEF Hooks!DeclineDevice
<1>types. HooksTypeOK'
  BY <1>f, <1>1, <1>2 DEF HooksInv, HooksTypeOK, Hooks!DeclineDevice, Hooks!At, Hooks!Chained
<1>decided. Decided'
  BY <1>1, <1>2 DEF HooksInv, HooksTypeOK, Decided, Hooks!Refused, Hooks!RecoveryIsBare,
      Hooks!DeclineDevice, Hooks!At, Hooks!Chained
<1>guarded. Guarded'
  BY <1>1, <1>2 DEF HooksInv, HooksTypeOK, Guarded, Decided, Blank, Hooks!Refused,
      Hooks!DeclineDevice, Hooks!At, Hooks!Chained
<1>seen. DeathIsSeen'
  BY <1>1, <1>2 DEF HooksInv, HooksTypeOK, DeathIsSeen, Guarded, Decided, Hooks!Refused,
      Hooks!DeclineDevice, Hooks!At, Hooks!Chained
<1>debt. FileIsDebt'
  BY <1>1, <1>2 DEF HooksInv, HooksTypeOK, FileIsDebt, Guarded, Decided, DeathIsSeen, Blank,
      Hooks!Refused, Hooks!DeclineDevice, Hooks!At, Hooks!Chained
<1>blank. Blank'
  BY <1>1, <1>2 DEF HooksInv, HooksTypeOK, Blank, Hooks!DeclineDevice, Hooks!At, Hooks!Chained
<1> QED
  BY <1>types, <1>decided, <1>guarded, <1>seen, <1>debt, <1>blank DEF HooksInv

\* The off switch clears an older trip; nothing of this process is guarded.
LEMMA FixesOffKeeps == ASSUME HooksInv, Hooks!FixesOff PROVE HooksInv'
<1>f. HooksFlags'
  BY FlagsStay DEF HooksInv, HooksTypeOK, Hooks!Next
<1> DEFINE m == Hooks!Made(run)
<1>0. run \in RunType /\ HooksFlags
  BY DEF HooksInv, HooksTypeOK
<1>1. /\ m \in RunType /\ m.made /\ m.tripped = (IF run.made THEN run.tripped ELSE file)
      /\ m.up = run.up /\ m.fixes = run.fixes /\ m.ignore = run.ignore /\ m.pc = run.pc
      /\ m.withChain = run.withChain /\ m.budget = run.budget /\ m.armed = run.armed
      /\ m.recoveryDisabled = run.recoveryDisabled /\ m.device = run.device
      /\ m.swapChain = run.swapChain /\ m.factory = run.factory
      /\ m.confirmed = run.confirmed /\ m.presenting = run.presenting
      /\ m.touched = run.touched /\ m.guarded = run.guarded
  BY <1>0, MadeFacts
<1>2. /\ ~run.fixes /\ run.up /\ ~run.recoveryDisabled /\ ~run.device
      /\ \/ Hooks!ClearTrip(Hooks!Chained(m))
         \/ run' = Hooks!Chained(m) /\ UNCHANGED <<file, stuck>>
      /\ UNCHANGED <<died, deaths, trips>>
  BY DEF Hooks!FixesOff, Hooks!MayHook, Hooks!At
<1> HIDE DEF m
<1> DEFINE c == Hooks!Chained(m)
<1>3. /\ c \in RunType /\ c.pc = "chaining"
      /\ c.up = m.up /\ c.fixes = m.fixes /\ c.ignore = m.ignore
      /\ c.withChain = m.withChain /\ c.budget = m.budget /\ c.made = m.made
      /\ c.tripped = m.tripped /\ c.armed = m.armed
      /\ c.recoveryDisabled = m.recoveryDisabled /\ c.device = m.device
      /\ c.swapChain = m.swapChain /\ c.factory = m.factory
      /\ c.confirmed = m.confirmed /\ c.presenting = m.presenting
      /\ c.touched = m.touched /\ c.guarded = m.guarded
  BY <1>1, ChainedFacts
<1>d. file' \in BOOLEAN
  BY <1>f, Zenon DEF HooksFlags
<1>4. \/ run' = [c EXCEPT !.tripped = file'] /\ (~file' \/ file' = file)
      \/ run' = c /\ UNCHANGED file
  BY <1>2 DEF Hooks!ClearTrip, Hooks!DeleteFile
<1>s. ~stuck' => ~stuck /\ (file' => file)
  BY <1>2 DEF Hooks!ClearTrip, Hooks!DeleteFile
<1> HIDE DEF c
<1>5. /\ run' \in RunType
      /\ run'.up = c.up /\ run'.fixes = c.fixes /\ run'.ignore = c.ignore
      /\ run'.pc = c.pc /\ run'.withChain = c.withChain /\ run'.budget = c.budget
      /\ run'.made = c.made /\ run'.armed = c.armed
      /\ run'.recoveryDisabled = c.recoveryDisabled /\ run'.device = c.device
      /\ run'.swapChain = c.swapChain /\ run'.factory = c.factory
      /\ run'.confirmed = c.confirmed /\ run'.presenting = c.presenting
      /\ run'.touched = c.touched /\ run'.guarded = c.guarded
  BY <1>3, <1>4, <1>d DEF RunType
<1>types. HooksTypeOK'
  BY <1>f, <1>1, <1>2, <1>3, <1>4, <1>s, <1>5 DEF HooksInv, HooksTypeOK, RunType
<1>decided. Decided'
  BY <1>1, <1>2, <1>3, <1>4, <1>s, <1>5 DEF HooksInv, HooksTypeOK, Decided, Hooks!Refused,
      Hooks!RecoveryIsBare, RunType
<1>guarded. Guarded'
  BY <1>1, <1>2, <1>3, <1>4, <1>s, <1>5 DEF HooksInv, HooksTypeOK, Guarded, Decided, Blank,
      Hooks!Refused, RunType
<1>seen. DeathIsSeen'
  BY <1>1, <1>2, <1>3, <1>4, <1>s, <1>5 DEF HooksInv, HooksTypeOK, DeathIsSeen, Guarded,
      Decided, Hooks!Refused, RunType
<1>debt. FileIsDebt'
  BY <1>1, <1>2, <1>3, <1>4, <1>s, <1>5 DEF HooksInv, HooksTypeOK, FileIsDebt, Guarded,
      Decided, DeathIsSeen, Blank, Hooks!Refused, RunType
<1>blank. Blank'
  BY <1>1, <1>2, <1>3, <1>4, <1>s, <1>5 DEF HooksInv, HooksTypeOK, Blank, RunType
<1> QED
  BY <1>types, <1>decided, <1>guarded, <1>seen, <1>debt, <1>blank DEF HooksInv

\* The trip a recovery pays for is the debt of an earlier death.
LEMMA RecoverKeeps == ASSUME HooksInv, Hooks!Recover PROVE HooksInv'
<1>f. HooksFlags'
  BY FlagsStay DEF HooksInv, HooksTypeOK, Hooks!Next
<1> DEFINE m == Hooks!Made(run)
<1>0. run \in RunType /\ HooksFlags
  BY DEF HooksInv, HooksTypeOK
<1>1. /\ m \in RunType /\ m.made /\ m.tripped = (IF run.made THEN run.tripped ELSE file)
      /\ m.up = run.up /\ m.fixes = run.fixes /\ m.ignore = run.ignore /\ m.pc = run.pc
      /\ m.withChain = run.withChain /\ m.budget = run.budget /\ m.armed = run.armed
      /\ m.recoveryDisabled = run.recoveryDisabled /\ m.device = run.device
      /\ m.swapChain = run.swapChain /\ m.factory = run.factory
      /\ m.confirmed = run.confirmed /\ m.presenting = run.presenting
      /\ m.touched = run.touched /\ m.guarded = run.guarded
  BY <1>0, MadeFacts
<1>2. /\ run.fixes /\ run.up /\ ~run.recoveryDisabled /\ ~run.device /\ m.tripped /\ ~m.ignore
      /\ Hooks!ClearTrip(Hooks!Recovered(Hooks!Chained(m)))
      /\ trips' = trips + 1 /\ UNCHANGED <<died, deaths>>
  BY DEF Hooks!Recover, Hooks!MayHook, Hooks!At, Hooks!Refused
<1> HIDE DEF m
<1> DEFINE c == Hooks!Chained(m)
<1>3. /\ c \in RunType /\ c.pc = "chaining"
      /\ c.up = m.up /\ c.fixes = m.fixes /\ c.ignore = m.ignore
      /\ c.withChain = m.withChain /\ c.budget = m.budget /\ c.made = m.made
      /\ c.tripped = m.tripped /\ c.armed = m.armed
      /\ c.recoveryDisabled = m.recoveryDisabled /\ c.device = m.device
      /\ c.swapChain = m.swapChain /\ c.factory = m.factory
      /\ c.confirmed = m.confirmed /\ c.presenting = m.presenting
      /\ c.touched = m.touched /\ c.guarded = m.guarded
  BY <1>1, ChainedFacts
<1>d. file' \in BOOLEAN
  BY <1>f, Zenon DEF HooksFlags
<1>4. /\ run' = [[c EXCEPT !.recoveryDisabled = TRUE] EXCEPT !.tripped = file']
      /\ ~stuck' => ~stuck /\ ~file'
  BY <1>2 DEF Hooks!ClearTrip, Hooks!Recovered, Hooks!DeleteFile
<1> HIDE DEF c
<1>5. /\ run' \in RunType /\ run'.recoveryDisabled
      /\ run'.up = c.up /\ run'.fixes = c.fixes /\ run'.ignore = c.ignore
      /\ run'.pc = c.pc /\ run'.withChain = c.withChain /\ run'.budget = c.budget
      /\ run'.made = c.made /\ run'.armed = c.armed /\ run'.device = c.device
      /\ run'.swapChain = c.swapChain /\ run'.factory = c.factory
      /\ run'.confirmed = c.confirmed /\ run'.presenting = c.presenting
      /\ run'.touched = c.touched /\ run'.guarded = c.guarded
  BY <1>3, <1>4, <1>d DEF RunType
<1>types. HooksTypeOK'
  BY <1>f, <1>1, <1>2, <1>3, <1>4, <1>5 DEF HooksInv, HooksTypeOK, RunType
<1>decided. Decided'
  BY <1>1, <1>2, <1>3, <1>4, <1>5 DEF HooksInv, HooksTypeOK, Decided, Hooks!Refused,
      Hooks!RecoveryIsBare, RunType
<1>guarded. Guarded'
  BY <1>1, <1>2, <1>3, <1>4, <1>5 DEF HooksInv, HooksTypeOK, Guarded, Decided, Blank,
      Hooks!Refused, RunType
<1>seen. DeathIsSeen'
  BY <1>1, <1>2, <1>3, <1>4, <1>5 DEF HooksInv, HooksTypeOK, DeathIsSeen, Guarded, Decided,
      Hooks!Refused, RunType
<1>debt. FileIsDebt'
  BY <1>1, <1>2, <1>3, <1>4, <1>5 DEF HooksInv, HooksTypeOK, FileIsDebt, Guarded, Decided,
      DeathIsSeen, Blank, Hooks!Refused, RunType
<1>blank. Blank'
  BY <1>1, <1>2, <1>3, <1>4, <1>5 DEF HooksInv, HooksTypeOK, Blank, RunType
<1> QED
  BY <1>types, <1>decided, <1>guarded, <1>seen, <1>debt, <1>blank DEF HooksInv

\* An unusable table leaves only the sentinel made.
LEMMA TableUnusableKeeps == ASSUME HooksInv, Hooks!TableUnusable PROVE HooksInv'
<1>f. HooksFlags'
  BY FlagsStay DEF HooksInv, HooksTypeOK, Hooks!Next
<1> DEFINE m == Hooks!Made(run)
<1>0. run \in RunType /\ HooksFlags
  BY DEF HooksInv, HooksTypeOK
<1>1. /\ m \in RunType /\ m.made /\ m.tripped = (IF run.made THEN run.tripped ELSE file)
      /\ m.up = run.up /\ m.fixes = run.fixes /\ m.ignore = run.ignore /\ m.pc = run.pc
      /\ m.withChain = run.withChain /\ m.budget = run.budget /\ m.armed = run.armed
      /\ m.recoveryDisabled = run.recoveryDisabled /\ m.device = run.device
      /\ m.swapChain = run.swapChain /\ m.factory = run.factory
      /\ m.confirmed = run.confirmed /\ m.presenting = run.presenting
      /\ m.touched = run.touched /\ m.guarded = run.guarded
  BY <1>0, MadeFacts
<1>2. /\ run' = Hooks!Chained(m) /\ run.fixes /\ ~(m.tripped /\ ~m.ignore)
      /\ run.up /\ ~run.recoveryDisabled /\ ~run.device
      /\ UNCHANGED <<file, died, deaths, trips, stuck>>
  BY DEF Hooks!TableUnusable, Hooks!MayHook, Hooks!At, Hooks!Refused
<1> HIDE DEF m
<1>3. /\ run' \in RunType /\ run'.pc = "chaining"
      /\ run'.up = m.up /\ run'.fixes = m.fixes /\ run'.ignore = m.ignore
      /\ run'.withChain = m.withChain /\ run'.budget = m.budget /\ run'.made = m.made
      /\ run'.tripped = m.tripped /\ run'.armed = m.armed
      /\ run'.recoveryDisabled = m.recoveryDisabled /\ run'.device = m.device
      /\ run'.swapChain = m.swapChain /\ run'.factory = m.factory
      /\ run'.confirmed = m.confirmed /\ run'.presenting = m.presenting
      /\ run'.touched = m.touched /\ run'.guarded = m.guarded
  BY <1>1, <1>2, ChainedFacts
<1>types. HooksTypeOK'
  BY <1>f, <1>1, <1>2, <1>3 DEF HooksInv, HooksTypeOK, RunType
<1>decided. Decided'
  BY <1>1, <1>2, <1>3 DEF HooksInv, HooksTypeOK, Decided, Hooks!Refused,
      Hooks!RecoveryIsBare, RunType
<1>guarded. Guarded'
  BY <1>1, <1>2, <1>3 DEF HooksInv, HooksTypeOK, Guarded, Decided, Blank, Hooks!Refused, RunType
<1>seen. DeathIsSeen'
  BY <1>1, <1>2, <1>3 DEF HooksInv, HooksTypeOK, DeathIsSeen, Guarded, Decided,
      Hooks!Refused, RunType
<1>debt. FileIsDebt'
  BY <1>1, <1>2, <1>3 DEF HooksInv, HooksTypeOK, FileIsDebt, Guarded, Decided, DeathIsSeen,
      Blank, Hooks!Refused, RunType
<1>blank. Blank'
  BY <1>1, <1>2, <1>3 DEF HooksInv, HooksTypeOK, Blank, RunType
<1> QED
  BY <1>types, <1>decided, <1>guarded, <1>seen, <1>debt, <1>blank DEF HooksInv

\* The table may be patched from here on, and the file, if written, is there.
LEMMA ArmKeeps == ASSUME HooksInv, Hooks!Arm PROVE HooksInv'
<1>f. HooksFlags'
  BY FlagsStay DEF HooksInv, HooksTypeOK, Hooks!Next
<1> DEFINE m == Hooks!Made(run)
<1>0. run \in RunType /\ HooksFlags
  BY DEF HooksInv, HooksTypeOK
<1>1. /\ m \in RunType /\ m.made /\ m.tripped = (IF run.made THEN run.tripped ELSE file)
      /\ m.up = run.up /\ m.fixes = run.fixes /\ m.ignore = run.ignore /\ m.pc = run.pc
      /\ m.withChain = run.withChain /\ m.budget = run.budget /\ m.armed = run.armed
      /\ m.recoveryDisabled = run.recoveryDisabled /\ m.device = run.device
      /\ m.swapChain = run.swapChain /\ m.factory = run.factory
      /\ m.confirmed = run.confirmed /\ m.presenting = run.presenting
      /\ m.touched = run.touched /\ m.guarded = run.guarded
  BY <1>0, MadeFacts
<1>2. /\ run.fixes /\ run.up /\ ~run.recoveryDisabled /\ ~run.device /\ ~(m.tripped /\ ~m.ignore)
      /\ Hooks!ArmSentinel([m EXCEPT !.pc = "arming", !.touched = TRUE])
      /\ UNCHANGED <<died, deaths, trips, stuck>>
  BY DEF Hooks!Arm, Hooks!MayHook, Hooks!At, Hooks!Refused
<1> HIDE DEF m
<1> DEFINE c == [m EXCEPT !.pc = "arming", !.touched = TRUE]
<1>3. /\ c \in RunType /\ c.pc = "arming" /\ c.touched
      /\ c.up = m.up /\ c.fixes = m.fixes /\ c.ignore = m.ignore
      /\ c.withChain = m.withChain /\ c.budget = m.budget /\ c.made = m.made
      /\ c.tripped = m.tripped /\ c.armed = m.armed
      /\ c.recoveryDisabled = m.recoveryDisabled /\ c.device = m.device
      /\ c.swapChain = m.swapChain /\ c.factory = m.factory
      /\ c.confirmed = m.confirmed /\ c.presenting = m.presenting
      /\ c.guarded = m.guarded
  BY <1>1 DEF RunType
<1>4. \/ file' /\ run' = [c EXCEPT !.armed = TRUE, !.guarded = TRUE]
      \/ UNCHANGED file /\ run' = c
  BY <1>2 DEF Hooks!ArmSentinel
<1> HIDE DEF c
<1>5. /\ run' \in RunType
      /\ run'.up = c.up /\ run'.fixes = c.fixes /\ run'.ignore = c.ignore
      /\ run'.pc = c.pc /\ run'.withChain = c.withChain /\ run'.budget = c.budget
      /\ run'.made = c.made /\ run'.tripped = c.tripped
      /\ run'.recoveryDisabled = c.recoveryDisabled /\ run'.device = c.device
      /\ run'.swapChain = c.swapChain /\ run'.factory = c.factory
      /\ run'.confirmed = c.confirmed /\ run'.presenting = c.presenting
      /\ run'.touched = c.touched
      /\ \/ file' /\ run'.armed /\ run'.guarded
         \/ UNCHANGED file /\ run'.armed = c.armed /\ run'.guarded = c.guarded
  BY <1>3, <1>4 DEF RunType
<1>types. HooksTypeOK'
  BY <1>f, <1>1, <1>2, <1>3, <1>5 DEF HooksInv, HooksTypeOK, RunType
<1>decided. Decided'
  BY <1>1, <1>2, <1>3, <1>5 DEF HooksInv, HooksTypeOK, Decided, Hooks!Refused,
      Hooks!RecoveryIsBare, RunType
<1>guarded. Guarded'
  BY <1>1, <1>2, <1>3, <1>5 DEF HooksInv, HooksTypeOK, Guarded, Decided, Blank,
      Hooks!Refused, RunType
<1>seen. DeathIsSeen'
  BY <1>1, <1>2, <1>3, <1>5 DEF HooksInv, HooksTypeOK, DeathIsSeen, Guarded, Decided,
      Hooks!Refused, RunType
<1>debt. FileIsDebt'
  BY <1>1, <1>2, <1>3, <1>5 DEF HooksInv, HooksTypeOK, FileIsDebt, Guarded, Decided,
      DeathIsSeen, Blank, Hooks!Refused, RunType
<1>blank. Blank'
  BY <1>1, <1>2, <1>3, <1>5 DEF HooksInv, HooksTypeOK, Blank, RunType
<1> QED
  BY <1>types, <1>decided, <1>guarded, <1>seen, <1>debt, <1>blank DEF HooksInv

\* A committed table leaves the file where it is.
LEMMA CommitKeeps == ASSUME HooksInv, Hooks!Commit PROVE HooksInv'
<1>f. HooksFlags'
  BY FlagsStay DEF HooksInv, HooksTypeOK, Hooks!Next
<1>1. /\ run' \in RunType
      /\ run'.up = run.up /\ run'.fixes = run.fixes /\ run'.ignore = run.ignore
      /\ run'.withChain = run.withChain /\ run'.budget = run.budget
      /\ run'.made = run.made /\ run'.tripped = run.tripped /\ run'.armed = run.armed
      /\ run'.recoveryDisabled = run.recoveryDisabled /\ run'.swapChain = run.swapChain
      /\ run'.confirmed = run.confirmed /\ run'.presenting = run.presenting
      /\ run'.touched = run.touched /\ run'.guarded = run.guarded
      /\ run'.pc = "chaining"
      /\ run'.device
  BY DEF HooksInv, HooksTypeOK, RunType, Hooks!Commit, Hooks!At, Hooks!Chained
<1>2. UNCHANGED <<file, died, deaths, trips, stuck>>
  BY DEF Hooks!Commit
<1>types. HooksTypeOK'
  BY <1>f, <1>1, <1>2 DEF HooksInv, HooksTypeOK, Hooks!Commit, Hooks!At, Hooks!Chained
<1>decided. Decided'
  BY <1>1, <1>2 DEF HooksInv, HooksTypeOK, Decided, Hooks!Refused, Hooks!RecoveryIsBare,
      Hooks!Commit, Hooks!At, Hooks!Chained
<1>guarded. Guarded'
  BY <1>1, <1>2 DEF HooksInv, HooksTypeOK, Guarded, Decided, Blank, Hooks!Refused,
      Hooks!Commit, Hooks!At, Hooks!Chained
<1>seen. DeathIsSeen'
  BY <1>1, <1>2 DEF HooksInv, HooksTypeOK, DeathIsSeen, Guarded, Decided, Hooks!Refused,
      Hooks!Commit, Hooks!At, Hooks!Chained
<1>debt. FileIsDebt'
  BY <1>1, <1>2 DEF HooksInv, HooksTypeOK, FileIsDebt, Guarded, Decided, DeathIsSeen, Blank,
      Hooks!Refused, Hooks!Commit, Hooks!At, Hooks!Chained
<1>blank. Blank'
  BY <1>1, <1>2 DEF HooksInv, HooksTypeOK, Blank, Hooks!Commit, Hooks!At, Hooks!Chained
<1> QED
  BY <1>types, <1>decided, <1>guarded, <1>seen, <1>debt, <1>blank DEF HooksInv

\* A failed commit takes back the patches and its own file.
LEMMA CommitFailsKeeps == ASSUME HooksInv, Hooks!CommitFails PROVE HooksInv'
<1>f. HooksFlags'
  BY FlagsStay DEF HooksInv, HooksTypeOK, Hooks!Next
<1>1. run \in RunType
  BY DEF HooksInv, HooksTypeOK
<1> DEFINE c == [Hooks!Chained(run) EXCEPT !.touched = FALSE, !.guarded = FALSE]
<1>2. /\ run.up /\ run.pc = "arming" /\ Hooks!Confirm(c) /\ UNCHANGED <<died, deaths, trips>>
  BY DEF Hooks!CommitFails, Hooks!At
<1>3. /\ c \in RunType /\ c.pc = "chaining" /\ ~c.touched /\ ~c.guarded
      /\ c.up = run.up /\ c.fixes = run.fixes /\ c.ignore = run.ignore
      /\ c.withChain = run.withChain /\ c.budget = run.budget /\ c.made = run.made
      /\ c.tripped = run.tripped /\ c.armed = run.armed
      /\ c.recoveryDisabled = run.recoveryDisabled /\ c.device = run.device
      /\ c.swapChain = run.swapChain /\ c.factory = run.factory
      /\ c.confirmed = run.confirmed /\ c.presenting = run.presenting
  BY <1>1 DEF RunType, Hooks!Chained
<1> HIDE DEF c
<1>4. \/ /\ c.armed /\ run' = [c EXCEPT !.armed = FALSE]
         /\ ~stuck' => ~stuck /\ ~file'
         /\ file' => file
      \/ ~c.armed /\ run' = c /\ UNCHANGED <<file, stuck>>
  BY <1>2 DEF Hooks!Confirm, Hooks!DeleteFile
<1>5. /\ run' \in RunType /\ ~run'.armed
      /\ run'.up = c.up /\ run'.fixes = c.fixes /\ run'.ignore = c.ignore
      /\ run'.pc = c.pc /\ run'.withChain = c.withChain /\ run'.budget = c.budget
      /\ run'.made = c.made /\ run'.tripped = c.tripped
      /\ run'.recoveryDisabled = c.recoveryDisabled /\ run'.device = c.device
      /\ run'.swapChain = c.swapChain /\ run'.factory = c.factory
      /\ run'.confirmed = c.confirmed /\ run'.presenting = c.presenting
      /\ run'.touched = c.touched /\ run'.guarded = c.guarded
  BY <1>3, <1>4 DEF RunType
<1>types. HooksTypeOK'
  BY <1>f, <1>1, <1>2, <1>3, <1>4, <1>5 DEF HooksInv, HooksTypeOK, RunType
<1>decided. Decided'
  BY <1>1, <1>2, <1>3, <1>4, <1>5 DEF HooksInv, HooksTypeOK, Decided, Hooks!Refused,
      Hooks!RecoveryIsBare, RunType
<1>guarded. Guarded'
  BY <1>1, <1>2, <1>3, <1>4, <1>5 DEF HooksInv, HooksTypeOK, Guarded, Decided, Blank,
      Hooks!Refused, RunType
<1>seen. DeathIsSeen'
  BY <1>1, <1>2, <1>3, <1>4, <1>5 DEF HooksInv, HooksTypeOK, DeathIsSeen, Guarded, Decided,
      Hooks!Refused, RunType
<1>debt. FileIsDebt'
  BY <1>1, <1>2, <1>3, <1>4, <1>5 DEF HooksInv, HooksTypeOK, FileIsDebt, Guarded, Decided,
      DeathIsSeen, Blank, Hooks!Refused, RunType
<1>blank. Blank'
  BY <1>1, <1>2, <1>3, <1>4, <1>5 DEF HooksInv, HooksTypeOK, Blank, RunType
<1> QED
  BY <1>types, <1>decided, <1>guarded, <1>seen, <1>debt, <1>blank DEF HooksInv

\* A swap chain or factory is hooked only by a process that does not recover.
LEMMA ChainKeeps == ASSUME HooksInv, Hooks!Chain PROVE HooksInv'
<1>f. HooksFlags'
  BY FlagsStay DEF HooksInv, HooksTypeOK, Hooks!Next
<1>1. /\ run' \in RunType
      /\ run'.up = run.up /\ run'.fixes = run.fixes /\ run'.ignore = run.ignore
      /\ run'.withChain = run.withChain /\ run'.budget = run.budget
      /\ run'.made = run.made /\ run'.tripped = run.tripped /\ run'.armed = run.armed
      /\ run'.recoveryDisabled = run.recoveryDisabled /\ run'.device = run.device
      /\ run'.confirmed = run.confirmed /\ run'.presenting = run.presenting
      /\ run'.touched = run.touched /\ run'.guarded = run.guarded
      /\ run'.pc = "idle"
      /\ run'.swapChain => run.swapChain \/ ~run.recoveryDisabled
      /\ run'.factory => run.factory \/ ~run.recoveryDisabled
  BY DEF HooksInv, HooksTypeOK, RunType, Hooks!Chain, Hooks!At
<1>2. UNCHANGED <<file, died, deaths, trips, stuck>>
  BY DEF Hooks!Chain
<1>types. HooksTypeOK'
  BY <1>f, <1>1, <1>2 DEF HooksInv, HooksTypeOK, Hooks!Chain, Hooks!At
<1>decided. Decided'
  BY <1>1, <1>2 DEF HooksInv, HooksTypeOK, Decided, Hooks!Refused, Hooks!RecoveryIsBare,
      Hooks!Chain, Hooks!At
<1>guarded. Guarded'
  BY <1>1, <1>2 DEF HooksInv, HooksTypeOK, Guarded, Decided, Blank, Hooks!Refused,
      Hooks!Chain, Hooks!At
<1>seen. DeathIsSeen'
  BY <1>1, <1>2 DEF HooksInv, HooksTypeOK, DeathIsSeen, Guarded, Decided, Hooks!Refused,
      Hooks!Chain, Hooks!At
<1>debt. FileIsDebt'
  BY <1>1, <1>2 DEF HooksInv, HooksTypeOK, FileIsDebt, Guarded, Decided, DeathIsSeen, Blank,
      Hooks!Refused, Hooks!Chain, Hooks!At
<1>blank. Blank'
  BY <1>1, <1>2 DEF HooksInv, HooksTypeOK, Blank, Hooks!Chain, Hooks!At
<1> QED
  BY <1>types, <1>decided, <1>guarded, <1>seen, <1>debt, <1>blank DEF HooksInv

\* An absorbed fault leaves the hooks and the file where they are.
LEMMA AbsorbFaultKeeps == ASSUME HooksInv, Hooks!AbsorbFault PROVE HooksInv'
<1>f. HooksFlags'
  BY FlagsStay DEF HooksInv, HooksTypeOK, Hooks!Next
<1>0. run.budget - 1 \in Int
  BY DEF HooksInv, HooksTypeOK, RunType
<1>1. /\ run' \in RunType
      /\ run'.up = run.up /\ run'.fixes = run.fixes /\ run'.ignore = run.ignore
      /\ run'.withChain = run.withChain /\ run'.made = run.made
      /\ run'.tripped = run.tripped /\ run'.armed = run.armed
      /\ run'.recoveryDisabled = run.recoveryDisabled /\ run'.device = run.device
      /\ run'.swapChain = run.swapChain /\ run'.factory = run.factory
      /\ run'.confirmed = run.confirmed /\ run'.presenting = run.presenting
      /\ run'.touched = run.touched /\ run'.guarded = run.guarded
      /\ run'.pc = "idle"
  BY <1>0 DEF HooksInv, HooksTypeOK, RunType, Hooks!AbsorbFault
<1>2. UNCHANGED <<file, died, deaths, trips, stuck>>
  BY DEF Hooks!AbsorbFault
<1>types. HooksTypeOK'
  BY <1>f, <1>1, <1>2 DEF HooksInv, HooksTypeOK, Hooks!AbsorbFault
<1>decided. Decided'
  BY <1>1, <1>2 DEF HooksInv, HooksTypeOK, Decided, Hooks!Refused, Hooks!RecoveryIsBare,
      Hooks!AbsorbFault
<1>guarded. Guarded'
  BY <1>1, <1>2 DEF HooksInv, HooksTypeOK, Guarded, Decided, Blank, Hooks!Refused,
      Hooks!AbsorbFault
<1>seen. DeathIsSeen'
  BY <1>1, <1>2 DEF HooksInv, HooksTypeOK, DeathIsSeen, Guarded, Decided, Hooks!Refused,
      Hooks!AbsorbFault
<1>debt. FileIsDebt'
  BY <1>1, <1>2 DEF HooksInv, HooksTypeOK, FileIsDebt, Guarded, Decided, DeathIsSeen, Blank,
      Hooks!Refused, Hooks!AbsorbFault
<1>blank. Blank'
  BY <1>1, <1>2 DEF HooksInv, HooksTypeOK, Blank, Hooks!AbsorbFault
<1> QED
  BY <1>types, <1>decided, <1>guarded, <1>seen, <1>debt, <1>blank DEF HooksInv

\* The hooked factory hooks a swap chain.
LEMMA CreateSwapChainKeeps == ASSUME HooksInv, Hooks!CreateSwapChain PROVE HooksInv'
<1>f. HooksFlags'
  BY FlagsStay DEF HooksInv, HooksTypeOK, Hooks!Next
<1>1. /\ run' \in RunType
      /\ run'.up = run.up /\ run'.fixes = run.fixes /\ run'.ignore = run.ignore
      /\ run'.pc = run.pc /\ run'.withChain = run.withChain /\ run'.budget = run.budget
      /\ run'.made = run.made /\ run'.tripped = run.tripped /\ run'.armed = run.armed
      /\ run'.recoveryDisabled = run.recoveryDisabled /\ run'.device = run.device
      /\ run'.factory = run.factory /\ run'.confirmed = run.confirmed
      /\ run'.presenting = run.presenting /\ run'.touched = run.touched
      /\ run'.guarded = run.guarded
  BY DEF HooksInv, HooksTypeOK, RunType, Hooks!CreateSwapChain
<1>2. UNCHANGED <<file, died, deaths, trips, stuck>>
  BY DEF Hooks!CreateSwapChain
<1>types. HooksTypeOK'
  BY <1>f, <1>1, <1>2 DEF HooksInv, HooksTypeOK, Hooks!CreateSwapChain
<1>decided. Decided'
  BY <1>1, <1>2 DEF HooksInv, HooksTypeOK, Decided, Hooks!Refused, Hooks!RecoveryIsBare,
      Hooks!CreateSwapChain
<1>guarded. Guarded'
  BY <1>1, <1>2 DEF HooksInv, HooksTypeOK, Guarded, Decided, Blank, Hooks!Refused,
      Hooks!CreateSwapChain
<1>seen. DeathIsSeen'
  BY <1>1, <1>2 DEF HooksInv, HooksTypeOK, DeathIsSeen, Guarded, Decided, Hooks!Refused,
      Hooks!CreateSwapChain
<1>debt. FileIsDebt'
  BY <1>1, <1>2 DEF HooksInv, HooksTypeOK, FileIsDebt, Guarded, Decided, DeathIsSeen, Blank,
      Hooks!Refused, Hooks!CreateSwapChain
<1>blank. Blank'
  BY <1>1, <1>2 DEF HooksInv, HooksTypeOK, Blank, Hooks!CreateSwapChain
<1> QED
  BY <1>types, <1>decided, <1>guarded, <1>seen, <1>debt, <1>blank DEF HooksInv

\* The frame that proves the hooks takes the file down, or leaves it stuck.
LEMMA PresentKeeps == ASSUME HooksInv, Hooks!Present PROVE HooksInv'
<1>f. HooksFlags'
  BY FlagsStay DEF HooksInv, HooksTypeOK, Hooks!Next
<1>1. run \in RunType /\ ConfirmAfter \in Nat
  BY PartsAssumption DEF HooksInv, HooksTypeOK, PartsAssumption
<1>2. /\ run.up /\ run.swapChain /\ run.device /\ ~run.confirmed
      /\ UNCHANGED <<died, deaths, trips>>
  BY DEF Hooks!Present
<1>3. PICK credit \in {0, 1} :
        LET sum == run.presenting + credit
        IN  IF sum >= ConfirmAfter
            THEN Hooks!Confirm([run EXCEPT !.presenting = sum, !.confirmed = TRUE])
            ELSE run' = [run EXCEPT !.presenting = sum] /\ UNCHANGED <<file, stuck>>
  BY DEF Hooks!Present
<1> DEFINE sum == run.presenting + credit
<1>4. sum \in Nat
  BY <1>1 DEF RunType
<1> HIDE DEF sum
<1> DEFINE c == [run EXCEPT !.presenting = sum, !.confirmed = TRUE]
<1>5. /\ c \in RunType /\ c.confirmed
      /\ c.up = run.up /\ c.fixes = run.fixes /\ c.ignore = run.ignore /\ c.pc = run.pc
      /\ c.withChain = run.withChain /\ c.budget = run.budget /\ c.made = run.made
      /\ c.tripped = run.tripped /\ c.armed = run.armed
      /\ c.recoveryDisabled = run.recoveryDisabled /\ c.device = run.device
      /\ c.swapChain = run.swapChain /\ c.factory = run.factory
      /\ c.touched = run.touched /\ c.guarded = run.guarded
  BY <1>1, <1>4 DEF RunType
<1>6. \/ Hooks!Confirm(c)
      \/ run' = [run EXCEPT !.presenting = sum] /\ UNCHANGED <<file, stuck>>
  BY <1>3 DEF sum
<1> HIDE DEF c
<1>7. \/ /\ c.armed /\ run' = [c EXCEPT !.armed = FALSE]
         /\ ~stuck' => ~stuck /\ ~file'
         /\ file' => file
      \/ ~c.armed /\ run' = c /\ UNCHANGED <<file, stuck>>
      \/ run' = [run EXCEPT !.presenting = sum] /\ UNCHANGED <<file, stuck>>
  BY <1>6 DEF Hooks!Confirm, Hooks!DeleteFile
<1>8. /\ run' \in RunType
      /\ run'.up = run.up /\ run'.fixes = run.fixes /\ run'.ignore = run.ignore
      /\ run'.pc = run.pc /\ run'.withChain = run.withChain /\ run'.budget = run.budget
      /\ run'.made = run.made /\ run'.tripped = run.tripped
      /\ run'.recoveryDisabled = run.recoveryDisabled /\ run'.device = run.device
      /\ run'.swapChain = run.swapChain /\ run'.factory = run.factory
      /\ run'.touched = run.touched /\ run'.guarded = run.guarded
      /\ \/ /\ run.armed /\ run'.confirmed /\ ~run'.armed
            /\ ~stuck' => ~stuck /\ ~file'
            /\ file' => file
         \/ ~run.armed /\ ~run'.armed /\ run'.confirmed /\ UNCHANGED <<file, stuck>>
         \/ ~run'.confirmed /\ run'.armed = run.armed /\ UNCHANGED <<file, stuck>>
  <2>1. CASE /\ c.armed /\ run' = [c EXCEPT !.armed = FALSE]
             /\ ~stuck' => ~stuck /\ ~file'
             /\ file' => file
    BY <1>5, <2>1 DEF RunType
  <2>2. CASE ~c.armed /\ run' = c /\ UNCHANGED <<file, stuck>>
    BY <1>5, <2>2 DEF RunType
  <2>3. CASE run' = [run EXCEPT !.presenting = sum] /\ UNCHANGED <<file, stuck>>
    BY <1>1, <1>2, <1>4, <2>3 DEF RunType
  <2> QED
    BY <1>7, <2>1, <2>2, <2>3
<1>types. HooksTypeOK'
  BY <1>f, <1>1, <1>2, <1>8 DEF HooksInv, HooksTypeOK, RunType
<1>decided. Decided'
  BY <1>1, <1>2, <1>8 DEF HooksInv, HooksTypeOK, Decided, Hooks!Refused,
      Hooks!RecoveryIsBare, RunType
<1>guarded. Guarded'
  BY <1>1, <1>2, <1>8 DEF HooksInv, HooksTypeOK, Guarded, Decided, Blank, Hooks!Refused, RunType
<1>seen. DeathIsSeen'
  BY <1>1, <1>2, <1>8 DEF HooksInv, HooksTypeOK, DeathIsSeen, Guarded, Decided,
      Hooks!Refused, RunType
<1>debt. FileIsDebt'
  BY <1>1, <1>2, <1>8 DEF HooksInv, HooksTypeOK, FileIsDebt, Guarded, Decided, DeathIsSeen,
      Blank, Hooks!Refused, RunType
<1>blank. Blank'
  BY <1>1, <1>2, <1>8 DEF HooksInv, HooksTypeOK, Blank, RunType
<1> QED
  BY <1>types, <1>decided, <1>guarded, <1>seen, <1>debt, <1>blank DEF HooksInv

\* A death in Present of unproved, guarded hooks leaves the file.
LEMMA PresentWithoutDeviceKeeps == ASSUME HooksInv, Hooks!PresentWithoutDevice PROVE HooksInv'
<1>f. HooksFlags'
  BY FlagsStay DEF HooksInv, HooksTypeOK, Hooks!Next
<1>1. PICK how : Hooks!Dies(how)
  BY DEF Hooks!PresentWithoutDevice
<1> DEFINE fatal == run.touched /\ run.guarded /\ ~run.confirmed
<1>2. /\ run' = Hooks!NoRun /\ died' = fatal /\ deaths' = (IF fatal THEN deaths + 1 ELSE deaths)
      /\ UNCHANGED <<file, trips, stuck>> /\ run.up
  BY <1>1 DEF Hooks!Dies
<1>3. /\ run' \in RunType /\ ~run'.up /\ ~run'.fixes /\ ~run'.made /\ ~run'.armed
      /\ ~run'.recoveryDisabled
      /\ ~run'.device /\ ~run'.swapChain /\ ~run'.factory /\ ~run'.confirmed /\ ~run'.touched
      /\ ~run'.guarded /\ run'.pc = "idle"
  BY <1>2, NoRunFacts
<1>types. HooksTypeOK'
  BY <1>f, <1>2, <1>3 DEF HooksInv, HooksTypeOK, RunType
<1>decided. Decided'
  BY <1>2, <1>3 DEF HooksInv, HooksTypeOK, Decided, Hooks!Refused, Hooks!RecoveryIsBare, RunType
<1>guarded. Guarded'
  BY <1>2, <1>3 DEF HooksInv, HooksTypeOK, Guarded, Decided, Blank, Hooks!Refused, RunType
<1>seen. DeathIsSeen'
  BY <1>2, <1>3 DEF HooksInv, HooksTypeOK, DeathIsSeen, Guarded, Decided, Hooks!Refused, RunType
<1>debt. FileIsDebt'
  BY <1>2, <1>3 DEF HooksInv, HooksTypeOK, FileIsDebt, Guarded, Decided, DeathIsSeen, Blank,
      Hooks!Refused, RunType
<1>blank. Blank'
  BY <1>2, <1>3 DEF HooksInv, HooksTypeOK, Blank, RunType
<1> QED
  BY <1>types, <1>decided, <1>guarded, <1>seen, <1>debt, <1>blank DEF HooksInv

\* So does any other death.
LEMMA CrashKeeps == ASSUME HooksInv, Hooks!Crash PROVE HooksInv'
<1>f. HooksFlags'
  BY FlagsStay DEF HooksInv, HooksTypeOK, Hooks!Next
<1>1. PICK how : Hooks!Dies(how)
  BY DEF Hooks!Crash
<1> DEFINE fatal == run.touched /\ run.guarded /\ ~run.confirmed
<1>2. /\ run' = Hooks!NoRun /\ died' = fatal /\ deaths' = (IF fatal THEN deaths + 1 ELSE deaths)
      /\ UNCHANGED <<file, trips, stuck>> /\ run.up
  BY <1>1 DEF Hooks!Dies
<1>3. /\ run' \in RunType /\ ~run'.up /\ ~run'.fixes /\ ~run'.made /\ ~run'.armed
      /\ ~run'.recoveryDisabled
      /\ ~run'.device /\ ~run'.swapChain /\ ~run'.factory /\ ~run'.confirmed /\ ~run'.touched
      /\ ~run'.guarded /\ run'.pc = "idle"
  BY <1>2, NoRunFacts
<1>types. HooksTypeOK'
  BY <1>f, <1>2, <1>3 DEF HooksInv, HooksTypeOK, RunType
<1>decided. Decided'
  BY <1>2, <1>3 DEF HooksInv, HooksTypeOK, Decided, Hooks!Refused, Hooks!RecoveryIsBare, RunType
<1>guarded. Guarded'
  BY <1>2, <1>3 DEF HooksInv, HooksTypeOK, Guarded, Decided, Blank, Hooks!Refused, RunType
<1>seen. DeathIsSeen'
  BY <1>2, <1>3 DEF HooksInv, HooksTypeOK, DeathIsSeen, Guarded, Decided, Hooks!Refused, RunType
<1>debt. FileIsDebt'
  BY <1>2, <1>3 DEF HooksInv, HooksTypeOK, FileIsDebt, Guarded, Decided, DeathIsSeen, Blank,
      Hooks!Refused, RunType
<1>blank. Blank'
  BY <1>2, <1>3 DEF HooksInv, HooksTypeOK, Blank, RunType
<1> QED
  BY <1>types, <1>decided, <1>guarded, <1>seen, <1>debt, <1>blank DEF HooksInv

\* A clean exit of unproved hooks takes the file down, or leaves it stuck.
LEMMA ExitKeeps == ASSUME HooksInv, Hooks!Exit PROVE HooksInv'
<1>f. HooksFlags'
  BY FlagsStay DEF HooksInv, HooksTypeOK, Hooks!Next
<1>1. /\ run' = Hooks!NoRun /\ ~died' /\ UNCHANGED <<deaths, trips>>
      /\ \/ /\ run.armed /\ ~run.confirmed
            /\ ~stuck' => ~stuck /\ ~file'
         \/ ~(run.made /\ ~run.confirmed /\ run.armed) /\ UNCHANGED <<file, stuck>>
  BY DEF Hooks!Exit, Hooks!DeleteFile
<1>3. /\ run' \in RunType /\ ~run'.up /\ ~run'.fixes /\ ~run'.made /\ ~run'.armed
      /\ ~run'.recoveryDisabled
      /\ ~run'.device /\ ~run'.swapChain /\ ~run'.factory /\ ~run'.confirmed /\ ~run'.touched
      /\ ~run'.guarded /\ run'.pc = "idle"
  BY <1>1, NoRunFacts
<1>types. HooksTypeOK'
  BY <1>f, <1>1, <1>3 DEF HooksInv, HooksTypeOK, RunType
<1>decided. Decided'
  BY <1>1, <1>3 DEF HooksInv, HooksTypeOK, Decided, Hooks!Refused, Hooks!RecoveryIsBare, RunType
<1>guarded. Guarded'
  BY <1>1, <1>3 DEF HooksInv, HooksTypeOK, Guarded, Decided, Blank, Hooks!Refused, RunType
<1>seen. DeathIsSeen'
  BY <1>1, <1>3 DEF HooksInv, HooksTypeOK, DeathIsSeen, Guarded, Decided, Hooks!Refused, RunType
<1>debt. FileIsDebt'
  BY <1>1, <1>3 DEF HooksInv, HooksTypeOK, FileIsDebt, Guarded, Decided, DeathIsSeen, Blank,
      Hooks!Refused, RunType
<1>blank. Blank'
  BY <1>1, <1>3 DEF HooksInv, HooksTypeOK, Blank, RunType
<1> QED
  BY <1>types, <1>decided, <1>guarded, <1>seen, <1>debt, <1>blank DEF HooksInv

\* The invariant is inductive.
LEMMA HooksKeep == HooksInv /\ [Hooks!Next]_hookVars => HooksInv'
<1> SUFFICES ASSUME HooksInv, [Hooks!Next]_hookVars PROVE HooksInv'
  OBVIOUS
<1>1. CASE Hooks!Next
  BY <1>1, LaunchKeeps, CreateDeviceKeeps, DeclineDeviceKeeps, FixesOffKeeps, RecoverKeeps,
     TableUnusableKeeps, ArmKeeps, CommitKeeps, CommitFailsKeeps, ChainKeeps,
     AbsorbFaultKeeps, CreateSwapChainKeeps, PresentKeeps, PresentWithoutDeviceKeeps, CrashKeeps,
     ExitKeeps DEF Hooks!Next
<1>2. CASE UNCHANGED hookVars
  BY <1>2
  DEF hookVars, HooksInv, HooksTypeOK, HooksFlags, Decided, Guarded, DeathIsSeen, FileIsDebt,
              Blank, Hooks!Refused, Hooks!RecoveryIsBare
<1> QED
  BY <1>1, <1>2

\* Nothing has been started and no file is there.
LEMMA HooksStart == PartsInit => HooksInv
<1> SUFFICES ASSUME PartsInit PROVE HooksInv
  OBVIOUS
<1>1. /\ file = FALSE /\ run = Hooks!NoRun /\ died = FALSE /\ stuck = FALSE
      /\ deaths = 0 /\ trips = 0
  BY DEF PartsInit, Hooks!Init
<1>2. HooksFlags
  BY <1>1, Zenon DEF HooksFlags
<1>3. HooksInv
  BY <1>1, <1>2, NoRunFacts
  DEF HooksInv, HooksTypeOK, Decided, Guarded, DeathIsSeen, FileIsDebt, Blank, Hooks!Refused,
      Hooks!RecoveryIsBare
<1> QED
  BY <1>3

\* A step of the parts is a step of the hooks or leaves them alone.
LEMMA HooksStep == [PartsNext]_<<vars, skyVars, hookVars, logVars>> => [Hooks!Next]_hookVars
  BY Zenon DEF PartsNext

\* What the contract says is part of the invariant.
LEMMA HooksInvImplies == HooksInv => SentinelContract
<1> SUFFICES ASSUME HooksInv PROVE SentinelContract
  OBVIOUS
<1>1. Hooks!Protects
  BY DEF HooksInv, HooksTypeOK, RunType, Decided, DeathIsSeen, Hooks!Protects, Blank, Guarded
<1>2. Hooks!OneSession
  BY DEF HooksInv, FileIsDebt, Hooks!OneSession
<1> QED
  BY <1>1, <1>2 DEF HooksInv, Decided, SentinelContract, Hooks!SentinelContract

\* However often the game is started, and wherever in its start a process dies:
\* after a death of unproved hooks the next process patches nothing, that death
\* costs one session and nothing else costs any, and a process that recovers has
\* no hook (device_hook.cpp:2187-2395, 2744-2777; guard.cpp:146-213).
THEOREM KeepsSentinel == PartsSpec => []SentinelContract
<1>1. PartsInit => HooksInv
  BY HooksStart
<1>2. HooksInv /\ [PartsNext]_<<vars, skyVars, hookVars, logVars>> => HooksInv'
  BY HooksStep, HooksKeep
<1>3. HooksInv => SentinelContract
  BY HooksInvImplies
<1> QED
  BY <1>1, <1>2, <1>3, PTL DEF PartsSpec

-----------------------------------------------------------------------------
\* A slot with pixels in P that its mutex agrees with; one that is not up is new.
SlotOK(s, P) ==
  /\ s \in SlotType(P, Sizes) /\ SlotConsistent(s)
  /\ ~s.up => s = NewSlot

\* An answer: such a slot, and a result.
AnswerOK(a, P) == SlotOK(a.slot, P) /\ a.result \in {"ok", "failed"}

\* The two parts of an answer.
LEMMA AnswerIs == ASSUME NEW s, NEW r PROVE Answer(s, r).slot = s /\ Answer(s, r).result = r
  BY DEF Answer

\* A new slot is in order.
LEMMA NewIsOK == ASSUME NEW P, 0 \in P PROVE SlotOK(NewSlot, P)
  BY DEF SlotOK, NewSlot, SlotType, SlotConsistent

\* So is one that has been initialized and not used.
LEMMA UpIsOK ==
  ASSUME NEW P, SlotOK(NewSlot, P)
  PROVE  SlotOK([NewSlot EXCEPT !.up = TRUE], P)
<1> DEFINE n == [NewSlot EXCEPT !.up = TRUE]
<1>1. n \in SlotType(P, Sizes)
  BY DEF SlotOK, SlotType
<1>2. n.up /\ ~n.faulted /\ ~n.pending /\ n.key = 0
  BY DEF NewSlot
<1> QED
  BY <1>1, <1>2 DEF SlotOK, SlotConsistent

\* A new slot that may have been initialized.
LEMMA OneUp ==
  ASSUME NEW u \in BOOLEAN
  PROVE  [NewSlot EXCEPT !.up = u] \in {NewSlot, [NewSlot EXCEPT !.up = TRUE]}
<1>1. CASE u = TRUE
  BY <1>1
<1>2. CASE u = FALSE
  <2>1. NewSlot.up = FALSE
    BY DEF NewSlot
  <2>2. ASSUME NEW r \in SlotType({0}, Sizes), r.up = FALSE PROVE r = [r EXCEPT !.up = FALSE]
    BY <2>2 DEF SlotType
  <2>3. NewSlot \in SlotType({0}, Sizes)
    BY DEF SlotType, NewSlot
  <2> QED
    BY <1>2, <2>1, <2>2, <2>3
<1> QED
  BY <1>1, <1>2

\* Initializing a slot when it is not up keeps its pixels and its handoff.
LEMMA OpenedFacts ==
  ASSUME NEW P, NEW s, SlotOK(s, P), NEW a \in Opened(s)
  PROVE  /\ AnswerOK(a, P) /\ (a.result = "ok" => a.slot.up)
         /\ a.slot.private = s.private /\ a.slot.pending = s.pending /\ a.slot.size = s.size
<1>1. CASE s.up \/ s.faulted
  BY <1>1 DEF Opened, Answer, AnswerOK, SlotOK, SlotConsistent
<1>2. CASE ~s.up /\ ~s.faulted
  <2> DEFINE u == [s EXCEPT !.up = TRUE]
  <2>1. SlotOK(u, P) /\ u.up /\ u.private = s.private /\ u.pending = s.pending /\ u.size = s.size
    <3>1. s \in SlotType(P, Sizes) /\ s = NewSlot /\ 0 \in P
      BY <1>2 DEF SlotOK, SlotType, NewSlot
    <3>2. u \in SlotType(P, Sizes)
      BY <3>1 DEF SlotType
    <3>3. u.up /\ u.key = 0 /\ ~u.pending /\ ~u.faulted
      BY <3>1 DEF NewSlot
    <3>4. u.private = s.private /\ u.pending = s.pending /\ u.size = s.size
      BY <3>1 DEF SlotType
    <3> QED
      BY <3>2, <3>3, <3>4 DEF SlotOK, SlotConsistent
  <2>2. a \in {Answer(u, "ok"), Answer(s, "failed")}
    BY <1>2 DEF Opened, Initialize
  <2> HIDE DEF u
  <2> QED
    BY <2>1, <2>2, AnswerIs DEF AnswerOK
<1> QED
  BY <1>1, <1>2

\* A fault keeps the pixels and the handoff.
LEMMA FaultFacts ==
  ASSUME NEW P, NEW s, SlotOK(s, P), s.up
  PROVE  /\ SlotOK(Fault(s), P) /\ Fault(s).faulted /\ Fault(s).up
         /\ Fault(s).private = s.private /\ Fault(s).size = s.size
         /\ Fault(s).pending = s.pending /\ (~s.pending => ~Fault(s).pending)
  BY DEF Fault, SlotOK, SlotType, SlotConsistent

\* consume(): only an answer S_OK takes the handoff, and the private texture then
\* shows what was shared (shared_texture_transfer.cpp).
LEMMA ReceiveFacts ==
  ASSUME NEW P, NEW s, SlotOK(s, P), NEW a \in Receive(s)
  PROVE  /\ AnswerOK(a, P)
         /\ a.result = "ok" => /\ s.up /\ ~s.faulted /\ s.pending
                               /\ a.slot.private = s.shared /\ ~a.slot.pending
         /\ (a.result # "ok" => a.slot.pending = s.pending)
         /\ a.slot.size = s.size /\ (s.up => a.slot.up)
<1>1. CASE ~s.up \/ s.faulted \/ ~s.pending
  BY <1>1 DEF Receive, Answer, AnswerOK
<1>2. CASE s.up /\ ~s.faulted /\ s.pending
  <2> DEFINE r == [s EXCEPT !.private = s.shared, !.key = 0, !.pending = FALSE]
             k == [s EXCEPT !.private = s.shared, !.key = 0]
  <2>0. s \in SlotType(P, Sizes)
    BY DEF SlotOK
  <2>a. r \in SlotType(P, Sizes)
    BY <2>0 DEF SlotType
  <2>b. r.private = s.shared /\ ~r.pending /\ r.size = s.size /\ r.up /\ ~r.faulted /\ r.key = 0
    BY <1>2, <2>0 DEF SlotType
  <2>1. SlotOK(r, P) 
    BY <2>a, <2>b DEF SlotOK, SlotConsistent
  <2>2. SlotOK(Fault(k), P) /\ Fault(k).pending = s.pending /\ Fault(k).size = s.size /\ Fault(k).up
    BY <1>2 DEF SlotOK, SlotType, SlotConsistent, Fault
  <2>3. a \in {Answer(r, "ok"), Answer(s, "failed"), Answer(Fault(s), "failed"),
               Answer(Fault(k), "failed")}
    BY <1>2 DEF Receive
  <2> HIDE DEF r, k
  <2> QED
    <3>1. CASE a = Answer(r, "ok")
      <4>1. a.slot = r /\ a.result = "ok"
        BY <3>1, AnswerIs
      <4> QED
        BY <1>2, <2>1, <2>b, <4>1 DEF AnswerOK
    <3>2. CASE a = Answer(s, "failed")
      <4>1. a.slot = s /\ a.result = "failed"
        BY <3>2, AnswerIs
      <4> QED
        BY <4>1 DEF AnswerOK
    <3>3. CASE a = Answer(Fault(s), "failed")
      <4>1. a.slot = Fault(s) /\ a.result = "failed"
        BY <3>3, AnswerIs
      <4>2. SlotOK(a.slot, P) /\ a.slot.pending = s.pending /\ a.slot.size = s.size /\ a.slot.up
        <5>1. /\ SlotOK(Fault(s), P) /\ Fault(s).up
              /\ Fault(s).pending = s.pending /\ Fault(s).size = s.size
          BY <1>2, FaultFacts
        <5> QED
          BY <4>1, <5>1
      <4> QED
        BY <4>1, <4>2 DEF AnswerOK
    <3>4. CASE a = Answer(Fault(k), "failed")
      <4>1. a.slot = Fault(k) /\ a.result = "failed"
        BY <3>4, AnswerIs
      <4> QED
        BY <2>2, <4>1 DEF AnswerOK
    <3> QED
      BY <2>3, <3>1, <3>2, <3>3, <3>4
<1> QED
  BY <1>1, <1>2

\* createResources(): no handoff is pending after it, and the size is the new one.
LEMMA SizedFacts ==
  ASSUME NEW P, 0 \in P, NEW s, SlotOK(s, P), s.up, ~s.faulted, ~s.pending, NEW size \in Sizes,
         NEW a \in Sized(s, size)
  PROVE  /\ AnswerOK(a, P) /\ a.slot.up /\ ~a.slot.pending
         /\ a.result = "ok" => ~a.slot.faulted /\ a.slot.size = size /\ a.slot.key = 0
<1>0. size # 0 /\ s \in SlotType(P, Sizes)
  BY EyeTransferAssumption DEF SlotOK, EyeTransferAssumption
<1>1. s.key = 0
  BY <1>0 DEF SlotOK, SlotType, SlotConsistent
<1> DEFINE n == [s EXCEPT !.size = size, !.shared = 0, !.private = 0, !.key = 0]
<1>2. n \in SlotType(P, Sizes)
  BY <1>0 DEF SlotType
<1>3. n.up /\ ~n.faulted /\ ~n.pending /\ n.size = size /\ n.key = 0
  BY <1>0 DEF SlotType
<1>4. SlotOK(n, P)
  BY <1>2, <1>3 DEF SlotOK, SlotConsistent
<1>5. \/ s.size = size /\ a = Answer(s, "ok")
      \/ a = Answer(n, "ok") \/ a = Answer(s, "failed") \/ a = Answer(Fault(s), "failed")
  BY DEF Sized
<1> HIDE DEF n
<1>6. CASE s.size = size /\ a = Answer(s, "ok")
  <2>1. a.slot = s /\ a.result = "ok"
    BY <1>6, AnswerIs
  <2> QED
    BY <1>1, <1>6, <2>1 DEF AnswerOK
<1>7. CASE a = Answer(n, "ok")
  <2>1. a.slot = n /\ a.result = "ok"
    BY <1>7, AnswerIs
  <2> QED
    BY <1>3, <1>4, <2>1 DEF AnswerOK
<1>8. CASE a = Answer(s, "failed")
  <2>1. a.slot = s /\ a.result = "failed"
    BY <1>8, AnswerIs
  <2> QED
    BY <2>1 DEF AnswerOK
<1>9. CASE a = Answer(Fault(s), "failed")
  <2>1. a.slot = Fault(s) /\ a.result = "failed"
    BY <1>9, AnswerIs
  <2>2. SlotOK(a.slot, P) /\ a.slot.up /\ ~a.slot.pending
    BY <2>1, FaultFacts
  <2> QED
    BY <2>1, <2>2 DEF AnswerOK
<1> QED
  BY <1>5, <1>6, <1>7, <1>8, <1>9

\* producerCopy(): only an answer S_OK publishes a handoff, of these pixels.
LEMMA ProduceFacts ==
  ASSUME NEW P, NEW pix \in P, NEW s, SlotOK(s, P), s.up, ~s.faulted, ~s.pending, s.size # 0,
         NEW a \in Produce(s, pix)
  PROVE  /\ AnswerOK(a, P) /\ a.slot.up
         /\ a.result = "ok" => ~a.slot.faulted /\ a.slot.pending /\ a.slot.shared = pix
         /\ a.result # "ok" => ~a.slot.pending
<1>0. s \in SlotType(P, Sizes)
  BY DEF SlotOK
<1> DEFINE n == [s EXCEPT !.shared = pix, !.key = 1, !.pending = TRUE]
<1>2. n \in SlotType(P, Sizes)
  BY <1>0 DEF SlotType
<1>3. n.up /\ ~n.faulted /\ n.pending /\ n.size # 0 /\ n.key = 1 /\ n.shared = pix
  BY <1>0 DEF SlotType
<1>4. SlotOK(n, P)
  BY <1>2, <1>3 DEF SlotOK, SlotConsistent
<1>5. a = Answer(n, "ok") \/ a = Answer(s, "failed") \/ a = Answer(Fault(s), "failed")
  BY DEF Produce
<1> HIDE DEF n
<1>7. CASE a = Answer(n, "ok")
  <2>1. a.slot = n /\ a.result = "ok"
    BY <1>7, AnswerIs
  <2> QED
    BY <1>3, <1>4, <2>1 DEF AnswerOK
<1>8. CASE a = Answer(s, "failed")
  <2>1. a.slot = s /\ a.result = "failed"
    BY <1>8, AnswerIs
  <2> QED
    BY <2>1 DEF AnswerOK
<1>9. CASE a = Answer(Fault(s), "failed")
  <2>1. a.slot = Fault(s) /\ a.result = "failed"
    BY <1>9, AnswerIs
  <2>2. SlotOK(a.slot, P) /\ a.slot.up /\ ~a.slot.pending
    BY <2>1, FaultFacts
  <2> QED
    BY <2>1, <2>2 DEF AnswerOK
<1> QED
  BY <1>5, <1>7, <1>8, <1>9

\* enqueue(): an accepted texture is pending; a refused one leaves no new handoff.
LEMMA EnqueueFacts ==
  ASSUME NEW P, 0 \in P, NEW pix \in P, NEW size \in Sizes, NEW s, SlotOK(s, P),
         NEW a \in Enqueue(s, pix, size)
  PROVE  /\ AnswerOK(a, P)
         /\ a.result = "ok" => /\ ~s.pending /\ a.slot.up /\ ~a.slot.faulted
                               /\ a.slot.pending /\ a.slot.shared = pix
         /\ a.result # "ok" => (a.slot.pending => s.pending)
<1>1. CASE ~s.up \/ s.faulted \/ s.pending
  <2>1. a = Answer(s, "failed")
    BY <1>1 DEF Enqueue
  <2>2. a.slot = s /\ a.result = "failed"
    BY <2>1, AnswerIs
  <2> QED
    BY <2>2 DEF AnswerOK
<1>2. CASE s.up /\ ~s.faulted /\ ~s.pending
  <2>0. size # 0
    BY EyeTransferAssumption DEF EyeTransferAssumption
  <2>1. PICK b \in Sized(s, size) : a \in IF b.result = "ok" THEN Produce(b.slot, pix) ELSE {b}
    BY <1>2 DEF Enqueue, Then
  <2>2. /\ AnswerOK(b, P) /\ b.slot.up /\ ~b.slot.pending
        /\ b.result = "ok" => ~b.slot.faulted /\ b.slot.size = size /\ b.slot.key = 0
    BY <1>2, SizedFacts
  <2>3. CASE b.result = "ok"
    BY <1>2, <2>0, <2>1, <2>2, <2>3, ProduceFacts DEF AnswerOK
  <2>4. CASE b.result # "ok"
    BY <2>1, <2>2, <2>4
  <2> QED
    BY <2>3, <2>4
<1> QED
  BY <1>1, <1>2

\* copy(): after an answer S_OK the private texture shows the pixels that were sent.
LEMMA CopyFacts ==
  ASSUME NEW P, 0 \in P, NEW pix \in P, NEW size \in Sizes, NEW s, SlotOK(s, P),
         NEW a \in Copy(s, pix, size)
  PROVE  AnswerOK(a, P) /\ (a.result = "ok" => a.slot.private = pix)
<1>1. PICK b \in Enqueue(s, pix, size) : a \in IF b.result = "ok" THEN Receive(b.slot) ELSE {b}
  BY DEF Copy, Then
<1>2. AnswerOK(b, P) /\ (b.result = "ok" => b.slot.shared = pix)
  BY EnqueueFacts
<1>3. CASE b.result = "ok"
  BY <1>1, <1>2, <1>3, ReceiveFacts DEF AnswerOK
<1>4. CASE b.result # "ok"
  BY <1>1, <1>2, <1>4
<1> QED
  BY <1>3, <1>4

\* Receiving an older handoff leaves none, or the one that was there.
LEMMA EmptiedFacts ==
  ASSUME NEW P, NEW s, SlotOK(s, P), NEW a \in Emptied(s)
  PROVE  /\ AnswerOK(a, P)
         /\ a.result = "ok" => ~a.slot.pending
         /\ a.slot.pending => s.pending
         /\ s.up => a.slot.up
<1>1. CASE s.pending
  BY <1>1, ReceiveFacts DEF Emptied
<1>2. CASE ~s.pending
  <2>1. a = Answer(s, "ok")
    BY <1>2 DEF Emptied
  <2>2. a.slot = s /\ a.result = "ok"
    BY <2>1, AnswerIs
  <2> QED
    BY <1>2, <2>2 DEF AnswerOK
<1> QED
  BY <1>1, <1>2

\* shutdown(): after an answer S_OK the slot is new again.
LEMMA ShutdownFacts ==
  ASSUME NEW P, 0 \in P, NEW s, SlotOK(s, P), NEW a \in Shutdown(s)
  PROVE  AnswerOK(a, P) /\ (a.result = "ok" => a.slot = NewSlot)
<1>1. CASE ~s.up \/ s.faulted
  <2>1. (a = Answer(s, "ok") /\ ~s.up) \/ a = Answer(s, "failed")
    BY <1>1 DEF Shutdown
  <2>2. a.slot = s /\ ((~s.up /\ a.result = "ok") \/ a.result = "failed")
    BY <2>1, AnswerIs
  <2> QED
    BY <2>2 DEF AnswerOK, SlotOK
<1>2. CASE s.up /\ ~s.faulted
  <2>1. PICK b \in Emptied(s) : a \in IF b.result = "ok" THEN Drained(b.slot) ELSE {b}
    BY <1>2 DEF Shutdown, Then
  <2>2. AnswerOK(b, P) /\ b.slot.up
    BY <1>2, EmptiedFacts
  <2>3. CASE b.result = "ok"
    <3>1. \/ a = Answer(NewSlot, "ok") \/ a = Answer(b.slot, "failed")
          \/ a = Answer(Fault(b.slot), "failed")
      BY <2>1, <2>3 DEF Drained
    <3>2. \/ a.slot = NewSlot /\ a.result = "ok"
          \/ a.slot \in {b.slot, Fault(b.slot)} /\ a.result = "failed"
      BY <3>1, AnswerIs
    <3>3. SlotOK(NewSlot, P) /\ SlotOK(b.slot, P) /\ SlotOK(Fault(b.slot), P)
      BY <2>2, NewIsOK, FaultFacts DEF AnswerOK
    <3> QED
      BY <3>2, <3>3 DEF AnswerOK
  <2>4. CASE b.result # "ok"
    BY <2>1, <2>2, <2>4
  <2> QED
    BY <2>3, <2>4
<1> QED
  BY <1>1, <1>2

\* The skybox's slots are the slots above.
LEMMA SameSlots ==
  /\ Skybox!NewSlot = NewSlot
  /\ \A P, S : Skybox!SlotType(P, S) = SlotType(P, S)
  /\ \A s : Skybox!SlotConsistent(s) = SlotConsistent(s)
<1>1. Skybox!NewSlot = NewSlot
  BY DEF Skybox!NewSlot, NewSlot
<1>2. \A P, S : Skybox!SlotType(P, S) = SlotType(P, S)
  BY DEF Skybox!SlotType, SlotType
<1>3. \A s : Skybox!SlotConsistent(s) = SlotConsistent(s)
  BY DEF Skybox!SlotConsistent, SlotConsistent
<1> QED
  BY <1>1, <1>2, <1>3

\* The skybox's operations on a slot are the operations above.
LEMMA SameOps ==
  ASSUME NEW s
  PROVE /\ Skybox!Opened(s) = Opened(s)
        /\ Skybox!Emptied(s) = Emptied(s)
        /\ Skybox!Shutdown(s) = Shutdown(s)
        /\ \A p, z : Skybox!Copy(s, p, z) = Copy(s, p, z)
<1>1. Skybox!Opened(s) = Opened(s)
  BY DEF Skybox!Opened, Opened, Skybox!Initialize, Initialize, Skybox!Answer, Answer
<1>2. Skybox!Emptied(s) = Emptied(s)
  BY
  DEF Skybox!Emptied, Emptied, Skybox!Receive, Receive, Skybox!Answer, Answer, Skybox!Fault,
      Fault
<1>3. Skybox!Shutdown(s) = Shutdown(s)
  BY
  DEF Skybox!Shutdown, Shutdown, Skybox!Drained, Drained, Skybox!Then, Then, Skybox!NewSlot,
      NewSlot, Skybox!Emptied, Emptied, Skybox!Receive, Receive, Skybox!Answer, Answer,
      Skybox!Fault, Fault
<1>4. \A p, z : Skybox!Copy(s, p, z) = Copy(s, p, z)
  BY
  DEF Skybox!Copy, Copy, Skybox!Enqueue, Enqueue, Skybox!Sized, Sized, Skybox!Produce, Produce,
      Skybox!Then, Then, Skybox!Receive, Receive, Skybox!Answer, Answer, Skybox!Fault, Fault
<1> QED
  BY <1>1, <1>2, <1>3, <1>4

\* One face of a set: whatever it answers the slot is in order, and an accepted
\* face shows the set.
LEMMA FaceFacts ==
  ASSUME NEW P, 0 \in P, NEW set \in P, NEW size \in Sizes, NEW s, SlotOK(s, P),
         NEW a \in Skybox!FaceCopied(s, set, size)
  PROVE  AnswerOK(a, P) /\ (a.result = "ok" => a.slot.private = set)
<1>1. PICK c \in Skybox!Then(Skybox!Opened(s), Skybox!Emptied) :
         a \in IF c.result = "ok" THEN Skybox!Copy(c.slot, set, size) ELSE {c}
  BY DEF Skybox!FaceCopied, Skybox!Then
<1>2. PICK b \in Skybox!Opened(s) :
         c \in IF b.result = "ok" THEN Skybox!Emptied(b.slot) ELSE {b}
  BY <1>1 DEF Skybox!Then
<1>3. AnswerOK(b, P)
  BY <1>2, SameOps, OpenedFacts
<1>4. AnswerOK(c, P)
  <2>1. CASE b.result = "ok"
    BY <1>2, <1>3, <2>1, SameOps, EmptiedFacts DEF AnswerOK
  <2>2. CASE b.result # "ok"
    BY <1>2, <1>3, <2>2
  <2> QED
    BY <2>1, <2>2
<1>5. CASE c.result = "ok"
  <2>1. a \in Copy(c.slot, set, size)
    BY <1>1, <1>5, SameOps
  <2>2. SlotOK(c.slot, P)
    BY <1>4 DEF AnswerOK
  <2> QED
    BY <2>1, <2>2, CopyFacts
<1>6. CASE c.result # "ok"
  BY <1>1, <1>4, <1>6
<1> QED
  BY <1>5, <1>6

\* The pixels of a face: the number of its set.
SkyPixels == 0 .. MaxSets
\* Every slot of both banks is in order.
SkySlots ==
  /\ skySlots \in [Skybox!Bank -> [Skybox!Face -> SlotType(SkyPixels, Sizes)]]
  /\ \A b \in Skybox!Bank, f \in Skybox!Face : SlotOK(skySlots[b][f], SkyPixels)

\* The inductive invariant of the skybox: the property, with every slot in order.
SkyInv ==
  /\ skyHost \in {"up", "retained", "released"}
  /\ SkySlots
  /\ sets \in SkyPixels /\ published \in SkyPixels
  /\ committed \in {0, 1, 2}
  /\ complete <=> committed # 0
  /\ skyHost = "up" /\ complete => \A f \in Skybox!Face : skySlots[committed][f].private = published
  /\ skyHost = "released" =>
       ~complete /\ \A b \in Skybox!Bank, f \in Skybox!Face : skySlots[b][f] = NewSlot

\* No skybox is published.
LEMMA SkyStart == PartsInit => SkyInv
<1> SUFFICES ASSUME PartsInit PROVE SkyInv
  OBVIOUS
<1>1. /\ skyHost = "up" /\ committed = 0 /\ complete = FALSE /\ sets = 0 /\ published = 0
      /\ skySlots = [b \in Skybox!Bank |-> [f \in Skybox!Face |->
                       [NewSlot EXCEPT !.up = (b = 1 /\ f = 1)]]]
  BY SameSlots DEF PartsInit, Skybox!Init
<1>2. 0 \in SkyPixels
  BY PartsAssumption DEF SkyPixels, PartsAssumption
<1>3. NewSlot \in SlotType(SkyPixels, Sizes) /\ SlotOK(NewSlot, SkyPixels)
  BY <1>2, NewIsOK DEF SlotOK
<1> DEFINE n == [NewSlot EXCEPT !.up = TRUE]
<1>4. n \in SlotType(SkyPixels, Sizes) /\ SlotOK(n, SkyPixels)
  BY <1>3, UpIsOK DEF SlotOK
<1>6. \A b \in Skybox!Bank, f \in Skybox!Face :
         [NewSlot EXCEPT !.up = (b = 1 /\ f = 1)] \in {NewSlot, n}
  BY OneUp
<1> HIDE DEF n
<1>7. SkySlots
  BY <1>1, <1>3, <1>4, <1>6 DEF SkySlots
<1> QED
  BY <1>1, <1>2, <1>7 DEF SkyInv

\* A set writes to the bank that is not published, and publishes it when its last
\* face arrived (skybox_capture.cpp:168-205).
LEMMA SetKeeps == SkyInv /\ Skybox!SetSkybox => SkyInv'
<1> SUFFICES ASSUME SkyInv, Skybox!SetSkybox PROVE SkyInv'
  OBVIOUS
<1> DEFINE i == Skybox!Inactive
<1>1. i \in {1, 2} /\ i # committed
  BY DEF SkyInv, Skybox!Inactive
<1>2. PICK size \in Sizes, last \in Skybox!Face :
          \E d \in [1 .. last -> UNION {Skybox!FaceCopied(skySlots[i][f], sets + 1, size) :
                                          f \in 1 .. last}] :
                /\ \A f \in 1 .. last : d[f] \in Skybox!FaceCopied(skySlots[i][f], sets + 1, size)
                /\ \A f \in 1 .. last - 1 : d[f].result = "ok"
                /\ d[last].result = "ok" => last = NumFaces
                /\ skySlots' = [skySlots EXCEPT ![i] =
                      [f \in Skybox!Face |-> IF f <= last THEN d[f].slot ELSE @[f]]]
                /\ IF d[last].result = "ok"
                   THEN committed' = i /\ complete' = TRUE /\ published' = sets + 1
                   ELSE UNCHANGED <<committed, complete, published>>
  BY DEF Skybox!SetSkybox
<1>3. PICK d \in [1 .. last -> UNION {Skybox!FaceCopied(skySlots[i][f], sets + 1, size) :
                                       f \in 1 .. last}] :
                /\ \A f \in 1 .. last : d[f] \in Skybox!FaceCopied(skySlots[i][f], sets + 1, size)
                /\ \A f \in 1 .. last - 1 : d[f].result = "ok"
                /\ d[last].result = "ok" => last = NumFaces
                /\ skySlots' = [skySlots EXCEPT ![i] =
                      [f \in Skybox!Face |-> IF f <= last THEN d[f].slot ELSE @[f]]]
                /\ IF d[last].result = "ok"
                   THEN committed' = i /\ complete' = TRUE /\ published' = sets + 1
                   ELSE UNCHANGED <<committed, complete, published>>
  BY <1>2
<1> HIDE DEF i
<1>4. /\ skyHost = "up" /\ skyHost' = "up" /\ sets' = sets + 1
      /\ sets' \in SkyPixels /\ sets + 1 \in SkyPixels /\ 0 \in SkyPixels
  <2>1. skyHost = "up" /\ skyHost' = skyHost /\ sets < MaxSets /\ sets' = sets + 1
    BY DEF Skybox!SetSkybox
  <2>2. sets \in SkyPixels /\ MaxSets \in Nat
    BY PartsAssumption DEF SkyInv, PartsAssumption
  <2> QED
    BY <2>1, <2>2 DEF SkyPixels
<1>5. last \in 1 .. NumFaces /\ NumFaces \in Nat /\ Skybox!Face = 1 .. NumFaces
  BY PartsAssumption DEF Skybox!Face, PartsAssumption
<1>6. \A f \in 1 .. last : SlotOK(skySlots[i][f], SkyPixels)
  <2>1. 1 .. last \subseteq Skybox!Face
    BY <1>5
  <2> QED
    BY <1>1, <2>1 DEF SkyInv, SkySlots, Skybox!Bank
<1>7. \A f \in 1 .. last : /\ AnswerOK(d[f], SkyPixels)
                           /\ d[f].result = "ok" => d[f].slot.private = sets + 1
  BY <1>3, <1>4, <1>6, FaceFacts
<1>8. /\ \A f \in Skybox!Face : skySlots'[i][f] = IF f <= last THEN d[f].slot ELSE skySlots[i][f]
      /\ \A b \in Skybox!Bank \ {i} : skySlots'[b] = skySlots[b]
      /\ DOMAIN skySlots' = Skybox!Bank
      /\ \A b \in Skybox!Bank : DOMAIN skySlots'[b] = Skybox!Face
      /\ skySlots' \in [Skybox!Bank -> [Skybox!Face -> SlotType(SkyPixels, Sizes)]]
  BY <1>1, <1>3, <1>5, <1>7 DEF SkyInv, SkySlots, Skybox!Bank, AnswerOK, SlotOK
<1>9. SkySlots'
  <2>1. ASSUME NEW b \in Skybox!Bank, NEW f \in Skybox!Face PROVE SlotOK(skySlots'[b][f], SkyPixels)
    <3>1. SlotOK(skySlots[b][f], SkyPixels)
      BY DEF SkyInv, SkySlots
    <3>2. CASE b # i
      BY <1>8, <3>1, <3>2
    <3>3. CASE b = i /\ f <= last
      <4>1. f \in 1 .. last /\ skySlots'[b][f] = d[f].slot
        BY <1>5, <1>8, <3>3
      <4> QED
        BY <1>7, <4>1 DEF AnswerOK
    <3>4. CASE b = i /\ ~(f <= last)
      BY <1>8, <3>1, <3>4
    <3> QED
      BY <3>2, <3>3, <3>4
  <2> QED
    BY <1>8, <2>1 DEF SkySlots, SkyPixels
<1>10. CASE d[last].result = "ok"
  <2>1. \A f \in Skybox!Face : skySlots'[i][f].private = sets + 1
    BY <1>3, <1>5, <1>7, <1>8, <1>10
  <2>2. committed' = i /\ complete' = TRUE /\ published' = sets + 1
    BY <1>3, <1>10
  <2> QED
    BY <1>1, <1>4, <1>9, <2>1, <2>2 DEF SkyInv, SkyPixels
<1>11. CASE d[last].result # "ok"
  <2>1. committed' = committed /\ complete' = complete /\ published' = published
    BY <1>3, <1>11
  <2>2. complete => skySlots'[committed] = skySlots[committed]
    BY <1>1, <1>8 DEF SkyInv, Skybox!Bank
  <2> QED
    BY <1>4, <1>9, <2>1, <2>2 DEF SkyInv, SkyPixels
<1> QED
  BY <1>10, <1>11

\* A capture that says it is released has retired every transfer.
LEMMA ShutdownKeeps == SkyInv /\ Skybox!ShutdownShared => SkyInv'
<1> SUFFICES ASSUME SkyInv, Skybox!ShutdownShared PROVE SkyInv'
  OBVIOUS
<1>1. PICK d1 \in Skybox!RetiredBank(1), d2 \in Skybox!RetiredBank(2) :
          LET d == <<d1, d2>>
              done == \A b \in Skybox!Bank, f \in Skybox!Face : d[b][f].result = "ok"
          IN  /\ skySlots' = [b \in Skybox!Bank |-> [f \in Skybox!Face |-> d[b][f].slot]]
              /\ skyHost' = IF done THEN "released" ELSE "retained"
              /\ committed' = IF done THEN 0 ELSE committed
              /\ complete' = (complete /\ ~done)
  BY DEF Skybox!ShutdownShared
<1> DEFINE d == <<d1, d2>>
           done == \A b \in Skybox!Bank, f \in Skybox!Face : d[b][f].result = "ok"
<1>2. ASSUME NEW b \in Skybox!Bank, NEW f \in Skybox!Face
      PROVE  AnswerOK(d[b][f], SkyPixels) /\ (d[b][f].result = "ok" => d[b][f].slot = NewSlot)
  <2>1. d[b] \in Skybox!RetiredBank(b)
    BY DEF Skybox!Bank
  <2>2. d[b][f] \in Shutdown(skySlots[b][f])
    BY <2>1, SameOps DEF Skybox!RetiredBank
  <2>3. 0 \in SkyPixels /\ SlotOK(skySlots[b][f], SkyPixels)
    BY PartsAssumption DEF SkyPixels, SkyInv, SkySlots, PartsAssumption
  <2> HIDE DEF d
  <2> QED
    BY <2>2, <2>3, ShutdownFacts
<1>3. /\ skySlots' = [b \in Skybox!Bank |-> [f \in Skybox!Face |-> d[b][f].slot]]
      /\ skyHost' = IF done THEN "released" ELSE "retained"
      /\ committed' = IF done THEN 0 ELSE committed
      /\ complete' = (complete /\ ~done)
      /\ sets' = sets /\ published' = published
  BY <1>1 DEF Skybox!ShutdownShared
<1> HIDE DEF d
<1>4. SkySlots'
  <2>1. \A b \in Skybox!Bank, f \in Skybox!Face :
          d[b][f].slot \in SlotType(SkyPixels, Sizes) /\ SlotOK(d[b][f].slot, SkyPixels)
    BY <1>2 DEF AnswerOK, SlotOK
  <2> QED
    BY <1>3, <2>1 DEF SkySlots, SkyPixels
<1>5. CASE done
  <2>1. \A b \in Skybox!Bank, f \in Skybox!Face : skySlots'[b][f] = NewSlot
    BY <1>2, <1>3, <1>5
  <2> QED
    BY <1>3, <1>4, <1>5, <2>1 DEF SkyInv, SkyPixels
<1>6. CASE ~done
  BY <1>3, <1>4, <1>6 DEF SkyInv, SkyPixels
<1> QED
  BY <1>5, <1>6

\* The invariant is inductive.
LEMMA SkyKeeps == SkyInv /\ [Skybox!Next]_skyVars => SkyInv'
<1> SUFFICES ASSUME SkyInv, [Skybox!Next]_skyVars PROVE SkyInv'
  OBVIOUS
<1>1. CASE Skybox!RefuseSkybox
  BY <1>1, PartsAssumption DEF Skybox!RefuseSkybox, SkyInv, SkySlots, SkyPixels, PartsAssumption
<1>2. CASE Skybox!ClearSkybox
  BY <1>2 DEF Skybox!ClearSkybox, SkyInv, SkySlots, SkyPixels
<1>3. CASE UNCHANGED skyVars
  BY <1>3 DEF skyVars, SkyInv, SkySlots, SkyPixels
<1> QED
  BY <1>1, <1>2, <1>3, SetKeeps, ShutdownKeeps DEF Skybox!Next

\* A step of the parts is a step of the skybox or leaves it alone.
LEMMA SkyStep == [PartsNext]_<<vars, skyVars, hookVars, logVars>> => [Skybox!Next]_skyVars
  BY Zenon DEF PartsNext

\* What the property says is part of the invariant.
LEMMA SkyInvImplies == SkyInv => SkyboxIsWhole
<1> SUFFICES ASSUME SkyInv PROVE SkyboxIsWhole
  OBVIOUS
<1>1. skySlots \in [Skybox!Bank -> [Skybox!Face -> Skybox!SlotType(Skybox!Pixels, Sizes)]]
  BY SameSlots DEF SkyInv, SkySlots, SkyPixels, Skybox!Pixels
<1>2. \A b \in Skybox!Bank, f \in Skybox!Face : Skybox!SlotConsistent(skySlots[b][f])
  BY SameSlots DEF SkyInv, SkySlots, SlotOK
<1> QED
  BY <1>1, <1>2, SameSlots DEF SkyboxIsWhole, Skybox!IsWhole, SkyInv

\* Whatever sets fail half way, time out or change size, and however many faces and
\* sets there are: while the capture serves, every face of the published skybox
\* shows the set accepted last, and a released capture has no transfer in use
\* (skybox_capture.cpp:113-137, 168-205).
THEOREM KeepsSkybox == PartsSpec => []SkyboxIsWhole
<1>1. PartsInit => SkyInv
  BY SkyStart
<1>2. SkyInv /\ [PartsNext]_<<vars, skyVars, hookVars, logVars>> => SkyInv'
  BY SkyStep, SkyKeeps
<1>3. SkyInv => SkyboxIsWhole
  BY SkyInvImplies
<1> QED
  BY <1>1, <1>2, <1>3, PTL DEF PartsSpec

-----------------------------------------------------------------------------
\* The Boolean variables.
EyeFlags == {open, pixels, resubmit, kept} \subseteq BOOLEAN

\* The types of what is not a bank.
EyeTypes ==
  /\ host \in {"up", "failed", "retained", "released"}
  /\ frame \in Frames /\ keptFrame \in Frames
  /\ accepted \in [Eye -> BOOLEAN] /\ withheld \in {"unknown", "yes", "no"}
  /\ fss \in [acquired : BOOLEAN, open : BOOLEAN, consumed : SUBSET Eye]
  /\ deferredEye \in Eye \cup {"none"}
  /\ shown \in [of : Frames, eye : [Eye -> Frames]]

\* The records and the transfers change hands together, so a record's copy is in
\* its own bank; a handoff is pending in both or in neither, in the bank in use.
EyeRecord == [captured : BOOLEAN, pending : BOOLEAN, from : {0} \cup Bank, old : Frames]
EyeBanks ==
  /\ slots \in [Bank -> [Eye -> SlotType(Frames, Sizes)]]
  /\ eyes \in [Bank -> [Eye -> EyeRecord]]
  /\ eyesOf \in Bank /\ transfersOf = eyesOf
  /\ \A b \in Bank, e \in Eye :
        /\ SlotOK(slots[b][e], Frames)
        /\ eyes[b][e].from \in {0, b}
        /\ host \in {"up", "failed"} => (eyes[b][e].pending <=> slots[b][e].pending)
        /\ eyes[b][e].pending => b = eyesOf

\* An eye of the frame at hand, on its way through the transfer in use.
EyeTaken(e) == eyes[eyesOf][e].pending /\ slots[transfersOf][e].shared = frame

\* Where an accepted eye of a rendered frame is: deferred or taken, as long as
\* the heal still serves the frame; and the pair is ready only if it does.
EyeFresh ==
  /\ deferredEye # "none" => fss.acquired /\ accepted[deferredEye]
  /\ open /\ pixels /\ withheld = "unknown" => \A e \in Eye : ~accepted[e]
  /\ open /\ pixels /\ withheld = "no" =>
       /\ fss.acquired /\ fss.open => \A e \in Eye : accepted[e] => e \in fss.consumed
       /\ (fss.acquired => fss.open) =>
             \A e \in Eye : accepted[e] => e = deferredEye \/ EyeTaken(e)
       /\ PairReady => deferredEye = "none" /\ (fss.acquired => fss.open)

\* The inductive invariant of the captures.
EyeInv == EyeFlags /\ EyeTypes /\ EyeBanks /\ EyeFresh /\ PairContract

\* captureShared(): an accepted eye is on its way with the pixels of the frame at
\* hand; a refused one leaves no handoff that was not there.
LEMMA CaptureFacts ==
  ASSUME frame \in Frames, NEW size \in Sizes, NEW s, SlotOK(s, Frames), NEW a \in Capture(s, size)
  PROVE  /\ AnswerOK(a, Frames)
         /\ ~Failed(a) => a.slot.pending /\ a.slot.shared = frame
         /\ Failed(a) => (a.slot.pending => s.pending)
<1>0. 0 \in Frames
  BY EyeTransferAssumption DEF Frames, EyeTransferAssumption
<1>1. PICK c \in Then(Opened(s), Emptied) :
         a \in IF c.result = "ok" THEN Enqueue(c.slot, frame, size) ELSE {c}
  BY DEF Capture, Then
<1>2. PICK b \in Opened(s) : c \in IF b.result = "ok" THEN Emptied(b.slot) ELSE {b}
  BY <1>1 DEF Then
<1>3. AnswerOK(b, Frames) /\ b.slot.pending = s.pending
  BY <1>2, OpenedFacts
<1>4. AnswerOK(c, Frames) /\ (c.slot.pending => s.pending)
  <2>1. CASE b.result = "ok"
    <3>1. c \in Emptied(b.slot) /\ SlotOK(b.slot, Frames)
      BY <1>2, <1>3, <2>1 DEF AnswerOK
    <3>2. AnswerOK(c, Frames) /\ (c.slot.pending => b.slot.pending)
      BY <3>1, EmptiedFacts
    <3> QED
      BY <1>3, <3>2
  <2>2. CASE b.result # "ok"
    BY <1>2, <1>3, <2>2
  <2> QED
    BY <2>1, <2>2
<1>5. CASE c.result = "ok"
  <2>1. a \in Enqueue(c.slot, frame, size) /\ SlotOK(c.slot, Frames)
    BY <1>1, <1>4, <1>5 DEF AnswerOK
  <2>2. /\ AnswerOK(a, Frames)
        /\ a.result = "ok" => a.slot.pending /\ a.slot.shared = frame
        /\ a.result # "ok" => (a.slot.pending => c.slot.pending)
    BY <1>0, <2>1, EnqueueFacts
  <2> QED
    BY <1>4, <2>2 DEF Failed
<1>6. CASE c.result # "ok"
  BY <1>1, <1>4, <1>6 DEF Failed
<1> QED
  BY <1>5, <1>6

\* A step that writes only to the bank in use, and leaves it in order.
OnlyInUse ==
  /\ slots' \in [Bank -> [Eye -> SlotType(Frames, Sizes)]]
  /\ eyes' \in [Bank -> [Eye -> EyeRecord]]
  /\ eyesOf' = eyesOf /\ transfersOf' = transfersOf
  /\ \A b \in Bank : b # eyesOf => slots'[b] = slots[b] /\ eyes'[b] = eyes[b]
  /\ \A e \in Eye : /\ SlotOK(slots'[eyesOf][e], Frames)
                    /\ eyes'[eyesOf][e].from \in {0, eyesOf}
                    /\ eyes'[eyesOf][e].pending <=> slots'[eyesOf][e].pending

\* A step that leaves the banks alone.
LEMMA BanksStay ==
  ASSUME EyeBanks, UNCHANGED banks, host' \in {"up", "failed"} => host \in {"up", "failed"}
  PROVE  EyeBanks'
  BY DEF EyeBanks, banks, Bank, Eye, Frames, SlotOK, SlotType, NewSlot, SlotConsistent

\* A step that writes only to the bank in use keeps the banks in order.
LEMMA BanksInUse ==
  ASSUME EyeBanks, OnlyInUse, host \in {"up", "failed"}
  PROVE  EyeBanks'
<1>1. eyesOf' = eyesOf /\ transfersOf' = transfersOf /\ eyesOf \in Bank /\ transfersOf = eyesOf
  BY DEF EyeBanks, OnlyInUse
<1>2. ASSUME NEW b \in Bank, NEW e \in Eye
      PROVE  /\ SlotOK(slots'[b][e], Frames)
             /\ eyes'[b][e].from \in {0, b}
             /\ eyes'[b][e].pending <=> slots'[b][e].pending
             /\ eyes'[b][e].pending => b = eyesOf
  <2>1. CASE b = eyesOf
    BY <2>1 DEF OnlyInUse
  <2>2. CASE b # eyesOf
    <3>1. slots'[b][e] = slots[b][e] /\ eyes'[b][e] = eyes[b][e]
      BY <2>2 DEF OnlyInUse
    <3> QED
      BY <2>2, <3>1 DEF EyeBanks
  <2> QED
    BY <2>1, <2>2
<1>3. /\ slots' \in [Bank -> [Eye -> SlotType(Frames, Sizes)]]
      /\ eyes' \in [Bank -> [Eye -> EyeRecord]]
  BY DEF OnlyInUse
<1> QED
  BY <1>1, <1>2, <1>3, Frames = Frames', SlotType(Frames, Sizes) = SlotType(Frames, Sizes)'
  DEF EyeBanks

\* Neither of them disturbs a kept pair: its records and transfers are the others.
LEMMA ContractStays ==
  ASSUME PairContract, EyeBanks, OnlyInUse \/ UNCHANGED banks, UNCHANGED <<shown, keptFrame>>,
         kept' => kept, host' # "released"
  PROVE  PairContract'
<1>1. ShownIsOfItsFrame'
  BY DEF PairContract, ShownIsOfItsFrame, Eye
<1>2. RetirementIsComplete'
  BY DEF RetirementIsComplete
<1>3. KeptPairIsIntact'
  <2> DEFINE o == OtherBank(eyesOf)
  <2>1. o \in Bank /\ o # eyesOf /\ eyesOf' = eyesOf
    BY DEF EyeBanks, OtherBank, Bank, OnlyInUse, banks
  <2>2. slots'[o] = slots[o] /\ eyes'[o] = eyes[o]
    BY <2>1 DEF OnlyInUse, banks
  <2>3. \A e \in Eye : eyes[o][e].from \in {0, o}
    BY <2>1 DEF EyeBanks
  <2>4. OtherBank(eyesOf)' = o
    BY <2>1 DEF OtherBank
  <2> HIDE DEF o
  <2>5. ASSUME kept', NEW e \in Eye
        PROVE eyes'[o][e].captured /\ Pixels(eyes', slots', o, e) = keptFrame'
    <3>1. eyes[o][e].captured /\ Pixels(eyes, slots, o, e) = keptFrame
      BY <2>5 DEF PairContract, KeptPairIsIntact, o
    <3>2. Pixels(eyes', slots', o, e) = Pixels(eyes, slots, o, e)
      BY <2>2, <2>3 DEF Pixels
    <3> QED
      BY <2>2, <3>1, <3>2
  <2> QED
    BY <2>4, <2>5 DEF KeptPairIsIntact, Eye
<1> QED
  BY <1>1, <1>2, <1>3 DEF PairContract

\* A record keeps its copy when its slot is resized, and only in the bank in use.
LEMMA DetachedFacts ==
  ASSUME EyeBanks, NEW e \in Eye, NEW t, NEW b \in Bank
  PROVE  /\ Detached(eyes[b][e], e, t) \in EyeRecord
         /\ Detached(eyes[b][e], e, t).pending = eyes[b][e].pending
         /\ Detached(eyes[b][e], e, t).from \in {0, b}
         /\ b # eyesOf => Detached(eyes[b][e], e, t) = eyes[b][e]
<1>1. eyes[b][e] \in EyeRecord /\ eyes[b][e].from \in {0, b} /\ transfersOf = eyesOf
  BY DEF EyeBanks
<1>2. slots[transfersOf][e].private \in Frames
  BY DEF EyeBanks, SlotType
<1>3. CASE eyes[b][e].from # transfersOf \/ t.size = slots[transfersOf][e].size
  BY <1>1, <1>3 DEF Detached
<1>4. CASE ~(eyes[b][e].from # transfersOf \/ t.size = slots[transfersOf][e].size)
  <2> DEFINE n == [eyes[b][e] EXCEPT !.from = 0, !.old = slots[transfersOf][e].private]
  <2>1. n \in EyeRecord /\ n.pending = eyes[b][e].pending /\ n.from = 0
    BY <1>1, <1>2 DEF EyeRecord
  <2>2. Detached(eyes[b][e], e, t) = n
    BY <1>4 DEF Detached
  <2>3. b = eyesOf
    BY <1>1, <1>4 DEF EyeBanks, Bank
  <2> HIDE DEF n
  <2> QED
    BY <2>1, <2>2, <2>3
<1> QED
  BY <1>3, <1>4

\* After a capture the record and the slot agree about what is pending.
LEMMA AfterCaptureFacts ==
  ASSUME EyeBanks, host = "up", frame \in Frames, NEW e \in Eye, NEW size \in Sizes,
         NEW a \in Capture(slots[transfersOf][e], size)
  PROVE  /\ AfterCapture(eyes[eyesOf][e], e, a) \in EyeRecord
         /\ AfterCapture(eyes[eyesOf][e], e, a).from \in {0, eyesOf}
         /\ AfterCapture(eyes[eyesOf][e], e, a).pending <=> a.slot.pending
         /\ SlotOK(a.slot, Frames)
         /\ ~Failed(a) => /\ AfterCapture(eyes[eyesOf][e], e, a).pending
                          /\ a.slot.shared = frame
<1> DEFINE q == Detached(eyes[eyesOf][e], e, a.slot)
<1>1. /\ q \in EyeRecord /\ q.pending = eyes[eyesOf][e].pending
      /\ q.from \in {0, eyesOf}
  <2>1. eyesOf \in Bank
    BY DEF EyeBanks
  <2> QED
    BY <2>1, DetachedFacts
<1>2. /\ AnswerOK(a, Frames)
      /\ ~Failed(a) => a.slot.pending /\ a.slot.shared = frame
      /\ Failed(a) => (a.slot.pending => slots[transfersOf][e].pending)
  <2>1. SlotOK(slots[transfersOf][e], Frames)
    BY DEF EyeBanks
  <2> QED
    BY <2>1, CaptureFacts
<1>3. eyes[eyesOf][e].pending <=> slots[transfersOf][e].pending
  BY DEF EyeBanks
<1>4. SlotOK(a.slot, Frames) /\ a.slot.pending \in BOOLEAN
  BY <1>2 DEF AnswerOK, SlotOK, SlotType
<1>5. CASE Failed(a)
  <2>1. AfterCapture(eyes[eyesOf][e], e, a) = [q EXCEPT !.pending = q.pending /\ a.slot.pending]
    BY <1>5 DEF AfterCapture
  <2>2. (q.pending /\ a.slot.pending) = a.slot.pending
    BY <1>1, <1>2, <1>3, <1>4, <1>5 DEF EyeRecord
  <2> HIDE DEF q
  <2>3. [q EXCEPT !.pending = a.slot.pending] \in EyeRecord
    BY <1>1, <1>4 DEF EyeRecord
  <2>4. /\ [q EXCEPT !.pending = a.slot.pending].pending = a.slot.pending
        /\ [q EXCEPT !.pending = a.slot.pending].from = q.from
    BY <1>1 DEF EyeRecord
  <2> QED
    BY <1>1, <1>4, <1>5, <2>1, <2>2, <2>3, <2>4
<1>6. CASE ~Failed(a)
  <2>1. AfterCapture(eyes[eyesOf][e], e, a) = [q EXCEPT !.captured = FALSE, !.pending = TRUE]
    BY <1>6 DEF AfterCapture
  <2> HIDE DEF q
  <2>2. /\ [q EXCEPT !.captured = FALSE, !.pending = TRUE] \in EyeRecord
        /\ [q EXCEPT !.captured = FALSE, !.pending = TRUE].pending
        /\ [q EXCEPT !.captured = FALSE, !.pending = TRUE].from = q.from
    BY <1>1 DEF EyeRecord
  <2> QED
    BY <1>1, <1>2, <1>4, <1>6, <2>1, <2>2
<1> QED
  BY <1>5, <1>6

\* The captures of a Submit, of one eye or of two.
LEMMA CaptureTouches ==
  ASSUME EyeBanks, host = "up", frame \in Frames, NEW size \in Sizes,
         NEW es, es \subseteq Eye, NEW d, DOMAIN d = es,
         \A f \in es : d[f] \in Capture(slots[transfersOf][f], size),
         CaptureEyes(d), UNCHANGED <<eyesOf, transfersOf>>
  PROVE  /\ OnlyInUse
         /\ \A f \in es : ~Failed(d[f]) =>
                eyes'[eyesOf][f].pending /\ slots'[eyesOf][f].shared = frame
         /\ \A f \in Eye \ es : /\ eyes'[eyesOf][f] = eyes[eyesOf][f]
                                /\ slots'[eyesOf][f] = slots[eyesOf][f]
<1>1. transfersOf = eyesOf /\ eyesOf \in Bank
  BY DEF EyeBanks
<1>2. /\ slots' = [slots EXCEPT ![eyesOf] =
            [e \in Eye |-> IF e \in es THEN d[e].slot ELSE slots[eyesOf][e]]]
      /\ eyes' = [b \in Bank |-> [e \in Eye |->
            IF e \notin es THEN eyes[b][e]
            ELSE IF b = eyesOf THEN AfterCapture(eyes[b][e], e, d[e])
            ELSE Detached(eyes[b][e], e, d[e].slot)]]
  BY <1>1 DEF CaptureEyes
<1>3. \A f \in es : /\ AfterCapture(eyes[eyesOf][f], f, d[f]) \in EyeRecord
                    /\ AfterCapture(eyes[eyesOf][f], f, d[f]).from \in {0, eyesOf}
                    /\ AfterCapture(eyes[eyesOf][f], f, d[f]).pending <=> d[f].slot.pending
                    /\ SlotOK(d[f].slot, Frames)
                    /\ ~Failed(d[f]) => /\ AfterCapture(eyes[eyesOf][f], f, d[f]).pending
                                        /\ d[f].slot.shared = frame
  BY AfterCaptureFacts
<1>4. \A b \in Bank, f \in es : b # eyesOf => Detached(eyes[b][f], f, d[f].slot) = eyes[b][f]
  BY DetachedFacts
<1>5. \A e \in Eye : slots'[eyesOf][e] = IF e \in es THEN d[e].slot ELSE slots[eyesOf][e]
  BY <1>1, <1>2 DEF EyeBanks
<1>6. \A e \in Eye : eyes'[eyesOf][e] =
         IF e \in es THEN AfterCapture(eyes[eyesOf][e], e, d[e]) ELSE eyes[eyesOf][e]
  BY <1>1, <1>2
<1>7. \A b \in Bank : b # eyesOf => slots'[b] = slots[b]
  BY <1>2 DEF EyeBanks
<1>8. \A b \in Bank : b # eyesOf => eyes'[b] = eyes[b]
  <2> SUFFICES ASSUME NEW b \in Bank, b # eyesOf PROVE eyes'[b] = eyes[b]
    OBVIOUS
  <2>1. eyes'[b] = [e \in Eye |-> IF e \notin es THEN eyes[b][e]
                                  ELSE Detached(eyes[b][e], e, d[e].slot)]
    BY <1>2
  <2>2. \A e \in Eye : eyes'[b][e] = eyes[b][e]
    BY <1>4, <2>1
  <2>3. eyes[b] \in [Eye -> EyeRecord]
    BY DEF EyeBanks
  <2> QED
    BY <2>1, <2>2, <2>3
<1>9. slots' \in [Bank -> [Eye -> SlotType(Frames, Sizes)]]
  <2>1. \A e \in Eye :
          (IF e \in es THEN d[e].slot ELSE slots[eyesOf][e]) \in SlotType(Frames, Sizes)
    BY <1>1, <1>3 DEF SlotOK, EyeBanks
  <2> QED
    BY <1>1, <1>2, <2>1 DEF EyeBanks
<1>10. eyes' \in [Bank -> [Eye -> EyeRecord]]
  <2>1. ASSUME NEW b \in Bank, NEW e \in Eye
        PROVE (IF e \notin es THEN eyes[b][e]
            ELSE IF b = eyesOf THEN AfterCapture(eyes[b][e], e, d[e])
            ELSE Detached(eyes[b][e], e, d[e].slot)) \in EyeRecord
    BY <1>3, <1>4 DEF EyeBanks
  <2> QED
    BY <1>2, <2>1
<1>11. ASSUME NEW e \in Eye
       PROVE  /\ SlotOK(slots'[eyesOf][e], Frames)
              /\ eyes'[eyesOf][e].from \in {0, eyesOf}
              /\ eyes'[eyesOf][e].pending <=> slots'[eyesOf][e].pending
  <2>1. CASE e \in es
    BY <1>3, <1>5, <1>6, <2>1
  <2>2. CASE e \notin es
    BY <1>1, <1>5, <1>6, <2>2 DEF EyeBanks
  <2> QED
    BY <2>1, <2>2
<1>12. OnlyInUse
  BY <1>7, <1>8, <1>9, <1>10, <1>11 DEF OnlyInUse
<1> QED
  BY <1>3, <1>5, <1>6, <1>12

\* completePending(), also when it stops at the first eye that fails.
LEMMA ReceiveTouches ==
  ASSUME EyeBanks, host = "up", NEW d \in Receivings, CompletePending(d),
         UNCHANGED <<eyesOf, transfersOf>>
  PROVE  /\ OnlyInUse
         /\ (\A e \in Pending : ~Failed(d[e])) =>
              \A e \in Pending : /\ eyes'[eyesOf][e].captured
                                 /\ eyes'[eyesOf][e].from = eyesOf
                                 /\ slots'[eyesOf][e].private = slots[eyesOf][e].shared
<1>1. transfersOf = eyesOf /\ eyesOf \in Bank
  BY DEF EyeBanks
<1> DEFINE R == Reached(d)
           q == [captured |-> TRUE, pending |-> FALSE, from |-> eyesOf, old |-> 0]
<1>2. /\ slots' = [slots EXCEPT ![eyesOf] =
            [e \in Eye |-> IF e \in R THEN d[e].slot ELSE slots[eyesOf][e]]]
      /\ eyes' = [eyes EXCEPT ![eyesOf] = [e \in Eye |->
            IF e \in R /\ ~Failed(d[e]) THEN q ELSE eyes[eyesOf][e]]]
  BY <1>1 DEF CompletePending
<1>3. R \subseteq Pending /\ Pending \subseteq Eye
  BY DEF Reached, Pending
<1>4. \A e \in Pending : d[e] \in Receive(slots[eyesOf][e])
  BY <1>1 DEF Receivings
<1>5. \A e \in Pending : /\ SlotOK(d[e].slot, Frames)
                         /\ ~Failed(d[e]) => /\ d[e].slot.private = slots[eyesOf][e].shared
                                             /\ ~d[e].slot.pending
                         /\ Failed(d[e]) => d[e].slot.pending = slots[eyesOf][e].pending
  BY <1>1, <1>3, <1>4, ReceiveFacts DEF EyeBanks, AnswerOK, Failed
<1>6. q \in EyeRecord /\ q.captured /\ ~q.pending /\ q.from = eyesOf
  BY <1>1, EyeTransferAssumption DEF EyeRecord, Frames, EyeTransferAssumption
<1> HIDE DEF R, q
<1>7. \A e \in Eye : slots'[eyesOf][e] = IF e \in R THEN d[e].slot ELSE slots[eyesOf][e]
  BY <1>1, <1>2 DEF EyeBanks
<1>8. \A e \in Eye : eyes'[eyesOf][e] = IF e \in R /\ ~Failed(d[e]) THEN q ELSE eyes[eyesOf][e]
  BY <1>1, <1>2 DEF EyeBanks
<1>9. \A b \in Bank : b # eyesOf => slots'[b] = slots[b] /\ eyes'[b] = eyes[b]
  BY <1>2 DEF EyeBanks
<1>10. slots' \in [Bank -> [Eye -> SlotType(Frames, Sizes)]]
  <2>1. \A e \in Eye : (IF e \in R THEN d[e].slot ELSE slots[eyesOf][e]) \in SlotType(Frames, Sizes)
    BY <1>1, <1>3, <1>5 DEF SlotOK, EyeBanks
  <2> QED
    BY <1>1, <1>2, <2>1 DEF EyeBanks
<1>11. eyes' \in [Bank -> [Eye -> EyeRecord]]
  <2>1. \A e \in Eye : (IF e \in R /\ ~Failed(d[e]) THEN q ELSE eyes[eyesOf][e]) \in EyeRecord
    BY <1>1, <1>6 DEF EyeBanks
  <2> QED
    BY <1>1, <1>2, <2>1 DEF EyeBanks
<1>12. ASSUME NEW e \in Eye
       PROVE  /\ SlotOK(slots'[eyesOf][e], Frames)
              /\ eyes'[eyesOf][e].from \in {0, eyesOf}
              /\ eyes'[eyesOf][e].pending <=> slots'[eyesOf][e].pending
  <2>0. /\ SlotOK(slots[eyesOf][e], Frames)
        /\ eyes[eyesOf][e].from \in {0, eyesOf}
        /\ eyes[eyesOf][e].pending <=> slots[eyesOf][e].pending
    BY <1>1 DEF EyeBanks
  <2>1. CASE e \in R /\ ~Failed(d[e])
    BY <1>3, <1>5, <1>6, <1>7, <1>8, <2>1
  <2>2. CASE e \in R /\ Failed(d[e])
    BY <1>3, <1>5, <1>7, <1>8, <2>0, <2>2
  <2>3. CASE e \notin R
    BY <1>7, <1>8, <2>0, <2>3
  <2> QED
    BY <2>1, <2>2, <2>3
<1>13. OnlyInUse
  BY <1>9, <1>10, <1>11, <1>12 DEF OnlyInUse
<1>14. ASSUME \A e \in Pending : ~Failed(d[e]), NEW e \in Pending
       PROVE  /\ eyes'[eyesOf][e].captured
              /\ eyes'[eyesOf][e].from = eyesOf
              /\ slots'[eyesOf][e].private = slots[eyesOf][e].shared
  <2>1. e \in R
    BY <1>14 DEF R, Reached
  <2> QED
    BY <1>3, <1>5, <1>6, <1>7, <1>8, <1>14, <2>1
<1> QED
  BY <1>13, <1>14

\* The flags stay Boolean: SMT does not see it, Zenon does.
LEMMA EyeFlagsStay == EyeFlags /\ [Next]_vars => EyeFlags'
<1> SUFFICES ASSUME EyeFlags, [Next]_vars PROVE EyeFlags'
  OBVIOUS
<1> USE DEF EyeFlags
<1>1. ASSUME BeginFrame PROVE EyeFlags'
  BY <1>1, Zenon DEF BeginFrame
<1>2. ASSUME ClearSubmitted PROVE EyeFlags'
  BY <1>2, Zenon DEF ClearSubmitted
<1>3. ASSUME InvalidateOrigin PROVE EyeFlags'
  BY <1>3, Zenon DEF InvalidateOrigin
<1>4. ASSUME RefuseSubmit PROVE EyeFlags'
  BY <1>4, Zenon DEF RefuseSubmit
<1>5. ASSUME FinishReplay PROVE EyeFlags'
  BY <1>5, Zenon DEF FinishReplay
<1>6. ASSUME FinishEmpty PROVE EyeFlags'
  BY <1>6, Zenon DEF FinishEmpty
<1>7. ASSUME FinishFails PROVE EyeFlags'
  BY <1>7, Zenon DEF FinishFails
<1>8. ASSUME FinishPair PROVE EyeFlags'
  BY <1>8, Zenon DEF FinishPair
<1>9. ASSUME Close PROVE EyeFlags'
  BY <1>9, Zenon DEF Close
<1>10. ASSUME CloseUndrained PROVE EyeFlags'
  BY <1>10, Zenon DEF CloseUndrained
<1>11. ASSUME NEW e \in Eye, SubmitUnrendered(e) PROVE EyeFlags'
  BY <1>11, Zenon DEF SubmitUnrendered
<1>12. ASSUME NEW e \in Eye, SubmitWithheld(e) PROVE EyeFlags'
  BY <1>12, Zenon DEF SubmitWithheld
<1>13. ASSUME NEW e \in Eye, DeferEye(e) PROVE EyeFlags'
  BY <1>13, Zenon DEF DeferEye
<1>14. ASSUME NEW e \in Eye, SubmitEye(e) PROVE EyeFlags'
  BY <1>14, Zenon DEF SubmitEye
<1>15. ASSUME UNCHANGED vars PROVE EyeFlags'
  BY <1>15, Zenon DEF vars
<1> QED
  BY <1>1, <1>2, <1>3, <1>4, <1>5, <1>6, <1>7, <1>8, <1>9, <1>10, <1>11, <1>12, <1>13, <1>14,
      <1>15
  DEF Next

\* waitPoses() begins a frame.
LEMMA BeginFrameEyes ==
  ASSUME EyeInv, BeginFrame
  PROVE  EyeTypes' /\ EyeBanks' /\ EyeFresh' /\ PairContract'
<1>1. EyeTypes /\ EyeBanks /\ EyeFresh /\ PairContract
  BY DEF EyeInv
<1>2. EyeTypes'
  <2>1. (fss.acquired /\ pixels') \in BOOLEAN
    OBVIOUS
  <2>2. \A u \in BOOLEAN : [fss EXCEPT !.open = u, !.consumed = {}] \in
                             [acquired : BOOLEAN, open : BOOLEAN, consumed : SUBSET Eye]
    BY <1>1 DEF EyeTypes
  <2>3. fss' \in [acquired : BOOLEAN, open : BOOLEAN, consumed : SUBSET Eye]
    BY <2>1, <2>2 DEF BeginFrame
  <2> QED
    BY <1>1, <2>3, EyeTransferAssumption
    DEF BeginFrame, NoEye, EyeTypes, Frames, Eye, EyeTransferAssumption
<1>3. EyeBanks'
  BY <1>1, BanksStay DEF BeginFrame, NoEye, Serving, Finishing
<1>4. EyeFresh'
  BY <1>1 DEF BeginFrame, NoEye, EyeFresh, EyeTypes, EyeTaken, banks, PairReady, Serving, Eye
<1>5. PairContract'
  BY <1>1, ContractStays DEF BeginFrame, Serving, MaySubmit
<1> QED
  BY <1>2, <1>3, <1>4, <1>5

\* clearSubmitted().
LEMMA ClearSubmittedEyes ==
  ASSUME EyeInv, ClearSubmitted
  PROVE  EyeTypes' /\ EyeBanks' /\ EyeFresh' /\ PairContract'
<1>1. EyeTypes /\ EyeBanks /\ EyeFresh /\ PairContract
  BY DEF EyeInv
<1>2. EyeTypes'
  BY <1>1, EyeTransferAssumption
  DEF ClearSubmitted, NoEye, InvalidateEyeTreatments, EyeTypes, Frames, Eye,
      EyeTransferAssumption
<1>3. EyeBanks'
  BY <1>1, BanksStay DEF ClearSubmitted, NoEye, InvalidateEyeTreatments, Serving, Finishing
<1>4. EyeFresh'
  BY <1>1
  DEF ClearSubmitted, NoEye, InvalidateEyeTreatments, EyeFresh, EyeTypes, EyeTaken, banks,
      PairReady, Serving, Eye
<1>5. PairContract'
  BY <1>1, ContractStays DEF ClearSubmitted, Serving, MaySubmit
<1> QED
  BY <1>2, <1>3, <1>4, <1>5

\* invalidateOrigin(): a forgotten deferred eye closes the heal, so the pair cannot
\* become ready.
LEMMA InvalidateOriginEyes ==
  ASSUME EyeInv, InvalidateOrigin
  PROVE  EyeTypes' /\ EyeBanks' /\ EyeFresh' /\ PairContract'
<1>1. EyeTypes /\ EyeBanks /\ EyeFresh /\ PairContract
  BY DEF EyeInv
<1>2. EyeTypes'
  BY <1>1, EyeTransferAssumption
  DEF InvalidateOrigin, InvalidateEyeTreatments, EyeTypes, Frames, Eye, EyeTransferAssumption
<1>3. EyeBanks'
  BY <1>1, BanksStay DEF InvalidateOrigin, InvalidateEyeTreatments, Serving, Finishing
<1>4. EyeFresh'
  BY <1>1
  DEF InvalidateOrigin, InvalidateEyeTreatments, EyeFresh, EyeTypes, EyeTaken, banks, PairReady,
      Serving, Eye
<1>5. PairContract'
  BY <1>1, ContractStays DEF InvalidateOrigin, Serving, MaySubmit
<1> QED
  BY <1>2, <1>3, <1>4, <1>5

\* A refused Submit forgets a deferred eye in the same way.
LEMMA RefuseSubmitEyes ==
  ASSUME EyeInv, RefuseSubmit
  PROVE  EyeTypes' /\ EyeBanks' /\ EyeFresh' /\ PairContract'
<1>1. EyeTypes /\ EyeBanks /\ EyeFresh /\ PairContract
  BY DEF EyeInv
<1>2. EyeTypes'
  BY <1>1, EyeTransferAssumption
  DEF RefuseSubmit, InvalidateEyeTreatments, EyeTypes, Frames, Eye, EyeTransferAssumption
<1>3. EyeBanks'
  BY <1>1, BanksStay DEF RefuseSubmit, InvalidateEyeTreatments, Serving, Finishing
<1>4. EyeFresh'
  BY <1>1
  DEF RefuseSubmit, InvalidateEyeTreatments, EyeFresh, EyeTypes, EyeTaken, banks, PairReady,
      Serving, Eye
<1>5. PairContract'
  BY <1>1, ContractStays DEF RefuseSubmit, Serving, MaySubmit
<1> QED
  BY <1>2, <1>3, <1>4, <1>5

\* An eye that is only validated.
LEMMA SubmitUnrenderedEyes ==
  ASSUME EyeInv, NEW e \in Eye, SubmitUnrendered(e)
  PROVE  EyeTypes' /\ EyeBanks' /\ EyeFresh' /\ PairContract'
<1>1. EyeTypes /\ EyeBanks /\ EyeFresh /\ PairContract
  BY DEF EyeInv
<1>2. EyeTypes'
  BY <1>1, EyeTransferAssumption
  DEF SubmitUnrendered, MaySubmit, Accept, InvalidateEyeTreatments, EyeTypes, Frames, Eye,
      EyeTransferAssumption
<1>3. EyeBanks'
  BY <1>1, BanksStay
  DEF SubmitUnrendered, MaySubmit, Accept, InvalidateEyeTreatments, Serving, Finishing
<1>4. EyeFresh'
  BY <1>1
  DEF SubmitUnrendered, MaySubmit, Accept, InvalidateEyeTreatments, EyeFresh, EyeTypes, EyeTaken,
      banks, PairReady, Serving, Eye
<1>5. PairContract'
  BY <1>1, ContractStays DEF SubmitUnrendered, Serving, MaySubmit
<1> QED
  BY <1>2, <1>3, <1>4, <1>5

\* An eye of a withheld frame.
LEMMA SubmitWithheldEyes ==
  ASSUME EyeInv, NEW e \in Eye, SubmitWithheld(e)
  PROVE  EyeTypes' /\ EyeBanks' /\ EyeFresh' /\ PairContract'
<1>1. EyeTypes /\ EyeBanks /\ EyeFresh /\ PairContract
  BY DEF EyeInv
<1>2. EyeTypes'
  BY <1>1, EyeTransferAssumption
  DEF SubmitWithheld, MaySubmit, Accept, EyeTypes, Frames, Eye, EyeTransferAssumption
<1>3. EyeBanks'
  BY <1>1, BanksStay DEF SubmitWithheld, MaySubmit, Accept, Serving, Finishing
<1>4. EyeFresh'
  BY <1>1
  DEF SubmitWithheld, MaySubmit, Accept, EyeFresh, EyeTypes, EyeTaken, banks, PairReady, Serving,
      Eye
<1>5. PairContract'
  BY <1>1, ContractStays DEF SubmitWithheld, Serving, MaySubmit
<1> QED
  BY <1>2, <1>3, <1>4, <1>5

\* A deferred eye is the first of its frame: the other has not been treated.
LEMMA DeferEyeEyes ==
  ASSUME EyeInv, NEW e \in Eye, DeferEye(e)
  PROVE  EyeTypes' /\ EyeBanks' /\ EyeFresh' /\ PairContract'
<1>1. EyeTypes /\ EyeBanks /\ EyeFresh /\ PairContract
  BY DEF EyeInv
<1>2. EyeTypes'
  BY <1>1, EyeTransferAssumption
  DEF DeferEye, MaySubmit, Accept, Treat, Consumed, Other, EyeTypes, Frames, Eye,
      EyeTransferAssumption
<1>3. EyeBanks'
  BY <1>1, BanksStay DEF DeferEye, MaySubmit, Accept, Serving, Finishing
<1>4. EyeFresh'
  BY <1>1
  DEF DeferEye, MaySubmit, Accept, Treat, Consumed, Other, EyeFresh, EyeTypes, EyeTaken, banks,
      PairReady, Serving, Eye
<1>5. PairContract'
  BY <1>1, ContractStays DEF DeferEye, Serving, MaySubmit
<1> QED
  BY <1>2, <1>3, <1>4, <1>5

\* A pair without a layer.
LEMMA FinishEmptyEyes ==
  ASSUME EyeInv, FinishEmpty
  PROVE  EyeTypes' /\ EyeBanks' /\ EyeFresh' /\ PairContract'
<1>1. EyeTypes /\ EyeBanks /\ EyeFresh /\ PairContract
  BY DEF EyeInv
<1>2. EyeTypes'
  BY <1>1, EyeTransferAssumption
  DEF FinishEmpty, submission, Finishing, EyeTypes, Frames, Eye, EyeTransferAssumption
<1>3. EyeBanks'
  BY <1>1, BanksStay DEF FinishEmpty, submission, Finishing, Serving, Finishing
<1>4. EyeFresh'
  BY <1>1
  DEF FinishEmpty, submission, Finishing, EyeFresh, EyeTypes, EyeTaken, banks, PairReady,
      Serving, Eye
<1>5. PairContract'
  BY <1>1, ContractStays DEF FinishEmpty, Serving, Finishing, MaySubmit
<1> QED
  BY <1>2, <1>3, <1>4, <1>5

\* A close that retires nothing.
LEMMA CloseUndrainedEyes ==
  ASSUME EyeInv, CloseUndrained
  PROVE  EyeTypes' /\ EyeBanks' /\ EyeFresh' /\ PairContract'
<1>1. EyeTypes /\ EyeBanks /\ EyeFresh /\ PairContract
  BY DEF EyeInv
<1>2. EyeTypes'
  BY <1>1, EyeTransferAssumption
  DEF CloseUndrained, submission, EyeTypes, Frames, Eye, EyeTransferAssumption
<1>3. EyeBanks'
  BY <1>1, BanksStay DEF CloseUndrained, submission, Serving, Finishing
<1>4. EyeFresh'
  BY <1>1
  DEF CloseUndrained, submission, EyeFresh, EyeTypes, EyeTaken, banks, PairReady, Serving, Eye
<1>5. PairContract'
  BY <1>1, ContractStays DEF CloseUndrained, Serving, MaySubmit
<1> QED
  BY <1>2, <1>3, <1>4, <1>5

\* The kept pair is shown with the views of its own frame.
LEMMA FinishReplayEyes ==
  ASSUME EyeInv, FinishReplay
  PROVE  EyeTypes' /\ EyeBanks' /\ EyeFresh' /\ PairContract'
<1>1. EyeTypes /\ EyeBanks /\ EyeFresh /\ PairContract
  BY DEF EyeInv
<1> DEFINE o == OtherBank(eyesOf)
<1>2. kept /\ shown' = [of |-> keptFrame, eye |-> [e \in Eye |-> Pixels(eyes, slots, o, e)]]
  BY DEF FinishReplay, SceneLayerAvailable, Show
<1>3. \A e \in Eye : Pixels(eyes, slots, o, e) = keptFrame
  BY <1>1, <1>2 DEF PairContract, KeptPairIsIntact
<1> HIDE DEF o
<1>4. \A e \in Eye : shown'.eye[e] = keptFrame
  BY <1>2, <1>3
<1>5. EyeTypes'
  <2>1. shown' \in [of : Frames, eye : [Eye -> Frames]]
    BY <1>1, <1>2, <1>3 DEF EyeTypes
  <2> QED
    BY <1>1, <2>1 DEF FinishReplay, submission, EyeTypes, Frames, Eye
<1>6. EyeBanks'
  BY <1>1, BanksStay DEF FinishReplay
<1>7. EyeFresh'
  BY <1>1 DEF FinishReplay, submission, EyeFresh, PairReady
<1>8. KeptPairIsIntact' /\ RetirementIsComplete'
  BY <1>1
  DEF PairContract, FinishReplay, banks, KeptPairIsIntact, RetirementIsComplete, OtherBank,
      Pixels,
              Finishing
<1>9. ShownIsOfItsFrame'
  BY <1>2, <1>4 DEF ShownIsOfItsFrame
<1> QED
  BY <1>5, <1>6, <1>7, <1>8, <1>9 DEF PairContract

\* The Submit that captures: both eyes are on their way when it makes the pair ready.
LEMMA SubmitEyeEyes ==
  ASSUME EyeInv, NEW e \in Eye, SubmitEye(e)
  PROVE  EyeTypes' /\ EyeBanks' /\ EyeFresh' /\ PairContract'
<1>1. EyeTypes /\ EyeBanks /\ EyeFresh /\ PairContract
  BY DEF EyeInv
<1> DEFINE es == {e} \cup ({deferredEye} \cap Eye)
<1>0. PICK size \in Sizes :
        \E d \in [es -> UNION {Capture(slots[transfersOf][f], size) : f \in es}] :
          /\ \A f \in es : d[f] \in Capture(slots[transfersOf][f], size)
          /\ CaptureEyes(d)
          /\ IF \E f \in es : Failed(d[f])
             THEN InvalidateEyeTreatments /\ UNCHANGED accepted
             ELSE Accept(e) /\ deferredEye' = "none" /\ fss' = Consumed(e)
  BY DEF SubmitEye
<1>2. PICK d \in [es -> UNION {Capture(slots[transfersOf][f], size) : f \in es}] :
          /\ \A f \in es : d[f] \in Capture(slots[transfersOf][f], size)
          /\ CaptureEyes(d)
          /\ IF \E f \in es : Failed(d[f])
             THEN InvalidateEyeTreatments /\ UNCHANGED accepted
             ELSE Accept(e) /\ deferredEye' = "none" /\ fss' = Consumed(e)
  BY <1>0
<1>3. /\ host = "up" /\ ~PairReady /\ open /\ ~accepted[e] /\ pixels
      /\ withheld \in {"unknown", "no"} /\ withheld' = "no"
      /\ fss.acquired => fss.open
      /\ UNCHANGED <<host, frame, open, pixels, resubmit, eyesOf, transfersOf, kept, keptFrame,
                     shown>>
  BY DEF SubmitEye, MaySubmit, Serving, Treat
<1>4. es \subseteq Eye /\ DOMAIN d = es /\ e \in es
  OBVIOUS
<1>5. (Eye \ es) \cup es = Eye /\ \A f \in es : f = e \/ (f = deferredEye /\ f # "none")
  BY <1>4 DEF Eye
<1> HIDE DEF es
<1>6. /\ OnlyInUse
      /\ \A f \in es : ~Failed(d[f]) => eyes'[eyesOf][f].pending /\ slots'[eyesOf][f].shared = frame
      /\ \A f \in Eye \ es : /\ eyes'[eyesOf][f] = eyes[eyesOf][f]
                             /\ slots'[eyesOf][f] = slots[eyesOf][f]
  BY <1>1, <1>2, <1>3, <1>4, CaptureTouches DEF EyeTypes
<1>7. EyeBanks'
  BY <1>1, <1>3, <1>6, BanksInUse
<1>8. PairContract'
  BY <1>1, <1>3, <1>6, ContractStays
<1>9. transfersOf = eyesOf
  BY <1>1 DEF EyeBanks
<1>10. \A f \in Eye \ es : EyeTaken(f) => EyeTaken(f)'
  BY <1>3, <1>6, <1>9 DEF EyeTaken
<1>11. \A f \in es : ~Failed(d[f]) => EyeTaken(f)'
  BY <1>3, <1>6, <1>9 DEF EyeTaken
<1>12. CASE \E f \in es : Failed(d[f])
  <2>1. /\ deferredEye' = "none" /\ fss' = [fss EXCEPT !.open = FALSE, !.consumed = {}]
        /\ accepted' = accepted
    BY <1>2, <1>12 DEF InvalidateEyeTreatments
  <2>2. EyeTypes'
    BY <1>1, <1>3, <2>1 DEF EyeTypes, Frames, Eye
  <2>3. ~fss'.open /\ fss'.acquired = fss.acquired
    BY <1>1, <2>1 DEF EyeTypes
  <2>4. ASSUME ~fss.acquired, NEW f \in Eye, accepted[f] PROVE EyeTaken(f)'
    <3>1. deferredEye = "none" /\ f # e
      BY <1>1, <1>3, <2>4 DEF EyeFresh
    <3>2. f \in Eye \ es
      BY <1>5, <3>1
    <3>3. EyeTaken(f)
      BY <1>1, <1>3, <2>4, <3>1 DEF EyeFresh, Eye
    <3> QED
      BY <1>10, <3>2, <3>3
  <2>5. EyeFresh'
    BY <1>1, <1>3, <2>1, <2>3, <2>4 DEF EyeFresh, PairReady, EyeTypes
  <2> QED
    BY <1>7, <1>8, <2>2, <2>5
<1>13. CASE \A f \in es : ~Failed(d[f])
  <2>1. accepted' = [accepted EXCEPT ![e] = TRUE] /\ deferredEye' = "none" /\ fss' = Consumed(e)
    BY <1>2, <1>13 DEF Accept
  <2>2. /\ fss' \in [acquired : BOOLEAN, open : BOOLEAN, consumed : SUBSET Eye]
        /\ fss'.acquired = fss.acquired /\ fss'.open = fss.open
        /\ fss.acquired => fss'.consumed = fss.consumed \cup {e}
    BY <1>1, <2>1 DEF EyeTypes, Consumed
  <2>3. EyeTypes'
    BY <1>1, <1>3, <2>1, <2>2 DEF EyeTypes, Frames, Eye
  <2>4. ASSUME NEW f \in Eye, accepted'[f] PROVE EyeTaken(f)'
    <3>1. CASE f \in es
      BY <1>11, <1>13, <3>1
    <3>2. CASE f \notin es
      <4>1. f # e /\ accepted[f] /\ f # deferredEye
        BY <1>1, <1>4, <2>1, <2>4, <3>2 DEF EyeTypes, es
      <4>2. EyeTaken(f)
        BY <1>1, <1>3, <4>1 DEF EyeFresh
      <4> QED
        BY <1>10, <3>2, <4>2
    <3> QED
      BY <3>1, <3>2
  <2>5. ASSUME NEW f \in Eye, accepted'[f], fss'.acquired PROVE f \in fss'.consumed
    <3>1. CASE f = e
      BY <2>2, <2>5, <3>1
    <3>2. CASE f # e
      <4>1. accepted[f]
        BY <1>1, <2>1, <2>5, <3>2 DEF EyeTypes
      <4>2. f \in fss.consumed
        BY <1>1, <1>3, <2>2, <2>5, <4>1 DEF EyeFresh
      <4> QED
        BY <2>2, <2>5, <4>2
    <3> QED
      BY <3>1, <3>2
  <2>6. EyeFresh'
    BY <1>3, <2>1, <2>2, <2>4, <2>5 DEF EyeFresh, PairReady
  <2> QED
    BY <1>7, <1>8, <2>3, <2>6
<1> QED
  BY <1>12, <1>13

\* The fatal failure of a pair.
LEMMA FinishFailsEyes ==
  ASSUME EyeInv, FinishFails
  PROVE  EyeTypes' /\ EyeBanks' /\ EyeFresh' /\ PairContract'
<1>1. EyeTypes /\ EyeBanks /\ EyeFresh /\ PairContract
  BY DEF EyeInv
<1>2. /\ host = "up" /\ host' = "failed" /\ ~open' /\ ~kept' /\ deferredEye' = "none"
      /\ fss' = [fss EXCEPT !.open = FALSE, !.consumed = {}]
      /\ UNCHANGED <<frame, pixels, resubmit, accepted, withheld, eyesOf, transfersOf,
                     keptFrame, shown>>
  BY DEF FinishFails, Finishing, InvalidateEyeTreatments
<1>3. OnlyInUse \/ UNCHANGED banks
  <2>1. CASE withheld = "yes"
    BY <1>2, <2>1 DEF FinishFails, banks
  <2>2. CASE withheld # "yes"
    <3>1. PICK d \in Receivings : CompletePending(d)
      BY <2>2 DEF FinishFails
    <3> QED
      BY <1>1, <1>2, <3>1, ReceiveTouches
  <2> QED
    BY <2>1, <2>2
<1>4. EyeBanks'
  BY <1>1, <1>2, <1>3, BanksStay, BanksInUse
<1>5. EyeTypes'
  BY <1>1, <1>2 DEF EyeTypes, Frames, Eye
<1>6. EyeFresh'
  BY <1>1, <1>2 DEF EyeFresh, PairReady
<1>7. PairContract'
  BY <1>1, <1>2, <1>3, ContractStays
<1> QED
  BY <1>4, <1>5, <1>6, <1>7

\* A pair that is shown: both eyes are of this frame, and the exchange makes them the
\* kept pair.
LEMMA FinishPairEyes ==
  ASSUME EyeInv, FinishPair
  PROVE  EyeTypes' /\ EyeBanks' /\ EyeFresh' /\ PairContract'
<1>1. EyeTypes /\ EyeBanks /\ EyeFresh /\ PairContract
  BY DEF EyeInv
<1>2. /\ host = "up" /\ PairReady /\ pixels /\ withheld = "no" /\ open' = FALSE
      /\ UNCHANGED <<host, frame, pixels, resubmit, accepted, withheld, fss, deferredEye>>
      /\ shown' = [of |-> frame, eye |-> [e \in Eye |-> Pixels(eyes', slots', eyesOf, e)]]
  BY DEF FinishPair, Finishing, Show, submission
<1>3. PICK d \in Receivings : (\A e \in Pending : ~Failed(d[e])) /\ CompletePending(d)
  BY DEF FinishPair
<1>4. eyesOf \in Bank /\ transfersOf = eyesOf
  BY <1>1 DEF EyeBanks
<1>5. \A e \in Eye : e \in Pending /\ slots[eyesOf][e].shared = frame
  <2>1. \A e \in Eye : EyeTaken(e)
    BY <1>1, <1>2 DEF EyeFresh, PairReady, Eye
  <2> QED
    BY <1>4, <2>1 DEF EyeTaken, Pending
\* What CompletePending does to the two banks, whoever owns them afterwards.
<1>6. /\ slots' = [slots EXCEPT ![eyesOf] = [e \in Eye |-> d[e].slot]]
      /\ eyes' = [eyes EXCEPT ![eyesOf] = [e \in Eye |->
            [captured |-> TRUE, pending |-> FALSE, from |-> eyesOf, old |-> 0]]]
  <2>1. Reached(d) = Eye
    BY <1>3, <1>5 DEF Reached, Pending
  <2> QED
    BY <1>3, <1>4, <1>5, <2>1 DEF CompletePending
<1>7. \A e \in Eye : /\ SlotOK(d[e].slot, Frames) /\ d[e].slot.private = frame /\ ~d[e].slot.pending
  <2> SUFFICES ASSUME NEW e \in Eye
               PROVE SlotOK(d[e].slot, Frames) /\ d[e].slot.private = frame /\ ~d[e].slot.pending
    OBVIOUS
  <2>1. d[e] \in Receive(slots[eyesOf][e]) /\ d[e].result = "ok"
    BY <1>3, <1>4, <1>5 DEF Receivings, Failed
  <2>2. SlotOK(slots[eyesOf][e], Frames)
    BY <1>1, <1>4 DEF EyeBanks
  <2>3. AnswerOK(d[e], Frames) /\ d[e].slot.private = slots[eyesOf][e].shared /\ ~d[e].slot.pending
    BY <2>1, <2>2, ReceiveFacts
  <2> QED
    BY <1>5, <2>3 DEF AnswerOK
<1> DEFINE q == [captured |-> TRUE, pending |-> FALSE, from |-> eyesOf, old |-> 0]
<1>8. q \in EyeRecord /\ q.captured /\ ~q.pending /\ q.from = eyesOf /\ eyesOf # 0
  BY <1>4, EyeTransferAssumption DEF EyeRecord, Frames, Bank, EyeTransferAssumption
<1>9. eyes' = [eyes EXCEPT ![eyesOf] = [e \in Eye |-> q]]
  BY <1>6
<1> HIDE DEF q
<1>10. /\ \A e \in Eye : slots'[eyesOf][e] = d[e].slot /\ eyes'[eyesOf][e] = q
       /\ \A b \in Bank : b # eyesOf => slots'[b] = slots[b] /\ eyes'[b] = eyes[b]
       /\ slots' \in [Bank -> [Eye -> SlotType(Frames, Sizes)]]
       /\ eyes' \in [Bank -> [Eye -> EyeRecord]]
  <2>1. \A e \in Eye : d[e].slot \in SlotType(Frames, Sizes)
    BY <1>7 DEF SlotOK
  <2>2. /\ slots \in [Bank -> [Eye -> SlotType(Frames, Sizes)]]
        /\ eyes \in [Bank -> [Eye -> EyeRecord]]
    BY <1>1 DEF EyeBanks
  <2>3. slots' \in [Bank -> [Eye -> SlotType(Frames, Sizes)]]
    BY <1>6, <2>1, <2>2
  <2>4. eyes' \in [Bank -> [Eye -> EyeRecord]]
    BY <1>8, <1>9, <2>2
  <2>5. \A e \in Eye : slots'[eyesOf][e] = d[e].slot /\ eyes'[eyesOf][e] = q
    BY <1>4, <1>6, <1>9, <2>2
  <2>6. \A b \in Bank : b # eyesOf => slots'[b] = slots[b] /\ eyes'[b] = eyes[b]
    BY <1>6, <1>9, <2>2
  <2> QED
    BY <2>3, <2>4, <2>5, <2>6
<1>11. \A e \in Eye : Pixels(eyes', slots', eyesOf, e) = frame
  BY <1>7, <1>8, <1>10 DEF Pixels
<1>12. ASSUME NEW b \in Bank, NEW e \in Eye
       PROVE  /\ SlotOK(slots'[b][e], Frames) /\ eyes'[b][e].from \in {0, b}
              /\ ~eyes'[b][e].pending /\ ~slots'[b][e].pending
  <2>1. CASE b = eyesOf
    BY <1>7, <1>8, <1>10, <2>1
  <2>2. CASE b # eyesOf
    <3>1. slots'[b][e] = slots[b][e] /\ eyes'[b][e] = eyes[b][e]
      BY <1>10, <2>2
    <3> QED
      BY <1>1, <1>2, <2>2, <3>1 DEF EyeBanks
  <2> QED
    BY <2>1, <2>2
<1>13. MayExchange(eyes', slots')
  BY <1>12 DEF MayExchange
<1>14. \/ /\ eyesOf' = OtherBank(eyesOf) /\ transfersOf' = OtherBank(transfersOf)
          /\ keptFrame' = frame
       \/ /\ kept' = (kept /\ ~resubmit) /\ UNCHANGED <<eyesOf, transfersOf, keptFrame>>
  BY <1>13 DEF FinishPair, Exchange
<1>15. EyeTypes'
  <2>1. shown' \in [of : Frames, eye : [Eye -> Frames]]
    BY <1>1, <1>2, <1>11 DEF EyeTypes
  <2> QED
    BY <1>1, <1>2, <1>14, <2>1 DEF EyeTypes, Frames, Eye
<1>16. EyeBanks'
  <2>1. eyesOf' \in Bank /\ transfersOf' = eyesOf'
    BY <1>4, <1>14 DEF OtherBank, Bank
  <2> QED
    BY <1>10, <1>12, <2>1, Frames = Frames',
       SlotType(Frames, Sizes) = SlotType(Frames, Sizes)' DEF EyeBanks
<1>17. EyeFresh'
  BY <1>1, <1>2 DEF EyeFresh, PairReady
<1>18. ShownIsOfItsFrame'
  BY <1>2, <1>11 DEF ShownIsOfItsFrame
<1>19. RetirementIsComplete'
  BY <1>2 DEF RetirementIsComplete
<1>20. KeptPairIsIntact'
  <2>1. CASE /\ eyesOf' = OtherBank(eyesOf) /\ transfersOf' = OtherBank(transfersOf)
             /\ keptFrame' = frame
    <3>1. OtherBank(eyesOf') = eyesOf
      BY <1>4, <2>1 DEF OtherBank, Bank
    <3> QED
      BY <1>8, <1>10, <1>11, <2>1, <3>1 DEF KeptPairIsIntact
  <2>2. CASE kept' = (kept /\ ~resubmit) /\ UNCHANGED <<eyesOf, transfersOf, keptFrame>>
    <3> DEFINE o == OtherBank(eyesOf)
    <3>1. o \in Bank /\ o # eyesOf
      BY <1>4 DEF OtherBank, Bank
    <3>2. slots'[o] = slots[o] /\ eyes'[o] = eyes[o]
      BY <1>10, <3>1
    <3>3. \A e \in Eye : eyes[o][e].from \in {0, o}
      BY <1>1, <3>1 DEF EyeBanks
    <3>4. \A e \in Eye : Pixels(eyes', slots', o, e) = Pixels(eyes, slots, o, e)
      <4> HIDE DEF o
      <4> QED
        BY <3>2, <3>3 DEF Pixels
    <3>5. OtherBank(eyesOf') = o
      BY <2>2
    <3>6. kept' => \A e \in Eye : eyes[o][e].captured /\ Pixels(eyes, slots, o, e) = keptFrame
      BY <1>1, <2>2 DEF PairContract, KeptPairIsIntact
    <3> HIDE DEF o
    <3> QED
      BY <2>2, <3>2, <3>4, <3>5, <3>6 DEF KeptPairIsIntact
  <2> QED
    BY <1>14, <2>1, <2>2
<1> QED
  BY <1>15, <1>16, <1>17, <1>18, <1>19, <1>20 DEF PairContract

\* close(): a host that says it is released has retired every transfer.
LEMMA CloseEyes ==
  ASSUME EyeInv, Close
  PROVE  EyeTypes' /\ EyeBanks' /\ EyeFresh' /\ PairContract'
<1>1. EyeTypes /\ EyeBanks /\ EyeFresh /\ PairContract
  BY DEF EyeInv
<1>2. PICK d1 \in Retired(1), d2 \in Retired(2) :
          LET d == <<d1, d2>>
              Done(b) == \A e \in Eye : ~Failed(d[b][e])
          IN  /\ slots' = [b \in Bank |-> [e \in Eye |-> d[b][e].slot]]
              /\ eyes' = [b \in Bank |-> IF Done(TransfersOf(b))
                                         THEN [e \in Eye |-> NewEye] ELSE eyes[b]]
              /\ host' = IF Done(1) /\ Done(2) THEN "released" ELSE "retained"
  BY DEF Close
<1> DEFINE d == <<d1, d2>>
           Done(b) == \A e \in Eye : ~Failed(d[b][e])
<1>3. \A b \in Bank : TransfersOf(b) = b
  BY <1>1 DEF EyeBanks, TransfersOf, OtherBank, Bank
<1>4. /\ slots' = [b \in Bank |-> [e \in Eye |-> d[b][e].slot]]
      /\ eyes' = [b \in Bank |-> IF Done(b) THEN [e \in Eye |-> NewEye] ELSE eyes[b]]
      /\ host' = IF Done(1) /\ Done(2) THEN "released" ELSE "retained"
      /\ ~kept' /\ ~open'
      /\ UNCHANGED <<frame, pixels, resubmit, accepted, withheld, fss, deferredEye, eyesOf,
                     transfersOf, keptFrame, shown>>
  <2>1. /\ slots' = [b \in Bank |-> [e \in Eye |-> d[b][e].slot]]
        /\ eyes' = [b \in Bank |-> IF Done(TransfersOf(b)) THEN [e \in Eye |-> NewEye] ELSE eyes[b]]
        /\ host' = IF Done(1) /\ Done(2) THEN "released" ELSE "retained"
    BY <1>2
  <2>2. /\ ~kept' /\ ~open'
        /\ UNCHANGED <<frame, pixels, resubmit, accepted, withheld, fss, deferredEye, eyesOf,
                       transfersOf, keptFrame, shown>>
    BY DEF Close, submission
  <2> HIDE DEF d, Done
  <2> QED
    BY <1>3, <2>1, <2>2
<1>5. ASSUME NEW b \in Bank, NEW e \in Eye
      PROVE  SlotOK(d[b][e].slot, Frames) /\ (~Failed(d[b][e]) => d[b][e].slot = NewSlot)
  <2>1. d[b][e] \in Shutdown(slots[b][e])
    BY DEF Retired, Bank, Eye
  <2>2. 0 \in Frames /\ SlotOK(slots[b][e], Frames)
    BY <1>1, EyeTransferAssumption DEF EyeBanks, Frames, EyeTransferAssumption
  <2> HIDE DEF d
  <2>3. AnswerOK(d[b][e], Frames) /\ (d[b][e].result = "ok" => d[b][e].slot = NewSlot)
    BY <2>1, <2>2, ShutdownFacts
  <2> QED
    BY <2>3 DEF AnswerOK, Failed
<1>6. NewEye \in EyeRecord /\ NewEye.from = 0 /\ ~NewEye.pending
  BY EyeTransferAssumption DEF NewEye, EyeRecord, Frames, EyeTransferAssumption
<1> HIDE DEF d, Done
<1>7. EyeBanks'
  <2>1. slots' \in [Bank -> [Eye -> SlotType(Frames, Sizes)]]
    <3>1. \A b \in Bank, e \in Eye : d[b][e].slot \in SlotType(Frames, Sizes)
      BY <1>5 DEF SlotOK
    <3> QED
      BY <1>4, <3>1
  <2>2. eyes' \in [Bank -> [Eye -> EyeRecord]]
    BY <1>1, <1>4, <1>6 DEF EyeBanks
  <2>3. \A b \in Bank, e \in Eye : SlotOK(slots'[b][e], Frames)
    BY <1>4, <1>5
  <2>4. \A b \in Bank, e \in Eye : eyes'[b][e] \in {NewEye, eyes[b][e]}
    BY <1>4
  <2>5. \A b \in Bank, e \in Eye :
          eyes'[b][e].from \in {0, b} /\ (eyes'[b][e].pending => b = eyesOf)
    BY <1>1, <1>6, <2>4 DEF EyeBanks
  <2>6. host' \notin {"up", "failed"}
    BY <1>4
  <2> QED
    BY <1>1, <1>4, <2>1, <2>2, <2>3, <2>5, <2>6, Frames = Frames',
       SlotType(Frames, Sizes) = SlotType(Frames, Sizes)' DEF EyeBanks
<1>8. EyeTypes'
  BY <1>1, <1>4 DEF EyeTypes, Frames, Eye
<1>9. EyeFresh'
  BY <1>1, <1>4 DEF EyeFresh, PairReady
<1>10. ShownIsOfItsFrame' /\ KeptPairIsIntact'
  BY <1>1, <1>4 DEF PairContract, ShownIsOfItsFrame, KeptPairIsIntact
<1>11. RetirementIsComplete'
  <2> SUFFICES ASSUME host' = "released", NEW b \in Bank, NEW e \in Eye
               PROVE  slots'[b][e] = NewSlot /\ eyes'[b][e] = NewEye
    BY DEF RetirementIsComplete
  <2>1. Done(b)
    BY <1>4 DEF Bank
  <2>2. ~Failed(d[b][e])
    BY <2>1 DEF Done
  <2> QED
    BY <1>4, <1>5, <2>1, <2>2
<1> QED
  BY <1>7, <1>8, <1>9, <1>10, <1>11 DEF PairContract

\* The invariant is inductive.
LEMMA EyeKeeps == EyeInv /\ [Next]_vars => EyeInv'
<1> SUFFICES ASSUME EyeInv, [Next]_vars PROVE EyeInv'
  OBVIOUS
<1>1. EyeFlags'
  BY EyeFlagsStay DEF EyeInv
<1>2. ASSUME UNCHANGED vars PROVE EyeTypes' /\ EyeBanks' /\ EyeFresh' /\ PairContract'
  <2>1. EyeTypes'
    BY <1>2 DEF vars, submission, EyeInv, EyeTypes, Frames, Eye
  <2>2. EyeBanks'
    BY <1>2, BanksStay DEF vars, EyeInv
  <2>3. EyeFresh'
    BY <1>2 DEF vars, submission, banks, EyeInv, EyeFresh, PairReady, EyeTaken
  <2>4. PairContract'
    BY <1>2 DEF vars, banks, EyeInv, PairContract, ShownIsOfItsFrame, KeptPairIsIntact,
                RetirementIsComplete, OtherBank, Pixels
  <2> QED
    BY <2>1, <2>2, <2>3, <2>4
<1>3. EyeTypes' /\ EyeBanks' /\ EyeFresh' /\ PairContract'
  BY <1>2, BeginFrameEyes, ClearSubmittedEyes, InvalidateOriginEyes, RefuseSubmitEyes,
     SubmitUnrenderedEyes, SubmitWithheldEyes, DeferEyeEyes, SubmitEyeEyes, FinishReplayEyes,
     FinishEmptyEyes, FinishFailsEyes, FinishPairEyes, CloseEyes, CloseUndrainedEyes DEF Next
<1> QED
  BY <1>1, <1>3 DEF EyeInv

\* Nothing is captured, kept or shown.
LEMMA EyeStart == PartsInit => EyeInv
<1> SUFFICES ASSUME Init PROVE EyeInv
  BY DEF PartsInit
<1>0. 0 \in Frames
  BY EyeTransferAssumption DEF Frames, EyeTransferAssumption
<1>1. EyeFlags
  BY Zenon DEF Init, EyeFlags
<1>2. EyeTypes
  <2>1. /\ accepted \in [Eye -> BOOLEAN]
        /\ shown \in [of : Frames, eye : [Eye -> Frames]]
    BY <1>0 DEF Init, NoEye
  <2>2. fss \in [acquired : BOOLEAN, open : BOOLEAN, consumed : SUBSET Eye]
    <3>1. FssClosed \in [acquired : BOOLEAN, open : BOOLEAN, consumed : SUBSET Eye]
      BY DEF FssClosed
    <3>2. FssAbsent \in [acquired : BOOLEAN, open : BOOLEAN, consumed : SUBSET Eye]
      BY DEF FssAbsent
    <3> QED
      BY <3>1, <3>2 DEF Init
  <2> QED
    BY <1>0, <2>1, <2>2 DEF Init, EyeTypes
<1>3. EyeBanks
  <2>1. NewEye \in EyeRecord /\ NewEye.from = 0 /\ ~NewEye.pending
    BY <1>0 DEF NewEye, EyeRecord
  <2>2. SlotOK(NewSlot, Frames)
    BY <1>0, NewIsOK
  <2> DEFINE n == [NewSlot EXCEPT !.up = TRUE]
  <2>3. SlotOK(n, Frames) /\ ~n.pending
    BY <2>2, UpIsOK DEF NewSlot
  <2> HIDE DEF n
  <2>4. \A e \in Eye : [NewSlot EXCEPT !.up = (e = "left")] \in {NewSlot, n}
    BY OneUp DEF n
  <2>5. \A b \in Bank, e \in Eye : slots[b][e] \in {NewSlot, n} /\ eyes[b][e] = NewEye
    BY <2>4 DEF Init
  <2>6. ~NewSlot.pending
    BY DEF NewSlot
  <2>7. /\ slots \in [Bank -> [Eye -> SlotType(Frames, Sizes)]]
        /\ eyes \in [Bank -> [Eye -> EyeRecord]]
    BY <2>1, <2>2, <2>3, <2>4 DEF Init, SlotOK
  <2> QED
    BY <2>1, <2>2, <2>3, <2>5, <2>6, <2>7 DEF Init, EyeBanks, Bank
<1>4. EyeFresh
  BY DEF Init, EyeFresh, PairReady
<1>5. PairContract
  BY DEF Init, PairContract, ShownIsOfItsFrame, KeptPairIsIntact, RetirementIsComplete
<1> QED
  BY <1>1, <1>2, <1>3, <1>4, <1>5 DEF EyeInv

\* A step of the parts is a step of the captures or leaves them alone.
LEMMA EyeStep == [PartsNext]_<<vars, skyVars, hookVars, logVars>> => [Next]_vars
  BY Zenon DEF PartsNext

\* What Consistent says is part of the invariant.
LEMMA EyeInvImplies == EyeInv => Consistent
<1> SUFFICES ASSUME EyeInv PROVE Consistent
  OBVIOUS
<1>1. \A b \in Bank : TransfersOf(b) = b
  BY DEF EyeInv, EyeBanks, TransfersOf, OtherBank, Bank
<1>2. \A b \in Bank, e \in Eye :
          /\ SlotConsistent(slots[b][e])
          /\ host \in {"up", "failed"} =>
                (eyes[b][e].pending <=> slots[TransfersOf(b)][e].pending)
          /\ eyes[b][e].pending => b = eyesOf
  BY <1>1 DEF EyeInv, EyeBanks, SlotOK
<1>3. {open, pixels, resubmit, kept} \subseteq BOOLEAN
  BY DEF EyeInv, EyeFlags
<1>4. /\ slots \in [Bank -> [Eye -> SlotType(Frames, Sizes)]]
      /\ eyes \in [Bank -> [Eye -> [captured : BOOLEAN, pending : BOOLEAN,
                                     from : {0} \cup Bank, old : Frames]]]
      /\ eyesOf \in Bank /\ transfersOf \in Bank
  BY DEF EyeInv, EyeBanks, EyeRecord
<1> QED
  BY <1>2, <1>3, <1>4 DEF EyeInv, EyeTypes, Consistent

\* For every number of frames and every set of sizes: a handoff is pending in a slot
\* exactly while its eye record says so, only the capture in use has one, and the
\* mutex is with the side whose turn it is (eye_capture.cpp:193-214,
\* shared_texture_transfer.cpp:299-302).
THEOREM CapturesConsistent == PartsSpec => []Consistent
<1>1. PartsInit => EyeInv
  BY EyeStart
<1>2. EyeInv /\ [PartsNext]_<<vars, skyVars, hookVars, logVars>> => EyeInv'
  BY EyeStep, EyeKeeps
<1>3. EyeInv => Consistent
  BY EyeInvImplies
<1> QED
  BY <1>1, <1>2, <1>3, PTL DEF PartsSpec

\* Both eyes that are shown are of the frame whose views they are shown with, a kept
\* pair is not written to while it may be shown again, and a released host left no
\* slot in use, whatever was deferred, refused, retried, timed out or resized in
\* between (native_runtime_host.h:1686-1763, 1904-1936, eye_capture.cpp:296-316).
THEOREM KeepsPairs == PartsSpec => []PairContract
<1>1. PartsInit => EyeInv
  BY EyeStart
<1>2. EyeInv /\ [PartsNext]_<<vars, skyVars, hookVars, logVars>> => EyeInv'
  BY EyeStep, EyeKeeps
<1>3. EyeInv => PairContract
  BY DEF EyeInv
<1> QED
  BY <1>1, <1>2, <1>3, PTL DEF PartsSpec

-----------------------------------------------------------------------------
\* A line.
LogLine == Logging!Line
\* The Boolean variable of the log.
LogFlags == {capped} \subseteq BOOLEAN

\* The types of the others.
LogTypes ==
  /\ stage \in {"run", "stopping", "first", "second", "closed", "detached"}
  /\ pc \in {"top", "sleep", "write", "clear", "notice", "noted"}
  /\ active \in {0, 1} /\ full \in {0, 1}
  /\ buf \in [{0, 1} -> Seq(LogLine)]
  /\ log \in Seq(LogLine) /\ taken \in Seq(LogLine) /\ discarded \in Seq(LogLine)
  /\ lines \in Nat /\ dropped \in Nat /\ reported \in Nat /\ told \in Nat
  /\ lost \in Nat /\ before \in Nat

\* Once the cap is reached nothing is written any more, so what is discarded
\* comes after all that was written.
Capped ==
  /\ capped => Logging!AtCap /\ pc \in {"top", "sleep", "write"}
  /\ discarded # <<>> => capped

\* Which buffers are empty: the one the flusher has passed, always; and those
\* that close() has written.
Passed ==
  /\ stage \in {"run", "stopping"} =>
       /\ pc \in {"write", "clear", "notice", "noted"} => full = 1 - active
       /\ pc \in {"top", "sleep"} => buf[1 - active] = <<>>
  /\ pc \in {"notice", "noted"} => buf[full] = <<>>
  /\ stage \in {"first", "second", "closed"} => pc # "sleep" /\ buf[1 - active] = <<>>
  /\ stage = "first" => full = 0 /\ (pc = "top" => buf[0] = <<>>)
  /\ stage = "second" => full = 1 /\ buf[0] = <<>> /\ (pc = "top" => buf[1] = <<>>)
  /\ stage = "closed" => pc = "top" /\ buf[0] = <<>> /\ buf[1] = <<>>

\* A line's number is new, so no line is taken twice.
Numbered ==
  /\ \A i \in DOMAIN taken : taken[i].n <= lines
  /\ Logging!IsInjective(taken)

\* What has been told, through the two steps of a notice.
Told ==
  /\ pc = "sleep" => capped \/ told >= before
  /\ stage # "detached" =>
    /\ reported <= told /\ told <= dropped /\ before <= dropped
    /\ IF pc = "noted" THEN lost = told ELSE told = reported
    /\ pc \in {"top", "sleep", "noted"} => capped \/ told >= before
    /\ stage \in {"first", "second"} /\ pc \in {"top", "noted"} => capped \/ told = dropped
    /\ stage = "closed" => capped \/ told = dropped

\* Concatenation, of sequences over any set.
LEMMA Cat ==
  ASSUME NEW S, NEW s \in Seq(S), NEW t \in Seq(S)
  PROVE  /\ s \o t \in Seq(S) /\ s \o <<>> = s /\ <<>> \o s = s /\ <<>> \in Seq(S)
         /\ \A u \in Seq(S) : (s \o t) \o u = s \o (t \o u)
  BY ConcatProperties, ConcatEmptySeq, ConcatAssociative, EmptySeq

\* The same for lines, as one formula.
LEMMA Assoc == \A x, y, z \in Seq(LogLine) : (x \o y) \o z = x \o (y \o z)
  BY ConcatAssociative

\* The lines of two sequences of lines.
LEMMA RangeCat ==
  \A x, y \in Seq(LogLine) :
    x \o y \in Seq(LogLine) /\ Range(x \o y) = Range(x) \cup Range(y)
  BY RangeConcatenation, ConcatProperties

\* Two sequences without repetition that share nothing, one after the other.
LEMMA InjectiveCat ==
  ASSUME NEW S, NEW s \in Seq(S), NEW t \in Seq(S)
  PROVE  IsInjective(s \o t) <=>
           IsInjective(s) /\ IsInjective(t) /\ Range(s) \cap Range(t) = {}
<1> DEFINE c == s \o t
<1>1. /\ c \in Seq(S) /\ Len(c) = Len(s) + Len(t)
      /\ \A i \in 1 .. Len(s) + Len(t) : c[i] = IF i <= Len(s) THEN s[i] ELSE t[i - Len(s)]
  BY ConcatProperties
<1>2. /\ DOMAIN c = 1 .. Len(s) + Len(t) /\ DOMAIN s = 1 .. Len(s) /\ DOMAIN t = 1 .. Len(t)
      /\ Len(s) \in Nat /\ Len(t) \in Nat
  BY <1>1, LenProperties
<1> HIDE DEF c
<1>3. \A i \in 1 .. Len(s) : i \in DOMAIN c /\ c[i] = s[i]
  BY <1>1, <1>2
<1>4. \A j \in 1 .. Len(t) : Len(s) + j \in DOMAIN c /\ c[Len(s) + j] = t[j]
  <2> SUFFICES ASSUME NEW j \in 1 .. Len(t)
               PROVE  Len(s) + j \in DOMAIN c /\ c[Len(s) + j] = t[j]
    OBVIOUS
  <2>1. /\ Len(s) + j \in 1 .. Len(s) + Len(t) /\ ~(Len(s) + j <= Len(s))
        /\ (Len(s) + j) - Len(s) = j
    BY <1>2
  <2> QED
    BY <1>1, <1>2, <2>1
<1>5. \A i \in DOMAIN c : \/ i \in 1 .. Len(s)
                          \/ \E j \in 1 .. Len(t) : i = Len(s) + j
  <2> SUFFICES ASSUME NEW i \in DOMAIN c, ~(i \in 1 .. Len(s))
               PROVE  i - Len(s) \in 1 .. Len(t) /\ i = Len(s) + (i - Len(s))
    OBVIOUS
  <2> QED
    BY <1>2
<1>6. ASSUME IsInjective(c) PROVE IsInjective(s) /\ IsInjective(t) /\ Range(s) \cap Range(t) = {}
  <2>1. IsInjective(s)
    BY <1>2, <1>3, <1>6 DEF IsInjective
  <2>2. IsInjective(t)
    <3> SUFFICES ASSUME NEW i \in 1 .. Len(t), NEW j \in 1 .. Len(t), t[i] = t[j] PROVE i = j
      BY <1>2 DEF IsInjective
    <3>1. Len(s) + i = Len(s) + j
      BY <1>4, <1>6 DEF IsInjective
    <3> QED
      BY <1>2, <3>1
  <2>3. ASSUME NEW i \in 1 .. Len(s), NEW j \in 1 .. Len(t), s[i] = t[j] PROVE FALSE
    <3>1. i = Len(s) + j
      BY <1>3, <1>4, <1>6, <2>3 DEF IsInjective
    <3> QED
      BY <1>2, <3>1
  <2> QED
    BY <1>2, <2>1, <2>2, <2>3 DEF Range
<1>7. ASSUME IsInjective(s), IsInjective(t), Range(s) \cap Range(t) = {} PROVE IsInjective(c)
  <2> SUFFICES ASSUME NEW i \in DOMAIN c, NEW j \in DOMAIN c, c[i] = c[j] PROVE i = j
    BY DEF IsInjective
  <2>0. \A m \in 1 .. Len(s), n \in 1 .. Len(t) : s[m] # t[n]
    BY <1>2, <1>7 DEF Range
  <2>1. CASE i \in 1 .. Len(s) /\ j \in 1 .. Len(s)
    BY <1>2, <1>3, <1>7, <2>1 DEF IsInjective
  <2>2. CASE i \notin 1 .. Len(s) /\ j \notin 1 .. Len(s)
    <3>1. PICK m \in 1 .. Len(t) : i = Len(s) + m
      BY <1>5, <2>2
    <3>2. PICK n \in 1 .. Len(t) : j = Len(s) + n
      BY <1>5, <2>2
    <3>3. t[m] = t[n]
      BY <1>4, <3>1, <3>2
    <3> QED
      BY <1>2, <1>7, <3>1, <3>2, <3>3 DEF IsInjective
  <2>3. CASE i \in 1 .. Len(s) /\ j \notin 1 .. Len(s)
    BY <1>3, <1>4, <1>5, <2>0, <2>3
  <2>4. CASE i \notin 1 .. Len(s) /\ j \in 1 .. Len(s)
    BY <1>3, <1>4, <1>5, <2>0, <2>4
  <2> QED
    BY <2>1, <2>2, <2>3, <2>4
<1> QED
  BY <1>6, <1>7 DEF c

\* The helpers the log takes from the library are the ones of the theorems.
LEMMA SameHelpers ==
  /\ \A f : Logging!IsInjective(f) = IsInjective(f)
  /\ \A f : Logging!ToSet(f) = Range(f)
<1>1. \A f : Logging!IsInjective(f) = IsInjective(f)
  BY DEF Logging!IsInjective, IsInjective
<1>2. \A f : Logging!ToSet(f) = Range(f)
  BY DEF Logging!ToSet, Range
<1> QED
  BY <1>1, <1>2

\* Whether the cap was reached stays Boolean: SMT does not see it, Zenon does.
LEMMA LogFlagsStay == LogFlags /\ [Logging!Next]_logVars => LogFlags'
<1> SUFFICES ASSUME LogFlags, [Logging!Next]_logVars PROVE LogFlags'
  OBVIOUS
<1> USE DEF LogFlags
<1>1. ASSUME Logging!Note PROVE LogFlags'
  BY <1>1, Zenon DEF Logging!Note, Logging!flusher
<1>2. ASSUME Logging!Top PROVE LogFlags'
  BY <1>2, Zenon DEF Logging!Top, Logging!flusher
<1>3. ASSUME Logging!Swap PROVE LogFlags'
  BY <1>3, Zenon DEF Logging!Swap, Logging!flusher
<1>4. ASSUME Logging!Write PROVE LogFlags'
  BY <1>4, Zenon DEF Logging!Write, Logging!flusher
<1>5. ASSUME Logging!Clear PROVE LogFlags'
  BY <1>5, Zenon DEF Logging!Clear, Logging!flusher
<1>6. ASSUME Logging!Notice PROVE LogFlags'
  BY <1>6, Zenon DEF Logging!Notice, Logging!flusher
<1>7. ASSUME Logging!Noted PROVE LogFlags'
  BY <1>7, Zenon DEF Logging!Noted, Logging!flusher
<1>8. ASSUME Logging!Close PROVE LogFlags'
  BY <1>8, Zenon DEF Logging!Close, Logging!flusher
<1>9. ASSUME Logging!Detach PROVE LogFlags'
  BY <1>9, Zenon DEF Logging!Detach, Logging!flusher
<1>10. ASSUME UNCHANGED logVars PROVE LogFlags'
  BY <1>10, Zenon DEF logVars
<1> QED
  BY <1>1, <1>2, <1>3, <1>4, <1>5, <1>6, <1>7, <1>8, <1>9, <1>10 DEF Logging!Next

\* The lines, before and after the end of the process.
LogKept ==
  /\ stage # "detached" => log \o discarded \o Logging!Unwritten = taken
  /\ Logging!EndIsSaved
\* All of the invariant but the flag.
LogRest == LogTypes /\ Capped /\ Passed /\ Numbered /\ Told /\ LogKept
\* The inductive invariant of the log.
LogInv == LogFlags /\ LogRest

\* The flusher goes to sleep, or close() goes to the next buffer.
LEMMA TopLog == LogInv /\ Logging!Top => LogRest'
<1> SUFFICES ASSUME LogInv, Logging!Top PROVE LogRest'
  OBVIOUS
<1>1. LogTypes /\ Capped /\ Passed /\ Numbered /\ Told /\ LogKept /\ LogFlags
  BY DEF LogInv, LogRest
<1>2. LogTypes'
  BY <1>1 DEF Logging!Top, LogTypes, LogLine, Logging!Line, Logging!flusher
<1>3. Capped'
  BY <1>1 DEF Logging!Top, Capped, Logging!AtCap, LogTypes, Logging!flusher
<1>4. Passed'
  BY <1>1 DEF Logging!Top, Passed, LogTypes, Logging!flusher
<1>5. Numbered'
  BY <1>1 DEF Logging!Top, Numbered, Logging!IsInjective
<1>6. Told'
  BY <1>1 DEF Logging!Top, Told, LogTypes, Passed, Logging!flusher
<1>7. LogKept'
  BY <1>1
  DEF Logging!Top, LogKept, Logging!Unwritten, Logging!EndIsSaved, Logging!flusher, LogTypes,
      Passed
<1> QED
  BY <1>2, <1>3, <1>4, <1>5, <1>6, <1>7 DEF LogRest

\* The buffer that was passed is empty, so the swap keeps the order of the lines.
LEMMA SwapLog == LogInv /\ Logging!Swap => LogRest'
<1> SUFFICES ASSUME LogInv, Logging!Swap PROVE LogRest'
  OBVIOUS
<1>1. LogTypes /\ Capped /\ Passed /\ Numbered /\ Told /\ LogKept /\ LogFlags
  BY DEF LogInv, LogRest
<1>2. LogTypes'
  BY <1>1 DEF Logging!Swap, Logging!Full, LogTypes, LogLine, Logging!Line
<1>3. Capped'
  BY <1>1 DEF Logging!Swap, Capped, Logging!AtCap, LogTypes, Logging!flusher, Logging!Full
<1>4. Passed'
  BY <1>1 DEF Logging!Swap, Passed, LogTypes, Logging!flusher, Logging!Full
<1>5. Numbered'
  BY <1>1 DEF Logging!Swap, Numbered, Logging!IsInjective
<1>6. Told'
  BY <1>1 DEF Logging!Swap, Told, LogTypes, Passed, Logging!flusher, Logging!Full
<1>7. LogKept'
  <2>1. buf[1 - active] = <<>> /\ stage' # "detached" /\ pc = "sleep" /\ pc' = "write"
        /\ buf' = buf /\ active' = 1 - active /\ 1 - active' = active
        /\ log' = log /\ discarded' = discarded /\ taken' = taken /\ stage' = stage
    BY <1>1 DEF Logging!Swap, Passed, LogTypes
  <2>2. buf[active] \in Seq(LogLine) /\ buf[active] \o <<>> = buf[active]
        /\ <<>> \o buf[active] = buf[active]
    BY <1>1, Cat DEF LogTypes
  <2>3. Logging!Unwritten = buf[active] /\ Logging!Unwritten' = buf[active]
    BY <2>1, <2>2 DEF Logging!Unwritten
  <2> QED
    BY <1>1, <2>1, <2>3 DEF LogKept, Logging!EndIsSaved
<1> QED
  BY <1>2, <1>3, <1>4, <1>5, <1>6, <1>7 DEF LogRest

\* A notice names all the drops counted so far.
LEMMA NoticeLog == LogInv /\ Logging!Notice => LogRest'
<1> SUFFICES ASSUME LogInv, Logging!Notice PROVE LogRest'
  OBVIOUS
<1>1. LogTypes /\ Capped /\ Passed /\ Numbered /\ Told /\ LogKept /\ LogFlags
  BY DEF LogInv, LogRest
<1>2. LogTypes'
  BY <1>1 DEF Logging!Notice, LogTypes, LogLine, Logging!Line, Logging!flusher
<1>3. Capped'
  BY <1>1 DEF Logging!Notice, Capped, Logging!AtCap, LogTypes, Logging!flusher
<1>4. Passed'
  BY <1>1 DEF Logging!Notice, Passed, LogTypes, Logging!flusher
<1>5. Numbered'
  BY <1>1 DEF Logging!Notice, Numbered, Logging!IsInjective
<1>6. Told'
  BY <1>1 DEF Logging!Notice, Told, LogTypes, Passed, Logging!flusher
<1>7. LogKept'
  BY <1>1
  DEF Logging!Notice, LogKept, Logging!Unwritten, Logging!EndIsSaved, Logging!flusher, LogTypes,
      Passed
<1> QED
  BY <1>2, <1>3, <1>4, <1>5, <1>6, <1>7 DEF LogRest

\* What was named is what is remembered as reported.
LEMMA NotedLog == LogInv /\ Logging!Noted => LogRest'
<1> SUFFICES ASSUME LogInv, Logging!Noted PROVE LogRest'
  OBVIOUS
<1>1. LogTypes /\ Capped /\ Passed /\ Numbered /\ Told /\ LogKept /\ LogFlags
  BY DEF LogInv, LogRest
<1>2. LogTypes'
  BY <1>1 DEF Logging!Noted, LogTypes, LogLine, Logging!Line, Logging!flusher
<1>3. Capped'
  BY <1>1 DEF Logging!Noted, Capped, Logging!AtCap, LogTypes, Logging!flusher
<1>4. Passed'
  BY <1>1 DEF Logging!Noted, Passed, LogTypes, Logging!flusher
<1>5. Numbered'
  BY <1>1 DEF Logging!Noted, Numbered, Logging!IsInjective
<1>6. Told'
  BY <1>1 DEF Logging!Noted, Told, LogTypes, Passed, Logging!flusher
<1>7. LogKept'
  BY <1>1
  DEF Logging!Noted, LogKept, Logging!Unwritten, Logging!EndIsSaved, Logging!flusher, LogTypes,
      Passed
<1> QED
  BY <1>2, <1>3, <1>4, <1>5, <1>6, <1>7 DEF LogRest

\* close() is called.
LEMMA CloseLog == LogInv /\ Logging!Close => LogRest'
<1> SUFFICES ASSUME LogInv, Logging!Close PROVE LogRest'
  OBVIOUS
<1>1. LogTypes /\ Capped /\ Passed /\ Numbered /\ Told /\ LogKept /\ LogFlags
  BY DEF LogInv, LogRest
<1>2. LogTypes'
  BY <1>1 DEF Logging!Close, LogTypes, LogLine, Logging!Line, Logging!flusher
<1>3. Capped'
  BY <1>1 DEF Logging!Close, Capped, Logging!AtCap, LogTypes, Logging!flusher
<1>4. Passed'
  BY <1>1 DEF Logging!Close, Passed, LogTypes, Logging!flusher
<1>5. Numbered'
  BY <1>1 DEF Logging!Close, Numbered, Logging!IsInjective
<1>6. Told'
  BY <1>1 DEF Logging!Close, Told, LogTypes, Passed, Logging!flusher
<1>7. LogKept'
  BY <1>1
  DEF Logging!Close, LogKept, Logging!Unwritten, Logging!EndIsSaved, Logging!flusher, LogTypes,
      Passed
<1> QED
  BY <1>2, <1>3, <1>4, <1>5, <1>6, <1>7 DEF LogRest

\* A line is taken, behind all others, or counted as dropped.
LEMMA NoteLog == LogInv /\ Logging!Note => LogRest'
<1> SUFFICES ASSUME LogInv, Logging!Note PROVE LogRest'
  OBVIOUS
<1>1. LogTypes /\ Capped /\ Passed /\ Numbered /\ Told /\ LogKept
  BY DEF LogInv, LogRest
<1>2. /\ stage = "run" /\ lines < MaxLines /\ lines' = lines + 1
      /\ UNCHANGED <<stage, active, torn, pc, full, lost, log, bytes, capped, reported, told,
                     discarded, before>>
  BY DEF Logging!Note, Logging!flusher
<1>3. PICK s \in LineSizes :
        LET l == [n |-> lines + 1, size |-> s]
        IN  \/ dropped' = dropped + 1 /\ UNCHANGED <<buf, taken>>
            \/ /\ buf' = [buf EXCEPT ![active] = Append(@, l)]
               /\ taken' = Append(taken, l)
               /\ UNCHANGED dropped
  BY DEF Logging!Note
<1> DEFINE l == [n |-> lines + 1, size |-> s]
<1>4. l \in LogLine /\ l.n = lines + 1
  BY <1>1, <1>2, PartsAssumption DEF LogTypes, LogLine, Logging!Line, PartsAssumption
<1>5. CASE dropped' = dropped + 1 /\ UNCHANGED <<buf, taken>>
  <2>1. LogTypes'
    BY <1>1, <1>2, <1>5 DEF LogTypes, LogLine, Logging!Line
  <2>2. Capped' /\ Passed'
    BY <1>1, <1>2, <1>5 DEF Capped, Passed, Logging!AtCap
  <2>3. Numbered'
    <3>1. \A i \in DOMAIN taken : taken[i].n \in Nat
      <4>1. DOMAIN taken = 1 .. Len(taken) /\ \A i \in 1 .. Len(taken) : taken[i] \in LogLine
        BY <1>1, ElementOfSeq, LenProperties DEF LogTypes
      <4> QED
        BY <4>1 DEF LogLine, Logging!Line
    <3>2. \A i \in DOMAIN taken : taken[i].n <= lines + 1
      BY <1>1, <3>1 DEF Numbered, LogTypes
    <3> QED
      BY <1>1, <1>2, <1>5, <3>2 DEF Numbered, Logging!IsInjective
  <2>4. Told'
    BY <1>1, <1>2, <1>5 DEF Told, LogTypes
  <2>5. LogKept'
    BY <1>1, <1>2, <1>5 DEF LogKept, Logging!Unwritten, Logging!EndIsSaved
  <2> QED
    BY <2>1, <2>2, <2>3, <2>4, <2>5 DEF LogRest
<1>6. CASE /\ buf' = [buf EXCEPT ![active] = Append(@, l)]
           /\ taken' = Append(taken, l)
           /\ UNCHANGED dropped
  <2> HIDE DEF l
  <2>0. /\ buf[active] \in Seq(LogLine) /\ buf[1 - active] \in Seq(LogLine) /\ 1 - active # active
        /\ 1 - active \in {0, 1}
    BY <1>1 DEF LogTypes
  <2>1. /\ Append(buf[active], l) \in Seq(LogLine) /\ Append(buf[active], l) = buf[active] \o <<l>>
        /\ Append(taken, l) \in Seq(LogLine) /\ Append(taken, l) = taken \o <<l>>
        /\ <<l>> \in Seq(LogLine)
    BY <1>1, <1>4, <2>0, AppendProperties, AppendIsConcat DEF LogTypes
  <2>2. /\ buf'[active] = buf[active] \o <<l>> /\ buf'[1 - active] = buf[1 - active]
        /\ buf' \in [{0, 1} -> Seq(LogLine)]
    BY <1>1, <1>6, <2>0, <2>1 DEF LogTypes
  <2>3. LogTypes'
    <3>1. LogLine' = LogLine
      BY DEF LogLine, Logging!Line
    <3> QED
      BY <1>1, <1>2, <1>6, <2>1, <2>2, <3>1 DEF LogTypes
  <2>4. Capped'
    BY <1>1, <1>2 DEF Capped, Logging!AtCap
  <2>5. Passed'
    BY <1>1, <1>2, <2>0, <2>2 DEF Passed
  <2>6. Numbered'
    <3>1. /\ DOMAIN taken = 1 .. Len(taken) /\ Len(taken) \in Nat
          /\ DOMAIN taken' = 1 .. Len(taken) + 1
          /\ \A i \in 1 .. Len(taken) : taken'[i] = taken[i] /\ taken[i] \in LogLine
          /\ taken'[Len(taken) + 1] = l
      BY <1>1, <1>4, <1>6, <2>1, AppendProperties, LenProperties, ElementOfSeq DEF LogTypes
    <3>2. \A i \in 1 .. Len(taken) : taken[i].n <= lines /\ taken[i].n \in Nat
      BY <1>1, <3>1 DEF Numbered, LogLine, Logging!Line
    <3>3. lines \in Nat
      BY <1>1 DEF LogTypes
    <3>4. \A i \in DOMAIN taken' : taken'[i].n <= lines'
      BY <1>2, <1>4, <3>1, <3>2, <3>3
    <3>5. ASSUME NEW i \in DOMAIN taken', NEW j \in DOMAIN taken', taken'[i] = taken'[j] PROVE i = j
      <4>1. \A k \in 1 .. Len(taken) : taken[k] # l
        BY <1>4, <3>2, <3>3
      <4>2. \A k \in DOMAIN taken' : k \in 1 .. Len(taken) \/ k = Len(taken) + 1
        BY <3>1
      <4> QED
        BY <1>1, <3>1, <3>5, <4>1, <4>2 DEF Numbered, Logging!IsInjective
    <3> QED
      BY <3>4, <3>5 DEF Numbered, Logging!IsInjective
  <2>7. Told'
    BY <1>1, <1>2, <1>6 DEF Told
  <2>8. LogKept'
    <3>1. Logging!Unwritten \in Seq(LogLine) /\ Logging!Unwritten' = Logging!Unwritten \o <<l>>
      <4>1. CASE pc = "clear"
        <5>1. full = 1 - active /\ 1 - full = active
          BY <1>1, <1>2, <4>1 DEF Passed, LogTypes
        <5> QED
          BY <1>2, <2>0, <2>2, <4>1, <5>1 DEF Logging!Unwritten
      <4>2. CASE pc # "clear"
        <5>1. Logging!Unwritten = buf[1 - active] \o buf[active]
          BY <4>2 DEF Logging!Unwritten
        <5>2. Logging!Unwritten' = buf[1 - active] \o (buf[active] \o <<l>>)
          BY <1>2, <2>2, <4>2 DEF Logging!Unwritten
        <5> QED
          BY <2>0, <2>1, <5>1, <5>2, Assoc, Cat
      <4> QED
        BY <4>1, <4>2
    <3>2. log \o discarded \in Seq(LogLine)
      BY <1>1, Cat DEF LogTypes
    <3>3. (log \o discarded) \o (Logging!Unwritten \o <<l>>) = taken \o <<l>>
      <4>1. (log \o discarded) \o (Logging!Unwritten \o <<l>>) =
              ((log \o discarded) \o Logging!Unwritten) \o <<l>>
        BY <2>1, <3>1, <3>2, Assoc
      <4>2. (log \o discarded) \o Logging!Unwritten = taken
        BY <1>1, <1>2 DEF LogKept
      <4> QED
        BY <4>1, <4>2, Zenon
    <3> QED
      BY <1>2, <1>6, <2>1, <3>1, <3>3 DEF LogKept, Logging!EndIsSaved
  <2> QED
    BY <2>3, <2>4, <2>5, <2>6, <2>7, <2>8 DEF LogRest
<1> QED
  BY <1>3, <1>5, <1>6

\* Where the flusher writes, the lines not yet written are its buffer's first.
LEMMA Waiting ==
  ASSUME LogTypes, Passed, pc = "write", stage # "detached"
  PROVE  /\ buf[full] \in Seq(LogLine) /\ buf[1 - full] \in Seq(LogLine) /\ 1 - full # full
         /\ 1 - full \in {0, 1}
         /\ Logging!Unwritten = buf[full] \o buf[1 - full]
<1>1. /\ buf[full] \in Seq(LogLine) /\ buf[1 - full] \in Seq(LogLine) /\ 1 - full # full
      /\ 1 - full \in {0, 1} /\ 1 - (1 - full) = full
  BY DEF LogTypes
<1>2. Logging!Unwritten = buf[1 - active] \o buf[active]
  BY DEF Logging!Unwritten
<1>3. CASE full = 1 - active
  BY <1>1, <1>2, <1>3 DEF LogTypes
<1>4. CASE full # 1 - active
  <2>1. full = active /\ buf[1 - full] = <<>>
    BY <1>4 DEF Passed, LogTypes
  <2> QED
    BY <1>1, <1>2, <2>1, Cat
<1> QED
  BY <1>3, <1>4

\* A pass writes its buffer, or discards it once the cap is reached.
LEMMA WriteLog == LogInv /\ Logging!Write => LogRest'
<1> SUFFICES ASSUME LogInv, Logging!Write PROVE LogRest'
  OBVIOUS
<1>1. LogTypes /\ Capped /\ Passed /\ Numbered /\ Told /\ LogKept
  BY DEF LogInv, LogRest
<1>2. /\ pc = "write" /\ stage # "detached"
      /\ UNCHANGED <<stage, active, full, lost, dropped, reported, told, lines, taken, before,
                     torn>>
  BY DEF Logging!Write
<1>3. /\ buf[full] \in Seq(LogLine) /\ buf[1 - full] \in Seq(LogLine) /\ 1 - full # full
      /\ 1 - full \in {0, 1}
      /\ Logging!Unwritten = buf[full] \o buf[1 - full]
  BY <1>1, <1>2, Waiting
<1>4. LogLine' = LogLine /\ log \in Seq(LogLine) /\ discarded \in Seq(LogLine)
  BY <1>1 DEF LogLine, Logging!Line, LogTypes
<1>5. Numbered'
  BY <1>1, <1>2 DEF Numbered, Logging!IsInjective
<1>6. (log \o discarded) \o (buf[full] \o buf[1 - full]) = taken
  BY <1>1, <1>2, <1>3 DEF LogKept
<1>7. CASE Logging!Idle /\ pc' = "top" /\ UNCHANGED <<buf, log, bytes, capped, discarded>>
  <2>1. LogTypes'
    BY <1>1, <1>2, <1>4, <1>7 DEF LogTypes
  <2>2. Capped'
    BY <1>1, <1>7 DEF Capped, Logging!AtCap
  <2>3. buf[full] = <<>> /\ dropped = reported
    BY <1>7 DEF Logging!Idle
  <2>4. Passed'
    BY <1>1, <1>2, <1>7, <2>3 DEF Passed, LogTypes
  <2>5. Told'
    BY <1>1, <1>2, <1>7, <2>3 DEF Told, LogTypes
  <2>6. LogKept'
    BY <1>1, <1>2, <1>7 DEF LogKept, Logging!Unwritten, Logging!EndIsSaved
  <2> QED
    BY <1>5, <2>1, <2>2, <2>4, <2>5, <2>6 DEF LogRest
<1>8. CASE /\ ~Logging!Idle /\ Logging!AtCap
           /\ capped' = TRUE /\ discarded' = discarded \o buf[full]
           /\ buf' = [buf EXCEPT ![full] = <<>>]
           /\ pc' = "top" /\ UNCHANGED <<log, bytes>>
  <2>0. /\ buf' \in [{0, 1} -> Seq(LogLine)] /\ buf'[full] = <<>> /\ buf'[1 - full] = buf[1 - full]
        /\ discarded' \in Seq(LogLine)
    BY <1>1, <1>3, <1>4, <1>8, Cat, EmptySeq DEF LogTypes
  <2>1. LogTypes'
    BY <1>1, <1>2, <1>4, <1>8, <2>0 DEF LogTypes
  <2>2. Capped'
    BY <1>1, <1>8 DEF Capped, Logging!AtCap
  <2>4. Passed'
    BY <1>1, <1>2, <1>8, <2>0 DEF Passed, LogTypes
  <2>5. Told'
    BY <1>1, <1>2, <1>8 DEF Told, LogTypes
  <2>6. LogKept'
    <3>1. Logging!Unwritten' = buf[1 - full]
      <4>1. Logging!Unwritten' = buf'[1 - active] \o buf'[active]
        BY <1>2, <1>8 DEF Logging!Unwritten
      <4>2. CASE full = active
        BY <1>3, <2>0, <4>1, <4>2, Cat
      <4>3. CASE full = 1 - active /\ active = 1 - full
        BY <1>3, <2>0, <4>1, <4>3, Cat
      <4> QED
        BY <1>1, <4>2, <4>3 DEF LogTypes
    <3>2. (log \o (discarded \o buf[full])) \o buf[1 - full] = taken
      <4>1. log \o discarded \in Seq(LogLine)
        BY <1>4, Cat
      <4>2. (log \o discarded) \o (buf[full] \o buf[1 - full]) =
              ((log \o discarded) \o buf[full]) \o buf[1 - full]
        BY <1>3, <4>1, Assoc
      <4>3. (log \o discarded) \o buf[full] = log \o (discarded \o buf[full])
        BY <1>3, <1>4, Assoc
      <4> QED
        BY <1>6, <4>2, <4>3
    <3> QED
      BY <1>2, <1>8, <3>1, <3>2 DEF LogKept, Logging!EndIsSaved
  <2> QED
    BY <1>5, <2>1, <2>2, <2>4, <2>5, <2>6 DEF LogRest
<1>9. CASE /\ ~Logging!Idle /\ ~Logging!AtCap
           /\ log' = log \o buf[full]
           /\ pc' = IF buf[full] = <<>> THEN "notice" ELSE "clear"
           /\ UNCHANGED <<buf, capped, discarded>>
  <2>0. discarded = <<>> /\ ~capped /\ log' \in Seq(LogLine)
    BY <1>1, <1>3, <1>4, <1>9, Cat DEF Capped
  <2>1. LogTypes'
    BY <1>1, <1>2, <1>4, <1>9, <2>0 DEF LogTypes
  <2>2. Capped'
    BY <1>9, <2>0 DEF Capped
  <2>4. Passed'
    BY <1>1, <1>2, <1>9 DEF Passed, LogTypes
  <2>5. Told'
    BY <1>1, <1>2, <1>9 DEF Told, LogTypes
  <2>6. LogKept'
    <3>1. (log \o buf[full]) \o buf[1 - full] = taken /\ log' \o discarded' = log \o buf[full]
      <4>1. log \o discarded = log /\ log' \o discarded' = log'
        BY <1>4, <1>9, <2>0, ConcatEmptySeq
      <4> QED
        <5>1. (log \o buf[full]) \o buf[1 - full] = log \o (buf[full] \o buf[1 - full])
          BY <1>3, <1>4, Assoc
        <5>2. log \o (buf[full] \o buf[1 - full]) = taken
          BY <1>6, <4>1, Zenon
        <5> QED
          BY <1>9, <4>1, <5>1, <5>2, Zenon
    <3>2. Logging!Unwritten' = buf[1 - full]
      <4>1. CASE buf[full] = <<>>
        <5>1. Logging!Unwritten' = Logging!Unwritten
          BY <1>2, <1>9, <4>1 DEF Logging!Unwritten
        <5> QED
          BY <1>3, <4>1, <5>1, Cat
      <4>2. CASE buf[full] # <<>>
        BY <1>2, <1>9, <4>2 DEF Logging!Unwritten
      <4> QED
        BY <4>1, <4>2
    <3> QED
      BY <1>2, <3>1, <3>2 DEF LogKept, Logging!EndIsSaved
  <2> QED
    BY <1>5, <2>1, <2>2, <2>4, <2>5, <2>6 DEF LogRest
<1> QED
  BY <1>7, <1>8, <1>9 DEF Logging!Write

\* What was written is taken out of the buffer.
LEMMA ClearLog == LogInv /\ Logging!Clear => LogRest'
<1> SUFFICES ASSUME LogInv, Logging!Clear PROVE LogRest'
  OBVIOUS
<1>1. LogTypes /\ Capped /\ Passed /\ Numbered /\ Told /\ LogKept
  BY DEF LogInv, LogRest
<1>2. /\ pc = "clear" /\ stage # "detached" /\ pc' = "notice"
      /\ buf' = [buf EXCEPT ![full] = <<>>]
      /\ UNCHANGED <<stage, active, full, lost, log, bytes, capped, dropped, reported, told,
                     lines, taken, discarded, before, torn>>
  BY DEF Logging!Clear
<1>3. /\ buf[1 - full] \in Seq(LogLine) /\ 1 - full # full /\ 1 - full \in {0, 1}
      /\ buf' \in [{0, 1} -> Seq(LogLine)] /\ buf'[full] = <<>> /\ buf'[1 - full] = buf[1 - full]
  BY <1>1, <1>2, EmptySeq DEF LogTypes
<1>4. LogTypes'
  <2>1. LogLine' = LogLine
    BY DEF LogLine, Logging!Line
  <2> QED
    BY <1>1, <1>2, <1>3, <2>1 DEF LogTypes
<1>5. Capped' /\ Numbered' /\ Told'
  BY <1>1, <1>2 DEF Capped, Logging!AtCap, Numbered, Logging!IsInjective, Told
<1>6. Passed'
  BY <1>1, <1>2, <1>3 DEF Passed, LogTypes
<1>7. LogKept'
  <2>1. Logging!Unwritten = buf[1 - full]
    BY <1>2 DEF Logging!Unwritten
  <2>2. Logging!Unwritten' = buf[1 - full]
    <3>1. Logging!Unwritten' = buf'[1 - active] \o buf'[active]
      BY <1>2 DEF Logging!Unwritten
    <3>2. CASE full = active
      BY <1>3, <3>1, <3>2, Cat
    <3>3. CASE full = 1 - active /\ active = 1 - full
      BY <1>3, <3>1, <3>3, Cat
    <3> QED
      BY <1>1, <3>2, <3>3 DEF LogTypes
  <2> QED
    BY <1>1, <1>2, <2>1, <2>2 DEF LogKept, Logging!EndIsSaved
<1> QED
  BY <1>4, <1>5, <1>6, <1>7 DEF LogRest

\* The end of the process: both buffers are behind the file, in either order.
LEMMA DetachLog == LogInv /\ Logging!Detach => LogRest'
<1> SUFFICES ASSUME LogInv, Logging!Detach PROVE LogRest'
  OBVIOUS
<1>1. LogTypes /\ Capped /\ Passed /\ Numbered /\ Told /\ LogKept
  BY DEF LogInv, LogRest
<1>2. /\ stage = "run" /\ stage' = "detached"
      /\ UNCHANGED <<buf, active, pc, full, lost, bytes, capped, dropped, reported, lines,
                     taken, discarded, before>>
  BY DEF Logging!Detach
<1>3. PICK t \in {active, 2} \cup (IF pc = "clear" THEN {full} ELSE {}) :
        LET Saved == CASE t = 2 -> buf[0] \o buf[1]
                       [] t = 1 -> buf[0]
                       [] t = 0 -> <<>>
        IN  /\ torn' = t
            /\ log' = log \o Saved
            /\ told' = IF t = 2 THEN dropped ELSE told
  BY DEF Logging!Detach
<1>4. /\ t \in {0, 1, 2} /\ torn' = t
      /\ told' = IF t = 2 THEN dropped ELSE told
      /\ t = 2 => log' = log \o (buf[0] \o buf[1])
      /\ t = 1 => log' = log \o buf[0]
      /\ t = 0 => log' = log \o <<>>
  BY <1>1, <1>3 DEF LogTypes
<1>5. /\ buf[0] \in Seq(LogLine) /\ buf[1] \in Seq(LogLine) /\ log \in Seq(LogLine)
      /\ discarded \in Seq(LogLine) /\ taken \in Seq(LogLine)
  BY <1>1 DEF LogTypes
<1>6. /\ buf[0] \o buf[1] \in Seq(LogLine) /\ <<>> \in Seq(LogLine)
      /\ log \o discarded \in Seq(LogLine) /\ log \o <<>> = log
  BY <1>5, Cat
<1>7. LogTypes'
  <2>1. LogLine' = LogLine
    BY DEF LogLine, Logging!Line
  <2>2. log' \in Seq(LogLine)
    <3>1. /\ log \o (buf[0] \o buf[1]) \in Seq(LogLine)
          /\ log \o buf[0] \in Seq(LogLine) /\ log \o <<>> \in Seq(LogLine)
      BY <1>5, <1>6, RangeCat
    <3> QED
      BY <1>4, <3>1
  <2>3. told' \in Nat
    BY <1>1, <1>4 DEF LogTypes
  <2> QED
    BY <1>1, <1>2, <2>1, <2>2, <2>3 DEF LogTypes
<1>8. Capped' /\ Numbered'
  BY <1>1, <1>2 DEF Capped, Logging!AtCap, Numbered, Logging!IsInjective
<1>9. Passed' /\ Told'
  <2>1. Told'
    BY <1>1, <1>2, <1>4 DEF Told, LogTypes
  <2> QED
    BY <1>1, <1>2, <2>1 DEF Passed
<1>10. (log \o discarded) \o Logging!Unwritten = taken
  BY <1>1, <1>2 DEF LogKept
<1>11. ASSUME t = 2 PROVE Range(taken) \subseteq Range(log') \cup Range(discarded)
  <2>1. /\ Logging!Unwritten \in Seq(LogLine)
        /\ Range(Logging!Unwritten) \subseteq Range(buf[0]) \cup Range(buf[1])
    <3>1. CASE pc = "clear"
      BY <1>1, <1>5, <3>1 DEF Logging!Unwritten, LogTypes
    <3>2. CASE pc # "clear" /\ active = 0
      <4>0. 1 - active = 1
        BY <3>2
      <4>1. Logging!Unwritten = buf[1] \o buf[0]
        BY <3>2, <4>0, Zenon DEF Logging!Unwritten
      <4> QED
        BY <1>5, <4>1, RangeCat
    <3>3. CASE pc # "clear" /\ active = 1
      <4>0. 1 - active = 0
        BY <3>3
      <4>1. Logging!Unwritten = buf[0] \o buf[1]
        BY <3>3, <4>0, Zenon DEF Logging!Unwritten
      <4> QED
        BY <1>5, <4>1, RangeCat
    <3> QED
      BY <1>1, <3>1, <3>2, <3>3 DEF LogTypes
  <2>2. Range(taken) = Range(log \o discarded) \cup Range(Logging!Unwritten)
    <3>1. Range((log \o discarded) \o Logging!Unwritten) =
            Range(log \o discarded) \cup Range(Logging!Unwritten)
      BY <1>6, <2>1, RangeCat
    <3> QED
      BY <1>10, <3>1, Zenon
  <2>3. Range(log \o discarded) = Range(log) \cup Range(discarded)
    BY <1>5, RangeCat
  <2>4. Range(log') = Range(log) \cup Range(buf[0]) \cup Range(buf[1])
    <3>1. Range(buf[0] \o buf[1]) = Range(buf[0]) \cup Range(buf[1])
      BY <1>5, RangeCat
    <3>2. Range(log \o (buf[0] \o buf[1])) = Range(log) \cup Range(buf[0] \o buf[1])
      BY <1>5, <1>6, RangeCat
    <3>3. log' = log \o (buf[0] \o buf[1])
      BY <1>4, <1>11
    <3> QED
      BY <3>1, <3>2, <3>3, Zenon
  <2> QED
    BY <2>1, <2>2, <2>3, <2>4
<1>12. ASSUME pc # "clear" PROVE IsInjective(log')
  <2> DEFINE X == buf[1 - active]
             Y == buf[active]
  <2>1. X \in Seq(LogLine) /\ Y \in Seq(LogLine)
    BY <1>1 DEF LogTypes
  <2>2. Logging!Unwritten = X \o Y
    BY <1>12, Zenon DEF Logging!Unwritten
  <2>2a. (X = buf[0] /\ Y = buf[1]) \/ (X = buf[1] /\ Y = buf[0])
    BY <1>1 DEF LogTypes
  <2> HIDE DEF X, Y
  <2>3. IsInjective(taken)
    BY <1>1, SameHelpers DEF Numbered
  <2>4. taken = (log \o discarded) \o (X \o Y) /\ X \o Y \in Seq(LogLine)
    BY <1>10, <2>1, <2>2, RangeCat
  <2>5. /\ IsInjective(log \o discarded) /\ IsInjective(X \o Y)
        /\ Range(log \o discarded) \cap Range(X \o Y) = {}
    BY <1>6, <2>3, <2>4, InjectiveCat
  <2>6. IsInjective(log) /\ IsInjective(X) /\ IsInjective(Y) /\ Range(X) \cap Range(Y) = {}
    BY <1>5, <2>1, <2>5, InjectiveCat
  <2>7. Range(log) \cap (Range(X) \cup Range(Y)) = {}
    <3>1. Range(log \o discarded) = Range(log) \cup Range(discarded)
      BY <1>5, RangeCat
    <3>2. Range(X \o Y) = Range(X) \cup Range(Y)
      BY <2>1, RangeCat
    <3> QED
      BY <2>5, <3>1, <3>2
  <2>8. /\ IsInjective(buf[0]) /\ IsInjective(buf[1]) /\ Range(buf[0]) \cap Range(buf[1]) = {}
        /\ Range(log) \cap (Range(buf[0]) \cup Range(buf[1])) = {}
    BY <2>2a, <2>6, <2>7
  <2>9. IsInjective(buf[0] \o buf[1]) /\ Range(buf[0] \o buf[1]) = Range(buf[0]) \cup Range(buf[1])
    BY <1>5, <2>8, InjectiveCat, RangeCat
  <2>10. IsInjective(log \o (buf[0] \o buf[1]))
    BY <1>5, <1>6, <2>6, <2>8, <2>9, InjectiveCat
  <2>11. IsInjective(log \o buf[0])
    <3>1. Range(log) \cap Range(buf[0]) = {}
      BY <2>8
    <3> QED
      BY <1>5, <2>6, <2>8, <3>1, InjectiveCat
  <2> QED
    BY <1>4, <1>6, <2>6, <2>10, <2>11
<1>13. LogKept'
  <2> DEFINE Saves == Logging!ToSet(taken') \subseteq
                        Logging!ToSet(log') \cup Logging!ToSet(discarded')
  <2>1. torn' = 2 => Saves /\ told' = dropped'
    <3> SUFFICES ASSUME t = 2
                 PROVE  Saves /\ told' = dropped'
      BY <1>4
    <3> QED
      BY <1>2, <1>4, <1>11, SameHelpers
  <2>2. pc' = "clear" \/ Logging!IsInjective(log')
    BY <1>2, <1>12, SameHelpers
  <2> QED
    BY <1>2, <2>1, <2>2 DEF LogKept, Logging!EndIsSaved
<1> QED
  BY <1>7, <1>8, <1>9, <1>13 DEF LogRest

\* The invariant is inductive.
LEMMA LogKeeps == LogInv /\ [Logging!Next]_logVars => LogInv'
<1> SUFFICES ASSUME LogInv, [Logging!Next]_logVars PROVE LogInv'
  OBVIOUS
<1>1. LogFlags'
  BY LogFlagsStay DEF LogInv
<1>2. ASSUME UNCHANGED logVars PROVE LogRest'
  <2>1. LogTypes' /\ Capped' /\ Passed'
    BY <1>2
    DEF logVars, LogInv, LogRest, LogTypes, LogLine, Logging!Line, Capped, Logging!AtCap, Passed
  <2>2. Numbered' /\ Told'
    BY <1>2 DEF logVars, LogInv, LogRest, Numbered, Logging!IsInjective, Told
  <2>3. LogKept'
    BY <1>2 DEF logVars, LogInv, LogRest, LogKept, Logging!Unwritten, Logging!EndIsSaved
  <2> QED
    BY <2>1, <2>2, <2>3 DEF LogRest
<1>3. LogRest'
  BY <1>2, NoteLog, TopLog, SwapLog, WriteLog, ClearLog, NoticeLog, NotedLog, CloseLog, DetachLog
  DEF Logging!Next
<1> QED
  BY <1>1, <1>3 DEF LogInv

\* Nothing has been noted.
LEMMA LogStart == PartsInit => LogInv
<1> SUFFICES ASSUME Logging!Init PROVE LogInv
  BY DEF PartsInit
<1>1. <<>> \in Seq(LogLine) /\ Len(<<>>) = 0 /\ <<>> \o <<>> = <<>>
  BY EmptySeq, ConcatEmptySeq
<1>2. LogFlags
  BY Zenon DEF Logging!Init, LogFlags
<1>3. LogTypes
  BY <1>1 DEF Logging!Init, LogTypes
<1>4. Capped
  BY DEF Logging!Init, Capped
<1>5. Passed
  BY DEF Logging!Init, Passed
<1>6. Numbered
  <2>1. DOMAIN <<>> = {}
    OBVIOUS
  <2> QED
    BY <2>1 DEF Logging!Init, Numbered, Logging!IsInjective
<1>7. Told
  BY DEF Logging!Init, Told
<1>8. LogKept
  <2>1. Logging!Unwritten = <<>>
    BY <1>1 DEF Logging!Init, Logging!Unwritten
  <2> QED
    BY <1>1, <2>1 DEF Logging!Init, LogKept, Logging!EndIsSaved
<1> QED
  BY <1>2, <1>3, <1>4, <1>5, <1>6, <1>7, <1>8 DEF LogInv, LogRest

\* A step of the parts is a step of the log or leaves it alone.
LEMMA LogStep == [PartsNext]_<<vars, skyVars, hookVars, logVars>> => [Logging!Next]_logVars
  BY Zenon DEF PartsNext

\* What the contract says is part of the invariant.
LEMMA LogInvImplies == LogInv => LogContract
<1> SUFFICES ASSUME LogInv PROVE LogContract
  OBVIOUS
<1>1. LogTypes /\ Capped /\ Passed /\ Told /\ LogKept
  BY DEF LogInv, LogRest
<1>2. stage = "closed" => Logging!Unwritten = <<>>
  <2> SUFFICES ASSUME stage = "closed" PROVE Logging!Unwritten = <<>>
    OBVIOUS
  <2>1. pc = "top" /\ buf[active] = <<>> /\ buf[1 - active] = <<>>
    BY <1>1 DEF Passed, LogTypes
  <2>2. <<>> \o <<>> = <<>>
    BY ConcatEmptySeq, EmptySeq
  <2> QED
    BY <2>1, <2>2 DEF Logging!Unwritten
<1>3. Logging!LinesAreKept
  BY <1>1, <1>2 DEF LogKept, Capped, Logging!LinesAreKept
<1>4. Logging!DropsAreTold
  BY <1>1 DEF Told, Logging!DropsAreTold
<1> QED
  BY <1>1, <1>3, <1>4 DEF LogKept, LogContract, Logging!LogContract

\* For every number of lines, of every size, and every capacity and cap: the file
\* with the buffers holds every line taken, once and in order, but for what the cap
\* discarded; drops are told; and the end of the process saves both unless it
\* interrupted an update (log.cpp:250-486).
THEOREM KeepsLog == PartsSpec => []LogContract
<1>1. PartsInit => LogInv
  BY LogStart
<1>2. LogInv /\ [PartsNext]_<<vars, skyVars, hookVars, logVars>> => LogInv'
  BY LogStep, LogKeeps
<1>3. LogInv => LogContract
  BY LogInvImplies
<1> QED
  BY <1>1, <1>2, <1>3, PTL DEF PartsSpec
===============================================================================
