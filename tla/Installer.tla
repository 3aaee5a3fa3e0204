----------------------------- MODULE Installer -----------------------------
(***************************************************************************)
(* The installer's run: survey, plan, confirmation, applyPlan with its     *)
(* undo list and roll-back (src/installer/apply.cpp), the mirror outside   *)
(* the game folder (mirror.cpp), and the order runConsole and the window   *)
(* call them in (app.cpp, gui.cpp).  Any file operation may fail, the      *)
(* process may die between any two of them, and other programs change the  *)
(* folder between runs and while the confirmation dialog is open.          *)
(*                                                                         *)
(* Directories carry no content of their own: MakeDir is a step that may   *)
(* fail and RemoveDir an undo that changes no file, so neither is kept.    *)
(* A rename and writeWholeFile (temporary file, then rename) are atomic; a *)
(* CopyFileW that fails or dies may leave its target torn.                 *)
(***************************************************************************)
EXTENDS InstallerPlan

CONSTANTS MaxBuild,       \* builds of the patch an installer may carry
          MaxRuns,        \* runs of the installer
          MaxFaults,      \* operations that fail, and crashes, altogether
          MaxChanges,     \* changes of the folder by other programs
          MaxEvents,      \* runs, changes and faults together, a fault counted twice
          Outside,        \* the changes that happen between runs
          Landing,        \* the changes that land while a plan is shown
          Recurring       \* the changes that may be the second or a later one

Changes == {"game", "mod", "park", "del", "lose", "ngx", "edit", "wipe"}

ASSUME InstallerAssumption ==
    /\ {MaxBuild, MaxRuns, MaxFaults, MaxChanges, MaxEvents} \subseteq Nat
    /\ Outside \cup Landing \cup Recurring \subseteq Changes
    /\ Mods \cap {"d3d11", "openvr", "orig", "loader", "config", "ngx", "ini",
                  "base", "record", "nowhere", None} = {}

VARIABLES disk,       \* the game folder and its backup folders
          mirror,     \* %LOCALAPPDATA%\EDVR: leaf -> content
          phase,      \* "idle", "confirm", "protect", "act" or "rollback"
          job,        \* the plan: what, dir, steps, and the disk it was made for
          pos,        \* index of the current step
          undo,       \* the undo list; a "restore" entry is a snapshot on disk
          retained,   \* retainedMoves: moves the roll-back could not undo
          clean,      \* rollbackOk
          result,     \* how the last run ended
          run,        \* runs started
          faults, changes,
          kept,       \* contents of snapshots left behind by ended runs
          found,      \* history: the disk when applyPlan began
          owed,       \* history: other people's files that must not get lost
          lastRuntime \* history: the game's runtime that applyPlan met last

vars == <<disk, mirror, phase, job, pos, undo, retained, clean, result, run,
          faults, changes, kept, found, owed, lastRuntime>>

----------------------------------------------------------------------------
Image(f) == {f[x] : x \in DOMAIN f}

NoJob == [what |-> "none", dir |-> 0, steps |-> <<>>, saw |-> <<>>]

(* What must survive: other people's DLLs, and the user's settings, which  *)
(* are the same settings in every ini they were merged into.               *)
Tokens(S) ==
    {c \in S : c.kind \in {"runtime", "mod", "ngx"}}
    \cup {[kind |-> "settings", n |-> c.user] :
              c \in {i \in S : i.kind = "ini" /\ i.user # 0}}

Snapshots == {undo[i].c : i \in {j \in DOMAIN undo : undo[j].kind = "restore"}}
Held == Tokens(Image(disk) \cup Snapshots \cup kept)

Init ==
    /\ disk = Only(<<0, "openvr">>, Runtime(0))
    /\ mirror = <<>>
    /\ phase = "idle" /\ job = NoJob /\ pos = 0
    /\ undo = <<>> /\ retained = {} /\ clean = TRUE
    /\ result = "none" /\ run = 0 /\ faults = 0 /\ changes = 0 /\ kept = {}
    /\ found = disk /\ owed = {Runtime(0)} /\ lastRuntime = Runtime(0)

(* The bounds. *)
Events == run + 2 * faults + changes
MayFail(n) == faults + n <= MaxFaults /\ (n = 0 \/ Events + 2 * n <= MaxEvents)

----------------------------------------------------------------------------
(* Other programs and the user.  Every content they write is new.  "game": *)
(* an update puts its runtime back; "mod": a mod installs itself as        *)
(* d3d11.dll; "park": one is placed under its chained name by hand, as     *)
(* docs/manual-install.md says; "del": a mod's uninstaller deletes         *)
(* d3d11.dll; "lose": a parked file is deleted; "ngx": another DLSS        *)
(* runtime; "edit": settings; "wipe": an update empties the folder.        *)

Landed(kind) ==
    LET n == changes + 1
        ini == Live(disk, "ini")
    IN  CASE kind = "game" -> {Put(disk, <<0, "openvr">>, Runtime(n))}
          [] kind = "mod" -> {Put(disk, <<0, "d3d11">>, Mod(m, n)) : m \in Mods}
          [] kind = "park" -> IF ini.kind = "ini"
                              THEN {Put(Put(disk, <<0, "ini">>, [ini EXCEPT !.chain = m]),
                                        <<0, m>>, Mod(m, n)) : m \in Mods}
                              ELSE {}
          [] kind = "del" -> {Drop(disk, <<0, "d3d11">>)}
          [] kind = "lose" -> {Drop(disk, <<0, f>>) : f \in Mods \cup {"orig"}}
          [] kind = "ngx" -> {Put(disk, <<0, "ngx">>, Ngx(n))}
          [] kind = "edit" -> IF ini.kind = "ini"
                              THEN {Put(disk, <<0, "ini">>, [ini EXCEPT !.user = n])}
                              ELSE {}
          [] kind = "wipe" -> {Only(<<0, "openvr">>, Runtime(n))}

(* What the installer is held to keep: every file, except one that lands   *)
(* while a plan is shown, in a place where the survey saw none.  The plan  *)
(* has a bare write there, which applyPlan checks against nothing          *)
(* (apply.cpp:166), and the file is lost: ReplacedIsKept below.            *)
Watched(d) ==
    {d[l] : l \in IF phase = "confirm" THEN DOMAIN d \cap DOMAIN job.saw ELSE DOMAIN d}

Change(kind) ==
    /\ changes < MaxChanges /\ Events < MaxEvents
    /\ changes > 0 => kind \in Recurring
    /\ changes' = changes + 1
    /\ \E d \in Landed(kind) :
          /\ d # disk
          /\ disk' = d
          /\ kept' = IF kind = "wipe" THEN {} ELSE kept
          /\ owed' = Tokens(Watched(d) \cup kept')
    /\ result' = IF phase = "idle" THEN "none" ELSE result
    /\ UNCHANGED <<mirror, phase, job, pos, undo, retained, clean, run, faults, found,
                   lastRuntime>>

ChangeOutside == phase = "idle" /\ \E kind \in Outside : Change(kind)
ChangeLanding == phase = "confirm" /\ \E kind \in Landing : Change(kind)

----------------------------------------------------------------------------
(* How a CopyFileW ends: the file is copied, or the copy fails and leaves  *)
(* the target as it was or torn.                                           *)
CopyEnds == {"whole", "none", "torn"}
Copied(how) == {x \in DOMAIN how : how[x] # "none"}
Failures(how) == Cardinality({x \in DOMAIN how : how[x] # "whole"})

(* What a CopyFileW onto a location may leave when it does not finish. *)
Unfinished(loc) == {disk, Put(disk, loc, Torn)}

(* updateMirror: whatever copies succeed; the pair only from the folder    *)
(* this very run backed up into.  A directory that cannot be made counts   *)
(* as a failed copy of each of its files.                                  *)
MirrorSources(d, dir) ==
    {<<0, f>> : f \in {"ini", "base", "record"}} \cup {<<dir, f>> : f \in {"d3d11", "openvr"}}

UpdateMirror(d, dir, failed) ==
    \E how \in [MirrorSources(d, dir) \cap DOMAIN d -> CopyEnds] :
        /\ MayFail(failed + Failures(how))
        /\ faults' = faults + failed + Failures(how)
        /\ mirror' = Over([f \in {l[2] : l \in Copied(how)} |->
                              LET l == CHOOSE x \in Copied(how) : x[2] = f
                              IN  IF how[l] = "torn" THEN Torn ELSE d[l]], mirror)

(* restoreFromMirror: the ini and the record to their places, the pair     *)
(* into a new backup folder whose name sorts above every stamp.            *)
RestoredDir(r) == MaxRuns + r
RestoredLoc(f, r) == IF f \in {"d3d11", "openvr"} THEN <<RestoredDir(r), f>> ELSE <<0, f>>

FromMirror(r, how) ==
    Over([l \in {RestoredLoc(f, r) : f \in Copied(how)} |->
             IF how[l[2]] = "torn" THEN Torn ELSE mirror[l[2]]], disk)

(* The folder is wiped of its ini, a mirror has one, and the user (or the  *)
(* command line, by default) wants it back before the plan is made.        *)
OffersMirror(what, keep) ==
    what # "uninstall" /\ ~Exists(disk, <<0, "ini">>) /\ keep /\ "ini" \in DOMAIN mirror

(* A survey: the folder as it is left, the folder the plan is made for,    *)
(* and the copies out of the mirror that failed.                           *)
Sight(left, seen, failed) == [left |-> left, seen |-> seen, failed |-> failed]

(* The ini is copied first, and when that fails nothing else is: the       *)
(* window surveys again, the command line goes on with the survey it has.  *)
IniNotRestored ==
    UNION {{Sight(d, s, 1) : s \in {disk, d}} : d \in Unfinished(<<0, "ini">>)}

(* The other copies may each fail on their own.  (A process that dies      *)
(* among them leaves what some of these leave when the plan is declined.)  *)
IniRestored ==
    {Sight(FromMirror(run + 1, how), FromMirror(run + 1, how), Failures(how)) :
        how \in {h \in [DOMAIN mirror -> CopyEnds] : h["ini"] = "whole"}}

Surveyed(what, keep) ==
    {Sight(disk, disk, 0)}
    \cup IF OffersMirror(what, keep) THEN IniNotRestored \cup IniRestored ELSE {}

Blocked(what, d) ==
    IF what = "uninstall" THEN UninstallBlocked(d) ELSE InstallBlocked(d)

Steps(what, d, o) == IF what = "uninstall" THEN PlanUninstall(d, o) ELSE PlanInstall(d, o)

Options(what) ==
    [build : IF what = "uninstall" THEN {1} ELSE 1..MaxBuild,
     repair : {what = "repair"},
     keep : IF what = "uninstall" THEN {TRUE} ELSE BOOLEAN,
     removeSettings : IF what = "uninstall" THEN BOOLEAN ELSE {FALSE},
     dir : {run + 1}]

(* Survey, plan, report: a blocked plan ends here, and so does one with    *)
(* nothing to do, which still refreshes the mirror.                        *)
Survey(what) ==
    /\ phase = "idle" /\ run < MaxRuns /\ Events < MaxEvents
    /\ run' = run + 1
    /\ \E o \in Options(what) : \E v \in Surveyed(what, o.keep) :
          /\ MayFail(v.failed)
          /\ disk' = v.left
          /\ owed' = owed \cup Tokens(Image(v.left))
          /\ IF Blocked(what, v.seen)
             THEN /\ result' = "blocked"
                  /\ faults' = faults + v.failed
                  /\ UNCHANGED <<phase, job, mirror>>
             ELSE IF Steps(what, v.seen, o) = <<>>
             THEN /\ result' = "nothing"
                  /\ UNCHANGED <<phase, job>>
                  /\ IF what = "uninstall" THEN UNCHANGED <<mirror, faults>>
                     ELSE UpdateMirror(v.left, o.dir, v.failed)
             ELSE /\ phase' = "confirm" /\ result' = "none"
                  /\ job' = [what |-> what, dir |-> o.dir,
                              steps |-> Steps(what, v.seen, o), saw |-> v.seen]
                  /\ faults' = faults + v.failed
                  /\ UNCHANGED mirror
    /\ UNCHANGED <<pos, undo, retained, clean, changes, kept, found, lastRuntime>>

Decline ==
    /\ phase = "confirm"
    /\ phase' = "idle" /\ job' = NoJob
    /\ UNCHANGED <<disk, mirror, pos, undo, retained, clean, result, run, faults,
                   changes, kept, found, owed, lastRuntime>>

----------------------------------------------------------------------------
(* applyPlan *)

HasFrom(s) == s.from # Nowhere

(* A step whose source went away or changed since the plan was made. *)
Stale(s) ==
    /\ HasFrom(s)
    /\ IF Exists(disk, s.from) THEN s.sha # Absent /\ disk[s.from] # s.sha
       ELSE s.req \/ s.sha # Absent
StalePlan == \E i \in DOMAIN job.steps : Stale(job.steps[i])

Refuse ==
    /\ phase = "confirm" /\ StalePlan
    /\ phase' = "idle" /\ job' = NoJob /\ result' = "refused"
    /\ UNCHANGED <<disk, mirror, pos, undo, retained, clean, run, faults, changes,
                   kept, found, owed, lastRuntime>>

Begin ==
    /\ phase = "confirm" /\ ~StalePlan
    /\ phase' = "protect" /\ pos' = 1
    /\ undo' = <<>> /\ retained' = {} /\ clean' = TRUE
    /\ found' = disk
    /\ lastRuntime' = IF Live(disk, "openvr").kind = "runtime" /\ Exists(job.saw, <<0, "openvr">>)
                      THEN Live(disk, "openvr") ELSE lastRuntime
    /\ UNCHANGED <<disk, mirror, job, result, run, faults, changes, kept, owed>>

Cur == job.steps[pos]
MoreSteps == pos <= Len(job.steps)
Target(s) == IF s.act = "delete" THEN s.from ELSE s.to

SourceMissing(s) == HasFrom(s) /\ ~Exists(disk, s.from)

(* MakeDir, and a step whose optional source is not there. *)
PassStep ==
    /\ phase = "protect" /\ MoreSteps
    /\ Cur.act = "makedir" \/ SourceMissing(Cur)
    /\ IF Cur.req THEN phase' = "rollback" /\ pos' = pos
       ELSE phase' = phase /\ pos' = pos + 1
    /\ UNCHANGED <<disk, mirror, job, undo, retained, clean, result, run, faults,
                   changes, kept, found, owed, lastRuntime>>

(* A mutant: a file about to be deleted is not protected. *)
Protection_NotDeletes(s) ==
    IF Exists(disk, s.to)
    THEN <<[kind |-> "restore", a |-> Nowhere, b |-> s.to, c |-> disk[s.to]]>>
    ELSE <<>>

(* protectTarget: a verified snapshot of the file about to be replaced. *)
Protection(s) ==
    IF Exists(disk, Target(s))
    THEN <<[kind |-> "restore", a |-> Nowhere, b |-> Target(s), c |-> disk[Target(s)]]>>
    ELSE <<>>

Protect ==
    /\ phase = "protect" /\ MoreSteps
    /\ Cur.act # "makedir" /\ ~SourceMissing(Cur)
    /\ undo' = undo \o Protection(Cur)
    /\ phase' = "act"
    /\ UNCHANGED <<disk, mirror, job, pos, retained, clean, result, run, faults,
                   changes, kept, found, owed, lastRuntime>>

Performed(s) ==
    CASE s.act = "backup" -> Put(disk, s.to, disk[s.from])
      [] s.act = "rename" -> Drop(Put(disk, s.to, disk[s.from]), s.from)
      [] s.act = "write" -> Put(disk, s.to, s.c)
      [] s.act = "delete" -> Drop(disk, s.from)

(* The undo of the step itself; a copy has none on purpose. *)
UndoOf(s) ==
    CASE s.act = "rename" ->
            <<[kind |-> "moveback", a |-> s.to, b |-> s.from, c |-> disk[s.from]]>>
      [] s.act = "write" /\ ~Exists(disk, s.to) ->
            <<[kind |-> "remove", a |-> s.to, b |-> Nowhere, c |-> Absent]>>
      [] OTHER -> <<>>

Perform ==
    /\ phase = "act"
    /\ disk' = Performed(Cur)
    /\ undo' = undo \o UndoOf(Cur)
    /\ phase' = "protect" /\ pos' = pos + 1
    /\ UNCHANGED <<mirror, job, retained, clean, result, run, faults, changes, kept,
                   found, owed, lastRuntime>>

(* Every step done: the snapshots are deleted; an install is mirrored. *)
Commit ==
    /\ phase = "protect" /\ ~MoreSteps
    /\ phase' = "idle" /\ result' = "ok"
    /\ undo' = <<>>
    /\ IF job.what = "uninstall" THEN UNCHANGED <<mirror, faults>>
       ELSE UpdateMirror(disk, job.dir, 0)
    /\ UNCHANGED <<disk, job, pos, retained, clean, run, changes, kept, found, owed,
                   lastRuntime>>

(* A failing operation: the snapshot, the directory, or the step itself. *)
Fail ==
    /\ phase \in {"protect", "act"} /\ MoreSteps /\ MayFail(1)
    /\ faults' = faults + 1
    /\ disk' \in IF phase = "act" /\ Cur.act = "backup" THEN Unfinished(Cur.to) ELSE {disk}
    /\ phase' = "rollback"
    /\ UNCHANGED <<mirror, job, pos, undo, retained, clean, result, run, changes, kept,
                   found, owed, lastRuntime>>

----------------------------------------------------------------------------
(* The roll-back walks the undo list backwards. *)

(* A mutant: a file deleted by a step is not put back. *)
Undone_OnlyExisting(u) ==
    CASE u.kind = "remove" -> Drop(disk, u.a)
      [] u.kind = "moveback" -> Drop(Put(disk, u.b, disk[u.a]), u.a)
      [] u.kind = "restore" -> IF Exists(disk, u.b) THEN Put(disk, u.b, u.c) ELSE disk

Top == undo[Len(undo)]
Popped == SubSeq(undo, 1, Len(undo) - 1)

(* A file a failed move-back left in place must not be restored over: it   *)
(* is the only copy of what was moved.                                     *)
KeepsMoved(u) == u.kind = "restore" /\ u.b \in retained

Undone(u) ==
    CASE u.kind = "remove" -> Drop(disk, u.a)
      [] u.kind = "moveback" -> Drop(Put(disk, u.b, disk[u.a]), u.a)
      [] u.kind = "restore" -> Put(disk, u.b, u.c)

(* MoveFileExW of a file that is not there fails. *)
Movable(u) == u.kind = "moveback" => Exists(disk, u.a)

UndoStep ==
    /\ phase = "rollback" /\ undo # <<>> /\ Movable(Top)
    /\ undo' = Popped
    /\ IF KeepsMoved(Top)
       THEN clean' = FALSE /\ kept' = kept \cup {Top.c} /\ disk' = disk
       ELSE disk' = Undone(Top) /\ UNCHANGED <<clean, kept>>
    /\ UNCHANGED <<mirror, phase, job, pos, retained, result, run, faults, changes,
                   found, owed, lastRuntime>>

UndoFails ==
    /\ phase = "rollback" /\ undo # <<>> /\ ~KeepsMoved(Top)
    /\ IF Movable(Top) THEN MayFail(1) /\ faults' = faults + 1
       ELSE UNCHANGED faults
    /\ undo' = Popped /\ clean' = FALSE
    /\ disk' \in IF Top.kind = "restore" THEN Unfinished(Top.b) ELSE {disk}
    /\ retained' = IF Top.kind = "moveback" THEN retained \cup {Top.a} ELSE retained
    /\ kept' = IF Top.kind = "restore" THEN kept \cup {Top.c} ELSE kept
    /\ UNCHANGED <<mirror, phase, job, pos, result, run, changes, found, owed, lastRuntime>>

RolledBack ==
    /\ phase = "rollback" /\ undo = <<>>
    /\ phase' = "idle"
    /\ result' = IF clean THEN "rolledBack" ELSE "incomplete"
    /\ UNCHANGED <<disk, mirror, job, pos, undo, retained, clean, run, faults, changes,
                   kept, found, owed, lastRuntime>>

(* What a CopyFileW is writing when the process dies. *)
Copying ==
    CASE phase = "act" /\ Cur.act = "backup" -> {Cur.to}
      [] phase = "rollback" /\ undo # <<>> /\ Top.kind = "restore" /\ ~KeepsMoved(Top) ->
            {Top.b}
      [] OTHER -> {}

(* The process dies; snapshots stay where they are. *)
Crash ==
    /\ phase \in {"protect", "act", "rollback"} /\ MayFail(1)
    /\ faults' = faults + 1
    /\ disk' \in {disk} \cup UNION {Unfinished(l) : l \in Copying}
    /\ kept' = kept \cup Snapshots
    /\ undo' = <<>> /\ phase' = "idle" /\ result' = "crashed"
    /\ UNCHANGED <<mirror, job, pos, retained, clean, run, changes, found, owed, lastRuntime>>

Next ==
    \/ ChangeOutside \/ ChangeLanding
    \/ \E what \in {"install", "repair", "uninstall"} : Survey(what)
    \/ Decline \/ Refuse \/ Begin
    \/ PassStep \/ Protect \/ Perform \/ Commit \/ Fail
    \/ UndoStep \/ UndoFails \/ RolledBack \/ Crash

Spec == Init /\ [][Next]_vars

----------------------------------------------------------------------------
(* Types, and what the undo list is worth: outside applyPlan there is      *)
(* none, and while steps are carried out every file of the game folder     *)
(* that differs from what was found is named by an entry ("every step      *)
(* records how to undo itself", apply.h:8).                                *)
Consistent ==
    /\ \A l \in DOMAIN disk : l \in (0..(2 * MaxRuns)) \X Files /\ disk[l] # Absent
    /\ DOMAIN mirror \subseteq {"ini", "base", "record", "d3d11", "openvr"}
    /\ phase \in {"idle", "confirm", "protect", "act", "rollback"}
    /\ phase \in {"idle", "confirm"} => undo = <<>>
    /\ phase \in {"protect", "act"} => retained = {} /\ clean
    /\ phase \in {"protect", "act"} =>
          \A f \in Files : Live(disk, f) # Live(found, f) =>
              \E i \in DOMAIN undo : <<0, f>> \in {undo[i].a, undo[i].b}
    /\ faults <= MaxFaults /\ changes <= MaxChanges /\ run <= MaxRuns

(* "...ends with the folder exactly as it was found" (apply.h:12): when    *)
(* applyPlan reports rolledBack, every file of the game folder and every   *)
(* earlier backup has the content it had before the first step, whichever  *)
(* step failed and whatever had been replaced, renamed or deleted.         *)
RolledBackIsAsFound ==
    result = "rolledBack" /\ phase = "idle" =>
        /\ \A l \in DOMAIN found : At(disk, l) = found[l]
        /\ \A l \in DOMAIN disk : l[1] = 0 => l \in DOMAIN found

(* No step, failed step, failed roll-back or crash costs anybody a file    *)
(* the plan knew of: the game's runtime, another mod's DLL, a foreign DLSS *)
(* runtime and the user's settings are at every moment in the folder, in a *)
(* backup or in a snapshot (apply.cpp:40-47, 226-230, 312-315), also when  *)
(* they were changed, replaced or deleted while the plan was shown.  Not   *)
(* kept, and not claimed here: a file that appears in that time where the  *)
(* survey saw none (ReplacedIsKept, below, is what is false of it).        *)
NothingIsLost == owed \subseteq Held

(* While a genuine runtime is left anywhere, EDVR's own openvr_api.dll     *)
(* never stands in the folder without one that planUninstall finds         *)
(* (plan.cpp:623-626), crashes and incomplete roll-backs included.         *)
WayBack ==
    /\ phase = "idle"
    /\ \E c \in owed : c.kind = "runtime"
    => ~UninstallBlocked(disk)

(* Whatever fails, and whenever the process dies, nobody's file is lost    *)
(* and the game's own runtime can be put back (apply.cpp:40-47, plan.cpp:  *)
(* 623-626).                                                               *)
KeepsOriginals == NothingIsLost /\ WayBack

(* An uninstall that reports success: where EDVR's openvr_api.dll was      *)
(* planned to go, the folder has a runtime of the game's again, and it is  *)
(* the last one any run met there (plan.cpp:719-743) but for two cases,    *)
(* both with the parked original gone, so that a backup is copied back: a  *)
(* restored-* folder sorts above newer backups; and an update that lands   *)
(* while the plan is shown is overwritten by the backup, which no step     *)
(* checks for, and is kept in this run's own backup folder.  An            *)
(* openvr_api.dll that was not EDVR's is left as it is.                    *)
UninstallDone == phase = "idle" /\ result = "ok" /\ job.what = "uninstall"
UninstallRestores ==
    UninstallDone =>
        IF Live(job.saw, "openvr").kind = "edvr"
        THEN /\ Live(disk, "openvr").kind = "runtime"
             /\ \/ Live(disk, "openvr") = lastRuntime
                \/ /\ Live(job.saw, "orig").kind # "runtime"
                   /\ \/ \E l \in OrigInBackups(job.saw) : l[1] > MaxRuns
                      \/ At(disk, <<job.dir, "openvr">>) = lastRuntime
        ELSE Live(disk, "openvr") = Live(found, "openvr")

----------------------------------------------------------------------------
(* What comments and documents say, and the code does not do. *)

(* "Everything replaced is copied into edvr_backup\<timestamp>\ first"     *)
(* (docs/installer.md:293): after a run that reports success, whatever     *)
(* applyPlan found in the folder is there still, or in a backup.           *)
ReplacedIsKept ==
    phase = "idle" /\ result = "ok" => Tokens(Image(found)) \subseteq Tokens(Image(disk))

(* "A chain target that has gone away ... clears advanced.real_dll rather  *)
(* than leaving it naming a file that is not there.  That question is      *)
(* asked on every run" (docs/installer.md:90-93).                          *)
InstallDone == phase = "idle" /\ result = "ok" /\ job.what # "uninstall"
RealDllNamesAFile ==
    InstallDone /\ Live(disk, "ini").chain # None =>
        Exists(disk, <<0, Live(disk, "ini").chain>>)

(* "Keeping the chain to ..." (plan.cpp:396): a chain the plan keeps is    *)
(* the one edvr.ini names afterwards.                                      *)
KeptChainIsWired ==
    InstallDone /\ Live(disk, "record").chain # None =>
        Live(disk, "ini").chain = Live(disk, "record").chain

(* "the pair that lets a wiped folder recover the game's ORIGINAL runtime" *)
(* (mirror.h:67), mirrored "after every successful install and repair":    *)
(* while a backup folder has the original, the mirrored pair has one.      *)
MirrorHasOriginal ==
    InstallDone /\ OrigInBackups(disk) # {} /\ "openvr" \in DOMAIN mirror =>
        mirror["openvr"].kind = "runtime"

(* "Backups this installer made, newest first" (plan.cpp:147): the         *)
(* original taken from a backup is the newest one there.                   *)
RestoresNewest ==
    UninstallDone /\ Live(found, "openvr").kind = "edvr" => Live(disk, "openvr") = lastRuntime
============================================================================
