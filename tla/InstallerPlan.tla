--------------------------- MODULE InstallerPlan ---------------------------
(***************************************************************************)
(* The installer's planner (src/installer/plan.cpp): what an install or an *)
(* uninstall will do, as a pure function of the folder surveyed.           *)
(*                                                                         *)
(* A disk maps locations to contents.  Directory 0 is the game folder;     *)
(* directories 1, 2, ... are the stamped folders under edvr_backup\, in    *)
(* the order surveyTarget sorts them, so a larger number is looked at      *)
(* first.  A location that is not in the disk's domain holds no file.      *)
(* "loader" stands for openxr_loader.dll and its licence, which one lambda *)
(* plans alike; a mod parked by the installer is in the file called by its *)
(* name (d3d11_edhm.dll is "edhm").                                        *)
(***************************************************************************)
EXTENDS Naturals, Sequences, FiniteSets

CONSTANTS Mods,    \* names of the mods that install themselves as d3d11.dll
          Nvidia   \* an NVIDIA adapter is present: nvidiaAdapterPresent

(***************************************************************************)
(* Contents.  "edvr" is one of our DLLs and "ours" another file we wrote,  *)
(* of build n.  "runtime", "mod" and "ngx" are other people's files.  An   *)
(* ini carries the user's settings, its advanced.real_dll and the build of *)
(* the default file it was merged into.  "torn" is a half-written file.    *)
(***************************************************************************)
None == "none"
Absent == [kind |-> "absent"]
Torn == [kind |-> "torn"]
Edvr(b) == [kind |-> "edvr", n |-> b]
Ours(b) == [kind |-> "ours", n |-> b]
Runtime(n) == [kind |-> "runtime", n |-> n]
Mod(m, n) == [kind |-> "mod", name |-> m, n |-> n]
Ngx(n) == [kind |-> "ngx", n |-> n]
Ini(user, chain, b) ==
    [kind |-> "ini", user |-> user, chain |-> chain, n |-> b]
Record(chain, ngx, b) ==
    [kind |-> "record", chain |-> chain, ngx |-> ngx, n |-> b]

Files == {"d3d11", "openvr", "orig", "loader", "config", "ngx", "ini", "base",
          "record"} \cup Mods

At(d, loc) == IF loc \in DOMAIN d THEN d[loc] ELSE Absent
Live(d, f) == At(d, <<0, f>>)
Exists(d, loc) == loc \in DOMAIN d
Unreadable(c) == c.kind = "torn"

Only(loc, c) == [l \in {loc} |-> c]
Over(f, g) == [x \in DOMAIN f \cup DOMAIN g |-> IF x \in DOMAIN f THEN f[x] ELSE g[x]]
Put(d, loc, c) == Over(Only(loc, c), d)
Drop(d, loc) == [l \in DOMAIN d \ {loc} |-> d[l]]

----------------------------------------------------------------------------
(* Steps: a source, a target, the bytes to write, the content the source   *)
(* must still have (expectSha) and whether the source must be there.       *)

Step(act, from, to, c, sha, req) ==
    [act |-> act, from |-> from, to |-> to, c |-> c, sha |-> sha, req |-> req]

Nowhere == <<0, "nowhere">>
MakeDir == Step("makedir", Nowhere, Nowhere, Absent, Absent, FALSE)
Backup(dir, f) == Step("backup", <<0, f>>, <<dir, f>>, Absent, Absent, FALSE)
BackupOf(dir, f, c) == Step("backup", <<0, f>>, <<dir, f>>, Absent, c, TRUE)
Restore(from, f) == Step("backup", from, <<0, f>>, Absent, Absent, TRUE)
Rename(f, g, c) == Step("rename", <<0, f>>, <<0, g>>, Absent, c, TRUE)
Write(f, c) == Step("write", Nowhere, <<0, f>>, c, Absent, FALSE)
Remove(f, c) == Step("delete", <<0, f>>, Nowhere, Absent, c, FALSE)

When(test, s) == IF test THEN s ELSE <<>>

(* A copy into a backup folder is no change; a copy back out of one is. *)
Changed(s) == \E i \in DOMAIN s : s[i].act # "backup" \/ s[i].to[1] = 0
BacksUp(s) == \E i \in DOMAIN s : s[i].act = "backup" /\ s[i].to[1] # 0

----------------------------------------------------------------------------
(* The record of the last run; no record reads as an empty one. *)

State(d) ==
    IF Live(d, "record").kind = "record" THEN Live(d, "record")
    ELSE Record(None, Absent, 0)

(* The genuine runtimes in the backup folders, newest name first. *)
OrigInBackups(d) ==
    {loc \in DOMAIN d : loc[1] # 0 /\ loc[2] = "openvr" /\ d[loc].kind = "runtime"}
NewestOrig(d) ==
    CHOOSE loc \in OrigInBackups(d) : \A other \in OrigInBackups(d) : loc[1] >= other[1]

----------------------------------------------------------------------------
(* planInstall.  o: build, repair, keep (keepSettings), dir (backup dir). *)

(* The chain is decided by this run: whoever sits in d3d11.dll, else the   *)
(* recorded target while its file is still there.                          *)
NextChain(d) ==
    LET cur == Live(d, "d3d11")
        last == State(d).chain
    IN  IF cur.kind = "mod" THEN cur.name
        ELSE IF last # None /\ Exists(d, <<0, last>>) THEN last ELSE None

ForcesChain(d) ==
    Live(d, "d3d11").kind = "mod" \/ (NextChain(d) = None /\ State(d).chain # None)

D3d11Steps(d, o) ==
    LET cur == Live(d, "d3d11")
    IN  CASE cur.kind = "edvr" ->
                When(cur # Edvr(o.build) \/ o.repair,
                     <<Backup(o.dir, "d3d11"), Write("d3d11", Edvr(o.build))>>)
          [] cur.kind = "absent" -> <<Write("d3d11", Edvr(o.build))>>
          [] OTHER ->
                When(Exists(d, <<0, cur.name>>), <<Backup(o.dir, cur.name)>>)
                \o <<Backup(o.dir, "d3d11"), Rename("d3d11", cur.name, cur),
                     Write("d3d11", Edvr(o.build))>>

(* nvngx_dlss.dll: only the copy the record calls ours is ever replaced. *)
NgxIsOurs(d) == Exists(d, <<0, "ngx">>) /\ Live(d, "ngx") = State(d).ngx

NgxSteps(d, o) ==
    LET cur == Live(d, "ngx")
        writes == /\ ~Unreadable(cur)
                  /\ cur = Ours(o.build) => o.repair
                  /\ cur.kind # "absent" => cur = Ours(o.build) \/ NgxIsOurs(d)
                  /\ Nvidia
    IN  When(writes, When(cur.kind # "absent", <<Backup(o.dir, "ngx")>>)
                     \o <<Write("ngx", Ours(o.build))>>)

NextNgx(d, o) ==
    LET cur == Live(d, "ngx")
    IN  IF NgxSteps(d, o) # <<>> \/ (cur = Ours(o.build) /\ ~o.repair)
        THEN Ours(o.build)
        ELSE IF NgxIsOurs(d) /\ ~Unreadable(cur) THEN cur ELSE Absent

(* A mutant: an original already parked is never replaced by a newer one. *)
OpenvrSteps_FirstOriginal(d, o) ==
    LET cur == Live(d, "openvr")
        parks == cur.kind = "runtime" /\ Live(d, "orig").kind = "absent"
    IN  When(cur # Edvr(o.build) \/ o.repair,
             When(cur.kind # "absent", <<BackupOf(o.dir, "openvr", cur)>>)
             \o When(parks, <<Rename("openvr", "orig", cur)>>)
             \o <<Write("openvr", Edvr(o.build))>>)

(* A mutant: the runtime being replaced is neither backed up nor parked. *)
OpenvrSteps_NoBackup(d, o) ==
    When(Live(d, "openvr") # Edvr(o.build) \/ o.repair, <<Write("openvr", Edvr(o.build))>>)

(* openvr_api.dll: the game's own runtime is parked as the original unless *)
(* the original already there is that very file or not a runtime at all.   *)
OpenvrSteps(d, o) ==
    LET cur == Live(d, "openvr")
        saved == Live(d, "orig")
        parks == /\ cur.kind = "runtime"
                 /\ saved.kind = "absent" \/ (saved.kind = "runtime" /\ saved # cur)
    IN  When(cur # Edvr(o.build) \/ o.repair,
             When(cur.kind # "absent", <<BackupOf(o.dir, "openvr", cur)>>)
             \o When(parks /\ saved.kind = "runtime", <<BackupOf(o.dir, "orig", saved)>>)
             \o When(parks, <<Rename("openvr", "orig", cur)>>)
             \o <<Write("openvr", Edvr(o.build))>>)

(* The loader is the payload's; the configuration names paths only and is  *)
(* the same in every build.                                                *)
AssetOf(f, b) == IF f = "config" THEN Ours(1) ELSE Ours(b)

AssetSteps(d, o, f) ==
    LET cur == Live(d, f)
    IN  When(cur # AssetOf(f, o.build) \/ o.repair,
             When(cur.kind # "absent", <<BackupOf(o.dir, f, cur)>>)
             \o <<Write(f, AssetOf(f, o.build))>>)

(* mergeIni, as far as the plan tells files apart: the new build's file    *)
(* with the user's values, real_dll among them unless the plan forces it.  *)
MergedIni(d, o) ==
    LET cur == Live(d, "ini")
        kept == cur.kind = "ini" /\ o.keep
        chain == IF ForcesChain(d) THEN NextChain(d)
                 ELSE IF kept THEN cur.chain ELSE None
    IN  Ini(IF kept THEN cur.user ELSE 0, chain, o.build)

IniSteps(d, o) ==
    LET cur == Live(d, "ini")
        differs == MergedIni(d, o) # cur
    IN  When(cur.kind # "absent" /\ (~o.keep \/ differs), <<Backup(o.dir, "ini")>>)
        \o When(differs, <<Write("ini", MergedIni(d, o))>>)

InstallBody(d, o) ==
    D3d11Steps(d, o) \o NgxSteps(d, o) \o OpenvrSteps(d, o)
    \o AssetSteps(d, o, "loader") \o AssetSteps(d, o, "config") \o IniSteps(d, o)

InstallBlocked(d) ==
    \E f \in {"d3d11", "openvr", "loader"} : Unreadable(Live(d, f))

(* Directories first, then the body, then the record, written last. *)
PlanInstall(d, o) ==
    LET body == InstallBody(d, o)
    IN  When(Changed(body) \/ o.repair,
             When(BacksUp(body), <<MakeDir>>) \o <<MakeDir>> \o body
             \o <<MakeDir, Write("base", Ours(o.build)),
                  Write("record", Record(NextChain(d), NextNgx(d, o), o.build))>>)

----------------------------------------------------------------------------
(* planUninstall.  o: dir, removeSettings. *)

UninstallBlocked(d) ==
    /\ Live(d, "openvr").kind = "edvr"
    /\ Live(d, "orig").kind # "runtime"
    /\ OrigInBackups(d) = {}

(* The mod to put back: the record's, else the one edvr.ini names. *)
ParkedMod(d) ==
    IF State(d).chain # None THEN State(d).chain
    ELSE IF Live(d, "ini").kind = "ini" THEN Live(d, "ini").chain ELSE None

D3d11Removal(d, o) ==
    LET cur == Live(d, "d3d11")
        m == ParkedMod(d)
    IN  When(cur.kind = "edvr",
             <<Backup(o.dir, "d3d11"), Remove("d3d11", cur)>>
             \o When(m # None /\ Exists(d, <<0, m>>),
                     <<Rename(m, "d3d11", Live(d, m))>>))

OpenvrRemoval(d, o) ==
    LET cur == Live(d, "openvr")
        orig == Live(d, "orig")
    IN  When(cur.kind = "edvr",
             IF orig.kind = "runtime"
             THEN <<Backup(o.dir, "openvr"), Remove("openvr", cur),
                    Rename("orig", "openvr", orig)>>
             ELSE When(OrigInBackups(d) # {},
                       <<Backup(o.dir, "openvr"), Restore(NewestOrig(d), "openvr")>>))

(* An asset that is not the file the record says we wrote is kept. *)
AssetRemoval(d, o, f) ==
    When(State(d).n # 0 /\ Live(d, f) = AssetOf(f, State(d).n),
         <<Backup(o.dir, f), Remove(f, Live(d, f))>>)

PlanUninstall(d, o) ==
    LET body == D3d11Removal(d, o) \o OpenvrRemoval(d, o)
                \o AssetRemoval(d, o, "loader") \o AssetRemoval(d, o, "config")
                \o When(NgxIsOurs(d), <<Remove("ngx", Live(d, "ngx"))>>)
                \o When(Exists(d, <<0, "ini">>) /\ o.removeSettings,
                        <<Backup(o.dir, "ini"), Remove("ini", Absent)>>)
                \o When(Exists(d, <<0, "record">>), <<Remove("record", Absent)>>)
                \o When(Exists(d, <<0, "base">>), <<Remove("base", Absent)>>)
    IN  When(Changed(body), When(BacksUp(body), <<MakeDir>>) \o body)
============================================================================
