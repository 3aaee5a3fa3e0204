--------------------------- MODULE InstallerProofs ---------------------------
(***************************************************************************)
(* The installer's roll-back, for every set of mods, every number of runs, *)
(* faults and changes by others, and every plan planInstall and            *)
(* planUninstall make.                                                     *)
(*                                                                         *)
(* RolledBackIsAsFound speaks of the end of a roll-back.  What holds at    *)
(* every moment before is that the undo list leads back, entry by entry,   *)
(* to the folder the run found (Chain), and that while a step is at work   *)
(* only the file whose snapshot was just taken may differ from that        *)
(* (Shielded).  That every step has an entry that undoes it needs what a   *)
(* plan's steps look like (IsStep, proved of both planners), that the      *)
(* backup folder of a run is new (Planning), and that files change places  *)
(* only with files of their kind (Swaps).                                  *)
(***************************************************************************)
EXTENDS Installer, FiniteSetTheorems, SequenceTheorems, WellFoundedInduction, TLAPS

\* Where a file may be; d3d11.dll and what it is parked as change places, and so do
\* openvr_api.dll and the original.
Places == Nat \X Files
D3dFiles == {"d3d11"} \cup Mods
Swaps(f, g) == f # g /\ ({f, g} \subseteq D3dFiles \/ {f, g} = {"openvr", "orig"})

\* What may stand under a name of the game folder.
Inis == [kind : {"ini"}, user : Nat, chain : Mods \cup {None}, n : Nat]
Fits(f, c) ==
  /\ c.kind # "absent"
  /\ f \in D3dFiles => c.kind \in {"edvr", "torn"} \/ (c.kind = "mod" /\ c.name \in Mods)
  /\ f = "ini" /\ c.kind = "ini" => c \in Inis
  /\ f = "record" /\ c.kind = "record" => c.chain \in Mods \cup {None}

\* A folder after r runs.
Stamps(r) == 0 .. r \cup MaxRuns + 1 .. MaxRuns + r
Folder(d, r) ==
  \A l \in DOMAIN d :
    /\ l \in Stamps(r) \X Files /\ d[l].kind # "absent"
    /\ l[1] = 0 => Fits(l[2], d[l])

\* A step of a plan that backs up into dir; restores says that openvr_api.dll comes from
\* a backup, and then no step takes it away.
IsStep(s, dir, restores) ==
  \/ s.act = "makedir"
  \/ s.act = "backup" /\ \E f \in Files : s.from = <<0, f>> /\ s.to = <<dir, f>>
  \/ /\ s.act = "backup" /\ restores /\ s.to = <<0, "openvr">>
     /\ \E k \in Nat \ {0} : s.from = <<k, "openvr">>
  \/ /\ s.act = "rename"
     /\ \E f, g \in Files : /\ s.from = <<0, f>> /\ s.to = <<0, g>> /\ Swaps(f, g)
                            /\ restores => f # "openvr"
  \/ /\ s.act = "write" /\ s.from = Nowhere
     /\ \E f \in Files : s.to = <<0, f>> /\ Fits(f, s.c)
  \/ /\ s.act = "delete"
     /\ \E f \in Files : s.from = <<0, f>> /\ (restores => f # "openvr")

\* A plan of such steps.
Planned(p, dir, restores) ==
  \E S : p \in Seq(S) /\ \A s \in S : IsStep(s, dir, restores)

\* An entry of the undo list.
IsUndo(u, dir) ==
  \/ u.kind = "remove" /\ \E f \in Files : u.a = <<0, f>>
  \/ /\ u.kind = "moveback"
     /\ \E f, g \in Files : u.a = <<0, g>> /\ u.b = <<0, f>> /\ Swaps(f, g)
  \/ /\ u.kind = "restore" /\ u.c.kind # "absent"
     /\ \E f \in Files : u.b = <<dir, f>> \/ (u.b = <<0, f>> /\ Fits(f, u.c))

\* An undo list of such entries.
Listed(p, dir) == \E S : p \in Seq(S) /\ \A u \in S : IsUndo(u, dir)

\* Two folders are the same but for the files backed up into dir.
Agree(d, e, dir) == \A l \in Places : l[1] # dir => At(d, l) = At(e, l)

\* What undoing u makes of the place l in e.
Back(u, e, l) ==
  IF u.kind = "restore" THEN IF l = u.b THEN u.c ELSE At(e, l)
  ELSE IF l = u.a THEN Absent
  ELSE IF u.kind = "moveback" /\ l = u.b THEN At(e, u.a) ELSE At(e, l)

\* Undoing u makes d of e.
LeadsTo(u, e, d, dir) ==
  /\ u.kind = "moveback" => At(e, u.a) # Absent
  /\ \A l \in Places : l[1] # dir => At(d, l) = Back(u, e, l)

\* The undo list leads back from d, entry by entry, to o.
Chain(p, d, o, dir) ==
  \E h : /\ Agree(h[1], o, dir) /\ Agree(h[Len(p) + 1], d, dir)
         /\ \A i \in 1 .. Len(p) : LeadsTo(p[i], h[i + 1], h[i], dir)

-------------------------------------------------------------------------------
(* Plans and undo lists *)

\* Planned, from a set of steps.
LEMMA PlannedBy ==
  ASSUME NEW dir, NEW r, NEW p, NEW S, p \in Seq(S), \A s \in S : IsStep(s, dir, r)
  PROVE  Planned(p, dir, r)
  BY Zenon DEF Planned

\* The short plans the planners put together.
LEMMA PlannedPieces ==
  ASSUME NEW dir, NEW r
  PROVE  /\ Planned(<<>>, dir, r)
         /\ \A s : IsStep(s, dir, r) => Planned(<<s>>, dir, r)
         /\ \A s, t : IsStep(s, dir, r) /\ IsStep(t, dir, r) => Planned(<<s, t>>, dir, r)
         /\ \A s, t, u : IsStep(s, dir, r) /\ IsStep(t, dir, r) /\ IsStep(u, dir, r)
              => Planned(<<s, t, u>>, dir, r)
<1>1. Planned(<<>>, dir, r)
  <2> DEFINE p == <<>>
             S == {}
  <2>1. p \in Seq(S) /\ \A x \in S : IsStep(x, dir, r)
    OBVIOUS
  <2> HIDE DEF p, S
  <2>2. Planned(p, dir, r)
    BY <2>1, PlannedBy
  <2> QED BY <2>2 DEF p
<1>2. ASSUME NEW s, IsStep(s, dir, r) PROVE Planned(<<s>>, dir, r)
  <2> DEFINE p == <<s>>
             S == {s}
  <2>1. p \in Seq(S)
    OBVIOUS
  <2>2. \A x \in S : IsStep(x, dir, r)
    BY <1>2
  <2> HIDE DEF p, S
  <2>3. Planned(p, dir, r)
    BY <2>1, <2>2, PlannedBy
  <2> QED BY <2>3 DEF p
<1>3. ASSUME NEW s, NEW t, IsStep(s, dir, r), IsStep(t, dir, r)
      PROVE  Planned(<<s, t>>, dir, r)
  <2> DEFINE p == <<s, t>>
             S == {s, t}
  <2>1. p \in Seq(S)
    OBVIOUS
  <2>2. \A x \in S : IsStep(x, dir, r)
    BY <1>3
  <2> HIDE DEF p, S
  <2>3. Planned(p, dir, r)
    BY <2>1, <2>2, PlannedBy
  <2> QED BY <2>3 DEF p
<1>4. ASSUME NEW s, NEW t, NEW u, IsStep(s, dir, r), IsStep(t, dir, r), IsStep(u, dir, r)
      PROVE  Planned(<<s, t, u>>, dir, r)
  <2> DEFINE p == <<s, t, u>>
             S == {s, t, u}
  <2>1. p \in Seq(S)
    OBVIOUS
  <2>2. \A x \in S : IsStep(x, dir, r)
    BY <1>4
  <2> HIDE DEF p, S
  <2>3. Planned(p, dir, r)
    BY <2>1, <2>2, PlannedBy
  <2> QED BY <2>3 DEF p
<1> QED
  BY <1>1, <1>2, <1>3, <1>4

\* A sequence over a set is one over any larger set.
LEMMA WiderSeq ==
  ASSUME NEW S, NEW T, S \subseteq T, NEW p \in Seq(S) PROVE p \in Seq(T)
  BY SeqDef

\* One plan after the other.
LEMMA PlannedCat ==
  ASSUME NEW dir, NEW r, NEW p, NEW q, Planned(p, dir, r), Planned(q, dir, r)
  PROVE  Planned(p \o q, dir, r)
<1>1. PICK S : p \in Seq(S) /\ \A s \in S : IsStep(s, dir, r)
  BY DEF Planned
<1>2. PICK T : q \in Seq(T) /\ \A s \in T : IsStep(s, dir, r)
  BY DEF Planned
<1>3. p \in Seq(S \cup T) /\ q \in Seq(S \cup T)
  BY <1>1, <1>2, WiderSeq
<1>4. p \o q \in Seq(S \cup T)
  BY <1>3, ConcatProperties
<1>5. \A s \in S \cup T : IsStep(s, dir, r)
  BY <1>1, <1>2
<1> QED
  BY <1>4, <1>5 DEF Planned

\* A part of a plan that depends on the survey.
LEMMA PlannedWhen ==
  ASSUME NEW dir, NEW r, NEW p, NEW test, test => Planned(p, dir, r)
  PROVE  Planned(When(test, p), dir, r)
  BY PlannedPieces DEF When

\* Every step of a plan is one.
LEMMA PlannedAt ==
  ASSUME NEW dir, NEW r, NEW p, Planned(p, dir, r)
  PROVE  Len(p) \in Nat /\ \A i \in 1 .. Len(p) : IsStep(p[i], dir, r)
<1>1. PICK S : p \in Seq(S) /\ \A s \in S : IsStep(s, dir, r)
  BY DEF Planned
<1> QED
  BY <1>1

-------------------------------------------------------------------------------
(* The undo list *)

\* Listed, from a set of entries.
LEMMA ListedBy ==
  ASSUME NEW dir, NEW p, NEW S, p \in Seq(S), \A u \in S : IsUndo(u, dir)
  PROVE  Listed(p, dir)
  BY Zenon DEF Listed

\* applyPlan starts with an empty list,
LEMMA ListedStart == ASSUME NEW dir PROVE Listed(<<>>, dir)
<1> DEFINE p == <<>>
           S == {}
<1>1. p \in Seq(S) /\ \A x \in S : IsUndo(x, dir)
  OBVIOUS
<1> HIDE DEF p, S
<1>2. Listed(p, dir)
  BY <1>1, ListedBy
<1> QED BY <1>2 DEF p

\* and adds one entry at a time.
LEMMA ListedPush ==
  ASSUME NEW dir, NEW p, NEW x, Listed(p, dir), IsUndo(x, dir)
  PROVE  Listed(Append(p, x), dir)
<1>1. PICK S : p \in Seq(S) /\ \A u \in S : IsUndo(u, dir)
  BY DEF Listed
<1>2. p \in Seq(S \cup {x})
  BY <1>1, WiderSeq
<1>3. Append(p, x) \in Seq(S \cup {x})
  BY <1>2, AppendProperties
<1>4. \A u \in S \cup {x} : IsUndo(u, dir)
  BY <1>1
<1> QED BY <1>3, <1>4 DEF Listed

\* The list without its last entry, as the roll-back takes it.
LEMMA ListedPop ==
  ASSUME NEW dir, NEW p, Listed(p, dir), p # <<>>
  PROVE  LET q == SubSeq(p, 1, Len(p) - 1) IN
         /\ Len(p) \in Nat \ {0} /\ IsUndo(p[Len(p)], dir) /\ Listed(q, dir)
         /\ Len(q) = Len(p) - 1 /\ \A i \in 1 .. Len(q) : q[i] = p[i]
<1>1. PICK S : p \in Seq(S) /\ \A u \in S : IsUndo(u, dir)
  BY DEF Listed
<1> DEFINE n == Len(p)
           q == SubSeq(p, 1, n - 1)
<1>2. n \in Nat \ {0} /\ n \in 1 .. n
  BY <1>1, EmptySeq
<1>3. q \in Seq(S) /\ Len(q) = n - 1 /\ \A i \in 1 .. n - 1 : q[i] = p[i]
  BY <1>1, <1>2, SubSeqProperties
<1>4. p[n] \in S
  BY <1>1, <1>2
<1> HIDE DEF q, n
<1>5. Listed(q, dir)
  BY <1>1, <1>3 DEF Listed
<1>6. /\ n \in Nat \ {0} /\ IsUndo(p[n], dir) /\ Listed(q, dir)
      /\ Len(q) = n - 1 /\ \A i \in 1 .. Len(q) : q[i] = p[i]
  BY <1>1, <1>2, <1>3, <1>4, <1>5
<1> QED BY <1>6 DEF q, n

\* An empty list leads from the folder that was found to itself.
LEMMA ChainStart ==
  ASSUME NEW o, NEW dir, NEW d, Agree(d, o, dir) PROVE Chain(<<>>, d, o, dir)
<1> DEFINE h == [i \in {1} |-> d]
<1>1. h[1] = d /\ Len(<<>>) = 0 /\ h[Len(<<>>) + 1] = d
  OBVIOUS
<1>2. Agree(h[Len(<<>>) + 1], d, dir)
  BY <1>1 DEF Agree
<1>3. Agree(h[1], o, dir)
  BY <1>1
<1>4. \A i \in 1 .. Len(<<>>) : LeadsTo(<<>>[i], h[i + 1], h[i], dir)
  BY <1>1
<1> HIDE DEF h
<1> QED BY <1>2, <1>3, <1>4 DEF Chain

\* Once the list is empty, the folder is the one that was found.
LEMMA ChainEnd ==
  ASSUME NEW o, NEW dir, NEW d, Chain(<<>>, d, o, dir) PROVE Agree(d, o, dir)
<1>1. PICK h : Agree(h[1], o, dir) /\ Agree(h[Len(<<>>) + 1], d, dir)
  BY DEF Chain
<1>2. h[Len(<<>>) + 1] = h[1]
  OBVIOUS
<1> QED BY <1>1, <1>2 DEF Agree

\* A step that records how to undo itself makes the chain longer.
LEMMA ChainPush ==
  ASSUME NEW o, NEW dir, NEW p, NEW x, NEW d, NEW e, Listed(p, dir),
         Chain(p, d, o, dir), LeadsTo(x, e, d, dir)
  PROVE  Chain(Append(p, x), e, o, dir)
<1> DEFINE n == Len(p)
           q == Append(p, x)
<1>1. PICK h : /\ Agree(h[1], o, dir) /\ Agree(h[n + 1], d, dir)
               /\ \A i \in 1 .. n : LeadsTo(p[i], h[i + 1], h[i], dir)
  BY DEF Chain
<1>2. PICK S : p \in Seq(S)
  BY DEF Listed
<1>3. p \in Seq(S \cup {x})
  BY <1>2, WiderSeq
<1>4. n \in Nat /\ Len(q) = n + 1 /\ q[n + 1] = x /\ \A i \in 1 .. n : q[i] = p[i]
  BY <1>3, AppendProperties
<1> DEFINE g == [i \in 1 .. n + 2 |-> IF i = n + 2 THEN e ELSE h[i]]
<1>5. /\ g[n + 2] = e /\ g[n + 1] = h[n + 1] /\ g[1] = h[1]
      /\ \A i \in 1 .. n : g[i] = h[i] /\ g[i + 1] = h[i + 1]
  BY <1>4
<1> HIDE DEF g, q, n
<1>6. LeadsTo(x, e, h[n + 1], dir)
  BY <1>1 DEF LeadsTo, Agree
<1>7. ASSUME NEW i \in 1 .. n + 1 PROVE LeadsTo(q[i], g[i + 1], g[i], dir)
  <2>1. CASE i = n + 1
    <3>1. g[i + 1] = e /\ g[i] = h[n + 1] /\ q[i] = x
      BY <1>4, <1>5, <2>1
    <3> QED BY <1>6, <3>1
  <2>2. CASE i \in 1 .. n
    BY <1>1, <1>4, <1>5, <2>2
  <2> QED BY <1>4, <1>7, <2>1, <2>2
<1>8. Agree(g[Len(q) + 1], e, dir)
  <2>1. Len(q) + 1 = n + 2
    BY <1>4
  <2>2. g[Len(q) + 1] = e
    BY <1>5, <2>1
  <2> QED BY <2>2 DEF Agree
<1>9. Agree(g[1], o, dir)
  BY <1>1, <1>5
<1>10. Chain(q, e, o, dir)
  BY <1>4, <1>7, <1>8, <1>9 DEF Chain
<1> QED BY <1>10 DEF q

\* What happens in the backup folder does not matter.
LEMMA ChainSame ==
  ASSUME NEW o, NEW dir, NEW p, NEW d, NEW e, Chain(p, d, o, dir), Agree(d, e, dir)
  PROVE  Chain(p, e, o, dir)
<1>1. PICK h : /\ Agree(h[1], o, dir) /\ Agree(h[Len(p) + 1], d, dir)
               /\ \A i \in 1 .. Len(p) : LeadsTo(p[i], h[i + 1], h[i], dir)
  BY DEF Chain
<1>2. Agree(h[Len(p) + 1], e, dir)
  BY <1>1 DEF Agree
<1> QED BY <1>1, <1>2 DEF Chain

\* Undoing the last entry.
LEMMA ChainPop ==
  ASSUME NEW o, NEW dir \in Nat \ {0}, NEW p, NEW d, Listed(p, dir), p # <<>>,
         Chain(p, d, o, dir)
  PROVE  LET x == p[Len(p)] IN
         /\ x.kind = "moveback" => At(d, x.a) # Absent
         /\ \A e : (\A l \in Places : l[1] # dir => At(e, l) = Back(x, d, l))
              => Chain(SubSeq(p, 1, Len(p) - 1), e, o, dir)
<1> DEFINE n == Len(p)
           x == p[n]
           q == SubSeq(p, 1, n - 1)
<1>1. /\ n \in Nat \ {0} /\ IsUndo(x, dir) /\ Len(q) = n - 1
      /\ \A i \in 1 .. n - 1 : q[i] = p[i]
  BY ListedPop
<1>2. PICK h : /\ Agree(h[1], o, dir) /\ Agree(h[n + 1], d, dir)
               /\ \A i \in 1 .. n : LeadsTo(p[i], h[i + 1], h[i], dir)
  BY DEF Chain
<1> HIDE DEF n, q
<1>3. LeadsTo(x, h[n + 1], h[n], dir)
  BY <1>1, <1>2
<1> HIDE DEF x
<1>4. ASSUME x.kind = "moveback" PROVE x.a \in Places /\ x.a[1] # dir
  <2>1. PICK g \in Files : x.a = <<0, g>>
    BY <1>1, <1>4 DEF IsUndo
  <2> QED BY <2>1 DEF Places
<1>5. \A l \in Places : l[1] # dir => Back(x, h[n + 1], l) = Back(x, d, l)
  BY <1>2, <1>4 DEF Agree, Back
<1>6. x.kind = "moveback" => At(d, x.a) # Absent
  BY <1>2, <1>3, <1>4 DEF Agree, LeadsTo
<1>7. ASSUME NEW e, \A l \in Places : l[1] # dir => At(e, l) = Back(x, d, l)
      PROVE  Chain(q, e, o, dir)
  <2>1. Agree(h[n], e, dir)
    BY <1>3, <1>5, <1>7 DEF Agree, LeadsTo
  <2>2. h[Len(q) + 1] = h[n]
    BY <1>1
  <2>3. \A i \in 1 .. Len(q) : LeadsTo(q[i], h[i + 1], h[i], dir)
    BY <1>1, <1>2
  <2> QED BY <1>2, <2>1, <2>2, <2>3 DEF Chain
<1>8. /\ x.kind = "moveback" => At(d, x.a) # Absent
      /\ \A e : (\A l \in Places : l[1] # dir => At(e, l) = Back(x, d, l))
                 => Chain(q, e, o, dir)
  BY <1>6, <1>7
<1> QED BY <1>8 DEF x, q, n

-------------------------------------------------------------------------------
(* The plans *)

\* A file of the game folder is of its kind.
LEMMA LiveFits ==
  ASSUME NEW d, NEW n, Folder(d, n), NEW f \in Files
  PROVE  /\ Exists(d, <<0, f>>) => Fits(f, Live(d, f))
         /\ ~Exists(d, <<0, f>>) => Live(d, f) = Absent
         /\ Fits(f, Live(d, f)) \/ Live(d, f).kind = "absent"
<1>1. CASE <<0, f>> \in DOMAIN d
  <2> DEFINE l == <<0, f>>
  <2>1. l[1] = 0 /\ l[2] = f /\ l \in DOMAIN d
    BY <1>1
  <2>2. Fits(f, d[l])
    BY <2>1 DEF Folder
  <2> QED BY <1>1, <2>2, Zenon DEF Live, At, Exists
<1>2. CASE <<0, f>> \notin DOMAIN d
  BY <1>2 DEF Live, At, Exists, Absent
<1> QED BY <1>1, <1>2

\* The names of files are different.
LEMMA Names ==
  /\ {"d3d11", "openvr", "orig", "loader", "config", "ngx", "ini", "base",
       "record"} \subseteq Files
  /\ D3dFiles \subseteq Files /\ "nowhere" \notin Files /\ None \notin Files
  /\ {"openvr", "orig", "loader", "config", "ngx", "ini", "base", "record"} \cap D3dFiles = {}
  BY InstallerAssumption DEF Files, D3dFiles, None

\* The chain a record or an ini names.
LEMMA Chains ==
  ASSUME NEW d, NEW n, Folder(d, n)
  PROVE  /\ State(d).chain \in Mods \cup {None} /\ ParkedMod(d) \in Mods \cup {None}
         /\ NextChain(d) \in Mods \cup {None}
<1>0. \A f \in {"record", "ini", "d3d11"} : Fits(f, Live(d, f)) \/ Live(d, f).kind = "absent"
  <2>1. \A f \in Files : Fits(f, Live(d, f)) \/ Live(d, f).kind = "absent"
    BY LiveFits
  <2> QED BY <2>1, Names
<1>1. State(d).chain \in Mods \cup {None}
  <2>1. Live(d, "record").kind = "record" => Live(d, "record").chain \in Mods \cup {None}
    BY <1>0 DEF Fits
  <2> QED BY <2>1 DEF State, Record
<1>2. Live(d, "ini").kind = "ini" => Live(d, "ini").chain \in Mods \cup {None}
  BY <1>0 DEF Fits, Inis
<1>3. Live(d, "d3d11").kind = "mod" => Live(d, "d3d11").name \in Mods
  BY <1>0 DEF Fits, D3dFiles
<1> QED BY <1>1, <1>2, <1>3 DEF ParkedMod, NextChain

\* The steps the planner builds.
LEMMA StepFacts ==
  ASSUME NEW dir \in Nat \ {0}
  PROVE  /\ \A r : IsStep(MakeDir, dir, r)
         /\ \A r : \A f \in Files : IsStep(Backup(dir, f), dir, r)
         /\ \A r : \A f \in Files : \A c : IsStep(BackupOf(dir, f, c), dir, r)
         /\ \A r : \A f \in Files : \A c : Fits(f, c) => IsStep(Write(f, c), dir, r)
         /\ \A r : \A f \in Files \ {"openvr"} : \A c : IsStep(Remove(f, c), dir, r)
         /\ \A f \in Files : \A c : IsStep(Remove(f, c), dir, FALSE)
         /\ \A f, g \in Files : \A c : Swaps(f, g) => IsStep(Rename(f, g, c), dir, FALSE)
         /\ \A r : \A f, g \in D3dFiles : \A c : f # g => IsStep(Rename(f, g, c), dir, r)
         /\ \A k \in Nat \ {0} : IsStep(Restore(<<k, "openvr">>, "openvr"), dir, TRUE)
<1>1. \A r : IsStep(MakeDir, dir, r)
  BY DEF IsStep, MakeDir, Step
<1>2. /\ \A r : \A f \in Files : IsStep(Backup(dir, f), dir, r)
      /\ \A r : \A f \in Files : \A c : IsStep(BackupOf(dir, f, c), dir, r)
  BY DEF IsStep, Backup, BackupOf, Step
<1>3. \A r : \A f \in Files : \A c : Fits(f, c) => IsStep(Write(f, c), dir, r)
  BY DEF IsStep, Write, Step
<1>4. /\ \A r : \A f \in Files \ {"openvr"} : \A c : IsStep(Remove(f, c), dir, r)
      /\ \A f \in Files : \A c : IsStep(Remove(f, c), dir, FALSE)
  BY DEF IsStep, Remove, Step
<1>5. \A f, g \in Files : \A c : Swaps(f, g) => IsStep(Rename(f, g, c), dir, FALSE)
  BY DEF IsStep, Rename, Step
<1>6. \A f, g \in D3dFiles : f # g => Swaps(f, g) /\ f # "openvr" /\ f \in Files /\ g \in Files
  BY Names DEF Swaps
<1>7. \A r : \A f, g \in D3dFiles : \A c : f # g => IsStep(Rename(f, g, c), dir, r)
  BY <1>6 DEF IsStep, Rename, Step
<1>8. \A k \in Nat \ {0} : IsStep(Restore(<<k, "openvr">>, "openvr"), dir, TRUE)
  BY DEF IsStep, Restore, Step
<1> QED
  BY <1>1, <1>2, <1>3, <1>4, <1>5, <1>7, <1>8

\* What the planner writes.
LEMMA WrittenFits ==
  ASSUME NEW d, NEW n, Folder(d, n), NEW o, o.build \in Nat
  PROVE  /\ \A f \in Files \ {"ini", "record"} : f \in D3dFiles \/ Fits(f, Ours(o.build))
         /\ \A f \in {"d3d11", "openvr"} : Fits(f, Edvr(o.build))
         /\ \A f \in {"loader", "config"} : Fits(f, AssetOf(f, o.build))
         /\ Fits("ini", MergedIni(d, o))
         /\ \A c : Fits("record", Record(NextChain(d), c, o.build))
<1>1. NextChain(d) \in Mods \cup {None}
  BY Chains
<1>2. MergedIni(d, o) \in Inis
  <2>1. Fits("ini", Live(d, "ini")) \/ Live(d, "ini").kind = "absent"
    <3>1. \A f \in Files : Fits(f, Live(d, f)) \/ Live(d, f).kind = "absent"
      BY LiveFits
    <3> QED BY <3>1, Names
  <2>2. Live(d, "ini").kind = "ini" =>
          Live(d, "ini").user \in Nat /\ Live(d, "ini").chain \in Mods \cup {None}
    BY <2>1 DEF Fits, Inis
  <2> QED BY <1>1, <2>2 DEF MergedIni, Ini, Inis
<1>3. Fits("ini", MergedIni(d, o))
  BY <1>2, Names DEF Fits, Inis
<1>4. \A c : Fits("record", Record(NextChain(d), c, o.build))
  BY <1>1, Names DEF Fits, Record
<1>5. /\ \A f \in Files \ {"ini", "record"} : f \in D3dFiles \/ Fits(f, Ours(o.build))
      /\ \A f \in {"d3d11", "openvr"} : Fits(f, Edvr(o.build))
      /\ \A f \in {"loader", "config"} : Fits(f, AssetOf(f, o.build))
  BY Names DEF Fits, Ours, Edvr, AssetOf
<1> QED BY <1>3, <1>4, <1>5

\* planInstall.
LEMMA InstallPlanned ==
  ASSUME NEW d, NEW n, Folder(d, n), NEW o, o.build \in Nat, o.dir \in Nat \ {0},
         ~InstallBlocked(d)
  PROVE  Planned(PlanInstall(d, o), o.dir, FALSE)
<1> DEFINE P(p) == Planned(p, o.dir, FALSE)
           I(s) == IsStep(s, o.dir, FALSE)
<1>1. /\ P(<<>>) /\ \A s : I(s) => P(<<s>>)
      /\ \A s, t : I(s) /\ I(t) => P(<<s, t>>)
      /\ \A s, t, u : I(s) /\ I(t) /\ I(u) => P(<<s, t, u>>)
  BY PlannedPieces
<1>2. \A p, q : P(p) /\ P(q) => P(p \o q)
  BY PlannedCat
<1>3. \A test, p : (test => P(p)) => P(When(test, p))
  BY PlannedWhen
<1>4. /\ I(MakeDir)
      /\ \A f \in Files : I(Backup(o.dir, f)) /\ \A c : I(BackupOf(o.dir, f, c))
      /\ \A f \in Files : \A c : Fits(f, c) => I(Write(f, c))
      /\ \A f, g \in Files : \A c : Swaps(f, g) => I(Rename(f, g, c))
  BY StepFacts
<1>5. /\ Fits("ngx", Ours(o.build)) /\ Fits("base", Ours(o.build))
      /\ Fits("d3d11", Edvr(o.build)) /\ Fits("openvr", Edvr(o.build))
      /\ \A f \in {"loader", "config"} : Fits(f, AssetOf(f, o.build))
      /\ Fits("ini", MergedIni(d, o))
      /\ Fits("record", Record(NextChain(d), NextNgx(d, o), o.build))
  BY WrittenFits, Names
<1>6. ASSUME Live(d, "d3d11").kind \notin {"edvr", "absent"}
      PROVE  /\ Live(d, "d3d11").name \in Files
             /\ Swaps("d3d11", Live(d, "d3d11").name)
  <2>1. Fits("d3d11", Live(d, "d3d11"))
    BY <1>6, LiveFits, Names
  <2>2. Live(d, "d3d11").kind # "torn"
    BY DEF InstallBlocked, Unreadable
  <2>3. Live(d, "d3d11").name \in Mods
    BY <1>6, <2>1, <2>2 DEF Fits, D3dFiles
  <2>4. Live(d, "d3d11").name # "d3d11"
    BY <2>3, InstallerAssumption
  <2> QED BY <2>3, <2>4, Names DEF Swaps, D3dFiles
<1>7. Swaps("openvr", "orig")
  BY DEF Swaps
<1> HIDE DEF P, I
<1>8. P(D3d11Steps(d, o))
  <2> DEFINE cur == Live(d, "d3d11")
  <2>1. I(Backup(o.dir, "d3d11")) /\ I(Write("d3d11", Edvr(o.build)))
    BY <1>4, <1>5, Names
  <2>2. P(<<Write("d3d11", Edvr(o.build))>>)
          /\ P(<<Backup(o.dir, "d3d11"), Write("d3d11", Edvr(o.build))>>)
    BY <1>1, <2>1
  <2>3. ASSUME cur.kind \notin {"edvr", "absent"}
        PROVE  P(When(Exists(d, <<0, cur.name>>), <<Backup(o.dir, cur.name)>>)
                 \o <<Backup(o.dir, "d3d11"), Rename("d3d11", cur.name, cur),
                   Write("d3d11", Edvr(o.build))>>)
    <3>1. I(Backup(o.dir, cur.name)) /\ I(Rename("d3d11", cur.name, cur))
      BY <1>4, <1>6, <2>3, Names
    <3>2. P(<<Backup(o.dir, "d3d11"), Rename("d3d11", cur.name, cur),
            Write("d3d11", Edvr(o.build))>>)
      BY <1>1, <2>1, <3>1
    <3>3. P(When(Exists(d, <<0, cur.name>>), <<Backup(o.dir, cur.name)>>))
      BY <1>1, <1>3, <3>1
    <3> QED BY <1>2, <3>2, <3>3
  <2>4. CASE cur.kind = "edvr"
    <3>1. P(When(cur # Edvr(o.build) \/ o.repair,
            <<Backup(o.dir, "d3d11"), Write("d3d11", Edvr(o.build))>>))
      BY <1>3, <2>2
    <3> QED BY <2>4, <3>1 DEF D3d11Steps
  <2>5. CASE cur.kind = "absent"
    BY <2>2, <2>5 DEF D3d11Steps
  <2>6. CASE cur.kind \notin {"edvr", "absent"}
    BY <2>3, <2>6 DEF D3d11Steps
  <2> QED BY <2>4, <2>5, <2>6
<1>9. P(NgxSteps(d, o))
  <2>1. I(Backup(o.dir, "ngx")) /\ I(Write("ngx", Ours(o.build)))
    BY <1>4, <1>5, Names
  <2>2. P(<<Backup(o.dir, "ngx")>>) /\ P(<<Write("ngx", Ours(o.build))>>)
    BY <1>1, <2>1
  <2>3. P(When(Live(d, "ngx").kind # "absent", <<Backup(o.dir, "ngx")>>)
          \o <<Write("ngx", Ours(o.build))>>)
    BY <1>2, <1>3, <2>2
  <2> QED BY <1>3, <2>3 DEF NgxSteps
<1>10. P(OpenvrSteps(d, o))
  <2> DEFINE cur == Live(d, "openvr")
             saved == Live(d, "orig")
             parks == /\ cur.kind = "runtime"
                      /\ saved.kind = "absent" \/ (saved.kind = "runtime" /\ saved # cur)
             a == When(cur.kind # "absent", <<BackupOf(o.dir, "openvr", cur)>>)
             b == When(parks /\ saved.kind = "runtime", <<BackupOf(o.dir, "orig", saved)>>)
             c == When(parks, <<Rename("openvr", "orig", cur)>>)
  <2>1. /\ I(BackupOf(o.dir, "openvr", cur)) /\ I(BackupOf(o.dir, "orig", saved))
        /\ I(Rename("openvr", "orig", cur)) /\ I(Write("openvr", Edvr(o.build)))
    BY <1>4, <1>5, <1>7, Names
  <2>2. P(a) /\ P(b) /\ P(c) /\ P(<<Write("openvr", Edvr(o.build))>>)
    BY <1>1, <1>3, <2>1
  <2>3. OpenvrSteps(d, o) = When(cur # Edvr(o.build) \/ o.repair, a \o b \o c
          \o <<Write("openvr", Edvr(o.build))>>)
    BY DEF OpenvrSteps
  <2> HIDE DEF a, b, c
  <2>4. P(a \o b \o c \o <<Write("openvr", Edvr(o.build))>>)
    BY <1>2, <2>2
  <2> QED BY <1>3, <2>3, <2>4
<1>11. ASSUME NEW f \in {"loader", "config"} PROVE P(AssetSteps(d, o, f))
  <2>1. I(BackupOf(o.dir, f, Live(d, f))) /\ I(Write(f, AssetOf(f, o.build)))
    BY <1>4, <1>5, Names
  <2>2. /\ P(When(Live(d, f).kind # "absent", <<BackupOf(o.dir, f, Live(d, f))>>))
        /\ P(<<Write(f, AssetOf(f, o.build))>>)
    BY <1>1, <1>3, <2>1
  <2>3. P(When(Live(d, f).kind # "absent", <<BackupOf(o.dir, f, Live(d, f))>>)
          \o <<Write(f, AssetOf(f, o.build))>>)
    BY <1>2, <2>2
  <2> QED BY <1>3, <2>3 DEF AssetSteps
<1>12. P(IniSteps(d, o))
  <2>1. I(Backup(o.dir, "ini")) /\ I(Write("ini", MergedIni(d, o)))
    BY <1>4, <1>5, Names
  <2>2. P(<<Backup(o.dir, "ini")>>) /\ P(<<Write("ini", MergedIni(d, o))>>)
    BY <1>1, <2>1
  <2> QED BY <1>2, <1>3, <2>2 DEF IniSteps
<1>13. P(InstallBody(d, o))
  BY <1>2, <1>8, <1>9, <1>10, <1>11, <1>12 DEF InstallBody
<1>14. P(PlanInstall(d, o))
  <2> DEFINE body == InstallBody(d, o)
             last == <<MakeDir, Write("base", Ours(o.build)),
                       Write("record", Record(NextChain(d), NextNgx(d, o), o.build))>>
  <2>1. I(Write("base", Ours(o.build)))
          /\ I(Write("record", Record(NextChain(d), NextNgx(d, o), o.build)))
    BY <1>4, <1>5, Names
  <2>2. P(last) /\ P(<<MakeDir>>) /\ P(When(BacksUp(body), <<MakeDir>>))
    BY <1>1, <1>3, <1>4, <2>1
  <2>3. PlanInstall(d, o) = When(Changed(body) \/ o.repair, When(BacksUp(body), <<MakeDir>>)
          \o <<MakeDir>> \o body \o last)
    BY DEF PlanInstall
  <2> HIDE DEF body, last
  <2>4. P(body)
    BY <1>13 DEF body
  <2>5. P(When(BacksUp(body), <<MakeDir>>) \o <<MakeDir>> \o body \o last)
    BY <1>2, <2>2, <2>4
  <2> QED BY <1>1, <2>3, <2>5 DEF When
<1> QED BY <1>14 DEF P

\* A bounded set of stamps has a greatest one.
LEMMA Greatest ==
  ASSUME NEW B \in Nat, NEW T, T \subseteq 0 .. B, T # {}
  PROVE  \E x \in T : \A y \in T : x >= y
<1> DEFINE U == {B - x : x \in T}
           R == {ss \in Nat \X Nat : ss[1] < ss[2]}
<1>0. IsWellFoundedOn(R, Nat)
  BY NatLessThanWellFounded, Zenon DEF OpToRel
<1> HIDE DEF R
<1>1. U \subseteq Nat /\ U # {}
  <2>1. \A x \in T : B - x \in Nat
    OBVIOUS
  <2> QED BY <2>1
<1> HIDE DEF U
<1>2. PICK u \in U : \A v \in U : <<v, u>> \notin R
  BY <1>0, <1>1, WFMin
<1>3. \A v \in U : ~(v < u)
  BY <1>1, <1>2 DEF R
<1>4. PICK x \in T : u = B - x
  BY DEF U
<1>5. ASSUME NEW y \in T PROVE x >= y
  <2>1. B - y \in U /\ x \in Nat /\ y \in Nat
    BY DEF U
  <2> QED BY <1>3, <1>4, <2>1
<1> QED BY <1>5

\* The original in the backups.
LEMMA NewestFound ==
  ASSUME NEW d, NEW n \in Nat, Folder(d, n), OrigInBackups(d) # {}
  PROVE  \E k \in Nat \ {0} : NewestOrig(d) = <<k, "openvr">>
<1> DEFINE O == OrigInBackups(d)
           T == {l[1] : l \in O}
<1>1. \A l \in O : l \in Stamps(n) \X Files /\ l[1] # 0 /\ l[2] = "openvr"
  BY DEF OrigInBackups, Folder
<1>2. MaxRuns + n \in Nat /\ T \subseteq 0 .. MaxRuns + n /\ T # {}
  BY <1>1, InstallerAssumption DEF Stamps
<1>3. PICK x \in T : \A y \in T : x >= y
  BY <1>2, Greatest
<1>4. \E l \in O : \A m \in O : l[1] >= m[1]
  BY <1>3
<1>5. NewestOrig(d) \in O
  BY <1>4 DEF NewestOrig
<1> HIDE DEF O
<1>6. NewestOrig(d)[1] \in Nat \ {0} /\ NewestOrig(d) = <<NewestOrig(d)[1], "openvr">>
  BY <1>1, <1>5, InstallerAssumption DEF Stamps
<1> QED BY <1>6

\* planUninstall: where the original is taken from a backup, nothing takes it away.
LEMMA UninstallPlanned ==
  ASSUME NEW d, NEW n \in Nat, Folder(d, n), NEW o, o.dir \in Nat \ {0}
  PROVE  \E r \in BOOLEAN : /\ Planned(PlanUninstall(d, o), o.dir, r)
                            /\ r => <<0, "openvr">> \in DOMAIN d
<1> DEFINE r == Live(d, "openvr").kind = "edvr" /\ Live(d, "orig").kind # "runtime"
           P(p) == Planned(p, o.dir, r)
           I(s) == IsStep(s, o.dir, r)
<1>1. /\ P(<<>>) /\ \A s : I(s) => P(<<s>>)
      /\ \A s, t : I(s) /\ I(t) => P(<<s, t>>)
      /\ \A s, t, u : I(s) /\ I(t) /\ I(u) => P(<<s, t, u>>)
  BY PlannedPieces
<1>2. \A p, q : P(p) /\ P(q) => P(p \o q)
  BY PlannedCat
<1>3. \A test, p : (test => P(p)) => P(When(test, p))
  BY PlannedWhen
<1>4. /\ I(MakeDir)
      /\ \A f \in Files : I(Backup(o.dir, f))
      /\ \A f \in Files \ {"openvr"} : \A c : I(Remove(f, c))
      /\ \A f, g \in D3dFiles : \A c : f # g => I(Rename(f, g, c))
  BY StepFacts
<1>5. /\ ~r => \A c : I(Remove("openvr", c)) /\ I(Rename("orig", "openvr", c))
      /\ r => \A k \in Nat \ {0} : I(Restore(<<k, "openvr">>, "openvr"))
  <2>1. Swaps("orig", "openvr")
    BY DEF Swaps
  <2>2. CASE r
    BY <2>2, StepFacts
  <2>3. CASE ~r
    <3>1. r = FALSE
      BY <2>3
    <3>2. \A c : IsStep(Remove("openvr", c), o.dir, FALSE)
            /\ IsStep(Rename("orig", "openvr", c), o.dir, FALSE)
      BY <2>1, StepFacts, Names
    <3> QED BY <3>1, <3>2
  <2> QED BY <2>2, <2>3
<1>6. ParkedMod(d) # None => ParkedMod(d) \in D3dFiles /\ ParkedMod(d) # "d3d11"
  BY Chains, InstallerAssumption DEF D3dFiles
<1>7. r => <<0, "openvr">> \in DOMAIN d
  BY LiveFits, Names DEF Exists, Absent
<1> HIDE DEF P, I
<1>8. P(D3d11Removal(d, o))
  <2> DEFINE cur == Live(d, "d3d11")
             m == ParkedMod(d)
             a == <<Backup(o.dir, "d3d11"), Remove("d3d11", cur)>>
             b == When(m # None /\ Exists(d, <<0, m>>), <<Rename(m, "d3d11", Live(d, m))>>)
  <2>1. P(a)
    BY <1>1, <1>4, Names
  <2>2. P(b)
    <3>1. m # None => I(Rename(m, "d3d11", Live(d, m)))
      BY <1>4, <1>6 DEF D3dFiles
    <3> QED BY <1>1, <1>3, <3>1
  <2>3. D3d11Removal(d, o) = When(cur.kind = "edvr", a \o b)
    BY DEF D3d11Removal
  <2> HIDE DEF a, b
  <2> QED BY <1>2, <1>3, <2>1, <2>2, <2>3
<1>9. P(OpenvrRemoval(d, o))
  <2> DEFINE cur == Live(d, "openvr")
             orig == Live(d, "orig")
             a == <<Backup(o.dir, "openvr"), Remove("openvr", cur),
                    Rename("orig", "openvr", orig)>>
             b == <<Backup(o.dir, "openvr"), Restore(NewestOrig(d), "openvr")>>
  <2>1. ~r => P(a)
    BY <1>1, <1>4, <1>5, Names
  <2>2. r /\ OrigInBackups(d) # {} => P(b)
    BY <1>1, <1>4, <1>5, Names, NewestFound
  <2> DEFINE c == IF orig.kind = "runtime" THEN a ELSE When(OrigInBackups(d) # {}, b)
  <2>3. OpenvrRemoval(d, o) = When(cur.kind = "edvr", c)
    BY DEF OpenvrRemoval
  <2> HIDE DEF a, b
  <2>4. P(When(OrigInBackups(d) # {}, b)) \/ ~r
    BY <1>3, <2>2
  <2>5. cur.kind = "edvr" => P(c)
    BY <2>1, <2>4
  <2> HIDE DEF c
  <2> QED BY <1>1, <2>3, <2>5 DEF When
<1>10. ASSUME NEW f \in {"loader", "config"} PROVE P(AssetRemoval(d, o, f))
  <2>1. P(<<Backup(o.dir, f), Remove(f, Live(d, f))>>)
    BY <1>1, <1>4, Names
  <2> QED BY <1>3, <2>1 DEF AssetRemoval
<1>11. /\ P(When(NgxIsOurs(d), <<Remove("ngx", Live(d, "ngx"))>>))
       /\ P(When(Exists(d, <<0, "ini">>) /\ o.removeSettings,
            <<Backup(o.dir, "ini"), Remove("ini", Absent)>>))
       /\ P(When(Exists(d, <<0, "record">>), <<Remove("record", Absent)>>))
       /\ P(When(Exists(d, <<0, "base">>), <<Remove("base", Absent)>>))
  <2>1. /\ P(<<Remove("ngx", Live(d, "ngx"))>>)
        /\ P(<<Backup(o.dir, "ini"), Remove("ini", Absent)>>)
        /\ P(<<Remove("record", Absent)>>) /\ P(<<Remove("base", Absent)>>)
    BY <1>1, <1>4, Names
  <2> QED BY <1>3, <2>1
<1>12. P(PlanUninstall(d, o))
  <2> DEFINE body == D3d11Removal(d, o) \o OpenvrRemoval(d, o)
                     \o AssetRemoval(d, o, "loader") \o AssetRemoval(d, o, "config")
                     \o When(NgxIsOurs(d), <<Remove("ngx", Live(d, "ngx"))>>)
                     \o When(Exists(d, <<0, "ini">>) /\ o.removeSettings,
                             <<Backup(o.dir, "ini"), Remove("ini", Absent)>>)
                     \o When(Exists(d, <<0, "record">>), <<Remove("record", Absent)>>)
                     \o When(Exists(d, <<0, "base">>), <<Remove("base", Absent)>>)
  <2>1. P(body)
    BY <1>2, <1>8, <1>9, <1>10, <1>11
  <2>2. PlanUninstall(d, o) = When(Changed(body), When(BacksUp(body), <<MakeDir>>) \o body)
    BY DEF PlanUninstall
  <2> HIDE DEF body
  <2>3. P(When(BacksUp(body), <<MakeDir>>))
    BY <1>1, <1>3, <1>4
  <2> QED BY <1>2, <1>3, <2>1, <2>2, <2>3
<1> HIDE DEF r
<1>13. r \in BOOLEAN
  BY DEF r
<1> QED BY <1>7, <1>12, <1>13 DEF P

-------------------------------------------------------------------------------
(* Files put and dropped *)

\* What Put changes.
LEMMA PutAt ==
  ASSUME NEW d, NEW l, NEW c
  PROVE  /\ DOMAIN Put(d, l, c) = DOMAIN d \cup {l} /\ Put(d, l, c)[l] = c
         /\ \A m \in DOMAIN d : m # l => Put(d, l, c)[m] = d[m]
         /\ At(Put(d, l, c), l) = c
         /\ \A m : m # l => At(Put(d, l, c), m) = At(d, m)
  BY DEF Put, Over, Only, At

\* What Drop changes.
LEMMA DropAt ==
  ASSUME NEW d, NEW l
  PROVE  /\ DOMAIN Drop(d, l) = DOMAIN d \ {l}
         /\ \A m \in DOMAIN d : m # l => Drop(d, l)[m] = d[m]
         /\ At(Drop(d, l), l) = Absent
         /\ \A m : m # l => At(Drop(d, l), m) = At(d, m)
  BY DEF Drop, At

\* A folder with one more file that fits its name is a folder,
LEMMA PutFolder ==
  ASSUME NEW n, NEW d, Folder(d, n), NEW l \in Stamps(n) \X Files, NEW c, c.kind # "absent",
         l[1] = 0 => Fits(l[2], c)
  PROVE  Folder(Put(d, l, c), n)
<1> DEFINE e == Put(d, l, c)
<1>1. DOMAIN e = DOMAIN d \cup {l} /\ e[l] = c /\ \A m \in DOMAIN d : m # l => e[m] = d[m]
  BY DEF Put, Over, Only
<1> HIDE DEF e
<1>2. ASSUME NEW m \in DOMAIN e
      PROVE  m \in Stamps(n) \X Files /\ e[m].kind # "absent" /\ (m[1] = 0 => Fits(m[2], e[m]))
  <2>1. CASE m = l
    BY <1>1, <2>1
  <2>2. CASE m # l
    BY <1>1, <2>2 DEF Folder
  <2> QED BY <2>1, <2>2
<1>3. Folder(e, n)
  BY <1>2 DEF Folder
<1> QED BY <1>3 DEF e

\* and so is one with a file less.
LEMMA DropFolder ==
  ASSUME NEW n, NEW d, Folder(d, n), NEW l PROVE Folder(Drop(d, l), n)
<1> DEFINE e == Drop(d, l)
<1>1. DOMAIN e = DOMAIN d \ {l} /\ \A m \in DOMAIN d : m # l => e[m] = d[m]
  BY DropAt
<1> HIDE DEF e
<1>2. \A m \in DOMAIN e : m \in DOMAIN d /\ e[m] = d[m]
  BY <1>1
<1>3. Folder(e, n)
  BY <1>2 DEF Folder
<1> QED BY <1>3 DEF e

\* A half-written file may stand anywhere.
LEMMA TornFits == Torn.kind # "absent" /\ \A f : Fits(f, Torn)
  BY DEF Torn, Fits

\* Files that change places are of one kind.
LEMMA SwapFits ==
  ASSUME NEW f, NEW g, Swaps(f, g), NEW c, Fits(f, c) PROVE Fits(g, c)
  BY Names DEF Swaps, Fits

\* The game folder and this run's backup folder.
LEMMA LivePlace ==
  ASSUME NEW n \in Nat, NEW f \in Files
  PROVE  <<0, f>> \in Stamps(n) \X Files /\ <<n, f>> \in Stamps(n) \X Files
  BY DEF Stamps

\* The folders there can be.
LEMMA StampsAre ==
  ASSUME NEW n \in 0 .. MaxRuns
  PROVE  Stamps(n) \subseteq 0 .. 2 * MaxRuns /\ Stamps(n) \X Files \subseteq Places
  BY InstallerAssumption DEF Stamps, Places

-------------------------------------------------------------------------------
(* The invariant *)

\* The counters and flags of a run.
Counts ==
  /\ run \in 0 .. MaxRuns /\ faults \in 0 .. MaxFaults /\ changes \in 0 .. MaxChanges
  /\ phase \in {"idle", "confirm", "protect", "act", "rollback"}
  /\ clean \in BOOLEAN

\* What is on disk, and mirrored.
Stored ==
  /\ Folder(disk, run)
  /\ \A f \in DOMAIN mirror :
       /\ f \in {"ini", "base", "record", "d3d11", "openvr"} /\ mirror[f].kind # "absent"
       /\ f \in {"ini", "base", "record"} => Fits(f, mirror[f])

\* The plan being shown or carried out; its backup folder is new.
Planning ==
  /\ phase # "idle" => job.dir = run /\ run # 0
  /\ phase \in {"confirm", "protect", "act"} =>
       \E r \in BOOLEAN : Planned(job.steps, run, r) /\ (r => <<0, "openvr">> \in DOMAIN disk)
  /\ phase = "confirm" => result # "rolledBack" /\ \A l \in DOMAIN disk : l[1] # run
  /\ phase \in {"protect", "act", "rollback"} =>
       \A l \in DOMAIN found : l \in Places /\ l[1] # run
  /\ phase \in {"protect", "act"} => pos \in Nat \ {0}
  /\ phase = "act" => MoreSteps /\ Cur.act # "makedir" /\ ~SourceMissing(Cur)

\* The undo list, and the files it names.
NamedBy(p, l) == \E i \in 1 .. Len(p) : l \in {p[i].a, p[i].b}
Undoing ==
  /\ Listed(undo, run)
  /\ phase \in {"idle", "confirm"} => undo = <<>>
  /\ phase \in {"protect", "act"} => clean
  /\ clean => retained = {}
  /\ phase \in {"protect", "act"} =>
       \A f \in Files : Live(disk, f) # Live(found, f) => NamedBy(undo, <<0, f>>)

\* Where it leads: from the folder back to what was found; while a step is about to
\* replace a file, from anything that differs in that file only.
Snapshot(l) == [kind |-> "restore", a |-> Nowhere, b |-> l, c |-> disk[l]]
Shielded ==
  IF Exists(disk, Target(Cur))
  THEN \E p : /\ Listed(p, run) /\ Chain(p, disk, found, run)
              /\ undo = Append(p, Snapshot(Target(Cur)))
  ELSE Chain(undo, disk, found, run)

\* The two together.
Chained ==
  /\ phase = "protect" \/ (phase = "rollback" /\ clean) => Chain(undo, disk, found, run)
  /\ phase = "act" => Shielded

\* The inductive invariant.
IInv == Counts /\ Stored /\ Planning /\ Undoing /\ Chained /\ RolledBackIsAsFound

-------------------------------------------------------------------------------
(* A step *)

\* A longer list names more.
LEMMA NamedPush ==
  ASSUME NEW dir, NEW p, Listed(p, dir), NEW x, NEW l,
         NamedBy(p, l) \/ l = x.a \/ l = x.b
  PROVE  NamedBy(Append(p, x), l)
<1> DEFINE n == Len(p)
           q == Append(p, x)
<1>1. PICK S : p \in Seq(S)
  BY DEF Listed
<1>2. p \in Seq(S \cup {x})
  BY <1>1, WiderSeq
<1>3. n \in Nat /\ Len(q) = n + 1 /\ q[n + 1] = x /\ \A i \in 1 .. n : q[i] = p[i]
  BY <1>2, AppendProperties
<1> HIDE DEF q
<1>4. CASE NamedBy(p, l)
  <2>1. PICK i \in 1 .. n : l \in {p[i].a, p[i].b}
    BY <1>4 DEF NamedBy
  <2>2. i \in 1 .. Len(q) /\ l \in {q[i].a, q[i].b}
    BY <1>3, <2>1
  <2> QED BY <2>2 DEF NamedBy, q
<1>5. CASE l = x.a \/ l = x.b
  <2>1. n + 1 \in 1 .. Len(q) /\ l \in {q[n + 1].a, q[n + 1].b}
    BY <1>3, <1>5
  <2> QED BY <2>1 DEF NamedBy, q
<1> QED BY <1>4, <1>5

\* p \o <<x>>.
LEMMA ListedCat ==
  ASSUME NEW dir, NEW p, Listed(p, dir)
  PROVE  p \o <<>> = p /\ \A x : p \o <<x>> = Append(p, x)
<1>1. PICK S : p \in Seq(S)
  BY DEF Listed
<1>2. \A x : p \in Seq(S \cup {x})
  BY <1>1, WiderSeq
<1>3. p \o <<>> = p
  BY <1>1, ConcatEmptySeq
<1>4. ASSUME NEW x PROVE p \o <<x>> = Append(p, x)
  <2>1. p \in Seq(S \cup {x}) /\ x \in S \cup {x}
    BY <1>2
  <2> QED BY <2>1, AppendIsConcat
<1> QED BY <1>3, <1>4

\* While a step is about to replace a file, the list leads back from every folder that
\* differs in that file only.
LEMMA Kept ==
  ASSUME run \in Nat \ {0}, Shielded, Folder(disk, run), Stamps(run) \X Files \subseteq Places,
         Target(Cur) \in Places, NEW e,
         \A l \in Places : l[1] # run /\ l # Target(Cur) => At(e, l) = At(disk, l),
         Exists(disk, Target(Cur)) \/ Target(Cur)[1] = run \/ At(e, Target(Cur)) = Absent
  PROVE  Chain(undo, e, found, run)
<1> DEFINE t == Target(Cur)
<1>1. CASE Exists(disk, t)
  <2> DEFINE x == Snapshot(t)
  <2>1. PICK p : Listed(p, run) /\ Chain(p, disk, found, run) /\ undo = Append(p, x)
    BY <1>1 DEF Shielded
  <2>2. x.kind = "restore" /\ x.b = t /\ x.c = At(disk, t)
    BY <1>1 DEF Snapshot, At, Exists
  <2> HIDE DEF x, t
  <2>3. LeadsTo(x, e, disk, run)
    BY <2>2 DEF LeadsTo, Back, t
  <2> QED BY <2>1, <2>3, ChainPush
<1>2. CASE ~Exists(disk, t)
  <2>1. Chain(undo, disk, found, run)
    BY <1>2 DEF Shielded
  <2>2. At(disk, t) = Absent
    BY <1>2 DEF At, Exists
  <2>3. Agree(disk, e, run)
    BY <1>2, <2>2 DEF Agree
  <2> QED BY <2>1, <2>3, ChainSame
<1> QED BY <1>1, <1>2

\* The step being carried out.
LEMMA CurIsStep ==
  ASSUME Counts, Planning, phase = "act"
  PROVE  \E r \in BOOLEAN : /\ IsStep(Cur, run, r) /\ (r => <<0, "openvr">> \in DOMAIN disk)
                            /\ Planned(job.steps, run, r)
<1>1. PICK r \in BOOLEAN : Planned(job.steps, run, r) /\ (r => <<0, "openvr">> \in DOMAIN disk)
  BY DEF Planning
<1>2. pos \in 1 .. Len(job.steps)
  BY <1>1, PlannedAt DEF Planning, MoreSteps
<1>3. IsStep(Cur, run, r)
  BY <1>1, <1>2, PlannedAt DEF Cur
<1> QED BY <1>1, <1>3

\* A file about to be replaced is named by its snapshot.
LEMMA TargetNamed ==
  ASSUME Shielded, Exists(disk, Target(Cur)) PROVE NamedBy(undo, Target(Cur))
<1> DEFINE x == Snapshot(Target(Cur))
<1>1. PICK p : Listed(p, run) /\ undo = Append(p, x)
  BY DEF Shielded
<1>2. x.b = Target(Cur)
  BY DEF Snapshot
<1> HIDE DEF x
<1> QED BY <1>1, <1>2, NamedPush

\* Carrying out a step keeps the folder in order, and the list leads back from it.
LEMMA StepPerformed ==
  ASSUME Counts, Stored, Planning, Undoing, Chained, phase = "act",
         NEW r \in BOOLEAN, IsStep(Cur, run, r), r => <<0, "openvr">> \in DOMAIN disk
  PROVE  LET e == Performed(Cur)
             q == undo \o UndoOf(Cur)
         IN  /\ Folder(e, run) /\ (r => <<0, "openvr">> \in DOMAIN e)
             /\ Listed(q, run) /\ Chain(q, e, found, run)
             /\ \A f \in Files : Live(e, f) # Live(found, f) => NamedBy(q, <<0, f>>)
<1> DEFINE s == Cur
           e == Performed(s)
           q == undo \o UndoOf(s)
           t == Target(s)
<1>1. /\ run \in Nat \ {0} /\ run \in 0 .. MaxRuns /\ Folder(disk, run) /\ Shielded
      /\ Stamps(run) \X Files \subseteq Places /\ Listed(undo, run)
      /\ s.act # "makedir" /\ (HasFrom(s) => s.from \in DOMAIN disk)
  BY StampsAre, InstallerAssumption DEF Counts, Stored, Planning, Undoing, Chained,
      SourceMissing, Exists
<1>2. /\ \A l : At(disk, l) = IF l \in DOMAIN disk THEN disk[l] ELSE Absent
      /\ \A l \in DOMAIN disk : disk[l].kind # "absent" /\ disk[l] # Absent
      /\ \A f \in Files : <<0, f>> \in DOMAIN disk => Fits(f, disk[<<0, f>>])
  <2>1. \A l \in DOMAIN disk : disk[l].kind # "absent" /\ (l[1] = 0 => Fits(l[2], disk[l]))
    BY <1>1 DEF Folder
  <2>2. \A f \in Files : <<0, f>>[1] = 0 /\ <<0, f>>[2] = f
    OBVIOUS
  <2> QED BY <2>1, <2>2 DEF At, Absent
<1>3. Exists(disk, t) => NamedBy(undo, t)
  BY <1>1, TargetNamed
<1>4. \A f \in Files : /\ <<0, f>> \in Places /\ <<run, f>> \in Places /\ <<0, f>>[1] # run
                       /\ <<0, f>> # Nowhere /\ <<run, f>>[1] = run
                       /\ <<0, f>> \in Stamps(run) \X Files /\ <<run, f>> \in Stamps(run) \X Files
  BY <1>1, LivePlace, Names DEF Places, Nowhere
<1>5. ASSUME \A f \in Files : Live(e, f) # Live(disk, f) => NamedBy(q, <<0, f>>),
             \A l : NamedBy(undo, l) => NamedBy(q, l)
      PROVE  \A f \in Files : Live(e, f) # Live(found, f) => NamedBy(q, <<0, f>>)
  BY <1>5 DEF Undoing
<1>6. undo \o <<>> = undo /\ \A x : undo \o <<x>> = Append(undo, x)
  BY <1>1, ListedCat
<1> DEFINE Result == /\ Folder(e, run) /\ (r => <<0, "openvr">> \in DOMAIN e)
                     /\ Listed(q, run) /\ Chain(q, e, found, run)
                     /\ \A f \in Files : Live(e, f) # Live(found, f) => NamedBy(q, <<0, f>>)
<1> SUFFICES Result
  OBVIOUS
<1> HIDE DEF s
<1>7. CASE s.act = "backup"
  <2>1. e = Put(disk, s.to, disk[s.from]) /\ q = undo /\ t = s.to
    BY <1>6, <1>7 DEF Performed, UndoOf, Target
  <2>2. \/ \E f \in Files : s.from = <<0, f>> /\ s.to = <<run, f>>
        \/ r /\ s.to = <<0, "openvr">> /\ \E k \in Nat \ {0} : s.from = <<k, "openvr">>
    BY <1>7 DEF IsStep, s
  <2>3. HasFrom(s)
    BY <2>2, <1>4 DEF HasFrom, Nowhere
  <2>4. /\ s.to \in Stamps(run) \X Files /\ s.to \in Places
        /\ s.to[1] = 0 => s.to = <<0, "openvr">> /\ r
    BY <1>1, <1>4, <2>2, Names
  <2>5. Fits("openvr", disk[s.from]) /\ disk[s.from].kind # "absent"
    BY <1>1, <1>2, <2>3, Names DEF Fits
  <2> HIDE DEF e, q, t
  <2>6. Folder(e, run)
    BY <1>1, <2>1, <2>4, <2>5, PutFolder
  <2>7. DOMAIN e = DOMAIN disk \cup {s.to} /\ \A l : l # s.to => At(e, l) = At(disk, l)
    BY <2>1 DEF Put, Over, Only, At
  <2>8. s.to[1] = run \/ Exists(disk, s.to)
    BY <2>2, <1>4 DEF Exists
  <2>9. Chain(q, e, found, run)
    <3>1. /\ t \in Places
          /\ \A l \in Places : l[1] # run /\ l # t => At(e, l) = At(disk, l)
          /\ Exists(disk, t) \/ t[1] = run \/ At(e, t) = Absent
      BY <2>1, <2>4, <2>7, <2>8
    <3> QED BY <1>1, <2>1, <3>1, Kept DEF t, s
  <2>10. \A f \in Files : Live(e, f) # Live(disk, f) => NamedBy(q, <<0, f>>)
    <3> SUFFICES ASSUME NEW f \in Files, Live(e, f) # Live(disk, f) PROVE NamedBy(q, <<0, f>>)
      OBVIOUS
    <3>1. <<0, f>> = s.to
      BY <2>7 DEF Live
    <3>2. Exists(disk, t)
      BY <1>4, <2>1, <2>8, <3>1
    <3> QED BY <1>3, <2>1, <3>1, <3>2
  <2>11. \A l : NamedBy(undo, l) => NamedBy(q, l)
    BY <2>1
  <2>12. \A f \in Files : Live(e, f) # Live(found, f) => NamedBy(q, <<0, f>>)
    BY <1>5, <2>10, <2>11
  <2> QED BY <1>1, <2>1, <2>6, <2>7, <2>9, <2>12
<1>8. CASE s.act = "delete"
  <2>1. e = Drop(disk, s.from) /\ q = undo /\ t = s.from
    BY <1>6, <1>8 DEF Performed, UndoOf, Target
  <2>2. PICK f \in Files : s.from = <<0, f>> /\ (r => f # "openvr")
    BY <1>8 DEF IsStep, s
  <2>3. s.from \in DOMAIN disk
    BY <1>1, <1>4, <2>2 DEF HasFrom
  <2> HIDE DEF e, q, t
  <2>4. Folder(e, run)
    BY <1>1, <2>1, DropFolder
  <2>5. DOMAIN e = DOMAIN disk \ {s.from} /\ \A l : l # s.from => At(e, l) = At(disk, l)
    BY <2>1 DEF Drop, At
  <2>6. Chain(q, e, found, run)
    <3>1. /\ t \in Places
          /\ \A l \in Places : l[1] # run /\ l # t => At(e, l) = At(disk, l)
          /\ Exists(disk, t) \/ t[1] = run \/ At(e, t) = Absent
      BY <1>4, <2>1, <2>2, <2>3, <2>5 DEF Exists
    <3> QED BY <1>1, <2>1, <3>1, Kept DEF t, s
  <2>7. \A g \in Files : Live(e, g) # Live(disk, g) => NamedBy(q, <<0, g>>)
    <3> SUFFICES ASSUME NEW g \in Files, Live(e, g) # Live(disk, g) PROVE NamedBy(q, <<0, g>>)
      OBVIOUS
    <3>1. <<0, g>> = s.from
      BY <2>5 DEF Live
    <3> QED BY <1>3, <2>1, <2>3, <3>1 DEF Exists
  <2>8. \A l : NamedBy(undo, l) => NamedBy(q, l)
    BY <2>1
  <2>9. \A g \in Files : Live(e, g) # Live(found, g) => NamedBy(q, <<0, g>>)
    BY <1>5, <2>7, <2>8
  <2>10. r => <<0, "openvr">> \in DOMAIN e
    BY <2>2, <2>5
  <2> QED BY <1>1, <2>1, <2>4, <2>6, <2>9, <2>10
<1>9. CASE s.act = "write"
  <2> DEFINE x == [kind |-> "remove", a |-> s.to, b |-> Nowhere, c |-> Absent]
  <2>1. /\ e = Put(disk, s.to, s.c) /\ t = s.to
        /\ q = IF Exists(disk, t) THEN undo ELSE Append(undo, x)
    BY <1>6, <1>9 DEF Performed, UndoOf, Target
  <2>2. PICK f \in Files : s.to = <<0, f>> /\ Fits(f, s.c)
    BY <1>9 DEF IsStep, s
  <2>3. /\ s.to \in Places /\ s.to \in Stamps(run) \X Files /\ s.to[1] # run
        /\ s.c.kind # "absent" /\ Fits(s.to[2], s.c)
    <3>1. s.to[2] = f
      BY <2>2
    <3>2. s.c.kind # "absent" /\ Fits(s.to[2], s.c)
      BY <2>2, <3>1 DEF Fits
    <3> QED BY <1>4, <2>2, <3>2
  <2>4. IsUndo(x, run) /\ x.a = s.to /\ x.kind = "remove"
    BY <2>2 DEF IsUndo
  <2> HIDE DEF e, q, t, x
  <2>5. Folder(e, run)
    BY <1>1, <2>1, <2>3, PutFolder
  <2>6. /\ DOMAIN e = DOMAIN disk \cup {s.to}
        /\ \A l : l # s.to => At(e, l) = At(disk, l)
    BY <2>1 DEF Put, Over, Only, At
  <2>7. /\ Listed(q, run) /\ Chain(q, e, found, run) /\ NamedBy(q, t)
        /\ \A l : NamedBy(undo, l) => NamedBy(q, l)
    <3>1. CASE Exists(disk, t)
      <4>1. /\ t \in Places
            /\ \A l \in Places : l[1] # run /\ l # t => At(e, l) = At(disk, l)
        BY <2>1, <2>3, <2>6
      <4>2. Chain(undo, e, found, run)
        BY <1>1, <3>1, <4>1, Kept DEF t, s
      <4> QED BY <1>1, <1>3, <2>1, <3>1, <4>2
    <3>2. CASE ~Exists(disk, t)
      <4>1. q = Append(undo, x) /\ Chain(undo, disk, found, run)
        BY <1>1, <2>1, <3>2 DEF Shielded, t, s
      <4>2. At(disk, s.to) = Absent
        BY <1>2, <2>1, <3>2 DEF Exists
      <4>3. LeadsTo(x, e, disk, run)
        BY <2>4, <2>6, <4>2 DEF LeadsTo, Back
      <4>4. Chain(q, e, found, run)
        BY <1>1, <4>1, <4>3, ChainPush
      <4> QED BY <1>1, <2>1, <2>4, <4>1, <4>4, ListedPush, NamedPush
    <3> QED BY <3>1, <3>2
  <2>8. \A g \in Files : Live(e, g) # Live(disk, g) => NamedBy(q, <<0, g>>)
    <3> SUFFICES ASSUME NEW g \in Files, Live(e, g) # Live(disk, g) PROVE NamedBy(q, <<0, g>>)
      OBVIOUS
    <3>1. <<0, g>> = t
      BY <2>1, <2>6 DEF Live
    <3> QED BY <2>7, <3>1
  <2>9. \A g \in Files : Live(e, g) # Live(found, g) => NamedBy(q, <<0, g>>)
    BY <1>5, <2>7, <2>8
  <2> QED BY <2>5, <2>6, <2>7, <2>9
<1>10. CASE s.act = "rename"
  <2> DEFINE x == [kind |-> "moveback", a |-> s.to, b |-> s.from, c |-> disk[s.from]]
             m == Put(disk, s.to, disk[s.from])
             e1 == Drop(disk, s.to)
  <2>1. e = Drop(m, s.from) /\ t = s.to /\ q = Append(undo, x)
    BY <1>6, <1>10 DEF Performed, UndoOf, Target
  <2>2. PICK f, g \in Files : /\ s.from = <<0, f>> /\ s.to = <<0, g>> /\ Swaps(f, g)
                              /\ r => f # "openvr"
    BY <1>10 DEF IsStep, s
  <2>3. /\ s.to \in Places /\ s.to \in Stamps(run) \X Files /\ s.to[1] # run /\ s.to[2] = g
        /\ s.from # s.to /\ s.from \in DOMAIN disk /\ s.from \in Places
    <3>1. f # g /\ s.to[2] = g /\ s.from[2] = f
      BY <2>2 DEF Swaps
    <3>2. s.from \in DOMAIN disk
      BY <1>1, <1>4, <2>2 DEF HasFrom
    <3> QED BY <1>4, <2>2, <3>1, <3>2
  <2>4. Fits(g, disk[s.from]) /\ disk[s.from].kind # "absent"
    BY <1>2, <2>2, <2>3, SwapFits
  <2>5. IsUndo(x, run) /\ x.a = s.to /\ x.b = s.from /\ x.kind = "moveback"
    BY <2>2 DEF IsUndo
  <2> HIDE DEF e, q, t, x
  <2>6. Folder(m, run)
    BY <1>1, <2>3, <2>4, PutFolder
  <2>7. /\ DOMAIN m = DOMAIN disk \cup {s.to} /\ At(m, s.to) = disk[s.from]
        /\ \A l : l # s.to => At(m, l) = At(disk, l)
    BY DEF m, Put, Over, Only, At
  <2>8. At(e1, s.to) = Absent /\ \A l : l # s.to => At(e1, l) = At(disk, l)
    BY DropAt
  <2> HIDE DEF m, e1
  <2>9. Folder(e, run)
    BY <2>1, <2>6, DropFolder
  <2>10. /\ DOMAIN e = DOMAIN m \ {s.from} /\ At(e, s.from) = Absent
         /\ \A l : l # s.from => At(e, l) = At(m, l)
    BY <2>1 DEF Drop, At
  <2>11. Chain(undo, e1, found, run)
    <3>1. /\ t \in Places
          /\ \A l \in Places : l[1] # run /\ l # t => At(e1, l) = At(disk, l)
          /\ Exists(disk, t) \/ t[1] = run \/ At(e1, t) = Absent
      BY <2>1, <2>3, <2>8
    <3> QED BY <1>1, <3>1, Kept DEF t, s
  <2>12. LeadsTo(x, e, e1, run)
    <3>1. At(e, s.to) = At(disk, s.from) /\ At(disk, s.from) # Absent
      BY <1>2, <2>3, <2>7, <2>10
    <3>2. \A l \in Places : At(e1, l) = Back(x, e, l)
      BY <2>3, <2>5, <2>7, <2>8, <2>10, <3>1 DEF Back
    <3> QED BY <2>5, <3>1, <3>2 DEF LeadsTo
  <2>13. Chain(q, e, found, run)
    BY <1>1, <2>1, <2>11, <2>12, ChainPush
  <2>14. Listed(q, run)
    BY <1>1, <2>1, <2>5, ListedPush
  <2>15. \A l : NamedBy(undo, l) \/ l = s.to \/ l = s.from => NamedBy(q, l)
    BY <1>1, <2>1, <2>5, NamedPush
  <2>16. \A h \in Files : Live(e, h) # Live(disk, h) => NamedBy(q, <<0, h>>)
    <3> SUFFICES ASSUME NEW h \in Files, Live(e, h) # Live(disk, h) PROVE NamedBy(q, <<0, h>>)
      OBVIOUS
    <3>1. <<0, h>> = s.to \/ <<0, h>> = s.from
      BY <2>7, <2>10 DEF Live
    <3> QED BY <2>15, <3>1
  <2>17. \A h \in Files : Live(e, h) # Live(found, h) => NamedBy(q, <<0, h>>)
    BY <1>5, <2>15, <2>16
  <2>18. r => <<0, "openvr">> \in DOMAIN e
    BY <2>2, <2>7, <2>10
  <2> QED BY <2>9, <2>13, <2>14, <2>17, <2>18
<1> QED
  BY <1>1, <1>7, <1>8, <1>9, <1>10 DEF IsStep, s

\* A copy that was not finished.
LEMMA TornFolder ==
  ASSUME NEW n, NEW d, Folder(d, n), NEW l \in Stamps(n) \X Files
  PROVE  Folder(Put(d, l, Torn), n)
  BY PutFolder, TornFits

\* What a step or an undo was copying is a place of this run.
LEMMA CopyingPlaces ==
  ASSUME Counts, Stored, Planning, Undoing
  PROVE  Copying \subseteq Stamps(run) \X Files
<1>1. run \in Nat
  BY InstallerAssumption DEF Counts
<1>2. CASE phase = "act" /\ Cur.act = "backup"
  <2>1. PICK r \in BOOLEAN : IsStep(Cur, run, r)
    BY <1>2, CurIsStep
  <2>2. \E f \in Files : Cur.to = <<run, f>> \/ Cur.to = <<0, f>>
    BY <1>2, <2>1, Names DEF IsStep
  <2>3. Cur.to \in Stamps(run) \X Files
    BY <1>1, <2>2, LivePlace
  <2> QED BY <1>2, <2>3 DEF Copying
<1>3. CASE phase = "rollback" /\ undo # <<>> /\ Top.kind = "restore" /\ ~KeepsMoved(Top)
  <2>1. IsUndo(Top, run)
    BY <1>3, ListedPop DEF Undoing, Top
  <2>2. \E f \in Files : Top.b = <<run, f>> \/ Top.b = <<0, f>>
    BY <1>3, <2>1 DEF IsUndo
  <2>3. Top.b \in Stamps(run) \X Files
    BY <1>1, <2>2, LivePlace
  <2> QED BY <1>3, <2>3 DEF Copying
<1>4. CASE /\ ~(phase = "act" /\ Cur.act = "backup")
           /\ ~(phase = "rollback" /\ undo # <<>> /\ Top.kind = "restore" /\ ~KeepsMoved(Top))
  <2>1. Copying = {}
    BY <1>4 DEF Copying
  <2> QED BY <2>1
<1> QED BY <1>2, <1>3, <1>4

\* One entry undone.
LEMMA UndoneFacts ==
  ASSUME Counts, Stored, Undoing, run # 0, undo # <<>>, Movable(Top)
  PROVE  Folder(Undone(Top), run) /\ \A l \in Places : At(Undone(Top), l) = Back(Top, disk, l)
<1> DEFINE u == Top
           e == Undone(u)
<1>1. run \in Nat \ {0} /\ Folder(disk, run) /\ IsUndo(u, run)
  BY InstallerAssumption, ListedPop DEF Counts, Stored, Undoing, Top
<1>2. \A f \in Files : /\ <<0, f>> \in Stamps(run) \X Files /\ <<run, f>> \in Stamps(run) \X Files
                       /\ <<0, f>>[2] = f /\ <<run, f>>[1] # 0
  BY <1>1, LivePlace
<1> HIDE DEF u
<1>3. CASE u.kind = "remove"
  <2>1. e = Drop(disk, u.a)
    BY <1>3 DEF Undone
  <2> HIDE DEF e
  <2>2. Folder(e, run)
    BY <1>1, <2>1, DropFolder
  <2>3. \A l \in Places : At(e, l) = Back(u, disk, l)
    BY <1>3, <2>1 DEF Drop, At, Back
  <2> QED BY <2>2, <2>3 DEF e, u
<1>4. CASE u.kind = "restore"
  <2>1. e = Put(disk, u.b, u.c)
    BY <1>4 DEF Undone
  <2>2. u.b \in Stamps(run) \X Files /\ u.c.kind # "absent" /\ (u.b[1] = 0 => Fits(u.b[2], u.c))
    BY <1>1, <1>2, <1>4 DEF IsUndo
  <2> HIDE DEF e
  <2>3. Folder(e, run)
    BY <1>1, <2>1, <2>2, PutFolder
  <2>4. \A l \in Places : At(e, l) = Back(u, disk, l)
    BY <1>4, <2>1 DEF Put, Over, Only, At, Back
  <2> QED BY <2>3, <2>4 DEF e, u
<1>5. CASE u.kind = "moveback"
  <2> DEFINE m == Put(disk, u.b, disk[u.a])
  <2>1. e = Drop(m, u.a)
    BY <1>5 DEF Undone
  <2>2. PICK f, g \in Files : u.a = <<0, g>> /\ u.b = <<0, f>> /\ Swaps(f, g)
    BY <1>1, <1>5 DEF IsUndo
  <2>3. u.a # u.b /\ u.a \in DOMAIN disk /\ Swaps(g, f)
    BY <1>5, <2>2 DEF Swaps, Movable, Exists, u
  <2>4. Fits(g, disk[u.a])
    <3>1. u.a[1] = 0 /\ u.a[2] = g
      BY <2>2
    <3> QED BY <1>1, <2>3, <3>1 DEF Folder
  <2>5. Fits(f, disk[u.a]) /\ disk[u.a].kind # "absent"
    BY <2>3, <2>4, SwapFits DEF Fits
  <2>6. u.b \in Stamps(run) \X Files /\ u.b[2] = f
    BY <1>2, <2>2
  <2>7. Folder(m, run)
    BY <1>1, <2>5, <2>6, PutFolder
  <2>8. At(m, u.b) = At(disk, u.a) /\ \A l : l # u.b => At(m, l) = At(disk, l)
    BY <2>3 DEF m, Put, Over, Only, At
  <2> HIDE DEF e, m
  <2>9. Folder(e, run)
    BY <2>1, <2>7, DropFolder
  <2>10. At(e, u.a) = Absent /\ \A l : l # u.a => At(e, l) = At(m, l)
    BY <2>1 DEF Drop, At
  <2>11. \A l \in Places : At(e, l) = Back(u, disk, l)
    BY <1>5, <2>3, <2>8, <2>10 DEF Back
  <2> QED BY <2>9, <2>11 DEF e, u
<1> QED BY <1>1, <1>3, <1>4, <1>5 DEF IsUndo

\* What other programs do to the folder.
LEMMA LandedFacts ==
  ASSUME Counts, Stored, NEW kind \in Changes, NEW d \in Landed(kind)
  PROVE  /\ Folder(d, run) /\ (<<0, "openvr">> \in DOMAIN disk => <<0, "openvr">> \in DOMAIN d)
         /\ \A l \in DOMAIN d : l \in DOMAIN disk \/ l[1] = 0
<1> DEFINE n == changes + 1
           ini == Live(disk, "ini")
           OK(e) == /\ Folder(e, run)
                    /\ <<0, "openvr">> \in DOMAIN disk => <<0, "openvr">> \in DOMAIN e
                    /\ \A l \in DOMAIN e : l \in DOMAIN disk \/ l[1] = 0
<1>1. run \in Nat /\ n \in Nat /\ Folder(disk, run)
  BY InstallerAssumption DEF Counts, Stored
<1>2. OK(disk)
  BY <1>1
<1>3. ASSUME NEW e, OK(e), NEW f \in Files, NEW c, Fits(f, c) PROVE OK(Put(e, <<0, f>>, c))
  <2> DEFINE l == <<0, f>>
             p == Put(e, l, c)
  <2>1. l \in Stamps(run) \X Files /\ l[1] = 0 /\ l[2] = f /\ c.kind # "absent"
    BY <1>1, <1>3, LivePlace DEF Fits
  <2> HIDE DEF l
  <2>2. DOMAIN p = DOMAIN e \cup {l}
    BY DEF p, Put, Over, Only
  <2>3. Folder(p, run)
    BY <1>3, <2>1, PutFolder
  <2> HIDE DEF p
  <2>4. OK(p)
    BY <1>3, <2>1, <2>2, <2>3
  <2> QED BY <2>4 DEF p, l
<1>4. ASSUME NEW f \in Files \ {"openvr"} PROVE OK(Drop(disk, <<0, f>>))
  <2> DEFINE p == Drop(disk, <<0, f>>)
  <2>1. DOMAIN p = DOMAIN disk \ {<<0, f>>} /\ Folder(p, run)
    BY <1>1, DropFolder DEF Drop
  <2> HIDE DEF p
  <2>2. OK(p)
    BY <2>1
  <2> QED BY <2>2 DEF p
<1> HIDE DEF OK
<1>5. /\ Fits("openvr", Runtime(n)) /\ Fits("ngx", Ngx(n))
      /\ \A m \in Mods : Fits("d3d11", Mod(m, n)) /\ Fits(m, Mod(m, n)) /\ m \in Files
           /\ m # "openvr"
  BY Names DEF Fits, Runtime, Ngx, Mod, D3dFiles
<1>6. ASSUME ini.kind = "ini"
      PROVE  /\ Fits("ini", [ini EXCEPT !.user = n])
             /\ \A m \in Mods : Fits("ini", [ini EXCEPT !.chain = m])
  <2>1. ini \in Inis
    <3>1. Fits("ini", ini)
      BY <1>1, <1>6, LiveFits, Names
    <3> QED BY <1>6, <3>1 DEF Fits
  <2> HIDE DEF ini
  <2>2. [ini EXCEPT !.user = n] \in Inis /\ \A m \in Mods : [ini EXCEPT !.chain = m] \in Inis
    BY <1>1, <2>1 DEF Inis
  <2>3. \A c \in Inis : Fits("ini", c)
    BY Names DEF Fits, Inis
  <2> QED BY <2>2, <2>3
<1>7. OK(Only(<<0, "openvr">>, Runtime(n)))
  <2> DEFINE l == <<0, "openvr">>
             p == Only(l, Runtime(n))
  <2>1. DOMAIN p = {l} /\ p[l] = Runtime(n) /\ Runtime(n).kind # "absent"
    BY DEF Only, Runtime
  <2>2. l[1] = 0 /\ l[2] = "openvr" /\ l \in Stamps(run) \X Files
    BY <1>1, LivePlace, Names
  <2> HIDE DEF p, l
  <2>3. Folder(p, run)
    BY <1>5, <2>1, <2>2 DEF Folder
  <2>4. OK(p)
    BY <2>1, <2>2, <2>3 DEF OK, l
  <2> QED BY <2>4 DEF p, l
<1> HIDE DEF n, ini
<1>8. OK(d)
  <2>1. CASE kind = "game"
    <3>1. d = Put(disk, <<0, "openvr">>, Runtime(n))
      BY <2>1 DEF Landed, n
    <3> QED BY <1>2, <1>3, <1>5, <3>1, Names
  <2>2. CASE kind = "mod"
    <3>1. PICK m \in Mods : d = Put(disk, <<0, "d3d11">>, Mod(m, n))
      BY <2>2 DEF Landed, n
    <3> QED BY <1>2, <1>3, <1>5, <3>1, Names
  <2>3. CASE kind = "park"
    <3>1. ini.kind = "ini"
      BY <2>3 DEF Landed, ini
    <3>2. PICK m \in Mods : d = Put(Put(disk, <<0, "ini">>, [ini EXCEPT !.chain = m]),
                 <<0, m>>, Mod(m, n))
      BY <2>3, <3>1 DEF Landed, n, ini
    <3>3. OK(Put(disk, <<0, "ini">>, [ini EXCEPT !.chain = m]))
      BY <1>2, <1>3, <1>6, <3>1, Names
    <3> QED BY <1>3, <1>5, <3>2, <3>3
  <2>4. CASE kind = "del"
    <3>1. d = Drop(disk, <<0, "d3d11">>)
      BY <2>4 DEF Landed
    <3> QED BY <1>4, <3>1, Names
  <2>5. CASE kind = "lose"
    <3>1. PICK f \in Mods \cup {"orig"} : d = Drop(disk, <<0, f>>)
      BY <2>5 DEF Landed
    <3>2. f \in Files \ {"openvr"}
      BY <1>5, Names
    <3> QED BY <1>4, <3>1, <3>2
  <2>6. CASE kind = "ngx"
    <3>1. d = Put(disk, <<0, "ngx">>, Ngx(n))
      BY <2>6 DEF Landed, n
    <3> QED BY <1>2, <1>3, <1>5, <3>1, Names
  <2>7. CASE kind = "edit"
    <3>1. ini.kind = "ini" /\ d = Put(disk, <<0, "ini">>, [ini EXCEPT !.user = n])
      BY <2>7 DEF Landed, n, ini
    <3> QED BY <1>2, <1>3, <1>6, <3>1, Names
  <2>8. CASE kind = "wipe"
    <3>1. d = Only(<<0, "openvr">>, Runtime(n))
      BY <2>8 DEF Landed, n
    <3> QED BY <1>7, <3>1
  <2> QED BY <2>1, <2>2, <2>3, <2>4, <2>5, <2>6, <2>7, <2>8 DEF Changes
<1> QED BY <1>8 DEF OK

\* The mirror.
MirrorOK(m) ==
  \A f \in DOMAIN m :
    /\ f \in {"ini", "base", "record", "d3d11", "openvr"} /\ m[f].kind # "absent"
    /\ f \in {"ini", "base", "record"} => Fits(f, m[f])

\* At most five files are copied to or from the mirror: their failures can be counted.
LEMMA FailuresCount ==
  ASSUME NEW how, NEW a, NEW b, NEW c, NEW x, NEW y, DOMAIN how \subseteq {a, b, c, x, y}
  PROVE  Failures(how) \in Nat
<1>1. IsFiniteSet({a, b, c, x, y})
  <2>1. IsFiniteSet({a}) /\ {a, b} = {a} \cup {b} /\ {a, b, c} = {a, b} \cup {c}
    BY FS_Singleton
  <2>2. {a, b, c, x} = {a, b, c} \cup {x} /\ {a, b, c, x, y} = {a, b, c, x} \cup {y}
    OBVIOUS
  <2>3. IsFiniteSet({a, b}) /\ IsFiniteSet({a, b, c})
    BY <2>1, FS_AddElement
  <2>4. IsFiniteSet({a, b, c, x})
    BY <2>2, <2>3, FS_AddElement
  <2> QED BY <2>2, <2>4, FS_AddElement
<1>2. {z \in DOMAIN how : how[z] # "whole"} \subseteq {a, b, c, x, y}
  OBVIOUS
<1>3. IsFiniteSet({z \in DOMAIN how : how[z] # "whole"})
  BY <1>1, <1>2, FS_Subset
<1> QED BY <1>3, FS_CardinalityType DEF Failures

\* updateMirror copies files that are there, each under its name, or leaves one torn.
LEMMA MirrorUpdated ==
  ASSUME Counts, MirrorOK(mirror), NEW d, NEW n \in Nat, Folder(d, n), NEW dir \in Nat \ {0},
         NEW k \in Nat, UpdateMirror(d, dir, k)
  PROVE  MirrorOK(mirror') /\ faults' \in 0 .. MaxFaults
<1> DEFINE M == MirrorSources(d, dir) \cap DOMAIN d
<1>1. PICK how \in [M -> CopyEnds] :
        /\ faults + (k + Failures(how)) <= MaxFaults
        /\ faults' = faults + k + Failures(how)
        /\ mirror' = Over([f \in {l[2] : l \in Copied(how)} |->
                              LET l == CHOOSE x \in Copied(how) : x[2] = f
                              IN  IF how[l] = "torn" THEN Torn ELSE d[l]], mirror)
  BY DEF UpdateMirror, MayFail
<1>2. DOMAIN how \subseteq {<<0, "ini">>, <<0, "base">>, <<0, "record">>, <<dir, "d3d11">>,
                          <<dir, "openvr">>}
  BY DEF MirrorSources
<1>3. Failures(how) \in Nat
  BY <1>2, FailuresCount
<1>4. faults' \in 0 .. MaxFaults
  BY <1>1, <1>3, InstallerAssumption DEF Counts
<1>5. \A l \in M : /\ l \in DOMAIN d /\ l[2] \in {"ini", "base", "record", "d3d11", "openvr"}
                   /\ l[2] \in {"ini", "base", "record"} => l[1] = 0
  BY DEF MirrorSources
<1>6. \A l \in M : d[l].kind # "absent" /\ (l[1] = 0 => Fits(l[2], d[l]))
  BY <1>5 DEF Folder
<1> HIDE DEF M
<1>7. ASSUME NEW f \in DOMAIN mirror'
      PROVE  /\ f \in {"ini", "base", "record", "d3d11", "openvr"} /\ mirror'[f].kind # "absent"
             /\ f \in {"ini", "base", "record"} => Fits(f, mirror'[f])
  <2> DEFINE N == {l[2] : l \in Copied(how)}
             g == CHOOSE l \in Copied(how) : l[2] = f
  <2>1. DOMAIN mirror' = N \cup DOMAIN mirror
    BY <1>1 DEF Over
  <2>2. mirror'[f] = IF f \in N THEN IF how[g] = "torn" THEN Torn ELSE d[g] ELSE mirror[f]
    BY <1>1, <1>7, <2>1 DEF Over
  <2>3. CASE f \in N
    <3>1. g \in Copied(how) /\ g[2] = f
      BY <2>3
    <3> HIDE DEF g
    <3>2. g \in M
      BY <3>1 DEF Copied
    <3> QED BY <1>5, <1>6, <2>2, <2>3, <3>1, <3>2, TornFits
  <2>4. CASE f \notin N
    <3>1. f \in DOMAIN mirror /\ mirror'[f] = mirror[f]
      BY <1>7, <2>1, <2>2, <2>4
    <3> QED BY <3>1 DEF MirrorOK
  <2> QED BY <2>3, <2>4
<1>8. MirrorOK(mirror')
  BY <1>7 DEF MirrorOK
<1> QED BY <1>4, <1>8

\* What a survey leaves and sees: the folder, or with the mirror's files restored into it.
LEMMA SurveyedFacts ==
  ASSUME Counts, Stored, run < MaxRuns, NEW what, NEW keep, NEW v \in Surveyed(what, keep)
  PROVE  /\ \A d \in {v.left, v.seen} : Folder(d, run + 1) /\ \A l \in DOMAIN d : l[1] # run + 1
         /\ DOMAIN v.seen \subseteq DOMAIN v.left /\ v.failed \in Nat
<1> DEFINE n == run + 1
           Good(d) == Folder(d, n) /\ (\A l \in DOMAIN d : l[1] # n)
           In(d) == Good(d) /\ DOMAIN disk \subseteq DOMAIN d
<1>1. run \in Nat /\ MaxRuns \in Nat /\ n \in 1 .. MaxRuns
  BY InstallerAssumption DEF Counts
<1>2. Stamps(run) \subseteq Stamps(n) /\ MaxRuns + n \in Stamps(n) /\ 0 \in Stamps(n)
        /\ n \notin Stamps(run) /\ n # 0
  BY <1>1 DEF Stamps
<1> HIDE DEF n
<1>3. In(disk)
  BY <1>2 DEF Stored, Folder
<1>4. \A d \in Unfinished(<<0, "ini">>) : In(d)
  <2> SUFFICES In(Put(disk, <<0, "ini">>, Torn))
    BY <1>3 DEF Unfinished
  <2> DEFINE p == Put(disk, <<0, "ini">>, Torn)
  <2>1. DOMAIN p = {<<0, "ini">>} \cup DOMAIN disk
          /\ \A l \in DOMAIN p : p[l] = IF l = <<0, "ini">> THEN Torn ELSE disk[l]
    BY DEF Put, Over, Only
  <2>2. <<0, "ini">> \in Stamps(n) \X Files
    BY <1>2, Names
  <2> HIDE DEF p
  <2>3. In(p)
    BY <1>2, <1>3, <2>1, <2>2, TornFits DEF Folder
  <2> QED BY <2>3 DEF p
<1>5. ASSUME NEW how \in [DOMAIN mirror -> CopyEnds] PROVE In(FromMirror(n, how))
  <2> DEFINE d == FromMirror(n, how)
             R == {RestoredLoc(f, n) : f \in Copied(how)}
             e(l) == IF how[l[2]] = "torn" THEN Torn ELSE mirror[l[2]]
  <2>1. DOMAIN d = R \cup DOMAIN disk
          /\ \A l \in DOMAIN d : d[l] = IF l \in R THEN e(l) ELSE disk[l]
    BY DEF FromMirror, Over
  <2>2. ASSUME NEW l \in R
        PROVE  /\ l \in Stamps(n) \X Files /\ l[1] # n /\ e(l).kind # "absent"
               /\ l[1] = 0 => Fits(l[2], e(l))
    <3>1. PICK f \in DOMAIN mirror : l = RestoredLoc(f, n)
      BY DEF Copied
    <3>2. /\ f \in {"ini", "base", "record", "d3d11", "openvr"} /\ mirror[f].kind # "absent"
          /\ f \in {"ini", "base", "record"} => Fits(f, mirror[f])
      BY DEF Stored
    <3>3. l[2] = f /\ e(l) \in {Torn, mirror[f]}
      BY <3>1 DEF RestoredLoc
    <3>4. e(l).kind # "absent" /\ (f \in {"ini", "base", "record"} => Fits(f, e(l)))
      BY <3>2, <3>3, TornFits
    <3> HIDE DEF e
    <3>5. CASE f \in {"d3d11", "openvr"}
      <4>1. l = <<MaxRuns + n, f>>
        BY <3>1, <3>5 DEF RestoredLoc, RestoredDir
      <4>2. MaxRuns + n # 0 /\ MaxRuns + n # n
        BY <1>1
      <4> QED BY <1>2, <3>4, <3>5, <4>1, <4>2, Names
    <3>6. CASE f \notin {"d3d11", "openvr"}
      <4>1. l = <<0, f>>
        BY <3>1, <3>6 DEF RestoredLoc
      <4> QED BY <1>1, <1>2, <3>2, <3>4, <3>6, <4>1, Names
    <3> QED BY <3>5, <3>6
  <2> HIDE DEF R, d, e
  <2>3. ASSUME NEW l \in DOMAIN d
        PROVE  /\ l \in Stamps(n) \X Files /\ d[l].kind # "absent" /\ l[1] # n
               /\ l[1] = 0 => Fits(l[2], d[l])
    <3>1. CASE l \in R
      BY <2>1, <2>2, <3>1
    <3>2. CASE l \notin R
      BY <1>3, <2>1, <3>2 DEF Folder
    <3> QED BY <3>1, <3>2
  <2>4. In(d)
    BY <2>1, <2>3 DEF Folder
  <2> QED BY <2>4 DEF d
<1>6. /\ v.left = disk \/ v.left \in Unfinished(<<0, "ini">>)
           \/ \E how \in [DOMAIN mirror -> CopyEnds] : v.left = FromMirror(n, how)
      /\ v.seen \in {disk, v.left}
      /\ v.failed \in {0, 1} \/ \E how \in [DOMAIN mirror -> CopyEnds] : v.failed = Failures(how)
  <2>1. CASE v = Sight(disk, disk, 0)
    BY <2>1 DEF Sight
  <2>2. CASE v \in IniNotRestored
    <3>1. PICK d \in Unfinished(<<0, "ini">>) : \E s \in {disk, d} : v = Sight(d, s, 1)
      BY <2>2 DEF IniNotRestored
    <3>2. v.left = d /\ v.seen \in {disk, d} /\ v.failed = 1
      BY <3>1 DEF Sight
    <3> QED BY <3>1, <3>2
  <2>3. CASE v \in IniRestored
    <3>1. PICK how \in [DOMAIN mirror -> CopyEnds] :
            v = Sight(FromMirror(n, how), FromMirror(n, how), Failures(how))
      BY <2>3 DEF IniRestored, n
    <3>2. v.left = FromMirror(n, how) /\ v.seen = FromMirror(n, how) /\ v.failed = Failures(how)
      BY <3>1 DEF Sight
    <3> QED BY <3>2
  <2> QED BY <2>1, <2>2, <2>3 DEF Surveyed
<1>7. In(v.left)
  BY <1>3, <1>4, <1>5, <1>6
<1>8. Good(v.seen) /\ DOMAIN v.seen \subseteq DOMAIN v.left
  BY <1>3, <1>6, <1>7
<1>9. v.failed \in Nat
  <2>1. ASSUME NEW how \in [DOMAIN mirror -> CopyEnds] PROVE Failures(how) \in Nat
    <3>1. DOMAIN how \subseteq {"ini", "base", "record", "d3d11", "openvr"}
      BY DEF Stored
    <3> QED BY <3>1, FailuresCount
  <2> QED BY <1>6, <2>1
<1> QED BY <1>7, <1>8, <1>9 DEF n

-------------------------------------------------------------------------------
(* The steps *)

\* A run surveys the folder, perhaps after restoring it from the mirror, and plans.
LEMMA SurveyStep ==
  ASSUME IInv, NEW what \in {"install", "repair", "uninstall"}, Survey(what) PROVE IInv'
<1> USE DEF IInv
<1>0. PICK o \in Options(what) : \E v \in Surveyed(what, o.keep) :
        /\ faults + v.failed <= MaxFaults
        /\ disk' = v.left
        /\ IF Blocked(what, v.seen)
           THEN /\ result' = "blocked" /\ faults' = faults + v.failed
                /\ UNCHANGED <<phase, job, mirror>>
           ELSE IF Steps(what, v.seen, o) = <<>>
           THEN /\ result' = "nothing" /\ UNCHANGED <<phase, job>>
                /\ IF what = "uninstall" THEN UNCHANGED <<mirror, faults>>
                   ELSE UpdateMirror(v.left, o.dir, v.failed)
           ELSE /\ phase' = "confirm" /\ result' = "none"
                /\ job' = [what |-> what, dir |-> o.dir, steps |-> Steps(what, v.seen, o),
                           saw |-> v.seen]
                /\ faults' = faults + v.failed /\ UNCHANGED mirror
  BY DEF Survey, MayFail
<1>1. PICK v \in Surveyed(what, o.keep) :
        /\ faults + v.failed <= MaxFaults
        /\ disk' = v.left
        /\ IF Blocked(what, v.seen)
           THEN /\ result' = "blocked" /\ faults' = faults + v.failed
                /\ UNCHANGED <<phase, job, mirror>>
           ELSE IF Steps(what, v.seen, o) = <<>>
           THEN /\ result' = "nothing" /\ UNCHANGED <<phase, job>>
                /\ IF what = "uninstall" THEN UNCHANGED <<mirror, faults>>
                   ELSE UpdateMirror(v.left, o.dir, v.failed)
           ELSE /\ phase' = "confirm" /\ result' = "none"
                /\ job' = [what |-> what, dir |-> o.dir, steps |-> Steps(what, v.seen, o),
                           saw |-> v.seen]
                /\ faults' = faults + v.failed /\ UNCHANGED mirror
  BY <1>0
<1>2. /\ phase = "idle" /\ run < MaxRuns /\ run' = run + 1
      /\ UNCHANGED <<pos, undo, retained, clean, changes, found>>
  BY DEF Survey
<1>3. run \in Nat /\ MaxRuns \in Nat /\ run + 1 \in 1 .. MaxRuns /\ MaxBuild \in Nat
  BY <1>2, InstallerAssumption DEF Counts
<1>4. o.dir = run + 1 /\ o.build \in Nat /\ o.dir \in Nat \ {0}
  <2>1. o.dir \in {run + 1} /\ o.build \in IF what = "uninstall" THEN {1} ELSE 1 .. MaxBuild
    BY DEF Options
  <2> QED BY <1>3, <2>1
<1>5. /\ Folder(v.left, run + 1) /\ \A l \in DOMAIN v.left : l[1] # run + 1
      /\ Folder(v.seen, run + 1) /\ DOMAIN v.seen \subseteq DOMAIN v.left /\ v.failed \in Nat
  BY <1>2, SurveyedFacts
<1>6. MirrorOK(mirror') /\ faults' \in 0 .. MaxFaults
  <2>1. MirrorOK(mirror) /\ faults \in 0 .. MaxFaults
    BY DEF Stored, MirrorOK, Counts
  <2>2. CASE UNCHANGED mirror /\ faults' \in {faults, faults + v.failed}
    BY <1>1, <1>5, <2>1, <2>2, InstallerAssumption DEF MirrorOK
  <2>3. CASE UpdateMirror(v.left, o.dir, v.failed)
    BY <1>3, <1>4, <1>5, <2>1, <2>3, MirrorUpdated
  <2> QED BY <1>1, <2>2, <2>3
<1>7. phase' \in {"idle", "confirm"} /\ result' # "rolledBack"
  BY <1>1, <1>2
<1>8. Counts'
  BY <1>2, <1>3, <1>6, <1>7 DEF Counts
<1>9. Stored'
  BY <1>1, <1>2, <1>5, <1>6 DEF Stored, MirrorOK
<1>10. Planning'
  <2>1. CASE phase' = "idle"
    BY <2>1 DEF Planning
  <2>2. CASE phase' = "confirm"
    <3>1. ~Blocked(what, v.seen) /\ job'.dir = run' /\ job'.steps = Steps(what, v.seen, o) /\ run' # 0
      BY <1>1, <1>2, <1>3, <1>4, <2>2
    <3>2. \E r \in BOOLEAN : Planned(Steps(what, v.seen, o), o.dir, r)
            /\ (r => <<0, "openvr">> \in DOMAIN v.left)
      <4>1. CASE what = "uninstall"
        <5>1. Steps(what, v.seen, o) = PlanUninstall(v.seen, o)
          BY <4>1 DEF Steps
        <5> QED BY <1>3, <1>4, <1>5, <5>1, UninstallPlanned
      <4>2. CASE what # "uninstall"
        <5>1. Steps(what, v.seen, o) = PlanInstall(v.seen, o) /\ ~InstallBlocked(v.seen)
          BY <3>1, <4>2 DEF Steps, Blocked
        <5>2. Planned(Steps(what, v.seen, o), o.dir, FALSE)
          BY <1>4, <1>5, <5>1, InstallPlanned
        <5> QED BY <5>2
      <4> QED BY <4>1, <4>2
    <3> QED BY <1>1, <1>2, <1>4, <1>5, <2>2, <3>1, <3>2 DEF Planning
  <2> QED BY <1>7, <2>1, <2>2
<1>11. Undoing'
  BY <1>2, <1>7, ListedStart DEF Undoing
<1>12. Chained' /\ RolledBackIsAsFound'
  BY <1>7 DEF Chained, RolledBackIsAsFound
<1> QED BY <1>8, <1>9, <1>10, <1>11, <1>12

\* Other programs change the folder between runs or while the plan is shown.
LEMMA ChangeStep ==
  ASSUME IInv, NEW kind \in Changes, Change(kind), phase \in {"idle", "confirm"} PROVE IInv'
<1> USE DEF IInv
<1>1. PICK d \in Landed(kind) : disk' = d
  BY DEF Change
<1>2. /\ changes < MaxChanges /\ changes' = changes + 1
      /\ result' = IF phase = "idle" THEN "none" ELSE result
      /\ UNCHANGED <<mirror, phase, job, pos, undo, retained, clean, run, faults, found>>
  BY DEF Change
<1>3. /\ Folder(d, run) /\ (<<0, "openvr">> \in DOMAIN disk => <<0, "openvr">> \in DOMAIN d)
      /\ \A l \in DOMAIN d : l \in DOMAIN disk \/ l[1] = 0
  BY LandedFacts
<1>4. Counts'
  BY <1>2, InstallerAssumption DEF Counts
<1>5. Stored'
  BY <1>1, <1>2, <1>3 DEF Stored
<1>6. Planning'
  BY <1>1, <1>2, <1>3 DEF Planning
<1>7. Undoing'
  BY <1>2 DEF Undoing
<1>8. Chained' /\ RolledBackIsAsFound'
  BY <1>2 DEF Chained, RolledBackIsAsFound
<1> QED BY <1>4, <1>5, <1>6, <1>7, <1>8

\* applyPlan starts: what it finds is what it has to lead back to.
LEMMA BeginStep == ASSUME IInv, Begin PROVE IInv'
<1> USE DEF IInv
<1>1. Counts' /\ Stored'
  BY DEF Begin, Counts, Stored
<1>2. run \in Nat /\ run \in 0 .. MaxRuns
  BY InstallerAssumption DEF Counts
<1>3. Stamps(run) \X Files \subseteq Places
  BY <1>2, StampsAre
<1>4. Planning'
  BY <1>3 DEF Begin, Planning, Stored, Folder
<1>5. Undoing'
  BY ListedStart DEF Begin, Undoing
<1>6. Chain(undo', disk', found', run')
  <2>1. Agree(disk', found', run')
    BY DEF Begin, Agree
  <2>2. Chain(<<>>, disk', found', run')
    BY <2>1, ChainStart
  <2> QED BY <2>2 DEF Begin
<1>7. Chained' /\ RolledBackIsAsFound'
  BY <1>6 DEF Begin, Chained, RolledBackIsAsFound
<1> QED BY <1>1, <1>4, <1>5, <1>7

\* A step that does nothing, or whose source has gone.
LEMMA PassStepStep == ASSUME IInv, PassStep PROVE IInv'
<1> USE DEF IInv
<1>1. /\ phase = "protect" /\ phase' \in {"protect", "rollback"}
      /\ phase' = "protect" => pos' = pos + 1
      /\ UNCHANGED <<disk, mirror, job, undo, retained, clean, result, run, faults, changes,
                     found>>
  BY DEF PassStep
<1>2. Counts' /\ Stored' /\ Undoing'
  BY <1>1 DEF Counts, Stored, Undoing
<1>3. Planning'
  BY <1>1 DEF Planning
<1>4. Chained' /\ RolledBackIsAsFound'
  BY <1>1 DEF Chained, Undoing, RolledBackIsAsFound
<1> QED BY <1>2, <1>3, <1>4

\* The snapshot of the file a step is about to replace.
LEMMA ProtectStep == ASSUME IInv, Protect PROVE IInv'
<1> USE DEF IInv
<1> DEFINE t == Target(Cur)
           x == Snapshot(t)
<1>1. /\ phase = "protect" /\ phase' = "act" /\ MoreSteps /\ Cur.act # "makedir"
      /\ ~SourceMissing(Cur) /\ undo' = undo \o Protection(Cur)
      /\ UNCHANGED <<disk, mirror, job, pos, retained, clean, result, run, faults, changes,
                     found>>
  BY DEF Protect
<1>2. Listed(undo, run) /\ Chain(undo, disk, found, run)
  BY <1>1 DEF Undoing, Chained
<1>3. undo' = IF Exists(disk, t) THEN Append(undo, x) ELSE undo
  <2>1. undo \o <<>> = undo /\ undo \o <<x>> = Append(undo, x)
    BY <1>2, ListedCat
  <2> QED BY <1>1, <2>1 DEF Protection, Snapshot
<1>4. ASSUME Exists(disk, t) PROVE IsUndo(x, run)
  <2>1. PICK r \in BOOLEAN : Planned(job.steps, run, r)
    BY <1>1 DEF Planning
  <2>2. pos \in 1 .. Len(job.steps)
    BY <1>1, <2>1, PlannedAt DEF Planning, MoreSteps
  <2>3. IsStep(Cur, run, r)
    BY <2>1, <2>2, PlannedAt DEF Cur
  <2>4. PICK f \in Files : t = <<0, f>> \/ t = <<run, f>>
    BY <1>1, <2>3, Names DEF IsStep, Target
  <2>5. /\ disk[t].kind # "absent"
        /\ t = <<0, f>> => Fits(f, disk[t])
    <3>1. t \in DOMAIN disk /\ (t = <<0, f>> => t[1] = 0 /\ t[2] = f)
      BY <1>4 DEF Exists
    <3> QED BY <3>1 DEF Stored, Folder
  <2>6. x.kind = "restore" /\ x.b = t /\ x.c = disk[t]
    BY DEF Snapshot
  <2> HIDE DEF x, t
  <2> QED BY <2>4, <2>5, <2>6 DEF IsUndo
<1>5. Counts' /\ Stored'
  BY <1>1 DEF Counts, Stored
<1>6. Planning'
  BY <1>1 DEF Planning, MoreSteps, Cur, SourceMissing, HasFrom, Exists
<1>7. Undoing'
  <2>1. Listed(undo', run)
    BY <1>2, <1>3, <1>4, ListedPush
  <2>2. \A l : NamedBy(undo, l) => NamedBy(undo', l)
    BY <1>2, <1>3, NamedPush
  <2> QED BY <1>1, <2>1, <2>2 DEF Undoing
<1>8. Shielded'
  <2>1. Target(Cur)' = t /\ Snapshot(t)' = x /\ Exists(disk, t)' = Exists(disk, t)
    BY <1>1 DEF Target, Cur, Snapshot, Exists
  <2>2. CASE Exists(disk, t)
    <3>1. undo' = Append(undo, x)
      BY <1>3, <2>2
    <3> QED BY <1>1, <1>2, <2>1, <2>2, <3>1 DEF Shielded
  <2>3. CASE ~Exists(disk, t)
    <3>1. undo' = undo
      BY <1>3, <2>3
    <3> QED BY <1>1, <1>2, <2>1, <2>3, <3>1 DEF Shielded
  <2> QED BY <2>2, <2>3
<1>9. Chained' /\ RolledBackIsAsFound'
  BY <1>1, <1>8 DEF Chained, RolledBackIsAsFound
<1> QED BY <1>5, <1>6, <1>7, <1>9

\* The step itself, by StepPerformed.
LEMMA PerformStep == ASSUME IInv, Perform PROVE IInv'
<1> USE DEF IInv
<1>1. /\ phase = "act" /\ phase' = "protect" /\ pos' = pos + 1
      /\ disk' = Performed(Cur) /\ undo' = undo \o UndoOf(Cur)
      /\ UNCHANGED <<mirror, job, retained, clean, result, run, faults, changes, found>>
  BY DEF Perform
<1>2. PICK r \in BOOLEAN : /\ IsStep(Cur, run, r) /\ (r => <<0, "openvr">> \in DOMAIN disk)
                           /\ Planned(job.steps, run, r)
  BY <1>1, CurIsStep
<1>3. /\ Folder(disk', run) /\ (r => <<0, "openvr">> \in DOMAIN disk')
      /\ Listed(undo', run) /\ Chain(undo', disk', found, run)
      /\ \A f \in Files : Live(disk', f) # Live(found, f) => NamedBy(undo', <<0, f>>)
  BY <1>1, <1>2, StepPerformed
<1>4. Counts' /\ Stored'
  BY <1>1, <1>3 DEF Counts, Stored
<1>5. Planning'
  BY <1>1, <1>2, <1>3 DEF Planning
<1>6. Undoing'
  BY <1>1, <1>3 DEF Undoing
<1>7. Chained' /\ RolledBackIsAsFound'
  BY <1>1, <1>3 DEF Chained, RolledBackIsAsFound
<1> QED BY <1>4, <1>5, <1>6, <1>7

\* The last step has been carried out.
LEMMA CommitStep == ASSUME IInv, Commit PROVE IInv'
<1> USE DEF IInv
<1>1. /\ phase = "protect" /\ phase' = "idle" /\ result' = "ok" /\ undo' = <<>>
      /\ UNCHANGED <<mirror, faults>> \/ UpdateMirror(disk, job.dir, 0)
      /\ UNCHANGED <<disk, job, pos, retained, clean, run, changes, found>>
  BY DEF Commit
<1>2. MirrorOK(mirror') /\ faults' \in 0 .. MaxFaults
  <2>1. /\ MirrorOK(mirror) /\ faults \in 0 .. MaxFaults
        /\ run \in Nat \ {0} /\ job.dir = run /\ Folder(disk, run)
    BY <1>1, InstallerAssumption DEF Stored, MirrorOK, Counts, Planning
  <2>2. CASE UNCHANGED <<mirror, faults>>
    BY <2>1, <2>2 DEF MirrorOK
  <2>3. CASE UpdateMirror(disk, job.dir, 0)
    BY <2>1, <2>3, MirrorUpdated
  <2> QED BY <1>1, <2>2, <2>3
<1>3. Counts' /\ Stored'
  BY <1>1, <1>2 DEF Counts, Stored, MirrorOK
<1>4. Planning' /\ Undoing'
  BY <1>1, ListedStart DEF Planning, Undoing
<1>5. Chained' /\ RolledBackIsAsFound'
  BY <1>1 DEF Chained, RolledBackIsAsFound
<1> QED BY <1>3, <1>4, <1>5

\* A step that fails may leave a torn copy where it was writing.
LEMMA FailStep == ASSUME IInv, Fail PROVE IInv'
<1> USE DEF IInv
<1>1. /\ phase \in {"protect", "act"} /\ phase' = "rollback"
      /\ faults + 1 <= MaxFaults /\ faults' = faults + 1
      /\ disk' = disk \/ (phase = "act" /\ Cur.act = "backup" /\ disk' = Put(disk, Cur.to, Torn))
      /\ UNCHANGED <<mirror, job, pos, undo, retained, clean, result, run, changes, found>>
  BY DEF Fail, MayFail, Unfinished
<1>2. Counts'
  BY <1>1, InstallerAssumption DEF Counts
<1>3. run \in Nat \ {0} /\ run \in 0 .. MaxRuns /\ Folder(disk, run)
        /\ Stamps(run) \X Files \subseteq Places
  BY <1>1, InstallerAssumption, StampsAre DEF Counts, Planning, Stored
<1>4. Folder(disk', run) /\ Chain(undo, disk', found, run)
  <2>1. CASE phase = "protect"
    BY <1>1, <1>3, <2>1 DEF Chained
  <2>2. CASE phase = "act"
    <3>1. PICK r \in BOOLEAN : IsStep(Cur, run, r) /\ (r => <<0, "openvr">> \in DOMAIN disk)
      BY <2>2, CurIsStep
    <3>2. PICK f \in Files : Target(Cur) = <<0, f>> \/ Target(Cur) = <<run, f>>
      BY <2>2, <3>1, Names DEF IsStep, Target, Planning
    <3>3. Target(Cur) \in Stamps(run) \X Files /\ Target(Cur) \in Places
      BY <1>3, <3>2, LivePlace
    <3>4. Shielded
      BY <2>2 DEF Chained
    <3>5. CASE disk' = disk
      <4>1. Exists(disk, Target(Cur)) \/ At(disk, Target(Cur)) = Absent
        BY DEF Exists, At
      <4>2. Chain(undo, disk, found, run)
        BY <1>3, <3>3, <3>4, <4>1, Kept
      <4> QED BY <1>3, <3>5, <4>2
    <3>6. CASE Cur.act = "backup" /\ disk' = Put(disk, Cur.to, Torn)
      <4>1. Target(Cur) = Cur.to
        BY <3>6 DEF Target
      <4>2. \A l : l # Cur.to => At(disk', l) = At(disk, l)
        BY <3>6 DEF Put, Over, Only, At
      <4>3. Exists(disk, Cur.to) \/ Cur.to[1] = run
        BY <3>1, <3>6 DEF IsStep, Exists
      <4>4. Chain(undo, disk', found, run)
        BY <1>3, <3>3, <3>4, <4>1, <4>2, <4>3, Kept
      <4>5. Folder(disk', run)
        BY <1>3, <3>3, <3>6, <4>1, TornFolder
      <4> QED BY <4>4, <4>5
    <3> QED BY <1>1, <3>5, <3>6
  <2> QED BY <1>1, <2>1, <2>2
<1>5. Stored' /\ Planning' /\ Undoing'
  BY <1>1, <1>4 DEF Stored, Planning, Undoing
<1>6. Chained' /\ RolledBackIsAsFound'
  BY <1>1, <1>4 DEF Chained, RolledBackIsAsFound
<1> QED BY <1>2, <1>5, <1>6

\* Both ways an entry is taken from the list.
LEMMA UndoStepStep == ASSUME IInv, UndoStep \/ UndoFails PROVE IInv'
<1> USE DEF IInv
<1>1. /\ phase = "rollback" /\ undo # <<>> /\ undo' = Popped
      /\ UNCHANGED <<mirror, phase, job, pos, result, run, changes, found>>
  BY DEF UndoStep, UndoFails
<1>2. run \in Nat \ {0} /\ Folder(disk, run) /\ Listed(undo, run)
  BY <1>1, InstallerAssumption DEF Counts, Planning, Stored, Undoing
<1>3. Listed(undo', run) /\ IsUndo(Top, run)
  BY <1>1, <1>2, ListedPop DEF Popped, Top
<1>4. /\ faults' \in 0 .. MaxFaults /\ clean' \in BOOLEAN /\ (clean' => retained' = {})
      /\ Folder(disk', run) /\ (clean' => Chain(undo', disk', found, run))
  <2>1. CASE UndoStep /\ KeepsMoved(Top)
    BY <1>2, <2>1 DEF UndoStep, Counts
  <2>2. CASE UndoStep /\ ~KeepsMoved(Top)
    <3>1. disk' = Undone(Top) /\ UNCHANGED <<clean, retained, faults>> /\ Movable(Top)
      BY <2>2 DEF UndoStep
    <3>2. Folder(disk', run) /\ \A l \in Places : At(disk', l) = Back(Top, disk, l)
      BY <1>1, <1>2, <3>1, UndoneFacts
    <3>3. ASSUME clean PROVE Chain(undo', disk', found, run)
      <4>1. Chain(undo, disk, found, run)
        BY <1>1, <3>3 DEF Chained
      <4> QED BY <1>1, <1>2, <3>2, <4>1, ChainPop DEF Popped, Top
    <3> QED BY <3>1, <3>2, <3>3 DEF Counts, Undoing
  <2>3. CASE UndoFails
    <3>1. /\ clean' = FALSE
          /\ disk' = disk \/ (Top.kind = "restore" /\ disk' = Put(disk, Top.b, Torn))
      BY <2>3 DEF UndoFails, Unfinished
    <3>2. faults' \in 0 .. MaxFaults
      BY <2>3, InstallerAssumption DEF UndoFails, MayFail, Counts
    <3>3. Top.kind = "restore" => Top.b \in Stamps(run) \X Files
      BY <1>2, <1>3, LivePlace DEF IsUndo
    <3> QED BY <1>2, <3>1, <3>2, <3>3, TornFolder
  <2> QED BY <2>1, <2>2, <2>3
<1>5. Counts' /\ Stored'
  BY <1>1, <1>4 DEF Counts, Stored
<1>6. Planning' /\ Undoing'
  BY <1>1, <1>3, <1>4 DEF Planning, Undoing
<1>7. Chained' /\ RolledBackIsAsFound'
  BY <1>1, <1>4 DEF Chained, RolledBackIsAsFound
<1> QED BY <1>5, <1>6, <1>7

\* The list is used up: nothing is left to undo, so the folder is what was found.
LEMMA RolledBackStep == ASSUME IInv, RolledBack PROVE IInv'
<1> USE DEF IInv
<1>1. /\ phase = "rollback" /\ phase' = "idle" /\ undo = <<>>
      /\ result' = IF clean THEN "rolledBack" ELSE "incomplete"
      /\ UNCHANGED <<disk, mirror, job, pos, undo, retained, clean, run, faults, changes, found>>
  BY DEF RolledBack
<1>2. Counts' /\ Stored' /\ Planning' /\ Undoing' /\ Chained'
  BY <1>1 DEF Counts, Stored, Planning, Undoing, Chained
<1>3. ASSUME clean PROVE /\ \A l \in DOMAIN found : At(disk, l) = found[l]
                         /\ \A l \in DOMAIN disk : l[1] = 0 => l \in DOMAIN found
  <2>1. Chain(<<>>, disk, found, run)
    BY <1>1, <1>3 DEF Chained
  <2>2. Agree(disk, found, run)
    BY <2>1, ChainEnd
  <2>3. run \in Nat \ {0} /\ run \in 0 .. MaxRuns
    BY <1>1, InstallerAssumption DEF Counts, Planning
  <2>4. \A l \in DOMAIN found : l \in Places /\ l[1] # run /\ At(found, l) = found[l]
    BY <1>1 DEF Planning, At
  <2>5. \A l \in DOMAIN found : At(disk, l) = found[l]
    BY <2>2, <2>4 DEF Agree
  <2>6. ASSUME NEW l \in DOMAIN disk, l[1] = 0 PROVE l \in DOMAIN found
    <3>1. l \in Places /\ disk[l].kind # "absent" /\ At(disk, l) = disk[l]
      BY <2>3, StampsAre DEF Stored, Folder, At
    <3>2. At(found, l) = disk[l]
      BY <2>2, <2>3, <2>6, <3>1 DEF Agree
    <3> QED BY <3>1, <3>2 DEF At, Absent
  <2> QED BY <2>5, <2>6
<1>4. RolledBackIsAsFound'
  BY <1>1, <1>3 DEF RolledBackIsAsFound, At
<1> QED BY <1>2, <1>4

\* So may a process that dies.
LEMMA CrashStep == ASSUME IInv, Crash PROVE IInv'
<1> USE DEF IInv
<1>1. /\ phase' = "idle" /\ undo' = <<>> /\ result' = "crashed"
      /\ faults + 1 <= MaxFaults /\ faults' = faults + 1
      /\ disk' = disk \/ \E l \in Copying : disk' = Put(disk, l, Torn)
      /\ UNCHANGED <<mirror, job, pos, retained, clean, run, changes, found>>
  BY DEF Crash, MayFail, Unfinished
<1>2. Counts'
  BY <1>1, InstallerAssumption DEF Counts
<1>3. Folder(disk', run)
  <2>1. Folder(disk, run) /\ Copying \subseteq Stamps(run) \X Files
    BY CopyingPlaces DEF Stored
  <2> QED BY <1>1, <2>1, TornFolder
<1>4. Stored'
  BY <1>1, <1>3 DEF Stored
<1>5. Planning' /\ Undoing'
  BY <1>1, ListedStart DEF Planning, Undoing
<1>6. Chained' /\ RolledBackIsAsFound'
  BY <1>1 DEF Chained, RolledBackIsAsFound
<1> QED BY <1>2, <1>4, <1>5, <1>6

\* A plan declined or refused, and a stuttering step.
LEMMA OtherSteps == ASSUME IInv, Decline \/ Refuse \/ UNCHANGED vars PROVE IInv'
<1> USE DEF IInv
<1>1. CASE UNCHANGED vars
  BY <1>1 DEF vars, Counts, Stored, Planning, Undoing, Chained, RolledBackIsAsFound, Shielded,
     MoreSteps, Cur, SourceMissing, HasFrom, Target, Snapshot, Exists
<1>2. CASE Decline \/ Refuse
  <2>1. /\ phase = "confirm" /\ phase' = "idle"
        /\ result' = result \/ result' = "refused"
        /\ UNCHANGED <<disk, mirror, pos, undo, retained, clean, run, faults, changes, found>>
    BY <1>2 DEF Decline, Refuse
  <2> QED BY <2>1 DEF Counts, Stored, Planning, Undoing, Chained, RolledBackIsAsFound
<1> QED BY <1>1, <1>2

\* The invariant holds at first and is kept.
LEMMA InitHolds == Init => IInv
<1> SUFFICES ASSUME Init PROVE IInv
  OBVIOUS
<1> DEFINE l == <<0, "openvr">>
<1>1. DOMAIN disk = {l} /\ disk[l] = Runtime(0) /\ Runtime(0).kind # "absent"
  BY DEF Init, Only, Runtime
<1>2. l[1] = 0 /\ l[2] = "openvr" /\ l \in Stamps(0) \X Files /\ Fits("openvr", Runtime(0))
  BY LivePlace, Names DEF Fits, Runtime
<1> HIDE DEF l
<1>3. Folder(disk, 0)
  BY <1>1, <1>2 DEF Folder
<1>4. Counts
  BY InstallerAssumption DEF Init, Counts
<1>5. DOMAIN mirror = {}
  BY DEF Init
<1>6. Stored
  BY <1>3, <1>5 DEF Stored, Init
<1>7. Planning /\ Undoing /\ Chained /\ RolledBackIsAsFound
  BY ListedStart DEF Init, Planning, Undoing, Chained, RolledBackIsAsFound
<1> QED BY <1>4, <1>6, <1>7 DEF IInv

\* Every step of the installer and of the others keeps the invariant.
LEMMA StepHolds == IInv /\ [Next]_vars => IInv'
<1> SUFFICES ASSUME IInv, [Next]_vars PROVE IInv'
  OBVIOUS
<1>1. CASE ChangeOutside \/ ChangeLanding
  <2>1. PICK kind \in Changes : Change(kind)
    BY <1>1, InstallerAssumption DEF ChangeOutside, ChangeLanding
  <2>2. phase \in {"idle", "confirm"}
    BY <1>1 DEF ChangeOutside, ChangeLanding
  <2> QED BY <2>1, <2>2, ChangeStep
<1>2. CASE \E what \in {"install", "repair", "uninstall"} : Survey(what)
  BY <1>2, SurveyStep
<1>3. CASE Begin \/ PassStep \/ Protect \/ Perform \/ Commit \/ Fail
  BY <1>3, BeginStep, PassStepStep, ProtectStep, PerformStep, CommitStep, FailStep
<1>4. CASE UndoStep \/ UndoFails \/ RolledBack \/ Crash
  BY <1>4, UndoStepStep, RolledBackStep, CrashStep
<1>5. CASE Decline \/ Refuse \/ UNCHANGED vars
  BY <1>5, OtherSteps
<1> QED BY <1>1, <1>2, <1>3, <1>4, <1>5 DEF Next

-------------------------------------------------------------------------------
(* The theorems *)

\* IInv is an invariant of the installer.
THEOREM Invariance == Spec => []IInv
  BY InitHolds, StepHolds, PTL DEF Spec

\* Whatever fails, whenever the process dies and whatever other programs do between
\* runs, the folder holds files of their kinds only, and while a plan is carried out
\* every file that differs from what was found is named by the undo list
\* (apply.cpp:226-315).
THEOREM Consistency == Spec => []Consistent
<1>1. IInv => Consistent
  <2> SUFFICES ASSUME IInv PROVE Consistent
    OBVIOUS
  <2> USE DEF IInv
  <2>1. \A l \in DOMAIN disk : l \in (0..(2 * MaxRuns)) \X Files /\ disk[l] # Absent
    <3>1. Stamps(run) \subseteq 0 .. 2 * MaxRuns
      BY StampsAre DEF Counts
    <3>2. \A l \in DOMAIN disk : l \in Stamps(run) \X Files /\ disk[l].kind # "absent"
      BY DEF Stored, Folder
    <3> QED BY <3>1, <3>2 DEF Absent
  <2>2. DOMAIN mirror \subseteq {"ini", "base", "record", "d3d11", "openvr"}
    BY DEF Stored
  <2>3. ASSUME phase \in {"protect", "act"}, NEW f \in Files, Live(disk, f) # Live(found, f)
        PROVE  \E i \in DOMAIN undo : <<0, f>> \in {undo[i].a, undo[i].b}
    <3>1. PICK S : undo \in Seq(S)
      BY DEF Undoing, Listed
    <3>2. DOMAIN undo = 1 .. Len(undo)
      BY <3>1
    <3>3. NamedBy(undo, <<0, f>>)
      BY <2>3 DEF Undoing
    <3> QED BY <3>2, <3>3 DEF NamedBy
  <2>4. faults <= MaxFaults /\ changes <= MaxChanges /\ run <= MaxRuns
    BY InstallerAssumption DEF Counts
  <2> QED BY <2>1, <2>2, <2>3, <2>4 DEF Consistent, Counts, Undoing
<1> QED BY <1>1, Invariance, PTL

\* A run that reports a complete roll-back left every file of the game folder and every
\* earlier backup as it found it, whichever step failed (apply.h:12, apply.cpp:316-350).
THEOREM RollsBack == Spec => []RolledBackIsAsFound
<1>1. IInv => RolledBackIsAsFound
  BY DEF IInv
<1> QED BY <1>1, Invariance, PTL
===============================================================================
