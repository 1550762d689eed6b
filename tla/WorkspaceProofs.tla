--------------------------- MODULE WorkspaceProofs ---------------------------
(***************************************************************************)
(* What is proved about the directory a task works in and about the skills *)
(* laid into it, for every set of notes, apps, skills and mails and any    *)
(* number of provisionings, crashes and archive-tasks: a run is handed     *)
(* exactly what there is, the two homes of a workspace are one, and so are *)
(* the skill table and the registry.                                       *)
(***************************************************************************)
EXTENDS Workspace, Skills, SequenceLemmas

(***************************************************************************)
(* The workspace.                                                          *)
(***************************************************************************)
\* Files are a function, and what the two files functions f and g say of a path.
IsFiles(f) == f = [p \in DOMAIN f |-> f[p]]
Alike(f, g, p) == /\ p \in DOMAIN f <=> p \in DOMAIN g
                  /\ p \in DOMAIN f => f[p] = g[p]

\* The paths WriteMemory owns, and start-agent-run's stages inside it and after.
OfMemory(p) == Box(p) = "in/memory" \/ p = Index
Middle == {"prune", "notes", "manifest"}
After == {"apps", "link", "out", "handed"}
Stages == {"idle", "launched", "skills", "works"} \cup Middle \cup After

\* A twin of the directory, of which only the files and the manifest matter here.
Twin(t) == t \in [there : BOOLEAN, files : {t.files}, manifest : {t.manifest}]
Directory(t) ==
  t \in [there : BOOLEAN, files : {t.files}, manifest : {t.manifest}, link : BOOLEAN]

WorkspaceTypes ==
  /\ Directory(disk) /\ Twin(tree)
  /\ IsFiles(disk.files) /\ IsFiles(tree.files)
  /\ disk.files # <<>> => disk.there
  /\ tree.files # <<>> => tree.there
  /\ collection \in [notes : {collection.notes}, apps : {collection.apps},
                     skills : {collection.skills}]
  /\ run \in [pc : Stages, notes : {run.notes}, apps : {run.apps}, skills : {run.skills},
              raced : BOOLEAN, again : BOOLEAN]
  /\ IsFiles(collection.notes) /\ IsFiles(run.notes)
  /\ mailing \in [Mails -> {"unsent", "body", "attachment", "laid"}]
  /\ cleaning \in [pc : {"idle", "check", "remove", "manifest"}, archived : {cleaning.archived}]

\* What With and Without, the model's two ways to change a directory, leave.
LEMMA WithFacts ==
  ASSUME NEW f, NEW p, NEW c
  PROVE  /\ IsFiles(With(f, p, c)) /\ With(f, p, c) # <<>>
         /\ DOMAIN With(f, p, c) = DOMAIN f \cup {p}
         /\ With(f, p, c)[p] = c
         /\ \A q \in DOMAIN f : q # p => With(f, p, c)[q] = f[q]
<1>1. IsFiles(With(f, p, c))
  BY DEF IsFiles, With
<1>2. DOMAIN With(f, p, c) = DOMAIN f \cup {p}
  BY DEF With
<1>3. With(f, p, c) # <<>>
  <2>1. \A i : i \notin DOMAIN << >>
    OBVIOUS
  <2>2. QED
    BY <1>2, <2>1
<1>4. QED
  BY <1>1, <1>2, <1>3 DEF With

\* What is left of a directory without some of its files.
LEMMA WithoutFacts ==
  ASSUME NEW f, NEW paths
  PROVE  /\ IsFiles(Without(f, paths))
         /\ DOMAIN Without(f, paths) = DOMAIN f \ paths
         /\ \A q \in DOMAIN f \ paths : Without(f, paths)[q] = f[q]
BY DEF IsFiles, Without

\* A file is written, or the same files are deleted, in both homes alike.
LEMMA AlikeWith ==
  ASSUME NEW f, NEW g, NEW p, NEW c, NEW q, q = p \/ Alike(f, g, q)
  PROVE  Alike(With(f, p, c), With(g, p, c), q)
BY DEF Alike, With

\* Files that agree on a path still agree on it when the same paths are taken from both.
LEMMA AlikeWithout ==
  ASSUME NEW f, NEW g, NEW paths, NEW q, q \in paths \/ Alike(f, g, q)
  PROVE  Alike(Without(f, paths), Without(g, paths), q)
BY DEF Alike, Without

\* What a directory holds elsewhere is untouched.
LEMMA AlikeElsewhere ==
  ASSUME NEW f, NEW p, NEW c, NEW q, q # p
  PROVE  Alike(With(f, p, c), f, q)
BY DEF Alike, With

\* Two directories that agree on every path are the same directory.
LEMMA AlikeEverywhere ==
  ASSUME NEW f, NEW g, IsFiles(f), IsFiles(g), \A p : Alike(f, g, p)
  PROVE  f = g
<1>1. DOMAIN f = DOMAIN g
  BY DEF Alike
<1>2. \A p \in DOMAIN f : f[p] = g[p]
  BY DEF Alike
<1>3. [p \in DOMAIN f |-> f[p]] = [p \in DOMAIN g |-> g[p]]
  BY <1>1, <1>2
<1>4. QED
  BY <1>3 DEF IsFiles

\* No file is left exactly when the files' domain is empty.
LEMMA EmptyFiles ==
  ASSUME NEW f, IsFiles(f)
  PROVE  f = <<>> <=> DOMAIN f = {}
<1>1. \A i : i \notin DOMAIN << >>
  OBVIOUS
<1>2. ASSUME DOMAIN f = {} PROVE f = <<>>
  <2>1. IsFiles(<<>>)
    BY <1>1 DEF IsFiles
  <2>2. \A p : Alike(f, <<>>, p)
    BY <1>1, <1>2 DEF Alike
  <2>3. QED
    BY <2>1, <2>2, AlikeEverywhere
<1>3. QED
  BY <1>1, <1>2

\* The empty directory holds no path.
LEMMA NoFiles == IsFiles(<<>>) /\ \A i : i \notin DOMAIN <<>>
<1>1. \A i : i \notin DOMAIN << >>
  OBVIOUS
<1>2. QED
  BY <1>1 DEF IsFiles

\* What is left of a directory without some of its files.
LEMMA EmptiedFiles ==
  ASSUME NEW f, NEW paths
  PROVE  /\ IsFiles(Without(f, paths))
         /\ f = <<>> => Without(f, paths) = <<>>
<1>1. IsFiles(Without(f, paths)) /\ DOMAIN Without(f, paths) \subseteq DOMAIN f
  BY DEF IsFiles, Without
<1>2. Without(f, paths) = <<>> <=> DOMAIN Without(f, paths) = {}
  BY <1>1, EmptyFiles
<1>3. QED
  BY <1>1, <1>2, NoFiles

\* Where the paths lie.
LEMMA Boxes ==
  /\ \A n : Box(NoteFile(n)) = "in/memory" /\ OfMemory(NoteFile(n)) /\ NoteFile(n)[2] = n
  /\ \A n : NoteFile(n) # Index
  /\ Box(Index) = "in" /\ OfMemory(Index)
  /\ Box(AppsIndex) = "in" /\ ~OfMemory(AppsIndex)
  /\ Box(Reply) = "out" /\ ~OfMemory(Reply)
  /\ Box(Body) = "in" /\ ~OfMemory(Body) /\ Body # AppsIndex /\ Body # Index
  /\ \A s : Box(SkillFile(s)) = ".claude/skills" /\ ~OfMemory(SkillFile(s))
  /\ \A r : Box(<<"", r>>) = "" /\ ~OfMemory(<<"", r>>)
  /\ \A x : Box(InFile(x)) = "in"
  /\ \A x : x # "MEMORY.md" => ~OfMemory(InFile(x))
  /\ \A x : x # "apps.json" => InFile(x) # AppsIndex
<1>1. \A n, r : "in/memory" # "in"
  OBVIOUS
<1>2. \A x : InFile(x)[1] = "in" /\ InFile(x)[2] = x
  BY DEF InFile
<1>3. Index[1] = "in" /\ Index[2] = "MEMORY.md" /\ AppsIndex[1] = "in" /\ AppsIndex[2] = "apps.json"
  BY DEF Index, AppsIndex
<1>4. \A n : NoteFile(n)[1] = "in/memory" /\ NoteFile(n)[2] = n
  BY DEF NoteFile
<1>5. Reply[1] = "out" /\ Body[1] = "in" /\ Body[2] = "body.txt"
  BY <1>2 DEF Reply, Body
<1>6. \A s : SkillFile(s)[1] = ".claude/skills"
  BY DEF SkillFile
<1>7. \A r : <<"", r>>[1] = ""
  OBVIOUS
<1>8. QED
  BY <1>2, <1>3, <1>4, <1>5, <1>6, <1>7 DEF Box, OfMemory

\* A file written into a directory is there with the rest of it.
LEMMA WroteFacts ==
  ASSUME NEW t, Twin(t) \/ Directory(t), NEW p, NEW c
  PROVE  /\ Wrote(t, p, c).there /\ Wrote(t, p, c).files = With(t.files, p, c)
         /\ Wrote(t, p, c).manifest = t.manifest
         /\ Twin(t) => Twin(Wrote(t, p, c))
         /\ Directory(t) => Directory(Wrote(t, p, c)) /\ Wrote(t, p, c).link = t.link
<1> DEFINE files == With(t.files, p, c)
<1>1. Wrote(t, p, c) = [t EXCEPT !.there = TRUE, !.files = files]
  BY DEF Wrote, Made
<1> HIDE DEF files
<1>2. CASE Twin(t)
  <2>1. Wrote(t, p, c).there /\ Wrote(t, p, c).files = files /\ Wrote(t, p, c).manifest = t.manifest
    BY <1>1, <1>2 DEF Twin
  <2>2. Twin(Wrote(t, p, c))
    BY <1>1, <1>2 DEF Twin
  <2>3. ~Directory(t)
    BY <1>2 DEF Twin, Directory
  <2>4. QED
    BY <2>1, <2>2, <2>3 DEF files
<1>3. CASE Directory(t)
  <2>1. /\ Wrote(t, p, c).there /\ Wrote(t, p, c).files = files
        /\ Wrote(t, p, c).manifest = t.manifest /\ Wrote(t, p, c).link = t.link
    BY <1>1, <1>3 DEF Directory
  <2>2. Directory(Wrote(t, p, c))
    BY <1>1, <1>3 DEF Directory
  <2>3. ~Twin(t)
    BY <1>3 DEF Twin, Directory
  <2>4. QED
    BY <2>1, <2>2, <2>3 DEF files
<1>4. QED
  BY <1>2, <1>3

\* Creating a directory that may be there changes none of its files.
LEMMA MadeFacts ==
  ASSUME NEW t, Twin(t) \/ Directory(t)
  PROVE  /\ Made(t).there /\ Made(t).files = t.files /\ Made(t).manifest = t.manifest
         /\ Twin(t) => Twin(Made(t))
         /\ Directory(t) => Directory(Made(t)) /\ Made(t).link = t.link
BY DEF Made, Twin, Directory

\* Other files, the same directory otherwise.
LEMMA FilesFacts ==
  ASSUME NEW t, Twin(t) \/ Directory(t), NEW f
  PROVE  LET u == [t EXCEPT !.files = f] IN
         /\ u.there = t.there /\ u.files = f /\ u.manifest = t.manifest
         /\ Twin(t) => Twin(u)
         /\ Directory(t) => Directory(u) /\ u.link = t.link
BY DEF Twin, Directory

\* ResetOut takes the files of out/ away and leaves the rest.
LEMMA ResetOutFacts ==
  ASSUME NEW t, Twin(t) \/ Directory(t)
  PROVE  /\ ResetOut(t).there /\ ResetOut(t).files = Without(t.files, In(t.files, "out"))
         /\ ResetOut(t).manifest = t.manifest
         /\ Twin(t) => Twin(ResetOut(t))
         /\ Directory(t) => Directory(ResetOut(t)) /\ ResetOut(t).link = t.link
<1>1. Made(t).files = t.files
  BY MadeFacts
<1>2. ResetOut(t) = [Made(t) EXCEPT !.files = Without(t.files, In(t.files, "out"))]
  BY <1>1 DEF ResetOut
<1>3. QED
  BY <1>2, MadeFacts, FilesFacts

\* WriteApps writes in/apps.json when there are apps and removes it otherwise.
LEMMA WriteAppsFacts ==
  ASSUME NEW t, Twin(t) \/ Directory(t), NEW apps
  PROVE  /\ apps = {} => WriteApps(t, apps).files = Without(t.files, {AppsIndex})
         /\ apps # {} => WriteApps(t, apps).files = With(t.files, AppsIndex, AppsContent(apps))
         /\ t.there \/ apps # {} => WriteApps(t, apps).there
         /\ WriteApps(t, apps).manifest = t.manifest
         /\ Twin(t) => Twin(WriteApps(t, apps))
         /\ Directory(t) => Directory(WriteApps(t, apps)) /\ WriteApps(t, apps).link = t.link
<1>1. CASE apps = {}
  <2>1. WriteApps(t, apps) = [t EXCEPT !.files = Without(t.files, {AppsIndex})]
    BY <1>1 DEF WriteApps
  <2>2. QED
    BY <1>1, <2>1 DEF Twin, Directory
<1>2. CASE apps # {}
  <2>1. WriteApps(t, apps) = Wrote(t, AppsIndex, AppsContent(apps))
    BY <1>2 DEF WriteApps
  <2>2. QED
    BY <1>2, <2>1, WroteFacts
<1>3. QED
  BY <1>1, <1>2

\* WriteMemory leaves the notes it was given and no other, their index when there
\* are any, and everything else as it was.
Memorised(f, notes) ==
  /\ \A p \in DOMAIN f : Box(p) = "in/memory" => \E n \in DOMAIN notes : p = NoteFile(n)
  /\ \A n \in DOMAIN notes : NoteFile(n) \in DOMAIN f /\ f[NoteFile(n)] = NoteContent(notes, n)
  /\ Index \in DOMAIN f <=> DOMAIN notes # {}
  /\ DOMAIN notes # {} => f[Index] = IndexContent(notes)

\* WriteMemory in the twin: one call leaves its memory exactly as the notes say.
LEMMA MemoryFacts ==
  ASSUME NEW t, NEW notes
  PROVE  LET u == MemoryWriteMemory(t, notes) IN
         /\ Twin(u) /\ u.there /\ u.manifest = DOMAIN notes
         /\ IsFiles(u.files) /\ Memorised(u.files, notes)
         /\ \A p : ~OfMemory(p) => Alike(u.files, t.files, p)
<1> DEFINE kept == Without(t.files, Stale(t.files, notes) \cup {Index})
           new == {NoteFile(n) : n \in DOMAIN notes}
                  \cup (IF DOMAIN notes = {} THEN {} ELSE {Index})
           all == [p \in DOMAIN kept \cup new |->
                     IF p \notin new THEN kept[p]
                     ELSE IF p = Index THEN IndexContent(notes)
                     ELSE NoteContent(notes, p[2])]
           u == MemoryWriteMemory(t, notes)
<1>1. u = [there |-> TRUE, manifest |-> DOMAIN notes, files |-> all]
  BY DEF MemoryWriteMemory
<1>2. u.files = all /\ u.there /\ u.manifest = DOMAIN notes /\ Twin(u)
  BY <1>1 DEF Twin
<1>3. IsFiles(all) /\ DOMAIN all = DOMAIN kept \cup new
  BY DEF IsFiles
<1>4. /\ DOMAIN kept = DOMAIN t.files \ (Stale(t.files, notes) \cup {Index})
      /\ \A p \in DOMAIN kept : kept[p] = t.files[p]
  BY DEF Without
<1>5. /\ \A n \in DOMAIN notes : NoteFile(n) \in new
      /\ Index \in new <=> DOMAIN notes # {}
      /\ \A p \in new : (\E n \in DOMAIN notes : p = NoteFile(n)) \/ p = Index
  BY Boxes
<1>6. \A p \in DOMAIN t.files :
        p \in Stale(t.files, notes) <=> Box(p) = "in/memory" /\ \A n \in DOMAIN notes : p # NoteFile(n)
  BY DEF Stale, In
<1>7. /\ \A p \in new : p = Index => all[p] = IndexContent(notes)
      /\ \A p \in new : p # Index => all[p] = NoteContent(notes, p[2])
      /\ \A p \in DOMAIN kept : p \notin new => all[p] = kept[p]
  OBVIOUS
<1> HIDE DEF kept, new, all, u
<1>8. Memorised(all, notes)
  <2>1. \A p \in DOMAIN all : Box(p) = "in/memory" => \E n \in DOMAIN notes : p = NoteFile(n)
    BY <1>3, <1>4, <1>5, <1>6, Boxes
  <2>2. \A n \in DOMAIN notes : NoteFile(n) \in DOMAIN all /\ all[NoteFile(n)] = NoteContent(notes, n)
    BY <1>3, <1>5, <1>7, Boxes
  <2>3. Index \in DOMAIN all <=> DOMAIN notes # {}
    BY <1>3, <1>4, <1>5
  <2>4. DOMAIN notes # {} => all[Index] = IndexContent(notes)
    BY <1>5, <1>7
  <2>5. QED
    BY <2>1, <2>2, <2>3, <2>4 DEF Memorised
<1>9. \A p : ~OfMemory(p) => Alike(all, t.files, p)
  <2>1. SUFFICES ASSUME NEW p, ~OfMemory(p) PROVE Alike(all, t.files, p)
    OBVIOUS
  <2>2. p \notin new
    BY <1>5, <2>1, Boxes
  <2>3. p \in DOMAIN kept <=> p \in DOMAIN t.files
    BY <1>4, <1>6, <2>1 DEF OfMemory
  <2>4. QED
    BY <1>3, <1>4, <1>7, <2>2, <2>3 DEF Alike
<1>10. QED
  BY <1>2, <1>3, <1>8, <1>9 DEF u

\* start-agent-run at its next stage, nothing else of it changed.
LEMMA GoesFacts ==
  ASSUME WorkspaceTypes, NEW pc \in Stages, Goes(pc)
  PROVE  /\ run' \in [pc : Stages, notes : {run'.notes}, apps : {run'.apps},
                      skills : {run'.skills}, raced : BOOLEAN, again : BOOLEAN]
         /\ run'.pc = pc /\ run'.notes = run.notes /\ run'.apps = run.apps
         /\ run'.skills = run.skills /\ run'.raced = run.raced
BY DEF WorkspaceTypes, Goes

\* Of the step that changes no more than the files, what is left to show.
LEMMA TypesOfFiles ==
  ASSUME WorkspaceTypes, Directory(disk)', Twin(tree)',
         IsFiles(disk.files)', IsFiles(tree.files)',
         disk'.files # <<>> => disk'.there, tree'.files # <<>> => tree'.there,
         UNCHANGED quiet,
         run' = run \/ \E pc \in Stages : Goes(pc)
  PROVE  WorkspaceTypes'
<1>1. /\ run' \in [pc : Stages, notes : {run'.notes}, apps : {run'.apps},
                   skills : {run'.skills}, raced : BOOLEAN, again : BOOLEAN]
      /\ run'.notes = run.notes
  <2>1. CASE run' = run
    BY <2>1 DEF WorkspaceTypes
  <2>2. CASE \E pc \in Stages : Goes(pc)
    BY <2>2, GoesFacts
  <2>3. QED
    BY <2>1, <2>2
<1>2. collection' = collection /\ mailing' = mailing /\ cleaning' = cleaning
  BY DEF quiet
<1>3. QED
  BY <1>1, <1>2 DEF WorkspaceTypes

\* The types hold of the state the program starts in.
LEMMA WorkspaceTypesInit == WorkspaceInit => WorkspaceTypes
<1> SUFFICES ASSUME WorkspaceInit PROVE WorkspaceTypes
  OBVIOUS
<1>1. Directory(disk) /\ disk.files = <<>>
  BY DEF WorkspaceInit, Directory
<1>2. Twin(tree) /\ tree.files = <<>>
  BY DEF WorkspaceInit, Twin, Gone
<1>3. /\ collection \in [notes : {collection.notes}, apps : {collection.apps},
                         skills : {collection.skills}]
      /\ collection.notes = <<>>
  BY DEF WorkspaceInit
<1>4. /\ run \in [pc : Stages, notes : {run.notes}, apps : {run.apps}, skills : {run.skills},
                  raced : BOOLEAN, again : BOOLEAN]
      /\ run.notes = <<>>
  BY DEF WorkspaceInit, Idle, Stages
<1>5. mailing \in [Mails -> {"unsent", "body", "attachment", "laid"}]
  BY DEF WorkspaceInit
<1>6. cleaning \in [pc : {"idle", "check", "remove", "manifest"}, archived : {cleaning.archived}]
  BY DEF WorkspaceInit
<1>7. QED
  BY <1>1, <1>2, <1>3, <1>4, <1>5, <1>6, NoFiles DEF WorkspaceTypes

\* The collection changes: nothing of the workspace does.
LEMMA EditFacts ==
  ASSUME WorkspaceTypes,
         \/ \E n \in Notes : Remember(n) \/ Forget(n)
         \/ \E a \in Apps : RegisterApp(a) \/ RetireApp(a)
         \/ \E s \in Skills : StoreSkill(s) \/ DropSkill(s)
  PROVE  /\ UNCHANGED <<disk, tree, run, mailing, cleaning, torn>>
         /\ collection' \in [notes : {collection'.notes}, apps : {collection'.apps},
                             skills : {collection'.skills}]
         /\ IsFiles(collection'.notes)
<1>1. CASE \E n \in Notes : Remember(n)
  <2>1. PICK n \in Notes : Remember(n)
    BY <1>1
  <2>2. \E f : IsFiles(f) /\ collection' = [collection EXCEPT !.notes = f]
    <3>1. IsFiles(With(collection.notes, n, Version(collection.notes, n)))
      BY WithFacts
    <3>2. collection' = [collection EXCEPT !.notes =
                           With(collection.notes, n, Version(collection.notes, n))]
      BY <2>1 DEF Remember, Edit
    <3>3. QED
      BY <3>1, <3>2
  <2>3. QED
    BY <2>1, <2>2 DEF Remember, Edit, WorkspaceTypes
<1>2. CASE \E n \in Notes : Forget(n)
  <2>1. PICK n \in Notes : Forget(n)
    BY <1>2
  <2>2. \E f : IsFiles(f) /\ collection' = [collection EXCEPT !.notes = f]
    <3>1. IsFiles(Without(collection.notes, {n}))
      BY WithoutFacts
    <3>2. collection' = [collection EXCEPT !.notes = Without(collection.notes, {n})]
      BY <2>1 DEF Forget, Edit
    <3>3. QED
      BY <3>1, <3>2
  <2>3. QED
    BY <2>1, <2>2 DEF Forget, Edit, WorkspaceTypes
<1>3. CASE \/ \E a \in Apps : RegisterApp(a) \/ RetireApp(a)
           \/ \E s \in Skills : StoreSkill(s) \/ DropSkill(s)
  BY <1>3 DEF RegisterApp, RetireApp, StoreSkill, DropSkill, Edit, WorkspaceTypes
<1>4. QED
  BY <1>1, <1>2, <1>3

-----------------------------------------------------------------------------
\* What each step does to the two homes, and that it keeps the types.
LEMMA StartRunFacts ==
  ASSUME WorkspaceTypes, StartRun
  PROVE  /\ WorkspaceTypes' /\ UNCHANGED <<disk, tree, mailing, cleaning, torn>>
         /\ run.pc = "idle" /\ run'.pc = "launched"
         /\ ~run'.raced => cleaning.pc = "idle"
BY DEF WorkspaceTypes, StartRun, At, Stages

\* The skills are read from their table: nothing is written.
LEMMA ReadSkillsFacts ==
  ASSUME WorkspaceTypes, ReadSkills
  PROVE  /\ WorkspaceTypes' /\ UNCHANGED <<disk, tree, mailing, cleaning, torn>>
         /\ run.pc = "launched" /\ run'.pc = "skills" /\ run'.raced = run.raced
<1>1. /\ UNCHANGED <<disk, tree, torn, collection, mailing, cleaning>>
      /\ run.pc = "launched"
      /\ run' = [run EXCEPT !.pc = "skills", !.skills = collection.skills]
  BY DEF ReadSkills, At, quiet
<1>2. /\ run' \in [pc : Stages, notes : {run'.notes}, apps : {run'.apps}, skills : {run'.skills},
                   raced : BOOLEAN, again : BOOLEAN]
      /\ run'.pc = "skills" /\ run'.raced = run.raced /\ run'.notes = run.notes
  BY <1>1 DEF WorkspaceTypes, Stages
<1>3. Directory(disk)' /\ Twin(tree)' /\ IsFiles(disk.files)' /\ IsFiles(tree.files)'
      /\ IsFiles(run.notes)' /\ IsFiles(collection.notes)'
  BY <1>1, <1>2 DEF WorkspaceTypes, Directory, Twin, IsFiles
<1>4. QED
  BY <1>1, <1>2, <1>3 DEF WorkspaceTypes

\* A skill, a file of the agent's: the same file in both.
LEMMA BothWrite ==
  ASSUME WorkspaceTypes, NEW p, NEW c,
         disk' = Wrote(disk, p, c), tree' = Wrote(tree, p, c), UNCHANGED quiet,
         run' = run \/ \E pc \in Stages : Goes(pc)
  PROVE  /\ WorkspaceTypes'
         /\ disk'.files = With(disk.files, p, c) /\ tree'.files = With(tree.files, p, c)
         /\ disk'.manifest = disk.manifest /\ tree'.manifest = tree.manifest
         /\ disk'.link = disk.link
<1>1. /\ Directory(disk') /\ disk'.there /\ disk'.files = With(disk.files, p, c)
      /\ disk'.manifest = disk.manifest /\ disk'.link = disk.link
  BY WroteFacts DEF WorkspaceTypes
<1>2. /\ Twin(tree') /\ tree'.there /\ tree'.files = With(tree.files, p, c)
      /\ tree'.manifest = tree.manifest
  BY WroteFacts DEF WorkspaceTypes
<1>3. IsFiles(disk'.files) /\ IsFiles(tree'.files)
  <2>1. IsFiles(With(disk.files, p, c)) /\ IsFiles(With(tree.files, p, c))
    BY WithFacts
  <2>2. QED
    BY <1>1, <1>2, <2>1
<1>4. Directory(disk)' /\ Twin(tree)' /\ IsFiles(disk.files)' /\ IsFiles(tree.files)'
  BY <1>1, <1>2, <1>3 DEF Directory, Twin, IsFiles
<1>5. WorkspaceTypes'
  BY <1>1, <1>2, <1>4, TypesOfFiles
<1>6. QED
  BY <1>1, <1>2, <1>5

\* WriteSkills, as the later proofs use it: one skill is written into both homes.
LEMMA WriteSkillsFacts ==
  ASSUME WorkspaceTypes, NEW s, WriteSkills(s)
  PROVE  LET c == <<"skill", s, run.skills[s]>> IN
         /\ WorkspaceTypes' /\ UNCHANGED <<run, mailing, cleaning, torn>>
         /\ run.pc = "skills"
         /\ disk'.files = With(disk.files, SkillFile(s), c)
         /\ tree'.files = With(tree.files, SkillFile(s), c)
         /\ disk'.manifest = disk.manifest /\ tree'.manifest = tree.manifest
         /\ disk'.link = disk.link
<1> DEFINE c == <<"skill", s, run.skills[s]>>
           p == SkillFile(s)
<1>1. /\ disk' = Wrote(disk, p, c) /\ tree' = Wrote(tree, p, c)
      /\ UNCHANGED quiet /\ run' = run /\ torn' = torn /\ run.pc = "skills"
  BY DEF WriteSkills, At
<1>2. mailing' = mailing /\ cleaning' = cleaning
  BY <1>1 DEF quiet
<1> HIDE DEF c, p
<1>3. QED
  BY <1>1, <1>2, BothWrite DEF c, p

\* The last skill is written: the notes are next.
LEMMA SkillsWrittenFacts ==
  ASSUME WorkspaceTypes, SkillsWritten
  PROVE  /\ WorkspaceTypes' /\ UNCHANGED <<disk, tree, mailing, cleaning, torn>>
         /\ run.pc = "skills" /\ run'.pc = "prune" /\ Lacking = {}
         /\ run'.notes = run.notes /\ run'.apps = run.apps /\ run'.skills = run.skills
         /\ run'.raced = run.raced
<1>1. Goes("prune") /\ "prune" \in Stages /\ UNCHANGED <<disk, tree, torn, quiet>>
  BY DEF SkillsWritten, Stages, Middle
<1>2. UNCHANGED <<mailing, cleaning>> /\ run.pc = "skills" /\ Lacking = {}
  BY <1>1 DEF quiet, SkillsWritten, At
<1>3. Directory(disk)' /\ Twin(tree)' /\ IsFiles(disk.files)' /\ IsFiles(tree.files)'
  BY <1>1 DEF WorkspaceTypes, Directory, Twin, IsFiles
<1>4. WorkspaceTypes'
  BY <1>1, <1>3, TypesOfFiles DEF WorkspaceTypes
<1>5. QED
  BY <1>1, <1>2, <1>4, GoesFacts

\* The directory alone, with other files and otherwise as it was.
LEMMA DiskAlone ==
  ASSUME WorkspaceTypes, Directory(disk'), IsFiles(disk'.files),
         disk'.files # <<>> => disk'.there,
         tree' = tree, UNCHANGED quiet,
         run' = run \/ \E pc \in Stages : Goes(pc)
  PROVE  WorkspaceTypes'
<1>1. Directory(disk)' /\ Twin(tree)' /\ IsFiles(disk.files)' /\ IsFiles(tree.files)'
  BY DEF WorkspaceTypes, Directory, Twin, IsFiles
<1>2. QED
  BY <1>1, TypesOfFiles DEF WorkspaceTypes

\* PruneStaleMemory takes one stale path away, or has none left and goes on.
LEMMA PruneFacts ==
  ASSUME WorkspaceTypes, PruneStaleMemory
  PROVE  /\ WorkspaceTypes' /\ UNCHANGED <<tree, mailing, cleaning, torn>>
         /\ run.pc = "prune" /\ disk'.manifest = disk.manifest /\ disk'.link = disk.link
         /\ \/ run' = run /\ \E p : OfMemory(p) /\ disk'.files = Without(disk.files, {p})
            \/ /\ run'.pc = "notes"
               /\ run'.notes = run.notes /\ run'.apps = run.apps /\ run'.skills = run.skills
               /\ run'.raced = run.raced
               /\ Stale(disk.files, run.notes) = {}
               /\ disk'.files = Without(disk.files, IF run.notes = <<>> THEN {Index} ELSE {})
<1>1. UNCHANGED <<tree, torn, quiet>> /\ run.pc = "prune"
  BY DEF PruneStaleMemory, At
<1>2. UNCHANGED <<mailing, cleaning>>
  BY <1>1 DEF quiet
<1>3. \E paths :
        /\ disk' = [disk EXCEPT !.files = Without(disk.files, paths)]
        /\ \/ run' = run /\ \E p : OfMemory(p) /\ paths = {p}
           \/ /\ Goes("notes") /\ paths = (IF run.notes = <<>> THEN {Index} ELSE {})
              /\ Stale(disk.files, run.notes) = {}
  <2>1. CASE \E p \in Stale(disk.files, run.notes) :
               disk' = [disk EXCEPT !.files = Without(@, {p})] /\ UNCHANGED run
    <3>1. PICK p \in Stale(disk.files, run.notes) :
            disk' = [disk EXCEPT !.files = Without(@, {p})] /\ UNCHANGED run
      BY <2>1
    <3>2. OfMemory(p)
      BY <3>1 DEF Stale, In, OfMemory
    <3>3. QED
      BY <3>1, <3>2
  <2>2. CASE /\ Stale(disk.files, run.notes) = {} /\ Goes("notes")
             /\ disk' = [disk EXCEPT !.files = Without(@, IF run.notes = <<>> THEN {Index} ELSE {})]
    BY <2>2
  <2>3. QED
    BY <2>1, <2>2 DEF PruneStaleMemory
<1>4. PICK paths :
        /\ disk' = [disk EXCEPT !.files = Without(disk.files, paths)]
        /\ \/ run' = run /\ \E p : OfMemory(p) /\ paths = {p}
           \/ /\ Goes("notes") /\ paths = (IF run.notes = <<>> THEN {Index} ELSE {})
              /\ Stale(disk.files, run.notes) = {}
  BY <1>3
<1>5. /\ Directory(disk') /\ disk'.files = Without(disk.files, paths)
      /\ disk'.manifest = disk.manifest /\ disk'.link = disk.link
      /\ disk'.there = disk.there
  BY <1>4 DEF WorkspaceTypes, Directory
<1>6. IsFiles(disk'.files) /\ (disk'.files # <<>> => disk'.there)
  <2>1. IsFiles(disk'.files) /\ DOMAIN disk'.files \subseteq DOMAIN disk.files
    <3>1. /\ IsFiles(Without(disk.files, paths))
          /\ DOMAIN Without(disk.files, paths) = DOMAIN disk.files \ paths
      BY WithoutFacts
    <3>2. QED
      BY <1>5, <3>1
  <2>2. disk.files = <<>> => disk'.files = <<>>
    <3>1. disk'.files = <<>> <=> DOMAIN disk'.files = {}
      BY <2>1, EmptyFiles
    <3>2. QED
      BY <2>1, <3>1, NoFiles
  <2>3. QED
    BY <1>5, <2>1, <2>2 DEF WorkspaceTypes
<1>7. "notes" \in Stages
  BY DEF Stages, Middle
<1>8. WorkspaceTypes'
  BY <1>1, <1>4, <1>5, <1>6, <1>7, DiskAlone
<1>9. \/ run' = run /\ \E p : OfMemory(p) /\ disk'.files = Without(disk.files, {p})
      \/ /\ Goes("notes") /\ Stale(disk.files, run.notes) = {}
         /\ disk'.files = Without(disk.files, IF run.notes = <<>> THEN {Index} ELSE {})
  BY <1>4, <1>5
<1>10. Goes("notes") => /\ run'.pc = "notes" /\ run'.notes = run.notes /\ run'.apps = run.apps
                        /\ run'.skills = run.skills /\ run'.raced = run.raced
  BY <1>7, GoesFacts
<1>11. QED
  BY <1>1, <1>2, <1>5, <1>8, <1>9, <1>10

\* WriteNote writes one note of the run's on disk.
LEMMA WriteNoteFacts ==
  ASSUME WorkspaceTypes, NEW n, WriteNote(n)
  PROVE  /\ WorkspaceTypes' /\ UNCHANGED <<tree, run, mailing, cleaning, torn>>
         /\ run.pc = "notes" /\ n \in DOMAIN run.notes
         /\ disk'.files = With(disk.files, NoteFile(n), NoteContent(run.notes, n))
         /\ disk'.manifest = disk.manifest /\ disk'.link = disk.link
<1>1. /\ disk' = Wrote(disk, NoteFile(n), NoteContent(run.notes, n))
      /\ UNCHANGED <<tree, run, torn, quiet>> /\ run.pc = "notes" /\ n \in DOMAIN run.notes
  BY DEF WriteNote, At, Unwritten
<1>2. UNCHANGED <<mailing, cleaning>>
  BY <1>1 DEF quiet
<1>3. /\ Directory(disk') /\ disk'.there
      /\ disk'.files = With(disk.files, NoteFile(n), NoteContent(run.notes, n))
      /\ disk'.manifest = disk.manifest /\ disk'.link = disk.link
  BY <1>1, WroteFacts DEF WorkspaceTypes
<1>4. IsFiles(disk'.files)
  BY <1>3, WithFacts
<1>5. QED
  BY <1>1, <1>2, <1>3, <1>4, DiskAlone

\* WriteIndex writes MEMORY.md, or removes it when there are no notes.
LEMMA WriteIndexFacts ==
  ASSUME WorkspaceTypes, WriteIndex
  PROVE  /\ WorkspaceTypes' /\ UNCHANGED <<tree, mailing, cleaning, torn>>
         /\ run.pc = "notes" /\ run'.pc = "manifest" /\ Unwritten = {}
         /\ run'.notes = run.notes /\ run'.apps = run.apps /\ run'.skills = run.skills
         /\ run'.raced = run.raced
         /\ run.notes = <<>> => disk'.files = disk.files
         /\ run.notes # <<>> => disk'.files = With(disk.files, Index, IndexContent(run.notes))
         /\ disk'.manifest = disk.manifest /\ disk'.link = disk.link
<1>1. UNCHANGED <<tree, torn, quiet>> /\ run.pc = "notes" /\ Unwritten = {} /\ Goes("manifest")
  BY DEF WriteIndex, At
<1>2. UNCHANGED <<mailing, cleaning>> /\ "manifest" \in Stages
  BY <1>1 DEF quiet, Stages, Middle
<1>3. /\ Directory(disk') /\ IsFiles(disk'.files) /\ (disk'.files # <<>> => disk'.there)
      /\ run.notes = <<>> => disk'.files = disk.files
      /\ run.notes # <<>> => disk'.files = With(disk.files, Index, IndexContent(run.notes))
      /\ disk'.manifest = disk.manifest /\ disk'.link = disk.link
  <2>1. CASE run.notes = <<>>
    <3>1. disk' = disk
      BY <2>1 DEF WriteIndex
    <3>2. QED
      BY <2>1, <3>1 DEF WorkspaceTypes
  <2>2. CASE run.notes # <<>>
    <3>1. disk' = Wrote(disk, Index, IndexContent(run.notes))
      BY <2>2 DEF WriteIndex
    <3>2. /\ Directory(disk') /\ disk'.there
          /\ disk'.files = With(disk.files, Index, IndexContent(run.notes))
          /\ disk'.manifest = disk.manifest /\ disk'.link = disk.link
      BY <3>1, WroteFacts DEF WorkspaceTypes
    <3>3. IsFiles(disk'.files)
      BY <3>2, WithFacts
    <3>4. QED
      BY <2>2, <3>2, <3>3
  <2>3. QED
    BY <2>1, <2>2
<1>4. WorkspaceTypes'
  BY <1>1, <1>2, <1>3, DiskAlone
<1>5. QED
  BY <1>1, <1>2, <1>3, <1>4, GoesFacts

\* WriteManifest ends the call on disk, and the twin's whole WriteMemory happens with it.
LEMMA WriteManifestFacts ==
  ASSUME WorkspaceTypes, WriteManifest
  PROVE  /\ WorkspaceTypes' /\ UNCHANGED <<mailing, cleaning>>
         /\ run.pc = "manifest" /\ run'.pc = "apps"
         /\ run'.notes = run.notes /\ run'.apps = run.apps /\ run'.skills = run.skills
         /\ run'.raced = run.raced
         /\ disk'.files = disk.files /\ disk'.link = disk.link
         /\ disk'.manifest = DOMAIN run.notes /\ tree'.manifest = DOMAIN run.notes
         /\ Memorised(tree'.files, run.notes)
         /\ \A p : ~OfMemory(p) => Alike(tree'.files, tree.files, p)
         /\ torn' \subseteq torn /\ torn \subseteq torn' \cup {"notes"}
         /\ run.raced => torn' = torn
<1>1. /\ disk' = [disk EXCEPT !.manifest = DOMAIN run.notes]
      /\ tree' = MemoryWriteMemory(tree, run.notes)
      /\ torn' = torn \ (IF run.raced THEN {} ELSE {"notes"})
      /\ Goes("apps") /\ UNCHANGED quiet /\ run.pc = "manifest"
  BY DEF WriteManifest, At
<1>2. UNCHANGED <<mailing, cleaning>> /\ "apps" \in Stages
  BY <1>1 DEF quiet, Stages, After
<1>3. /\ Directory(disk') /\ disk'.files = disk.files /\ disk'.there = disk.there
      /\ disk'.link = disk.link /\ disk'.manifest = DOMAIN run.notes
  BY <1>1 DEF WorkspaceTypes, Directory
<1>4. /\ Twin(tree') /\ tree'.there /\ tree'.manifest = DOMAIN run.notes
      /\ IsFiles(tree'.files) /\ Memorised(tree'.files, run.notes)
      /\ \A p : ~OfMemory(p) => Alike(tree'.files, tree.files, p)
  BY <1>1, MemoryFacts
<1>5. Directory(disk)' /\ Twin(tree)' /\ IsFiles(disk.files)' /\ IsFiles(tree.files)'
  BY <1>3, <1>4 DEF WorkspaceTypes, Directory, Twin, IsFiles
<1>6. WorkspaceTypes'
  <2>1. disk'.files # <<>> => disk'.there
    BY <1>3 DEF WorkspaceTypes
  <2>2. QED
    BY <1>1, <1>2, <1>4, <1>5, <2>1, TypesOfFiles
<1>7. run.raced => torn' = torn
  BY <1>1
<1>8. torn' \subseteq torn /\ torn \subseteq torn' \cup {"notes"}
  BY <1>1
<1>9. QED
  BY <1>1, <1>2, <1>3, <1>4, <1>6, <1>7, <1>8, GoesFacts

\* ProvisionApps writes or removes in/apps.json in both homes.
LEMMA ProvisionAppsFacts ==
  ASSUME WorkspaceTypes, ProvisionApps
  PROVE  /\ WorkspaceTypes' /\ UNCHANGED <<mailing, cleaning, torn>>
         /\ run.pc = "apps" /\ run'.pc = "link"
         /\ run'.notes = run.notes /\ run'.apps = run.apps /\ run'.skills = run.skills
         /\ run'.raced = run.raced
         /\ run.apps = {} => /\ disk'.files = Without(disk.files, {AppsIndex})
                             /\ tree'.files = Without(tree.files, {AppsIndex})
         /\ run.apps # {} =>
              /\ disk'.files = With(disk.files, AppsIndex, AppsContent(run.apps))
              /\ tree'.files = With(tree.files, AppsIndex, AppsContent(run.apps))
         /\ disk'.manifest = disk.manifest /\ tree'.manifest = tree.manifest
         /\ disk'.link = disk.link
<1>1. /\ disk' = WriteApps(disk, run.apps) /\ tree' = WriteApps(tree, run.apps)
      /\ Goes("link") /\ UNCHANGED <<torn, quiet>> /\ run.pc = "apps"
  BY DEF ProvisionApps, At
<1>2. UNCHANGED <<mailing, cleaning>> /\ "link" \in Stages
  BY <1>1 DEF quiet, Stages, After
<1>3. /\ run.apps = {} => disk'.files = Without(disk.files, {AppsIndex})
      /\ run.apps # {} => disk'.files = With(disk.files, AppsIndex, AppsContent(run.apps))
      /\ disk.there \/ run.apps # {} => disk'.there
      /\ Directory(disk') /\ disk'.manifest = disk.manifest /\ disk'.link = disk.link
  BY <1>1, WriteAppsFacts DEF WorkspaceTypes
<1>4. /\ run.apps = {} => tree'.files = Without(tree.files, {AppsIndex})
      /\ run.apps # {} => tree'.files = With(tree.files, AppsIndex, AppsContent(run.apps))
      /\ tree.there \/ run.apps # {} => tree'.there
      /\ Twin(tree') /\ tree'.manifest = tree.manifest
  BY <1>1, WriteAppsFacts DEF WorkspaceTypes
<1>5. \A f : LET g == Without(f, {AppsIndex}) IN IsFiles(g) /\ (f = <<>> => g = <<>>)
  BY EmptiedFiles
<1>6. \A f, p, c : IsFiles(With(f, p, c))
  BY WithFacts
<1>7. /\ IsFiles(disk'.files) /\ (disk'.files # <<>> => disk'.there)
      /\ IsFiles(tree'.files) /\ (tree'.files # <<>> => tree'.there)
  <2>1. CASE run.apps = {}
    <3>1. disk'.files # <<>> => disk.files # <<>>
      BY <1>3, <1>5, <2>1
    <3>2. tree'.files # <<>> => tree.files # <<>>
      BY <1>4, <1>5, <2>1
    <3>3. IsFiles(disk'.files) /\ IsFiles(tree'.files)
      BY <1>3, <1>4, <1>5, <2>1
    <3>4. QED
      BY <1>3, <1>4, <3>1, <3>2, <3>3 DEF WorkspaceTypes
  <2>2. CASE run.apps # {}
    BY <1>3, <1>4, <1>6, <2>2
  <2>3. QED
    BY <2>1, <2>2
<1>8. Directory(disk)' /\ Twin(tree)' /\ IsFiles(disk.files)' /\ IsFiles(tree.files)'
  BY <1>3, <1>4, <1>7 DEF Directory, Twin, IsFiles
<1>9. WorkspaceTypes'
  BY <1>1, <1>2, <1>7, <1>8, TypesOfFiles
<1>10. QED
  BY <1>1, <1>2, <1>3, <1>4, <1>9, GoesFacts

\* Link removes the link that is there, or makes it.
LEMMA LinkFacts ==
  ASSUME WorkspaceTypes, Link
  PROVE  /\ WorkspaceTypes' /\ UNCHANGED <<tree, mailing, cleaning, torn>>
         /\ run.pc = "link" /\ disk'.files = disk.files /\ disk'.manifest = disk.manifest
         /\ \/ run' = run
            \/ /\ run'.pc = "out" /\ disk'.link
               /\ run'.notes = run.notes /\ run'.apps = run.apps /\ run'.skills = run.skills
               /\ run'.raced = run.raced
<1>1. UNCHANGED <<tree, torn, quiet>> /\ run.pc = "link"
  BY DEF Link, At
<1>2. UNCHANGED <<mailing, cleaning>> /\ "out" \in Stages
  BY <1>1 DEF quiet, Stages, After
<1>3. \/ disk' = [Made(disk) EXCEPT !.link = FALSE] /\ run' = run
      \/ disk' = [Made(disk) EXCEPT !.link = TRUE] /\ Goes("out")
  BY DEF Link
<1>4. /\ Directory(Made(disk)) /\ Made(disk).there /\ Made(disk).files = disk.files
      /\ Made(disk).manifest = disk.manifest
  BY MadeFacts DEF WorkspaceTypes
<1>5. /\ Directory(disk') /\ disk'.there /\ disk'.files = disk.files
      /\ disk'.manifest = disk.manifest
      /\ disk' = [Made(disk) EXCEPT !.link = TRUE] => disk'.link
  BY <1>3, <1>4 DEF Directory
<1>6. IsFiles(disk'.files)
  BY <1>5 DEF WorkspaceTypes
<1>7. WorkspaceTypes'
  BY <1>1, <1>2, <1>3, <1>5, <1>6, DiskAlone
<1>8. QED
  BY <1>1, <1>2, <1>3, <1>5, <1>7, GoesFacts

\* EmptyOut empties out/ in both homes, and the run is handed its directory.
LEMMA EmptyOutFacts ==
  ASSUME WorkspaceTypes, EmptyOut
  PROVE  /\ WorkspaceTypes' /\ UNCHANGED <<mailing, cleaning, torn>>
         /\ run.pc = "out" /\ run'.pc = "handed"
         /\ run'.notes = run.notes /\ run'.apps = run.apps /\ run'.skills = run.skills
         /\ run'.raced = run.raced
         /\ disk'.files = Without(disk.files, In(disk.files, "out"))
         /\ tree'.files = Without(tree.files, In(tree.files, "out"))
         /\ disk'.manifest = disk.manifest /\ tree'.manifest = tree.manifest
         /\ disk'.link = disk.link
<1>1. /\ disk' = ResetOut(disk) /\ tree' = ResetOut(tree)
      /\ Goes("handed") /\ UNCHANGED <<torn, quiet>> /\ run.pc = "out"
  BY DEF EmptyOut, At
<1>2. UNCHANGED <<mailing, cleaning>> /\ "handed" \in Stages
  BY <1>1 DEF quiet, Stages, After
<1>3. /\ Directory(disk') /\ disk'.there /\ disk'.manifest = disk.manifest
      /\ disk'.link = disk.link
      /\ disk'.files = Without(disk.files, In(disk.files, "out"))
  BY <1>1, ResetOutFacts DEF WorkspaceTypes
<1>4. /\ Twin(tree') /\ tree'.there /\ tree'.manifest = tree.manifest
      /\ tree'.files = Without(tree.files, In(tree.files, "out"))
  BY <1>1, ResetOutFacts DEF WorkspaceTypes
<1>5. \A f, paths : IsFiles(Without(f, paths))
  BY WithoutFacts
<1>6. IsFiles(disk'.files) /\ IsFiles(tree'.files)
  BY <1>3, <1>4, <1>5
<1>7. Directory(disk)' /\ Twin(tree)' /\ IsFiles(disk.files)' /\ IsFiles(tree.files)'
  BY <1>3, <1>4, <1>6 DEF Directory, Twin, IsFiles
<1>8. WorkspaceTypes'
  BY <1>1, <1>2, <1>3, <1>4, <1>7, TypesOfFiles
<1>9. QED
  BY <1>1, <1>2, <1>3, <1>4, <1>8, GoesFacts

\* The agent's reply appears in both homes.
LEMMA WriteReplyFacts ==
  ASSUME WorkspaceTypes, WriteReply
  PROVE  /\ WorkspaceTypes' /\ UNCHANGED <<mailing, cleaning, torn>>
         /\ run.pc = "handed" /\ run'.pc = "works"
         /\ disk'.files = With(disk.files, Reply, ReplyFile)
         /\ tree'.files = With(tree.files, Reply, ReplyFile)
         /\ disk'.manifest = disk.manifest /\ tree'.manifest = tree.manifest
         /\ run'.raced = run.raced
<1>1. /\ disk' = Wrote(disk, Reply, ReplyFile) /\ tree' = Wrote(tree, Reply, ReplyFile)
      /\ Goes("works") /\ UNCHANGED <<torn, quiet>> /\ run.pc = "handed"
  BY DEF WriteReply, At
<1>2. UNCHANGED <<mailing, cleaning>> /\ "works" \in Stages
  BY <1>1 DEF quiet, Stages
<1>3. QED
  BY <1>1, <1>2, BothWrite, GoesFacts

\* The agent deletes one note from both homes.
LEMMA DeleteNoteFacts ==
  ASSUME WorkspaceTypes, NEW n, DeleteNote(n)
  PROVE  /\ WorkspaceTypes' /\ UNCHANGED <<run, mailing, cleaning, torn>>
         /\ run.pc = "works"
         /\ disk'.files = Without(disk.files, {NoteFile(n)})
         /\ tree'.files = Without(tree.files, {NoteFile(n)})
         /\ disk'.manifest = disk.manifest /\ tree'.manifest = tree.manifest
<1>1. /\ disk' = [disk EXCEPT !.files = Without(disk.files, {NoteFile(n)})]
      /\ tree' = [tree EXCEPT !.files = Without(tree.files, {NoteFile(n)})]
      /\ UNCHANGED <<run, torn, quiet>> /\ run.pc = "works"
  BY DEF DeleteNote, DeleteIn, At
<1>2. UNCHANGED <<mailing, cleaning>>
  BY <1>1 DEF quiet
<1>3. /\ Directory(disk') /\ disk'.there = disk.there /\ disk'.manifest = disk.manifest
      /\ disk'.files = Without(disk.files, {NoteFile(n)})
  BY <1>1 DEF WorkspaceTypes, Directory
<1>4. /\ Twin(tree') /\ tree'.there = tree.there /\ tree'.manifest = tree.manifest
      /\ tree'.files = Without(tree.files, {NoteFile(n)})
  BY <1>1 DEF WorkspaceTypes, Twin
<1>5. \A f : IsFiles(Without(f, {NoteFile(n)})) /\ (f = <<>> => Without(f, {NoteFile(n)}) = <<>>)
  BY EmptiedFiles
<1>6. /\ IsFiles(disk'.files) /\ (disk'.files # <<>> => disk'.there)
      /\ IsFiles(tree'.files) /\ (tree'.files # <<>> => tree'.there)
  <2>1. disk'.files # <<>> => disk.files # <<>>
    BY <1>3, <1>5
  <2>2. tree'.files # <<>> => tree.files # <<>>
    BY <1>4, <1>5
  <2>3. IsFiles(disk'.files) /\ IsFiles(tree'.files)
    BY <1>3, <1>4, <1>5
  <2>4. QED
    BY <1>3, <1>4, <2>1, <2>2, <2>3 DEF WorkspaceTypes
<1>7. Directory(disk)' /\ Twin(tree)' /\ IsFiles(disk.files)' /\ IsFiles(tree.files)'
  BY <1>3, <1>4, <1>6 DEF Directory, Twin, IsFiles
<1>8. WorkspaceTypes'
  BY <1>1, <1>6, <1>7, TypesOfFiles
<1>9. QED
  BY <1>1, <1>2, <1>3, <1>4, <1>8

\* The run's end leaves its transcript in both homes.
LEMMA EndRunFacts ==
  ASSUME WorkspaceTypes, EndRun
  PROVE  LET p == <<"", spent.runs>>
             c == <<"transcript", spent.runs, "">>
         IN
         /\ WorkspaceTypes' /\ UNCHANGED <<mailing, cleaning, torn>>
         /\ run.pc = "works" /\ run'.pc = "idle" /\ ~run'.raced
         /\ disk'.files = With(disk.files, p, c) /\ tree'.files = With(tree.files, p, c)
         /\ disk'.manifest = disk.manifest /\ tree'.manifest = tree.manifest
<1> DEFINE p == <<"", spent.runs>>
           c == <<"transcript", spent.runs, "">>
<1>1. /\ disk' = Wrote(disk, p, c) /\ tree' = Wrote(tree, p, c)
      /\ run' = Idle /\ UNCHANGED <<torn, quiet>> /\ run.pc = "works"
  BY DEF EndRun, At
<1> HIDE DEF p, c
<1>2. UNCHANGED <<collection, mailing, cleaning>>
  BY <1>1 DEF quiet
<1>3. /\ Directory(disk') /\ disk'.there /\ disk'.files = With(disk.files, p, c)
      /\ disk'.manifest = disk.manifest
  BY <1>1, WroteFacts DEF WorkspaceTypes
<1>4. /\ Twin(tree') /\ tree'.there /\ tree'.files = With(tree.files, p, c)
      /\ tree'.manifest = tree.manifest
  BY <1>1, WroteFacts DEF WorkspaceTypes
<1>5. IsFiles(disk'.files) /\ IsFiles(tree'.files)
  <2>1. IsFiles(With(disk.files, p, c)) /\ IsFiles(With(tree.files, p, c))
    BY WithFacts
  <2>2. QED
    BY <1>3, <1>4, <2>1
<1>6. /\ run' \in [pc : Stages, notes : {run'.notes}, apps : {run'.apps}, skills : {run'.skills},
                   raced : BOOLEAN, again : BOOLEAN]
      /\ run'.notes = <<>> /\ run'.pc = "idle" /\ run'.raced = FALSE
  BY <1>1 DEF Idle, Stages
<1>7. IsFiles(run'.notes)
  BY <1>6, NoFiles
<1>8. Directory(disk)' /\ Twin(tree)' /\ IsFiles(disk.files)' /\ IsFiles(tree.files)'
      /\ IsFiles(run.notes)'
  BY <1>3, <1>4, <1>5, <1>7 DEF Directory, Twin, IsFiles
<1>9. WorkspaceTypes'
  BY <1>2, <1>3, <1>4, <1>6, <1>8 DEF WorkspaceTypes
<1>10. QED
  BY <1>1, <1>2, <1>3, <1>4, <1>6, <1>9 DEF p, c

\* Mail changes no more than the files under in/ and what is to be written of it.
LEMMA TypesOfMail ==
  ASSUME WorkspaceTypes, Directory(disk'), Twin(tree'), disk'.there,
         IsFiles(disk'.files), IsFiles(tree'.files), tree'.files # <<>> => tree'.there,
         UNCHANGED <<collection, run, cleaning>>,
         mailing' \in [Mails -> {"unsent", "body", "attachment", "laid"}]
  PROVE  WorkspaceTypes'
<1>1. Directory(disk)' /\ Twin(tree)' /\ IsFiles(disk.files)' /\ IsFiles(tree.files)'
  BY DEF Directory, Twin, IsFiles
<1>2. QED
  BY <1>1 DEF WorkspaceTypes

\* LayIn makes the directory and begins with the mail: no file changes.
LEMMA LayInFacts ==
  ASSUME WorkspaceTypes, NEW m \in Mails, LayIn(m)
  PROVE  /\ WorkspaceTypes' /\ UNCHANGED <<collection, run, cleaning, torn>>
         /\ disk'.files = disk.files /\ tree'.files = tree.files
         /\ disk'.manifest = disk.manifest /\ tree'.manifest = tree.manifest
         /\ disk'.link = disk.link
         /\ \A k \in Mails : Half(k)' <=> Half(k)
<1>1. /\ disk' = Made(disk) /\ tree' = Made(tree) /\ UNCHANGED <<collection, run, cleaning, torn>>
      /\ mailing' = [mailing EXCEPT ![m] = "body"] /\ mailing[m] = "unsent"
  BY DEF LayIn
<1>2. /\ Directory(disk') /\ disk'.there /\ disk'.files = disk.files
      /\ disk'.manifest = disk.manifest /\ disk'.link = disk.link
  BY <1>1, MadeFacts DEF WorkspaceTypes
<1>3. /\ Twin(tree') /\ tree'.there /\ tree'.files = tree.files /\ tree'.manifest = tree.manifest
  BY <1>1, MadeFacts DEF WorkspaceTypes
<1>4. IsFiles(disk'.files) /\ IsFiles(tree'.files)
  BY <1>2, <1>3 DEF WorkspaceTypes
<1>5. mailing' \in [Mails -> {"unsent", "body", "attachment", "laid"}]
  BY <1>1 DEF WorkspaceTypes
<1>6. \A k \in Mails : Half(k)' <=> Half(k)
  BY <1>1 DEF Half, WorkspaceTypes
<1>7. QED
  BY <1>1, <1>2, <1>3, <1>4, <1>5, <1>6, TypesOfMail

\* WriteBody writes the mail's body on disk and leaves the twin for the call's end.
LEMMA WriteBodyFacts ==
  ASSUME WorkspaceTypes, NEW m \in Mails, WriteBody(m)
  PROVE  /\ WorkspaceTypes' /\ UNCHANGED <<tree, collection, run, cleaning>>
         /\ disk'.files = With(disk.files, Body, MailContent(m))
         /\ disk'.manifest = disk.manifest /\ disk'.link = disk.link
         /\ \A k \in Mails : Half(k)' <=> k = m \/ Half(k)
         /\ torn \subseteq torn'
         /\ "files" \notin torn' => \A k \in Mails \ {m} : ~Half(k)
         /\ "notes" \in torn' => "notes" \in torn
<1>1. /\ disk' = Wrote(disk, Body, MailContent(m)) /\ UNCHANGED <<tree, collection, run, cleaning>>
      /\ torn' = IF \E k \in Mails \ {m} : Half(k) THEN torn \cup {"files"} ELSE torn
      /\ mailing' = [mailing EXCEPT ![m] = "attachment"]
  BY DEF WriteBody, MailWrites
<1>2. /\ Directory(disk') /\ disk'.there /\ disk'.manifest = disk.manifest
      /\ disk'.files = With(disk.files, Body, MailContent(m)) /\ disk'.link = disk.link
  BY <1>1, WroteFacts DEF WorkspaceTypes
<1>3. IsFiles(disk'.files)
  BY <1>2, WithFacts
<1>4. mailing' \in [Mails -> {"unsent", "body", "attachment", "laid"}]
  BY <1>1 DEF WorkspaceTypes
<1>5. Twin(tree') /\ IsFiles(tree'.files) /\ (tree'.files # <<>> => tree'.there)
  BY <1>1 DEF WorkspaceTypes
<1>6. \A k \in Mails : Half(k)' <=> k = m \/ Half(k)
  BY <1>1 DEF Half, WorkspaceTypes
<1>7. /\ torn \subseteq torn' /\ ("notes" \in torn' => "notes" \in torn)
      /\ "files" \notin torn' => \A k \in Mails \ {m} : ~Half(k)
  BY <1>1
<1>8. QED
  BY <1>1, <1>2, <1>3, <1>4, <1>5, <1>6, <1>7, TypesOfMail

\* WriteAttachment ends the call: the attachment on disk, both files in the twin.
LEMMA WriteAttachmentFacts ==
  ASSUME WorkspaceTypes, NEW m \in Mails, WriteAttachment(m)
  PROVE  LET p == InFile(Attached[m])
             c == MailContent(m)
         IN
         /\ WorkspaceTypes' /\ UNCHANGED <<collection, run, cleaning>>
         /\ Half(m)
         /\ disk'.files = With(disk.files, p, c)
         /\ tree'.files = With(With(tree.files, Body, c), p, c)
         /\ disk'.manifest = disk.manifest /\ tree'.manifest = tree.manifest
         /\ disk'.link = disk.link
         /\ \A k \in Mails : Half(k)' <=> k # m /\ Half(k)
         /\ torn \subseteq torn'
         /\ "files" \notin torn' => \A k \in Mails \ {m} : ~Half(k)
         /\ "notes" \in torn' => "notes" \in torn
<1> DEFINE p == InFile(Attached[m])
           c == MailContent(m)
           middle == Wrote(tree, Body, c)
<1>1. /\ disk' = Wrote(disk, p, c) /\ tree' = Wrote(middle, p, c)
      /\ UNCHANGED <<collection, run, cleaning>> /\ Half(m)
      /\ torn' = IF \E k \in Mails \ {m} : Half(k) THEN torn \cup {"files"} ELSE torn
      /\ mailing' = [mailing EXCEPT ![m] = "laid"]
  BY DEF WriteAttachment, MailWrites
<1>2. Twin(middle) /\ middle.files = With(tree.files, Body, c) /\ middle.manifest = tree.manifest
  BY WroteFacts DEF WorkspaceTypes
<1> HIDE DEF p, c, middle
<1>3. /\ Directory(disk') /\ disk'.there /\ disk'.manifest = disk.manifest
      /\ disk'.files = With(disk.files, p, c) /\ disk'.link = disk.link
  BY <1>1, WroteFacts DEF WorkspaceTypes
<1>4. /\ Twin(tree') /\ tree'.there /\ tree'.manifest = tree.manifest
      /\ tree'.files = With(With(tree.files, Body, c), p, c)
  BY <1>1, <1>2, WroteFacts
<1>5. IsFiles(disk'.files) /\ IsFiles(tree'.files)
  <2>1. \A f : IsFiles(With(f, p, c))
    BY WithFacts
  <2>2. QED
    BY <1>3, <1>4, <2>1
<1>6. mailing' \in [Mails -> {"unsent", "body", "attachment", "laid"}]
  BY <1>1 DEF WorkspaceTypes
<1>7. \A k \in Mails : Half(k)' <=> k # m /\ Half(k)
  BY <1>1 DEF Half, WorkspaceTypes
<1>8. /\ torn \subseteq torn' /\ ("notes" \in torn' => "notes" \in torn)
      /\ "files" \notin torn' => \A k \in Mails \ {m} : ~Half(k)
  BY <1>1
<1>9. QED
  BY <1>1, <1>3, <1>4, <1>5, <1>6, <1>7, <1>8, TypesOfMail DEF p, c

\* archive-task changes no file before it removes them all.
LEMMA ArchiveFacts ==
  ASSUME WorkspaceTypes, Archive
  PROVE  /\ WorkspaceTypes' /\ UNCHANGED <<disk, tree, collection, mailing, torn>>
         /\ cleaning.pc = "idle" /\ cleaning'.pc = "check"
         /\ run'.pc = run.pc /\ run'.notes = run.notes /\ run'.apps = run.apps
         /\ run'.skills = run.skills
         /\ ~run'.raced => run.pc = "idle"
BY DEF Archive, WorkspaceTypes

\* The check of archive-task writes nothing.
LEMMA CheckCoveredFacts ==
  ASSUME WorkspaceTypes, CheckCovered
  PROVE  /\ WorkspaceTypes' /\ UNCHANGED <<disk, tree, collection, run, mailing, torn>>
         /\ cleaning.pc = "check" /\ cleaning'.pc \in {"remove", "idle"}
<1>1. /\ UNCHANGED <<disk, tree, collection, run, mailing, torn>> /\ cleaning.pc = "check"
      /\ \E pc \in {"remove", "idle"} : cleaning' = [cleaning EXCEPT !.pc = pc]
  BY DEF CheckCovered, Cleans
<1>2. QED
  BY <1>1 DEF WorkspaceTypes

\* RemoveAll leaves no file on disk, and none in the twin unless it is marked apart.
LEMMA RemoveAllFacts ==
  ASSUME WorkspaceTypes, RemoveAll
  PROVE  /\ WorkspaceTypes' /\ UNCHANGED <<collection, run, mailing>>
         /\ cleaning.pc = "remove" /\ cleaning'.pc = "manifest"
         /\ disk'.files = <<>>
         /\ torn \subseteq torn' /\ Cut \subseteq torn'
         /\ "files" \notin torn' => tree'.files = <<>>
<1>1. /\ disk' = [disk EXCEPT !.there = FALSE, !.files = <<>>, !.link = FALSE]
      /\ tree' = MemoryDelete(tree)
      /\ torn' = torn \cup Cut \cup Apart
      /\ cleaning' = [cleaning EXCEPT !.pc = "manifest"]
      /\ UNCHANGED <<collection, run, mailing>> /\ cleaning.pc = "remove"
  BY DEF RemoveAll, Cleans
<1>2. Directory(disk') /\ disk'.files = <<>>
  BY <1>1 DEF WorkspaceTypes, Directory
<1>3. /\ Twin(tree') /\ IsFiles(tree'.files) /\ (tree'.files # <<>> => tree'.there)
      /\ "files" \notin torn' => tree'.files = <<>>
  <2>1. CASE Covered(tree.files)
    <3>1. tree' = Gone
      BY <1>1, <2>1 DEF MemoryDelete
    <3>2. QED
      BY <3>1, NoFiles DEF Gone, Twin
  <2>2. CASE ~Covered(tree.files)
    <3>1. tree' = tree /\ "files" \in torn'
      BY <1>1, <2>2 DEF MemoryDelete, Apart
    <3>2. QED
      BY <3>1 DEF WorkspaceTypes
  <2>3. QED
    BY <2>1, <2>2
<1>4. Directory(disk)' /\ Twin(tree)' /\ IsFiles(disk.files)' /\ IsFiles(tree.files)'
  BY <1>2, <1>3, NoFiles DEF Directory, Twin, IsFiles
<1>5. /\ cleaning' \in [pc : {"idle", "check", "remove", "manifest"}, archived : {cleaning'.archived}]
      /\ cleaning'.pc = "manifest"
  BY <1>1 DEF WorkspaceTypes
<1>6. WorkspaceTypes'
  BY <1>1, <1>2, <1>3, <1>4, <1>5 DEF WorkspaceTypes
<1>7. torn \subseteq torn' /\ Cut \subseteq torn'
  BY <1>1
<1>8. QED
  BY <1>1, <1>2, <1>3, <1>5, <1>6, <1>7

\* RemoveManifest forgets the manifest.
LEMMA RemoveManifestFacts ==
  ASSUME WorkspaceTypes, RemoveManifest
  PROVE  /\ WorkspaceTypes' /\ UNCHANGED <<tree, collection, run, mailing>>
         /\ cleaning.pc = "manifest" /\ cleaning'.pc = "idle"
         /\ disk'.files = disk.files /\ disk'.manifest = {}
         /\ torn \subseteq torn'
         /\ "files" \in torn' => "files" \in torn
         /\ "notes" \notin torn' => tree.manifest = {}
<1>1. /\ disk' = [disk EXCEPT !.manifest = {}]
      /\ torn' = torn \cup (IF tree.manifest = {} THEN {} ELSE {"notes"})
      /\ cleaning' = [cleaning EXCEPT !.pc = "idle"]
      /\ UNCHANGED <<tree, collection, run, mailing>> /\ cleaning.pc = "manifest"
  BY DEF RemoveManifest, Cleans
<1>2. /\ Directory(disk') /\ disk'.files = disk.files /\ disk'.manifest = {}
      /\ disk'.there = disk.there
  BY <1>1 DEF WorkspaceTypes, Directory
<1>3. Directory(disk)' /\ IsFiles(disk.files)'
  BY <1>2 DEF Directory, WorkspaceTypes, IsFiles
<1>4. /\ cleaning' \in [pc : {"idle", "check", "remove", "manifest"}, archived : {cleaning'.archived}]
      /\ cleaning'.pc = "idle"
  BY <1>1 DEF WorkspaceTypes
<1>5. disk'.files # <<>> => disk'.there
  BY <1>2 DEF WorkspaceTypes
<1>6. WorkspaceTypes'
  BY <1>1, <1>3, <1>4, <1>5 DEF WorkspaceTypes, Twin, IsFiles
<1>7. /\ torn \subseteq torn' /\ ("files" \in torn' => "files" \in torn)
      /\ "notes" \notin torn' => tree.manifest = {}
  BY <1>1
<1>8. QED
  BY <1>1, <1>2, <1>4, <1>6, <1>7

\* A crash keeps the disk and what is in it, and no call is in progress after it.
LEMMA CrashFacts ==
  ASSUME WorkspaceTypes, Crash
  PROVE  /\ WorkspaceTypes' /\ UNCHANGED <<disk, tree, collection>>
         /\ run'.pc = "idle" /\ ~run'.raced /\ cleaning'.pc = "idle"
         /\ torn \subseteq torn' /\ Cut \subseteq torn'
         /\ \A m \in Mails : ~Half(m)'
<1>1. /\ UNCHANGED <<disk, tree, collection>> /\ torn' = torn \cup Cut
      /\ run' = [Idle EXCEPT !.again = run.again \/ ~At("idle")]
      /\ mailing' = [m \in Mails |-> IF mailing[m] = "unsent" THEN "unsent" ELSE "laid"]
      /\ cleaning' = [pc |-> "idle", archived |-> {}]
  BY DEF Crash
<1>2. /\ run' \in [pc : Stages, notes : {run'.notes}, apps : {run'.apps}, skills : {run'.skills},
                   raced : BOOLEAN, again : BOOLEAN]
      /\ run'.notes = <<>> /\ run'.pc = "idle" /\ run'.raced = FALSE
  BY <1>1 DEF Idle, Stages
<1>3. IsFiles(run.notes)'
  BY <1>2, NoFiles DEF IsFiles
<1>4. cleaning' \in [pc : {"idle", "check", "remove", "manifest"}, archived : {cleaning'.archived}]
  BY <1>1
<1>5. mailing' \in [Mails -> {"unsent", "body", "attachment", "laid"}]
  BY <1>1
<1>6. Directory(disk)' /\ Twin(tree)' /\ IsFiles(disk.files)' /\ IsFiles(tree.files)'
  BY <1>1 DEF WorkspaceTypes, Directory, Twin, IsFiles
<1>7. WorkspaceTypes'
  BY <1>1, <1>2, <1>3, <1>4, <1>5, <1>6 DEF WorkspaceTypes
<1>8. \A m \in Mails : ~Half(m)'
  BY <1>1 DEF Half
<1>9. QED
  BY <1>1, <1>2, <1>7, <1>8

\* The steps by what they touch: what there is to provision, start-agent-run and
\* the agent, mail, archive-task and the crash.
Edits == \/ \E n \in Notes : Remember(n) \/ Forget(n)
         \/ \E a \in Apps : RegisterApp(a) \/ RetireApp(a)
         \/ \E s \in Skills : StoreSkill(s) \/ DropSkill(s)

\* Every step keeps the types.
LEMMA WorkspaceTypesNext == WorkspaceTypes /\ [WorkspaceNext]_workspaceVars => WorkspaceTypes'
<1> SUFFICES ASSUME WorkspaceTypes, [WorkspaceNext]_workspaceVars PROVE WorkspaceTypes'
  OBVIOUS
<1>1. CASE Edits
  <2>1. /\ UNCHANGED <<disk, tree, run, mailing, cleaning, torn>>
        /\ collection' \in [notes : {collection'.notes}, apps : {collection'.apps},
                            skills : {collection'.skills}]
        /\ IsFiles(collection'.notes)
    BY <1>1, EditFacts DEF Edits
  <2>2. /\ Directory(disk)' /\ Twin(tree)' /\ IsFiles(disk.files)' /\ IsFiles(tree.files)'
        /\ IsFiles(collection.notes)' /\ IsFiles(run.notes)'
    BY <2>1 DEF WorkspaceTypes, Directory, Twin, IsFiles
  <2>3. QED
    BY <2>1, <2>2 DEF WorkspaceTypes
<1>2. CASE \E n \in Notes : WriteNote(n) \/ DeleteNote(n)
  BY <1>2, WriteNoteFacts, DeleteNoteFacts
<1>3. CASE \E s \in Skills : WriteSkills(s)
  BY <1>3, WriteSkillsFacts
<1>4. CASE \E m \in Mails : LayIn(m) \/ WriteBody(m) \/ WriteAttachment(m)
  BY <1>4, LayInFacts, WriteBodyFacts, WriteAttachmentFacts
<1>5. CASE \/ StartRun \/ ReadSkills \/ SkillsWritten \/ PruneStaleMemory \/ WriteIndex
           \/ WriteManifest \/ ProvisionApps \/ Link \/ EmptyOut \/ WriteReply \/ EndRun
  BY <1>5, StartRunFacts, ReadSkillsFacts, SkillsWrittenFacts, PruneFacts, WriteIndexFacts,
     WriteManifestFacts, ProvisionAppsFacts, LinkFacts, EmptyOutFacts, WriteReplyFacts, EndRunFacts
<1>6. CASE Archive \/ CheckCovered \/ RemoveAll \/ RemoveManifest \/ Crash
  BY <1>6, ArchiveFacts, CheckCoveredFacts, RemoveAllFacts, RemoveManifestFacts, CrashFacts
<1>7. CASE UNCHANGED workspaceVars
  BY <1>7 DEF workspaceVars, WorkspaceTypes, Directory, Twin, IsFiles
<1>8. QED
  BY <1>1, <1>2, <1>3, <1>4, <1>5, <1>6, <1>7 DEF WorkspaceNext, Edits

-----------------------------------------------------------------------------
\* A run that archive-task did not get in the way of goes with an idle archive-task.
Unraced == run.pc # "idle" /\ ~run.raced => cleaning.pc = "idle"

\* Every step keeps Unraced.
LEMMA UnracedNext ==
  ASSUME WorkspaceTypes, Unraced, [WorkspaceNext]_workspaceVars
  PROVE  Unraced'
<1>1. CASE Edits
  BY <1>1, EditFacts DEF Edits, Unraced
<1>2. CASE \E n \in Notes : WriteNote(n) \/ DeleteNote(n)
  BY <1>2, WriteNoteFacts, DeleteNoteFacts DEF Unraced
<1>3. CASE \E s \in Skills : WriteSkills(s)
  BY <1>3, WriteSkillsFacts DEF Unraced
<1>4. CASE \E m \in Mails : LayIn(m) \/ WriteBody(m) \/ WriteAttachment(m)
  BY <1>4, LayInFacts, WriteBodyFacts, WriteAttachmentFacts DEF Unraced
<1>5. CASE SkillsWritten \/ WriteIndex \/ WriteManifest \/ ProvisionApps \/ EmptyOut \/ WriteReply
  BY <1>5, SkillsWrittenFacts, WriteIndexFacts, WriteManifestFacts, ProvisionAppsFacts,
     EmptyOutFacts, WriteReplyFacts DEF Unraced
<1>6. CASE StartRun \/ ReadSkills \/ EndRun \/ Crash
  BY <1>6, StartRunFacts, ReadSkillsFacts, EndRunFacts, CrashFacts DEF Unraced
<1>7. CASE PruneStaleMemory \/ Link
  BY <1>7, PruneFacts, LinkFacts DEF Unraced
<1>8. CASE Archive \/ CheckCovered \/ RemoveAll \/ RemoveManifest
  BY <1>8, ArchiveFacts, CheckCoveredFacts, RemoveAllFacts, RemoveManifestFacts DEF Unraced
<1>9. CASE UNCHANGED workspaceVars
  BY <1>9 DEF workspaceVars, Unraced
<1>10. QED
  BY <1>1, <1>2, <1>3, <1>4, <1>5, <1>6, <1>7, <1>8, <1>9 DEF WorkspaceNext, Edits

\* A skill on disk is a skill of the twin: only provisioning writes them.
SkillPath(p) == Box(p) = ".claude/skills"
SkillsHeld ==
  \A p \in DOMAIN disk.files : SkillPath(p) => p \in DOMAIN tree.files /\ tree.files[p] = disk.files[p]

\* It is kept by a step that leaves the skills of both homes alone.
LEMMA SkillsHeldFrame ==
  ASSUME SkillsHeld, NEW d, NEW t,
         \A p : SkillPath(p) => Alike(d, disk.files, p) /\ Alike(t, tree.files, p)
  PROVE  \A p \in DOMAIN d : SkillPath(p) => p \in DOMAIN t /\ t[p] = d[p]
BY DEF SkillsHeld, Alike

\* Which paths a write, or a delete of some, leaves alone.
LEMMA WithApart ==
  ASSUME NEW f, NEW p, NEW c
  PROVE  \A q : q # p => Alike(With(f, p, c), f, q)
BY AlikeElsewhere

\* Taking paths away changes nothing of the others.
LEMMA WithoutApart ==
  ASSUME NEW f, NEW paths
  PROVE  \A q : q \notin paths => Alike(Without(f, paths), f, q)
BY DEF Without, Alike

\* Files agree with themselves.
LEMMA AlikeSelf == \A f, q : Alike(f, f, q)
BY DEF Alike

\* Every step keeps SkillsHeld.
LEMMA SkillsHeldNext ==
  ASSUME WorkspaceTypes, SkillsHeld, [WorkspaceNext]_workspaceVars
  PROVE  SkillsHeld'
<1> DEFINE d == disk'.files
           t == tree'.files
           Frame == \A p : SkillPath(p) => Alike(d, disk.files, p) /\ Alike(t, tree.files, p)
<1>0. Frame => SkillsHeld'
  <2>1. Frame => \A p \in DOMAIN d : SkillPath(p) => p \in DOMAIN t /\ t[p] = d[p]
    BY SkillsHeldFrame
  <2>2. QED
    BY <2>1 DEF SkillsHeld
<1>s. d = disk.files /\ t = tree.files => Frame
  BY AlikeSelf
<1> HIDE DEF d, t
<1>1. CASE Edits
  BY <1>0, <1>s, <1>1, EditFacts DEF Edits, d, t
<1>2. ASSUME NEW n \in Notes, WriteNote(n) PROVE Frame
  <2>1. \A p : SkillPath(p) => p # NoteFile(n)
    BY Boxes DEF SkillPath
  <2>2. d = With(disk.files, NoteFile(n), NoteContent(run.notes, n)) /\ t = tree.files
    BY <1>2, WriteNoteFacts DEF d, t
  <2>3. QED
    BY <2>1, <2>2, WithApart, AlikeSelf
<1>3. ASSUME NEW n \in Notes, DeleteNote(n) PROVE Frame
  <2>1. \A p : SkillPath(p) => p \notin {NoteFile(n)}
    BY Boxes DEF SkillPath
  <2>2. d = Without(disk.files, {NoteFile(n)}) /\ t = Without(tree.files, {NoteFile(n)})
    BY <1>3, DeleteNoteFacts DEF d, t
  <2>3. QED
    BY <2>1, <2>2, WithoutApart
<1>4. ASSUME NEW s \in Skills, WriteSkills(s) PROVE SkillsHeld'
  <2>1. PICK c : /\ disk'.files = With(disk.files, SkillFile(s), c)
                 /\ tree'.files = With(tree.files, SkillFile(s), c)
    BY <1>4, WriteSkillsFacts
  <2>2. QED
    BY <2>1 DEF SkillsHeld, With
<1>5. ASSUME NEW m \in Mails, LayIn(m) PROVE Frame
  BY <1>5, <1>s, LayInFacts DEF d, t
<1>6. ASSUME NEW m \in Mails, WriteBody(m) PROVE Frame
  <2>1. \A p : SkillPath(p) => p # Body
    BY Boxes DEF SkillPath
  <2>2. d = With(disk.files, Body, MailContent(m)) /\ t = tree.files
    BY <1>6, WriteBodyFacts DEF d, t
  <2>3. QED
    BY <2>1, <2>2, WithApart, AlikeSelf
<1>7. ASSUME NEW m \in Mails, WriteAttachment(m) PROVE Frame
  <2>1. PICK p, c : /\ Box(p) = "in" /\ d = With(disk.files, p, c)
                    /\ t = With(With(tree.files, Body, c), p, c)
    BY <1>7, WriteAttachmentFacts, Boxes DEF d, t
  <2>2. \A q : Box(q) # "in" => q # p /\ q # Body
    BY <2>1, Boxes
  <2>3. \A q : Box(q) # "in" => Alike(d, disk.files, q) /\ Alike(t, tree.files, q)
    BY <2>1, <2>2 DEF Alike, With
  <2>4. QED
    BY <2>3 DEF SkillPath
<1>8. CASE \/ StartRun \/ ReadSkills \/ SkillsWritten \/ Link
           \/ Archive \/ CheckCovered \/ RemoveManifest \/ Crash
  BY <1>0, <1>s, <1>8, StartRunFacts, ReadSkillsFacts, SkillsWrittenFacts, LinkFacts, ArchiveFacts,
     CheckCoveredFacts, RemoveManifestFacts, CrashFacts DEF d, t
<1>9. ASSUME PruneStaleMemory PROVE Frame
  <2>1. PICK paths : (\A p \in paths : OfMemory(p)) /\ d = Without(disk.files, paths) /\ t = tree.files
    <3>1. t = tree.files
      BY <1>9, PruneFacts DEF t
    <3>2. CASE \E p : OfMemory(p) /\ d = Without(disk.files, {p})
      BY <3>1, <3>2
    <3>3. CASE d = Without(disk.files, IF run.notes = <<>> THEN {Index} ELSE {})
      <4>1. \A p \in (IF run.notes = <<>> THEN {Index} ELSE {}) : OfMemory(p)
        BY Boxes
      <4>2. QED
        BY <3>1, <3>3, <4>1
    <3>4. QED
      BY <1>9, <3>2, <3>3, PruneFacts DEF d
  <2>2. \A p : SkillPath(p) => ~OfMemory(p)
    BY Boxes DEF SkillPath, OfMemory
  <2>3. QED
    BY <2>1, <2>2, WithoutApart, AlikeSelf
<1>10. ASSUME WriteIndex PROVE Frame
  <2>1. \A p : SkillPath(p) => p # Index
    BY Boxes DEF SkillPath
  <2>2. QED
    BY <1>10, <2>1, WriteIndexFacts, WithApart, AlikeSelf DEF d, t
<1>11. ASSUME WriteManifest PROVE Frame
  <2>1. \A p : SkillPath(p) => ~OfMemory(p)
    BY Boxes DEF SkillPath, OfMemory
  <2>2. QED
    BY <1>11, <2>1, WriteManifestFacts, AlikeSelf DEF d, t
<1>12. ASSUME ProvisionApps PROVE Frame
  <2>1. \A p : SkillPath(p) => p # AppsIndex
    BY Boxes DEF SkillPath
  <2>2. QED
    BY <1>12, <2>1, ProvisionAppsFacts, WithApart, WithoutApart DEF d, t
<1>13. ASSUME EmptyOut PROVE Frame
  <2>1. \A p, f : SkillPath(p) => p \notin In(f, "out")
    BY DEF SkillPath, In
  <2>2. QED
    BY <1>13, <2>1, EmptyOutFacts, WithoutApart DEF d, t
<1>14. ASSUME WriteReply PROVE Frame
  <2>1. \A p : SkillPath(p) => p # Reply
    BY Boxes DEF SkillPath
  <2>2. QED
    BY <1>14, <2>1, WriteReplyFacts, WithApart DEF d, t
<1>15. ASSUME EndRun PROVE Frame
  <2>1. \A p : SkillPath(p) => p # <<"", spent.runs>>
    BY Boxes DEF SkillPath
  <2>2. QED
    BY <1>15, <2>1, EndRunFacts, WithApart DEF d, t
<1>16. CASE RemoveAll
  <2>1. \A p : p \notin DOMAIN disk'.files
    BY <1>16, RemoveAllFacts, NoFiles
  <2>2. QED
    BY <2>1 DEF SkillsHeld
<1>17. CASE UNCHANGED workspaceVars
  BY <1>17 DEF workspaceVars, SkillsHeld
<1>18. QED
  BY <1>0, <1>1, <1>2, <1>3, <1>4, <1>5, <1>6, <1>7, <1>8, <1>9, <1>10, <1>11, <1>12, <1>13,
     <1>14, <1>15, <1>16, <1>17 DEF WorkspaceNext, Edits

-----------------------------------------------------------------------------
(***************************************************************************)
(* What start-agent-run has done by each of its stages.                    *)
(***************************************************************************)
Pruned(f, notes) ==
  /\ \A p \in DOMAIN f : Box(p) = "in/memory" => \E n \in DOMAIN notes : p = NoteFile(n)
  /\ DOMAIN notes = {} => Index \notin DOMAIN f
Listed(f, apps) ==
  /\ AppsIndex \in DOMAIN f <=> apps # {}
  /\ apps # {} => f[AppsIndex] = AppsContent(apps)
Skilled(f, skills) ==
  \A s \in DOMAIN skills :
    SkillFile(s) \in DOMAIN f /\ f[SkillFile(s)] = <<"skill", s, skills[s]>>
Emptied(f) == \A p \in DOMAIN f : Box(p) # "out"

\* They depend on the paths that are theirs alone.
LEMMA MemoryFrame ==
  ASSUME NEW f, NEW g, NEW notes, \A p : OfMemory(p) => Alike(g, f, p)
  PROVE  /\ Pruned(f, notes) => Pruned(g, notes)
         /\ Memorised(f, notes) => Memorised(g, notes)
<1>1. \A p : Box(p) = "in/memory" => OfMemory(p)
  BY DEF OfMemory
<1>2. OfMemory(Index) /\ \A n : OfMemory(NoteFile(n))
  BY Boxes
<1>3. \A p \in DOMAIN g : Box(p) = "in/memory" => p \in DOMAIN f
  BY <1>1 DEF Alike
<1>4. Index \in DOMAIN g <=> Index \in DOMAIN f
  BY <1>2 DEF Alike
<1>5. Index \in DOMAIN f => g[Index] = f[Index]
  BY <1>2 DEF Alike
<1>6. \A n : NoteFile(n) \in DOMAIN f => NoteFile(n) \in DOMAIN g /\ g[NoteFile(n)] = f[NoteFile(n)]
  BY <1>2 DEF Alike
<1>7. Pruned(f, notes) => Pruned(g, notes)
  BY <1>3, <1>4 DEF Pruned
<1>8. Memorised(f, notes) => Memorised(g, notes)
  BY <1>3, <1>4, <1>5, <1>6 DEF Memorised
<1>9. QED
  BY <1>7, <1>8

\* The listing of apps depends on in/apps.json alone.
LEMMA ListedFrame ==
  ASSUME NEW f, NEW g, NEW apps, Alike(g, f, AppsIndex), Listed(f, apps)
  PROVE  Listed(g, apps)
BY DEF Listed, Alike

\* The skills laid in depend on the skills' paths alone.
LEMMA SkilledFrame ==
  ASSUME NEW f, NEW g, NEW skills, \A p : SkillPath(p) => Alike(g, f, p), Skilled(f, skills)
  PROVE  Skilled(g, skills)
<1>1. \A s : SkillPath(SkillFile(s))
  BY Boxes DEF SkillPath
<1>2. QED
  BY <1>1 DEF Skilled, Alike

\* That out/ is empty depends on its paths alone.
LEMMA EmptiedFrame ==
  ASSUME NEW f, NEW g, \A p : Box(p) = "out" => Alike(g, f, p), Emptied(f)
  PROVE  Emptied(g)
BY DEF Emptied, Alike

\* A provisioning whose work nobody has undone: archive-task did not begin, or has
\* removed nothing since the prune.
Kept == ~run.raced \/ (run.pc \in Middle /\ "notes" \notin torn)
Provisioned ==
  /\ run.pc = "notes" /\ Kept => Pruned(disk.files, run.notes)
  /\ run.pc \in {"manifest"} \cup After /\ Kept => Memorised(disk.files, run.notes)
  /\ run.pc \in After /\ ~run.raced =>
       /\ Memorised(tree.files, run.notes)
       /\ disk.manifest = DOMAIN run.notes /\ tree.manifest = DOMAIN run.notes
  /\ run.pc \in {"link", "out", "handed"} /\ ~run.raced =>
       Listed(disk.files, run.apps) /\ Listed(tree.files, run.apps)
  /\ run.pc \in {"out", "handed"} /\ ~run.raced => disk.link
  /\ run.pc \in Middle \cup After /\ ~run.raced => Skilled(disk.files, run.skills)
  /\ run.pc = "handed" /\ ~run.raced => Emptied(disk.files) /\ Emptied(tree.files)

\* The same of the next state, with the primes at the variables.
LEMMA ProvisionedPrime ==
  Provisioned' <=>
    /\ run'.pc = "notes" /\ Kept' => Pruned(disk'.files, run'.notes)
    /\ run'.pc \in {"manifest"} \cup After /\ Kept' => Memorised(disk'.files, run'.notes)
    /\ run'.pc \in After /\ ~run'.raced =>
         /\ Memorised(tree'.files, run'.notes)
         /\ disk'.manifest = DOMAIN run'.notes /\ tree'.manifest = DOMAIN run'.notes
    /\ run'.pc \in {"link", "out", "handed"} /\ ~run'.raced =>
         Listed(disk'.files, run'.apps) /\ Listed(tree'.files, run'.apps)
    /\ run'.pc \in {"out", "handed"} /\ ~run'.raced => disk'.link
    /\ run'.pc \in Middle \cup After /\ ~run'.raced => Skilled(disk'.files, run'.skills)
    /\ run'.pc = "handed" /\ ~run'.raced => Emptied(disk'.files) /\ Emptied(tree'.files)
BY DEF Provisioned, Pruned, Memorised, Listed, Skilled, Emptied

\* Every other step than those of start-agent-run leaves alone what it wrote.
Ours(p) == Box(p) # "in" \/ p = Index \/ p = AppsIndex

SameStage ==
  /\ run'.pc = run.pc /\ run'.notes = run.notes /\ run'.apps = run.apps
  /\ run'.skills = run.skills
  /\ run.raced => run'.raced
  /\ "notes" \in torn => "notes" \in torn'

\* A step within a stage that touches no path of the provisioning keeps Provisioned.
LEMMA ProvisionedFrame ==
  ASSUME Provisioned, SameStage,
         ~run'.raced => disk'.manifest = disk.manifest /\ tree'.manifest = tree.manifest
                        /\ disk'.link = disk.link,
         \A p : Ours(p) => Alike(disk'.files, disk.files, p) /\ Alike(tree'.files, tree.files, p)
  PROVE  Provisioned'
<1>1. Kept' => Kept
  BY DEF Kept, SameStage
<1>2. \A p : OfMemory(p) \/ SkillPath(p) \/ Box(p) = "out" \/ p = AppsIndex => Ours(p)
  BY Boxes DEF Ours, OfMemory, SkillPath
<1>3. /\ Pruned(disk.files, run.notes) => Pruned(disk'.files, run.notes)
      /\ Memorised(disk.files, run.notes) => Memorised(disk'.files, run.notes)
  BY <1>2, MemoryFrame
<1>4. Memorised(tree.files, run.notes) => Memorised(tree'.files, run.notes)
  BY <1>2, MemoryFrame
<1>5. /\ Listed(disk.files, run.apps) => Listed(disk'.files, run.apps)
      /\ Listed(tree.files, run.apps) => Listed(tree'.files, run.apps)
  BY <1>2, ListedFrame
<1>6. Skilled(disk.files, run.skills) => Skilled(disk'.files, run.skills)
  BY <1>2, SkilledFrame
<1>7. /\ Emptied(disk.files) => Emptied(disk'.files)
      /\ Emptied(tree.files) => Emptied(tree'.files)
  BY <1>2, EmptiedFrame
<1>8. QED
  BY <1>1, <1>3, <1>4, <1>5, <1>6, <1>7, ProvisionedPrime DEF Provisioned, SameStage

\* What of a provisioning another file does not touch.
LEMMA OthersKeep ==
  ASSUME NEW f, NEW g, NEW notes, NEW apps, NEW skills, NEW p,
         \A q : q # p => Alike(g, f, q)
  PROVE  /\ ~OfMemory(p) /\ Memorised(f, notes) => Memorised(g, notes)
         /\ p # AppsIndex /\ Listed(f, apps) => Listed(g, apps)
         /\ ~SkillPath(p) /\ Skilled(f, skills) => Skilled(g, skills)
         /\ Box(p) # "out" /\ Emptied(f) => Emptied(g)
<1>1. ~OfMemory(p) => \A q : OfMemory(q) => Alike(g, f, q)
  OBVIOUS
<1>2. ~SkillPath(p) => \A q : SkillPath(q) => Alike(g, f, q)
  OBVIOUS
<1>3. Box(p) # "out" => \A q : Box(q) = "out" => Alike(g, f, q)
  OBVIOUS
<1>4. QED
  BY <1>1, <1>2, <1>3, MemoryFrame, ListedFrame, SkilledFrame, EmptiedFrame

\* A step into a stage at which nothing is promised.
LEMMA NothingPromised ==
  ASSUME run'.pc \in {"idle", "launched", "skills", "works"}
  PROVE  Provisioned'
<1>1. run'.pc \notin Middle \cup After
  BY DEF Middle, After
<1>2. QED
  BY <1>1, ProvisionedPrime DEF Middle, After

PlainNames ==
  \A m \in Mails : Attached[m] \notin {"MEMORY.md", "apps.json"}

\* A mail laid in while a run is provisioned disturbs none of it.
LEMMA MailKeepsProvisioned ==
  ASSUME PlainNames, WorkspaceTypes, Provisioned, NEW m \in Mails,
         LayIn(m) \/ WriteBody(m) \/ WriteAttachment(m)
  PROVE  Provisioned'
<1> DEFINE Frame == \A p : Ours(p) => /\ Alike(disk'.files, disk.files, p)
                                     /\ Alike(tree'.files, tree.files, p)
<1>1. ~Ours(Body) /\ ~Ours(InFile(Attached[m]))
  <2>1. Attached[m] # "MEMORY.md" /\ Attached[m] # "apps.json"
    BY DEF PlainNames
  <2>2. /\ Box(Body) = "in" /\ Body # Index /\ Body # AppsIndex
        /\ Box(InFile(Attached[m])) = "in" /\ InFile(Attached[m]) # AppsIndex
        /\ ~OfMemory(InFile(Attached[m]))
    BY <2>1, Boxes
  <2>3. QED
    BY <2>2 DEF Ours, OfMemory
<1>2. \A p : Ours(p) => p # Body /\ p # InFile(Attached[m])
  BY <1>1
<1>3. /\ run' = run /\ disk'.manifest = disk.manifest /\ tree'.manifest = tree.manifest
      /\ disk'.link = disk.link /\ ("notes" \in torn => "notes" \in torn')
  <2>1. CASE LayIn(m)
    BY <2>1, LayInFacts
  <2>2. CASE WriteBody(m)
    BY <2>2, WriteBodyFacts
  <2>3. CASE WriteAttachment(m)
    BY <2>3, WriteAttachmentFacts
  <2>4. QED
    BY <2>1, <2>2, <2>3
<1>4. CASE LayIn(m)
  <2>1. Frame
    BY <1>4, LayInFacts, AlikeSelf
  <2>2. QED
    BY <1>3, <2>1, ProvisionedFrame DEF SameStage
<1>5. CASE WriteBody(m)
  <2>1. disk'.files = With(disk.files, Body, MailContent(m)) /\ tree'.files = tree.files
    BY <1>5, WriteBodyFacts
  <2>2. Frame
    BY <1>2, <2>1, WithApart, AlikeSelf
  <2>3. QED
    BY <1>3, <2>2, ProvisionedFrame DEF SameStage
<1>6. CASE WriteAttachment(m)
  <2>1. PICK p, c : /\ p = InFile(Attached[m]) /\ disk'.files = With(disk.files, p, c)
                    /\ tree'.files = With(With(tree.files, Body, c), p, c)
    BY <1>6, WriteAttachmentFacts
  <2>2. \A q : Ours(q) => q # Body /\ q # p
    BY <1>2, <2>1
  <2>3. Frame
    BY <2>1, <2>2 DEF With, Alike
  <2>4. QED
    BY <1>3, <2>3, ProvisionedFrame DEF SameStage
<1>7. QED
  BY <1>4, <1>5, <1>6

\* archive-task disturbs only a run it has raced with.
LEMMA ArchiveKeepsProvisioned ==
  ASSUME WorkspaceTypes, Unraced, Provisioned,
         Archive \/ CheckCovered \/ RemoveAll \/ RemoveManifest
  PROVE  Provisioned'
<1>1. CASE Archive
  <2>1. CASE run.pc = "idle"
    BY <1>1, <2>1, ArchiveFacts, NothingPromised
  <2>2. CASE run.pc # "idle"
    <3>1. run'.raced
      BY <1>1, <2>2, ArchiveFacts
    <3>2. SameStage
      BY <1>1, <3>1, ArchiveFacts DEF SameStage
    <3>3. QED
      BY <1>1, <3>1, <3>2, ArchiveFacts, AlikeSelf, ProvisionedFrame
  <2>3. QED
    BY <2>1, <2>2
<1>2. CASE CheckCovered
  BY <1>2, CheckCoveredFacts, AlikeSelf, ProvisionedFrame DEF SameStage
<1>3. CASE RemoveAll
  <2>1. run' = run /\ (run.pc = "idle" \/ run.raced) /\ Cut \subseteq torn'
    BY <1>3, RemoveAllFacts DEF Unraced
  <2>2. run.pc \in Middle => "notes" \in torn'
    BY <2>1 DEF Middle, Cut
  <2>3. run.pc \in Middle \cup After => run.raced
    BY <2>1 DEF Middle, After
  <2>4. run.pc \in Middle \cup After => ~Kept'
    BY <2>1, <2>2, <2>3 DEF Kept, Middle, After
  <2>5. QED
    BY <2>1, <2>3, <2>4, ProvisionedPrime DEF Middle, After
<1>4. CASE RemoveManifest
  <2>1. run' = run /\ (run.pc = "idle" \/ run.raced) /\ disk'.files = disk.files /\ tree' = tree
        /\ torn \subseteq torn'
    BY <1>4, RemoveManifestFacts DEF Unraced
  <2>2. CASE run.pc = "idle"
    BY <2>1, <2>2, NothingPromised
  <2>3. CASE run.raced
    BY <2>1, <2>3, AlikeSelf, ProvisionedFrame DEF SameStage
  <2>4. QED
    BY <2>1, <2>2, <2>3
<1>5. QED
  BY <1>1, <1>2, <1>3, <1>4

\* The stage after the skills finds them all written.
LEMMA SkillsAreWritten ==
  ASSUME WorkspaceTypes, SkillsWritten
  PROVE  Provisioned'
<1>1. /\ disk' = disk /\ run'.pc = "prune" /\ run'.skills = run.skills /\ Lacking = {}
  BY SkillsWrittenFacts
<1>2. Skilled(disk.files, run.skills)
  BY <1>1 DEF Lacking, Skilled
<1>3. QED
  BY <1>1, <1>2, ProvisionedPrime DEF Middle, After

\* Pruning leaves no note in memory but those of the manifest's that remain.
LEMMA NotesArePruned ==
  ASSUME WorkspaceTypes, Provisioned, PruneStaleMemory
  PROVE  Provisioned'
<1>1. /\ run.pc = "prune" /\ run'.notes = run.notes /\ run'.skills = run.skills
      /\ run'.raced = run.raced /\ torn' = torn
  BY PruneFacts
<1>2. ~run.raced => Skilled(disk.files, run.skills)
  BY <1>1 DEF Provisioned, Middle
<1>3. \A paths : (\A p \in paths : OfMemory(p)) /\ ~run.raced =>
        Skilled(Without(disk.files, paths), run.skills)
  <2>1. SUFFICES ASSUME NEW paths, \A p \in paths : OfMemory(p), ~run.raced
                 PROVE  Skilled(Without(disk.files, paths), run.skills)
    OBVIOUS
  <2>2. \A p : SkillPath(p) => p \notin paths
    BY <2>1, Boxes DEF SkillPath, OfMemory
  <2>3. \A p : SkillPath(p) => Alike(Without(disk.files, paths), disk.files, p)
    BY <2>2, WithoutApart
  <2>4. QED
    BY <1>2, <2>1, <2>3, SkilledFrame
<1>4. CASE run' = run /\ \E p : OfMemory(p) /\ disk'.files = Without(disk.files, {p})
  <2>1. PICK p : OfMemory(p) /\ disk'.files = Without(disk.files, {p})
    BY <1>4
  <2>2. \A q \in {p} : OfMemory(q)
    BY <2>1
  <2>3. ~run.raced => Skilled(Without(disk.files, {p}), run.skills)
    BY <1>3, <2>2
  <2>4. ~run.raced => Skilled(disk'.files, run.skills)
    BY <2>1, <2>3
  <2>5. QED
    BY <1>1, <1>4, <2>4, ProvisionedPrime DEF Middle, After
<1>5. CASE /\ run'.pc = "notes" /\ Stale(disk.files, run.notes) = {}
           /\ disk'.files = Without(disk.files, IF run.notes = <<>> THEN {Index} ELSE {})
  <2> DEFINE paths == IF run.notes = <<>> THEN {Index} ELSE {}
  <2>1. \A q \in paths : OfMemory(q)
    BY Boxes
  <2>2. run.notes = <<>> <=> DOMAIN run.notes = {}
    BY EmptyFiles DEF WorkspaceTypes
  <2>3. DOMAIN run.notes = {} => Index \in paths
    BY <2>2
  <2>4. disk'.files = Without(disk.files, paths)
    BY <1>5
  <2> HIDE DEF paths
  <2>5. Skilled(disk'.files, run.skills) \/ run.raced
    BY <1>3, <2>1, <2>4
  <2>6. \A p \in DOMAIN disk'.files : p \in DOMAIN disk.files /\ p \notin paths
    BY <2>4 DEF Without
  <2>7. \A p \in DOMAIN disk.files :
          Box(p) = "in/memory" => \E n \in DOMAIN run.notes : p = NoteFile(n)
    BY <1>5 DEF Stale, In
  <2>8. Pruned(disk'.files, run.notes)
    BY <2>3, <2>6, <2>7 DEF Pruned
  <2>9. QED
    BY <1>1, <1>5, <2>5, <2>8, ProvisionedPrime DEF Middle, After
<1>6. QED
  BY <1>4, <1>5, PruneFacts

\* A note written keeps the notes already written.
LEMMA NoteIsWritten ==
  ASSUME WorkspaceTypes, Provisioned, NEW n, WriteNote(n)
  PROVE  Provisioned'
<1>1. /\ run.pc = "notes" /\ run' = run /\ torn' = torn /\ n \in DOMAIN run.notes
      /\ disk'.files = With(disk.files, NoteFile(n), NoteContent(run.notes, n))
  BY WriteNoteFacts
<1>2. Kept' = Kept
  BY <1>1 DEF Kept
<1>3. Kept => Pruned(disk'.files, run.notes)
  <2>1. DOMAIN disk'.files = DOMAIN disk.files \cup {NoteFile(n)}
    BY <1>1 DEF With
  <2>2. Index # NoteFile(n)
    BY Boxes
  <2>3. Kept => Pruned(disk.files, run.notes)
    BY <1>1 DEF Provisioned
  <2>4. QED
    BY <1>1, <2>1, <2>2, <2>3 DEF Pruned
<1>4. ~run.raced => Skilled(disk'.files, run.skills)
  <2>1. ~run.raced => Skilled(disk.files, run.skills)
    BY <1>1 DEF Provisioned, Middle
  <2>2. ~SkillPath(NoteFile(n))
    BY Boxes DEF SkillPath
  <2>3. \A q : q # NoteFile(n) => Alike(disk'.files, disk.files, q)
    BY <1>1, WithApart
  <2>4. QED
    BY <2>1, <2>2, <2>3, OthersKeep
<1>5. QED
  BY <1>1, <1>2, <1>3, <1>4, ProvisionedPrime DEF Middle, After

\* With the index written the memory on disk is what the notes say.
LEMMA IndexIsWritten ==
  ASSUME WorkspaceTypes, Provisioned, WriteIndex
  PROVE  Provisioned'
<1>1. /\ run.pc = "notes" /\ run'.pc = "manifest" /\ Unwritten = {} /\ torn' = torn
      /\ run'.notes = run.notes /\ run'.skills = run.skills /\ run'.raced = run.raced
      /\ run.notes = <<>> => disk'.files = disk.files
      /\ run.notes # <<>> => disk'.files = With(disk.files, Index, IndexContent(run.notes))
  BY WriteIndexFacts
<1>2. Kept' => Kept
  BY <1>1 DEF Kept, Middle
<1>3. \A q : q # Index => Alike(disk'.files, disk.files, q)
  BY <1>1, WithApart, AlikeSelf
<1>4. ~run.raced => Skilled(disk'.files, run.skills)
  <2>1. ~run.raced => Skilled(disk.files, run.skills)
    BY <1>1 DEF Provisioned, Middle
  <2>2. ~SkillPath(Index)
    BY Boxes DEF SkillPath
  <2>3. QED
    BY <1>3, <2>1, <2>2, OthersKeep
<1>5. Kept => Memorised(disk'.files, run.notes)
  <2>1. Kept => Pruned(disk.files, run.notes)
    BY <1>1 DEF Provisioned
  <2>2. run.notes = <<>> <=> DOMAIN run.notes = {}
    BY EmptyFiles DEF WorkspaceTypes
  <2>3. \A n \in DOMAIN run.notes :
          NoteFile(n) \in DOMAIN disk.files /\ disk.files[NoteFile(n)] = NoteContent(run.notes, n)
    BY <1>1 DEF Unwritten
  <2>4. CASE run.notes = <<>>
    BY <1>1, <2>1, <2>2, <2>3, <2>4 DEF Pruned, Memorised
  <2>5. CASE run.notes # <<>>
    <3>1. /\ DOMAIN disk'.files = DOMAIN disk.files \cup {Index}
          /\ disk'.files[Index] = IndexContent(run.notes)
          /\ \A q \in DOMAIN disk.files : q # Index => disk'.files[q] = disk.files[q]
      BY <1>1, <2>5 DEF With
    <3>2. /\ Box(Index) # "in/memory" /\ \A n : NoteFile(n) # Index
      BY Boxes
    <3>3. \A p \in DOMAIN disk'.files : Box(p) = "in/memory" => p \in DOMAIN disk.files
      BY <3>1, <3>2
    <3>4. \A n \in DOMAIN run.notes :
            NoteFile(n) \in DOMAIN disk'.files /\ disk'.files[NoteFile(n)] = NoteContent(run.notes, n)
      BY <2>3, <3>1, <3>2
    <3>5. QED
      BY <2>1, <2>2, <2>5, <3>1, <3>3, <3>4 DEF Pruned, Memorised
  <2>6. QED
    BY <2>4, <2>5
<1>6. QED
  BY <1>1, <1>2, <1>4, <1>5, ProvisionedPrime DEF Middle, After

\* With the manifest written the memory is exact in both homes.
LEMMA ManifestIsWritten ==
  ASSUME WorkspaceTypes, Provisioned, WriteManifest
  PROVE  Provisioned'
<1>1. /\ run.pc = "manifest" /\ run'.pc = "apps" /\ run'.notes = run.notes
      /\ run'.skills = run.skills /\ run'.raced = run.raced
      /\ disk'.files = disk.files /\ Memorised(tree'.files, run.notes)
      /\ disk'.manifest = DOMAIN run.notes /\ tree'.manifest = DOMAIN run.notes
  BY WriteManifestFacts
<1>2. Kept' => ~run.raced
  BY <1>1 DEF Kept, Middle
<1>3. ~run.raced => Memorised(disk.files, run.notes) /\ Skilled(disk.files, run.skills)
  BY <1>1 DEF Provisioned, Kept, Middle
<1>4. QED
  BY <1>1, <1>2, <1>3, ProvisionedPrime DEF Middle, After

\* The apps' stage leaves the listing exact in both homes.
LEMMA AppsAreListed ==
  ASSUME WorkspaceTypes, Provisioned, ProvisionApps
  PROVE  Provisioned'
<1>1. /\ run.pc = "apps" /\ run'.pc = "link" /\ run'.notes = run.notes /\ run'.apps = run.apps
      /\ run'.skills = run.skills /\ run'.raced = run.raced
      /\ disk'.manifest = disk.manifest /\ tree'.manifest = tree.manifest
  BY ProvisionAppsFacts
<1>2. Kept' => ~run.raced
  BY <1>1 DEF Kept, Middle
<1>3. /\ \A q : q # AppsIndex => Alike(disk'.files, disk.files, q)
      /\ \A q : q # AppsIndex => Alike(tree'.files, tree.files, q)
  <2>1. CASE run.apps = {}
    BY <2>1, ProvisionAppsFacts, WithoutApart
  <2>2. CASE run.apps # {}
    BY <2>2, ProvisionAppsFacts, WithApart
  <2>3. QED
    BY <2>1, <2>2
<1>4. Listed(disk'.files, run.apps) /\ Listed(tree'.files, run.apps)
  <2>1. CASE run.apps = {}
    BY <2>1, ProvisionAppsFacts DEF Without, Listed
  <2>2. CASE run.apps # {}
    BY <2>2, ProvisionAppsFacts DEF With, Listed
  <2>3. QED
    BY <2>1, <2>2
<1>5. ~OfMemory(AppsIndex) /\ ~SkillPath(AppsIndex)
  BY Boxes DEF SkillPath
<1>6. ~run.raced => /\ Memorised(disk.files, run.notes) /\ Memorised(tree.files, run.notes)
                    /\ Skilled(disk.files, run.skills)
                    /\ disk.manifest = DOMAIN run.notes /\ tree.manifest = DOMAIN run.notes
  BY <1>1 DEF Provisioned, Kept, After
<1>7. ~run.raced => Memorised(disk'.files, run.notes) /\ Skilled(disk'.files, run.skills)
  BY <1>3, <1>5, <1>6, OthersKeep
<1>8. ~run.raced => Memorised(tree'.files, run.notes)
  BY <1>3, <1>5, <1>6, OthersKeep
<1>9. QED
  BY <1>1, <1>2, <1>4, <1>6, <1>7, <1>8, ProvisionedPrime DEF Middle, After

\* The link's stage leaves the content store linked.
LEMMA StoreIsLinked ==
  ASSUME WorkspaceTypes, Provisioned, Link
  PROVE  Provisioned'
<1>1. /\ run.pc = "link" /\ disk'.files = disk.files /\ tree' = tree
      /\ disk'.manifest = disk.manifest /\ torn' = torn
      /\ \/ run' = run
         \/ /\ run'.pc = "out" /\ disk'.link
            /\ run'.notes = run.notes /\ run'.apps = run.apps /\ run'.skills = run.skills
            /\ run'.raced = run.raced
  BY LinkFacts
<1>2. run'.notes = run.notes /\ run'.apps = run.apps /\ run'.skills = run.skills
      /\ run'.raced = run.raced
  BY <1>1
<1>3. Kept' => ~run.raced
  BY <1>1 DEF Kept, Middle
<1>4. ~run.raced => /\ Memorised(disk.files, run.notes) /\ Memorised(tree.files, run.notes)
                    /\ Skilled(disk.files, run.skills)
                    /\ Listed(disk.files, run.apps) /\ Listed(tree.files, run.apps)
                    /\ disk.manifest = DOMAIN run.notes /\ tree.manifest = DOMAIN run.notes
  BY <1>1 DEF Provisioned, Kept, After
<1>5. run'.pc \in {"out", "handed"} => disk'.link
  BY <1>1
<1>6. run'.pc # "handed" /\ run'.pc # "notes"
  BY <1>1
<1>7. QED
  BY <1>1, <1>2, <1>3, <1>4, <1>5, <1>6, ProvisionedPrime

\* The last stage leaves out/ empty, and the run is handed the directory.
LEMMA OutIsEmptied ==
  ASSUME WorkspaceTypes, Provisioned, EmptyOut
  PROVE  Provisioned'
<1>1. /\ run.pc = "out" /\ run'.pc = "handed" /\ run'.notes = run.notes /\ run'.apps = run.apps
      /\ run'.skills = run.skills /\ run'.raced = run.raced
      /\ disk'.files = Without(disk.files, In(disk.files, "out"))
      /\ tree'.files = Without(tree.files, In(tree.files, "out"))
      /\ disk'.manifest = disk.manifest /\ tree'.manifest = tree.manifest
      /\ disk'.link = disk.link
  BY EmptyOutFacts
<1>2. Kept' => ~run.raced
  BY <1>1 DEF Kept, Middle
<1>3. /\ \A q : Box(q) # "out" => Alike(disk'.files, disk.files, q)
      /\ \A q : Box(q) # "out" => Alike(tree'.files, tree.files, q)
  <2>1. \A f, q : Box(q) # "out" => q \notin In(f, "out")
    BY DEF In
  <2>2. QED
    BY <1>1, <2>1, WithoutApart
<1>4. Emptied(disk'.files) /\ Emptied(tree'.files)
  BY <1>1 DEF Emptied, Without, In
<1>5. ~run.raced => /\ Memorised(disk.files, run.notes) /\ Memorised(tree.files, run.notes)
                    /\ Skilled(disk.files, run.skills) /\ disk.link
                    /\ Listed(disk.files, run.apps) /\ Listed(tree.files, run.apps)
                    /\ disk.manifest = DOMAIN run.notes /\ tree.manifest = DOMAIN run.notes
  BY <1>1 DEF Provisioned, Kept, After
<1>6. /\ \A q : OfMemory(q) => Box(q) # "out"
      /\ \A q : SkillPath(q) => Box(q) # "out"
      /\ Box(AppsIndex) # "out"
  BY Boxes DEF OfMemory, SkillPath
<1>7. ~run.raced => /\ Memorised(disk'.files, run.notes) /\ Skilled(disk'.files, run.skills)
                    /\ Listed(disk'.files, run.apps)
  BY <1>3, <1>5, <1>6, MemoryFrame, SkilledFrame, ListedFrame
<1>8. ~run.raced => Memorised(tree'.files, run.notes) /\ Listed(tree'.files, run.apps)
  BY <1>3, <1>5, <1>6, MemoryFrame, ListedFrame
<1>9. QED
  BY <1>1, <1>2, <1>4, <1>5, <1>7, <1>8, ProvisionedPrime DEF Middle, After

\* Every step keeps Provisioned.
LEMMA ProvisionedNext ==
  ASSUME PlainNames, WorkspaceTypes, Unraced, Provisioned, [WorkspaceNext]_workspaceVars
  PROVE  Provisioned'
<1>1. CASE Edits \/ UNCHANGED workspaceVars
  <2>1. disk' = disk /\ tree' = tree /\ run' = run /\ torn' = torn
    BY <1>1, EditFacts DEF Edits, workspaceVars
  <2>2. QED
    BY <2>1, AlikeSelf, ProvisionedFrame DEF SameStage
<1>2. CASE \E n \in Notes : WriteNote(n)
  BY <1>2, NoteIsWritten
<1>3. CASE \E n \in Notes : DeleteNote(n)
  BY <1>3, DeleteNoteFacts, NothingPromised
<1>4. CASE \E s \in Skills : WriteSkills(s)
  BY <1>4, WriteSkillsFacts, NothingPromised
<1>5. CASE \E m \in Mails : LayIn(m) \/ WriteBody(m) \/ WriteAttachment(m)
  BY <1>5, MailKeepsProvisioned
<1>6. CASE StartRun \/ ReadSkills \/ WriteReply \/ EndRun \/ Crash
  BY <1>6, StartRunFacts, ReadSkillsFacts, WriteReplyFacts, EndRunFacts, CrashFacts, NothingPromised
<1>7. CASE \/ SkillsWritten \/ PruneStaleMemory \/ WriteIndex \/ WriteManifest
           \/ ProvisionApps \/ Link \/ EmptyOut
  BY <1>7, SkillsAreWritten, NotesArePruned, IndexIsWritten, ManifestIsWritten,
     AppsAreListed, StoreIsLinked, OutIsEmptied
<1>8. CASE Archive \/ CheckCovered \/ RemoveAll \/ RemoveManifest
  BY <1>8, ArchiveKeepsProvisioned
<1>9. QED
  BY <1>1, <1>2, <1>3, <1>4, <1>5, <1>6, <1>7, <1>8 DEF WorkspaceNext, Edits

-----------------------------------------------------------------------------
(***************************************************************************)
(* The two homes of a workspace.                                           *)
(***************************************************************************)
\* What is not a note or the index of notes is in both alike, but for the body of
\* a mail that is half laid in; of that the directory has the one mail's.
Paired ==
  "files" \notin torn =>
    /\ \A p : ~OfMemory(p) =>
         \/ Alike(disk.files, tree.files, p)
         \/ p = Body /\ \E m \in Mails : Half(m)
    /\ \A m \in Mails : Half(m) =>
         Body \in DOMAIN disk.files /\ disk.files[Body] = MailContent(m)

\* Paired in the next state, with its primes written out.
LEMMA PairedPrime ==
  Paired' <=>
    ("files" \notin torn' =>
       /\ \A p : ~OfMemory(p) =>
            \/ Alike(disk'.files, tree'.files, p)
            \/ p = Body /\ \E m \in Mails : Half(m)'
       /\ \A m \in Mails : Half(m)' =>
            Body \in DOMAIN disk'.files /\ disk'.files[Body] = MailContent(m))
BY DEF Paired, Alike, OfMemory, Body, MailContent, InFile, Index, Box

\* A step that changes both homes alike keeps Paired.
LEMMA PairedFrame ==
  ASSUME Paired, "files" \in torn => "files" \in torn',
         \A m \in Mails : Half(m)' <=> Half(m),
         \A p : ~OfMemory(p) /\ Alike(disk.files, tree.files, p) =>
                  Alike(disk'.files, tree'.files, p),
         Alike(disk'.files, disk.files, Body)
  PROVE  Paired'
<1>1. SUFFICES ASSUME "files" \notin torn'
               PROVE  /\ \A p : ~OfMemory(p) =>
                           \/ Alike(disk'.files, tree'.files, p)
                           \/ p = Body /\ \E m \in Mails : Half(m)'
                      /\ \A m \in Mails : Half(m)' =>
                           Body \in DOMAIN disk'.files /\ disk'.files[Body] = MailContent(m)
  BY PairedPrime
<1>2. /\ \A p : ~OfMemory(p) =>
           \/ Alike(disk.files, tree.files, p)
           \/ p = Body /\ \E m \in Mails : Half(m)
      /\ \A m \in Mails : Half(m) =>
           Body \in DOMAIN disk.files /\ disk.files[Body] = MailContent(m)
  BY <1>1 DEF Paired
<1>3. Body \in DOMAIN disk.files => Body \in DOMAIN disk'.files /\ disk'.files[Body] = disk.files[Body]
  BY DEF Alike
<1>4. QED
  BY <1>2, <1>3

\* A file of either home is what it was when the homes are changed alike.
LEMMA AlikeCarried ==
  ASSUME NEW f, NEW g, NEW d, NEW t, NEW p, Alike(d, f, p), Alike(t, g, p), Alike(f, g, p)
  PROVE  Alike(d, t, p)
BY DEF Alike

\* Homes that agree on a path agree on it once out/ is emptied in both.
LEMMA AlikeEmptied ==
  ASSUME NEW f, NEW g, NEW p, Alike(f, g, p)
  PROVE  Alike(Without(f, In(f, "out")), Without(g, In(g, "out")), p)
BY DEF Alike, Without, In

\* Every step keeps Paired.
LEMMA PairedNext ==
  ASSUME WorkspaceTypes, Paired, [WorkspaceNext]_workspaceVars
  PROVE  Paired'
<1> DEFINE d == disk'.files
           t == tree'.files
           Carried == /\ \A p : ~OfMemory(p) /\ Alike(disk.files, tree.files, p) => Alike(d, t, p)
                      /\ Alike(d, disk.files, Body)
<1>0. /\ mailing' = mailing => \A m \in Mails : Half(m)' <=> Half(m)
      /\ ~OfMemory(Body)
  BY Boxes DEF Half
<1>f. ASSUME Carried, "files" \in torn => "files" \in torn', mailing' = mailing PROVE Paired'
  BY <1>0, <1>f, PairedFrame
<1>s. d = disk.files /\ t = tree.files => Carried
  BY AlikeSelf
<1>w. \A p, c : d = With(disk.files, p, c) /\ t = With(tree.files, p, c) /\ p # Body => Carried
  BY AlikeWith, WithApart
<1>a. (\A p : ~OfMemory(p) => Alike(d, disk.files, p) /\ Alike(t, tree.files, p)) => Carried
  BY <1>0, AlikeCarried
<1> HIDE DEF d, t
<1>1. CASE Edits \/ UNCHANGED workspaceVars
  <2>1. disk' = disk /\ tree' = tree /\ torn' = torn /\ mailing' = mailing
    BY <1>1, EditFacts DEF Edits, workspaceVars
  <2>2. QED
    BY <1>f, <1>s, <2>1 DEF d, t
<1>2. ASSUME NEW n \in Notes, WriteNote(n) PROVE Paired'
  <2>1. d = With(disk.files, NoteFile(n), NoteContent(run.notes, n)) /\ t = tree.files
    BY <1>2, WriteNoteFacts DEF d, t
  <2>2. \A p : ~OfMemory(p) => p # NoteFile(n)
    BY Boxes
  <2>3. \A p : ~OfMemory(p) => Alike(d, disk.files, p) /\ Alike(t, tree.files, p)
    BY <2>1, <2>2, WithApart, AlikeSelf
  <2>4. QED
    BY <1>2, <1>a, <1>f, <2>3, WriteNoteFacts
<1>3. ASSUME NEW n \in Notes, DeleteNote(n) PROVE Paired'
  <2>1. d = Without(disk.files, {NoteFile(n)}) /\ t = Without(tree.files, {NoteFile(n)})
    BY <1>3, DeleteNoteFacts DEF d, t
  <2>2. \A p : ~OfMemory(p) => p \notin {NoteFile(n)}
    BY Boxes
  <2>3. \A p : ~OfMemory(p) => Alike(d, disk.files, p) /\ Alike(t, tree.files, p)
    BY <2>1, <2>2, WithoutApart
  <2>4. QED
    BY <1>3, <1>a, <1>f, <2>3, DeleteNoteFacts
<1>4. ASSUME NEW s \in Skills, WriteSkills(s) PROVE Paired'
  <2>1. PICK c : d = With(disk.files, SkillFile(s), c) /\ t = With(tree.files, SkillFile(s), c)
    BY <1>4, WriteSkillsFacts DEF d, t
  <2>2. SkillFile(s) # Body
    BY Boxes
  <2>3. QED
    BY <1>4, <1>f, <1>w, <2>1, <2>2, WriteSkillsFacts
<1>5. ASSUME NEW m \in Mails, LayIn(m) PROVE Paired'
  <2>1. d = disk.files /\ t = tree.files /\ torn' = torn /\ \A k \in Mails : Half(k)' <=> Half(k)
    BY <1>5, LayInFacts DEF d, t
  <2>2. Carried
    BY <1>s, <2>1
  <2>3. QED
    BY <2>1, <2>2, PairedFrame DEF d, t
<1>6. ASSUME NEW m \in Mails, WriteBody(m) PROVE Paired'
  <2>1. SUFFICES ASSUME "files" \notin torn'
                 PROVE  /\ \A p : ~OfMemory(p) =>
                             \/ Alike(disk'.files, tree'.files, p)
                             \/ p = Body /\ \E k \in Mails : Half(k)'
                        /\ \A k \in Mails : Half(k)' =>
                             Body \in DOMAIN disk'.files /\ disk'.files[Body] = MailContent(k)
    BY PairedPrime
  <2>2. /\ disk'.files = With(disk.files, Body, MailContent(m)) /\ tree'.files = tree.files
        /\ \A k \in Mails : Half(k)' <=> k = m \/ Half(k)
        /\ \A k \in Mails \ {m} : ~Half(k)
        /\ "files" \notin torn
    BY <1>6, <2>1, WriteBodyFacts
  <2>3. \A p : ~OfMemory(p) /\ p # Body => Alike(disk.files, tree.files, p)
    BY <2>2 DEF Paired
  <2>4. \A p : ~OfMemory(p) /\ p # Body => Alike(disk'.files, tree'.files, p)
    BY <2>2, <2>3, WithApart, AlikeSelf, AlikeCarried
  <2>5. Body \in DOMAIN disk'.files /\ disk'.files[Body] = MailContent(m)
    BY <2>2 DEF With
  <2>6. \A k \in Mails : Half(k)' <=> k = m
    BY <2>2
  <2>7. QED
    BY <2>4, <2>5, <2>6
<1>7. ASSUME NEW m \in Mails, WriteAttachment(m) PROVE Paired'
  <2>1. SUFFICES ASSUME "files" \notin torn'
                 PROVE  /\ \A p : ~OfMemory(p) => Alike(disk'.files, tree'.files, p)
                        /\ \A k \in Mails : ~Half(k)'
    BY PairedPrime
  <2>2. PICK q : /\ disk'.files = With(disk.files, q, MailContent(m))
                 /\ tree'.files = With(With(tree.files, Body, MailContent(m)), q, MailContent(m))
    BY <1>7, WriteAttachmentFacts
  <2>3. /\ \A k \in Mails : Half(k)' <=> k # m /\ Half(k)
        /\ \A k \in Mails \ {m} : ~Half(k)
        /\ "files" \notin torn /\ Half(m)
    BY <1>7, <2>1, WriteAttachmentFacts
  <2>4. /\ \A p : ~OfMemory(p) /\ p # Body => Alike(disk.files, tree.files, p)
        /\ Body \in DOMAIN disk.files /\ disk.files[Body] = MailContent(m)
    BY <2>3 DEF Paired
  <2>5. ASSUME NEW p, ~OfMemory(p) PROVE Alike(disk'.files, tree'.files, p)
    <3>1. CASE p = q
      BY <2>2, <3>1 DEF Alike, With
    <3>2. CASE p # q /\ p = Body
      BY <2>2, <2>4, <3>2 DEF Alike, With
    <3>3. CASE p # q /\ p # Body
      <4>1. Alike(disk.files, tree.files, p)
        BY <2>4, <2>5, <3>3
      <4>2. QED
        BY <2>2, <3>3, <4>1 DEF Alike, With
    <3>4. QED
      BY <3>1, <3>2, <3>3
  <2>6. QED
    BY <2>3, <2>5
<1>8. CASE StartRun \/ ReadSkills \/ SkillsWritten \/ Link \/ CheckCovered \/ Archive \/ RemoveManifest
  <2>1. /\ d = disk.files /\ t = tree.files /\ mailing' = mailing
        /\ "files" \in torn => "files" \in torn'
    <3>1. CASE StartRun \/ ReadSkills \/ SkillsWritten \/ Link
      BY <3>1, StartRunFacts, ReadSkillsFacts, SkillsWrittenFacts, LinkFacts DEF d, t
    <3>2. CASE CheckCovered \/ Archive \/ RemoveManifest
      BY <3>2, CheckCoveredFacts, ArchiveFacts, RemoveManifestFacts DEF d, t
    <3>3. QED
      BY <1>8, <3>1, <3>2
  <2>2. QED
    BY <1>f, <1>s, <2>1
<1>9. CASE PruneStaleMemory
  <2>1. PICK paths : (\A p \in paths : OfMemory(p)) /\ d = Without(disk.files, paths) /\ t = tree.files
    <3>1. t = tree.files
      BY <1>9, PruneFacts DEF t
    <3>2. CASE \E p : OfMemory(p) /\ d = Without(disk.files, {p})
      BY <3>1, <3>2
    <3>3. CASE d = Without(disk.files, IF run.notes = <<>> THEN {Index} ELSE {})
      <4>1. \A p \in (IF run.notes = <<>> THEN {Index} ELSE {}) : OfMemory(p)
        BY Boxes
      <4>2. QED
        BY <3>1, <3>3, <4>1
    <3>4. QED
      BY <1>9, <3>2, <3>3, PruneFacts DEF d
  <2>2. \A p : ~OfMemory(p) => Alike(d, disk.files, p) /\ Alike(t, tree.files, p)
    BY <2>1, WithoutApart, AlikeSelf
  <2>3. QED
    BY <1>9, <1>a, <1>f, <2>2, PruneFacts
<1>10. CASE WriteIndex
  <2>1. \A p : ~OfMemory(p) => p # Index
    BY Boxes
  <2>2. \A p : ~OfMemory(p) => Alike(d, disk.files, p) /\ Alike(t, tree.files, p)
    BY <1>10, <2>1, WriteIndexFacts, WithApart, AlikeSelf DEF d, t
  <2>3. QED
    BY <1>10, <1>a, <1>f, <2>2, WriteIndexFacts
<1>11. CASE WriteManifest
  <2>1. \A p : ~OfMemory(p) => Alike(d, disk.files, p) /\ Alike(t, tree.files, p)
    BY <1>11, WriteManifestFacts, AlikeSelf DEF d, t
  <2>2. mailing' = mailing /\ ("files" \in torn => "files" \in torn')
    BY <1>11, WriteManifestFacts
  <2>3. QED
    BY <1>a, <1>f, <2>1, <2>2
<1>12. CASE ProvisionApps
  <2>1. AppsIndex # Body
    BY Boxes
  <2>2. Carried
    <3>1. CASE run.apps = {}
      BY <1>12, <2>1, <3>1, ProvisionAppsFacts, AlikeWithout, WithoutApart DEF d, t
    <3>2. CASE run.apps # {}
      BY <1>12, <1>w, <2>1, <3>2, ProvisionAppsFacts DEF d, t
    <3>3. QED
      BY <3>1, <3>2
  <2>3. QED
    BY <1>12, <1>f, <2>2, ProvisionAppsFacts
<1>13. CASE EmptyOut
  <2>1. d = Without(disk.files, In(disk.files, "out")) /\ t = Without(tree.files, In(tree.files, "out"))
    BY <1>13, EmptyOutFacts DEF d, t
  <2>2. Body \notin In(disk.files, "out")
    BY Boxes DEF In
  <2>3. Carried
    BY <2>1, <2>2, AlikeEmptied, WithoutApart
  <2>4. QED
    BY <1>13, <1>f, <2>3, EmptyOutFacts
<1>14. CASE WriteReply
  <2>1. Reply # Body
    BY Boxes
  <2>2. QED
    BY <1>14, <1>f, <1>w, <2>1, WriteReplyFacts DEF d, t
<1>15. CASE EndRun
  <2>1. \A r : <<"", r>> # Body
    BY Boxes
  <2>2. QED
    BY <1>15, <1>f, <1>w, <2>1, EndRunFacts DEF d, t
<1>16. CASE RemoveAll
  <2>1. SUFFICES ASSUME "files" \notin torn'
                 PROVE  /\ \A p : ~OfMemory(p) => Alike(disk'.files, tree'.files, p)
                        /\ \A k \in Mails : ~Half(k)'
    BY PairedPrime
  <2>2. disk'.files = <<>> /\ tree'.files = <<>> /\ Cut \subseteq torn' /\ mailing' = mailing
    BY <1>16, <2>1, RemoveAllFacts
  <2>3. \A k \in Mails : ~Half(k)
    BY <2>1, <2>2 DEF Cut
  <2>4. QED
    BY <1>0, <2>2, <2>3, AlikeSelf
<1>17. CASE Crash
  <2>1. SUFFICES ASSUME "files" \notin torn'
                 PROVE  /\ \A p : ~OfMemory(p) => Alike(disk'.files, tree'.files, p)
                        /\ \A k \in Mails : ~Half(k)'
    BY PairedPrime
  <2>2. /\ disk' = disk /\ tree' = tree /\ Cut \subseteq torn' /\ torn \subseteq torn'
        /\ \A k \in Mails : ~Half(k)'
    BY <1>17, CrashFacts
  <2>3. \A k \in Mails : ~Half(k)
    BY <2>1, <2>2 DEF Cut
  <2>4. \A p : ~OfMemory(p) => Alike(disk.files, tree.files, p)
    BY <2>1, <2>2, <2>3 DEF Paired
  <2>5. QED
    BY <2>2, <2>4
<1>18. QED
  BY <1>1, <1>2, <1>3, <1>4, <1>5, <1>6, <1>7, <1>8, <1>9, <1>10, <1>11, <1>12, <1>13,
     <1>14, <1>15, <1>16, <1>17 DEF WorkspaceNext, Edits

\* Out of WriteMemory the notes are in both alike, unless a call was cut short and
\* none has been completed since; and both pin the same, archive-task apart.
Remembered ==
  "files" \notin torn /\ "notes" \notin torn /\ run.pc \notin Middle =>
    /\ \A p : OfMemory(p) => Alike(disk.files, tree.files, p)
    /\ cleaning.pc # "manifest" => disk.manifest = tree.manifest

\* Remembered in the next state, with its primes written out.
LEMMA RememberedPrime ==
  Remembered' <=>
    ("files" \notin torn' /\ "notes" \notin torn' /\ run'.pc \notin Middle =>
       /\ \A p : OfMemory(p) => Alike(disk'.files, tree'.files, p)
       /\ cleaning'.pc # "manifest" => disk'.manifest = tree'.manifest)
BY DEF Remembered, Alike, OfMemory, Index, Box, Middle

\* A step that changes the memory of both homes alike keeps Remembered.
LEMMA RememberedFrame ==
  ASSUME Remembered, torn \subseteq torn',
         run'.pc \notin Middle => run.pc \notin Middle,
         \A p : OfMemory(p) /\ Alike(disk.files, tree.files, p) =>
                  Alike(disk'.files, tree'.files, p),
         disk'.manifest = disk.manifest, tree'.manifest = tree.manifest,
         cleaning'.pc # "manifest" => cleaning.pc # "manifest"
  PROVE  Remembered'
BY RememberedPrime DEF Remembered

\* Both homes hold what WriteMemory writes: the same, then.
LEMMA MemorisedAlike ==
  ASSUME NEW f, NEW g, NEW notes, Memorised(f, notes), Memorised(g, notes)
  PROVE  \A p : OfMemory(p) => Alike(f, g, p)
<1>1. SUFFICES ASSUME NEW p, OfMemory(p) PROVE Alike(f, g, p)
  OBVIOUS
<1>2. CASE Box(p) = "in/memory"
  <2>1. p \in DOMAIN f => \E n \in DOMAIN notes : p = NoteFile(n)
    BY <1>2 DEF Memorised
  <2>2. p \in DOMAIN g => \E n \in DOMAIN notes : p = NoteFile(n)
    BY <1>2 DEF Memorised
  <2>3. \A n \in DOMAIN notes : /\ NoteFile(n) \in DOMAIN f /\ NoteFile(n) \in DOMAIN g
                               /\ f[NoteFile(n)] = g[NoteFile(n)]
    BY DEF Memorised
  <2>4. QED
    BY <2>1, <2>2, <2>3 DEF Alike
<1>3. CASE p = Index
  BY <1>3 DEF Memorised, Alike
<1>4. QED
  BY <1>1, <1>2, <1>3 DEF OfMemory

\* Every step keeps Remembered.
LEMMA RememberedNext ==
  ASSUME WorkspaceTypes, Provisioned, Remembered, [WorkspaceNext]_workspaceVars
  PROVE  Remembered'
<1> DEFINE d == disk'.files
           t == tree'.files
           Carried == \A p : OfMemory(p) /\ Alike(disk.files, tree.files, p) => Alike(d, t, p)
<1>f. ASSUME Carried, torn \subseteq torn', run'.pc \notin Middle => run.pc \notin Middle,
             disk'.manifest = disk.manifest, tree'.manifest = tree.manifest,
             cleaning'.pc # "manifest" => cleaning.pc # "manifest"
      PROVE  Remembered'
  BY <1>f, RememberedFrame
<1>s. d = disk.files /\ t = tree.files => Carried
  OBVIOUS
<1>w. \A p, c : d = With(disk.files, p, c) /\ t = With(tree.files, p, c) => Carried
  BY AlikeWith
<1>a. (\A p : OfMemory(p) => Alike(d, disk.files, p) /\ Alike(t, tree.files, p)) => Carried
  BY AlikeCarried
<1>m. run'.pc \in Middle => Remembered'
  BY RememberedPrime
<1> HIDE DEF d, t
<1>1. CASE Edits \/ UNCHANGED workspaceVars
  <2>1. disk' = disk /\ tree' = tree /\ torn' = torn /\ run' = run /\ cleaning' = cleaning
    BY <1>1, EditFacts DEF Edits, workspaceVars
  <2>2. QED
    BY <1>f, <1>s, <2>1 DEF d, t
<1>2. ASSUME NEW n \in Notes, WriteNote(n) PROVE Remembered'
  <2>1. run'.pc = "notes"
    BY <1>2, WriteNoteFacts
  <2>2. QED
    BY <1>m, <2>1 DEF Middle
<1>3. ASSUME NEW n \in Notes, DeleteNote(n) PROVE Remembered'
  <2>1. d = Without(disk.files, {NoteFile(n)}) /\ t = Without(tree.files, {NoteFile(n)})
    BY <1>3, DeleteNoteFacts DEF d, t
  <2>2. Carried
    BY <2>1, AlikeWithout
  <2>3. QED
    BY <1>3, <1>f, <2>2, DeleteNoteFacts
<1>4. ASSUME NEW s \in Skills, WriteSkills(s) PROVE Remembered'
  <2>1. PICK c : d = With(disk.files, SkillFile(s), c) /\ t = With(tree.files, SkillFile(s), c)
    BY <1>4, WriteSkillsFacts DEF d, t
  <2>2. Carried
    BY <1>w, <2>1
  <2>3. QED
    BY <1>4, <1>f, <2>2, WriteSkillsFacts
<1>5. ASSUME NEW m \in Mails, LayIn(m) PROVE Remembered'
  <2>1. d = disk.files /\ t = tree.files
    BY <1>5, LayInFacts DEF d, t
  <2>2. QED
    BY <1>5, <1>f, <1>s, <2>1, LayInFacts
<1>6. ASSUME NEW m \in Mails, WriteBody(m) PROVE Remembered'
  <2>1. d = With(disk.files, Body, MailContent(m)) /\ t = tree.files
    BY <1>6, WriteBodyFacts DEF d, t
  <2>2. \A p : OfMemory(p) => p # Body
    BY Boxes
  <2>3. Carried
    BY <1>a, <2>1, <2>2, WithApart, AlikeSelf
  <2>4. QED
    BY <1>6, <1>f, <2>3, WriteBodyFacts
<1>7. ASSUME NEW m \in Mails, WriteAttachment(m) PROVE Remembered'
  <2>1. PICK q, c : d = With(disk.files, q, c) /\ t = With(With(tree.files, Body, c), q, c)
    BY <1>7, WriteAttachmentFacts DEF d, t
  <2>2. \A p : OfMemory(p) => p # Body
    BY Boxes
  <2>3. ASSUME NEW p, OfMemory(p), Alike(disk.files, tree.files, p) PROVE Alike(d, t, p)
    <3>1. Alike(disk.files, With(tree.files, Body, c), p)
      BY <2>2, <2>3 DEF With, Alike
    <3>2. QED
      BY <2>1, <3>1, AlikeWith
  <2>4. QED
    BY <1>7, <1>f, <2>3, WriteAttachmentFacts
<1>8. CASE StartRun \/ ReadSkills \/ Link \/ Archive \/ CheckCovered
  <2>1. /\ d = disk.files /\ t = tree.files /\ torn' = torn
        /\ disk'.manifest = disk.manifest /\ tree'.manifest = tree.manifest
        /\ cleaning'.pc # "manifest" => cleaning.pc # "manifest"
        /\ run'.pc \notin Middle => run.pc \notin Middle
    <3>1. CASE StartRun \/ ReadSkills
      BY <3>1, StartRunFacts, ReadSkillsFacts DEF d, t, Middle
    <3>2. CASE Link
      BY <3>2, LinkFacts DEF d, t, Middle
    <3>3. CASE Archive \/ CheckCovered
      BY <3>3, CheckCoveredFacts, ArchiveFacts DEF d, t
    <3>4. QED
      BY <1>8, <3>1, <3>2, <3>3
  <2>2. QED
    BY <1>f, <1>s, <2>1
<1>9. CASE SkillsWritten \/ PruneStaleMemory \/ WriteIndex
  <2>1. run'.pc \in {"prune", "notes", "manifest"}
    BY <1>9, SkillsWrittenFacts, PruneFacts, WriteIndexFacts
  <2>2. QED
    BY <1>m, <2>1 DEF Middle
<1>10. CASE WriteManifest
  <2>1. SUFFICES ASSUME "notes" \notin torn'
                 PROVE  /\ \A p : OfMemory(p) => Alike(disk'.files, tree'.files, p)
                        /\ disk'.manifest = tree'.manifest
    BY RememberedPrime
  <2>2. /\ run.pc = "manifest" /\ disk'.files = disk.files /\ disk'.manifest = tree'.manifest
        /\ Memorised(tree'.files, run.notes) /\ (run.raced => torn' = torn)
    BY <1>10, WriteManifestFacts
  <2>3. Kept
    BY <2>1, <2>2 DEF Kept, Middle
  <2>4. Memorised(disk'.files, run.notes)
    BY <2>2, <2>3 DEF Provisioned
  <2>5. QED
    BY <2>2, <2>4, MemorisedAlike
<1>11. CASE ProvisionApps
  <2>1. Carried
    <3>1. CASE run.apps = {}
      BY <1>11, <3>1, ProvisionAppsFacts, AlikeWithout DEF d, t
    <3>2. CASE run.apps # {}
      BY <1>11, <1>w, <3>2, ProvisionAppsFacts DEF d, t
    <3>3. QED
      BY <3>1, <3>2
  <2>2. run.pc \notin Middle
    BY <1>11, ProvisionAppsFacts DEF Middle
  <2>3. QED
    BY <1>11, <1>f, <2>1, <2>2, ProvisionAppsFacts
<1>12. CASE EmptyOut
  <2>1. d = Without(disk.files, In(disk.files, "out")) /\ t = Without(tree.files, In(tree.files, "out"))
    BY <1>12, EmptyOutFacts DEF d, t
  <2>2. Carried
    BY <2>1, AlikeEmptied
  <2>3. run.pc \notin Middle
    BY <1>12, EmptyOutFacts DEF Middle
  <2>4. QED
    BY <1>12, <1>f, <2>2, <2>3, EmptyOutFacts
<1>13. CASE WriteReply \/ EndRun
  <2>1. Carried
    BY <1>13, <1>w, WriteReplyFacts, EndRunFacts DEF d, t
  <2>2. run.pc \notin Middle
    BY <1>13, WriteReplyFacts, EndRunFacts DEF Middle
  <2>3. QED
    BY <1>13, <1>f, <2>1, <2>2, WriteReplyFacts, EndRunFacts
<1>14. CASE RemoveAll
  <2>1. SUFFICES ASSUME "files" \notin torn'
                 PROVE  /\ \A p : OfMemory(p) => Alike(disk'.files, tree'.files, p)
                        /\ cleaning'.pc = "manifest"
    BY RememberedPrime
  <2>2. disk'.files = <<>> /\ tree'.files = <<>> /\ cleaning'.pc = "manifest"
    BY <1>14, <2>1, RemoveAllFacts
  <2>3. QED
    BY <2>2, AlikeSelf
<1>15. CASE RemoveManifest
  <2>1. SUFFICES ASSUME "files" \notin torn', "notes" \notin torn', run'.pc \notin Middle
                 PROVE  /\ \A p : OfMemory(p) => Alike(disk'.files, tree'.files, p)
                        /\ disk'.manifest = tree'.manifest
    BY RememberedPrime
  <2>2. /\ disk'.files = disk.files /\ tree' = tree /\ run' = run
        /\ disk'.manifest = {} /\ tree.manifest = {} /\ torn \subseteq torn'
    BY <1>15, <2>1, RemoveManifestFacts
  <2>3. QED
    BY <2>1, <2>2 DEF Remembered
<1>16. CASE Crash
  <2>1. SUFFICES ASSUME "files" \notin torn', "notes" \notin torn'
                 PROVE  /\ \A p : OfMemory(p) => Alike(disk'.files, tree'.files, p)
                        /\ disk'.manifest = tree'.manifest
    BY RememberedPrime
  <2>2. disk' = disk /\ tree' = tree /\ Cut \subseteq torn' /\ torn \subseteq torn'
    BY <1>16, CrashFacts
  <2>3. run.pc \notin Middle /\ cleaning.pc # "manifest"
    BY <2>1, <2>2 DEF Cut, Middle
  <2>4. QED
    BY <2>1, <2>2, <2>3 DEF Remembered
<1>17. QED
  BY <1>1, <1>2, <1>3, <1>4, <1>5, <1>6, <1>7, <1>8, <1>9, <1>10, <1>11, <1>12, <1>13,
     <1>14, <1>15, <1>16 DEF WorkspaceNext, Edits

-----------------------------------------------------------------------------
WorkspaceInv ==
  /\ WorkspaceTypes /\ Unraced /\ SkillsHeld /\ Provisioned /\ Paired /\ Remembered

\* The inductive invariant holds of the state the program starts in.
LEMMA WorkspaceInitially == WorkspaceInit => WorkspaceInv
<1> SUFFICES ASSUME WorkspaceInit PROVE WorkspaceInv
  OBVIOUS
<1>1. /\ disk.files = <<>> /\ tree.files = <<>> /\ disk.manifest = tree.manifest
      /\ run.pc = "idle" /\ cleaning.pc = "idle" /\ \A m \in Mails : ~Half(m)
  BY DEF WorkspaceInit, Gone, Idle, Half
<1>2. WorkspaceTypes
  BY WorkspaceTypesInit
<1>3. Unraced /\ SkillsHeld
  BY <1>1, NoFiles DEF Unraced, SkillsHeld
<1>4. Provisioned
  BY <1>1 DEF Provisioned, Middle, After
<1>5. Paired /\ Remembered
  BY <1>1, AlikeSelf DEF Paired, Remembered
<1>6. QED
  BY <1>2, <1>3, <1>4, <1>5 DEF WorkspaceInv

\* The inductive invariant holds of every behaviour.
LEMMA WorkspaceInvariance ==
  ASSUME PlainNames
  PROVE  WorkspaceSpec => []WorkspaceInv
<1>1. WorkspaceInv /\ [WorkspaceNext]_workspaceVars => WorkspaceInv'
  <2> SUFFICES ASSUME WorkspaceInv, [WorkspaceNext]_workspaceVars PROVE WorkspaceInv'
    OBVIOUS
  <2>1. /\ WorkspaceTypes /\ Unraced /\ SkillsHeld /\ Provisioned /\ Paired /\ Remembered
    BY DEF WorkspaceInv
  <2>2. WorkspaceTypes' /\ Unraced' /\ SkillsHeld'
    BY <2>1, WorkspaceTypesNext, UnracedNext, SkillsHeldNext
  <2>3. Provisioned' /\ Paired' /\ Remembered'
    BY <2>1, ProvisionedNext, PairedNext, RememberedNext
  <2>4. QED
    BY <2>2, <2>3 DEF WorkspaceInv
<1>2. QED
  BY <1>1, WorkspaceInitially, PTL DEF WorkspaceSpec

\* HandedExactly, when no attachment has the name of an index kasi writes: the agent
\* is handed exactly what there was to provision, whatever earlier runs, crashes and
\* deletes left, and whatever mail is laid in meanwhile.
THEOREM HandedIsExact ==
  ASSUME \A m \in Mails : Attached[m] \notin {"MEMORY.md", "apps.json"}
  PROVE  WorkspaceSpec => []HandedExactly
<1>1. PlainNames
  BY DEF PlainNames
<1>2. WorkspaceInv => HandedExactly
  <2> SUFFICES ASSUME WorkspaceInv, run.pc = "handed", ~run.raced
               PROVE  Exact(disk) /\ Exact(tree) /\ disk.link
    BY DEF HandedExactly, At
  <2>1. /\ Memorised(disk.files, run.notes) /\ Memorised(tree.files, run.notes)
        /\ disk.manifest = DOMAIN run.notes /\ tree.manifest = DOMAIN run.notes
        /\ Listed(disk.files, run.apps) /\ Listed(tree.files, run.apps)
        /\ disk.link /\ Skilled(disk.files, run.skills)
        /\ Emptied(disk.files) /\ Emptied(tree.files)
    BY DEF WorkspaceInv, Provisioned, Kept, After
  <2>2. Skilled(tree.files, run.skills)
    <3>1. \A s : SkillPath(SkillFile(s))
      BY Boxes DEF SkillPath
    <3>2. QED
      BY <2>1, <3>1 DEF WorkspaceInv, SkillsHeld, Skilled
  <2>3. run.notes = <<>> <=> DOMAIN run.notes = {}
    BY EmptyFiles DEF WorkspaceInv, WorkspaceTypes
  <2>4. ASSUME NEW t, Memorised(t.files, run.notes), t.manifest = DOMAIN run.notes,
               Listed(t.files, run.apps), Skilled(t.files, run.skills), Emptied(t.files)
        PROVE  Exact(t)
    <3>1. In(t.files, "in/memory") = {NoteFile(n) : n \in DOMAIN run.notes}
      <4>1. \A n : Box(NoteFile(n)) = "in/memory"
        BY Boxes
      <4>2. QED
        BY <2>4, <4>1 DEF In, Memorised
    <3>2. In(t.files, "out") = {}
      BY <2>4 DEF In, Emptied
    <3>3. /\ \A n \in DOMAIN run.notes : t.files[NoteFile(n)] = NoteContent(run.notes, n)
          /\ Index \in DOMAIN t.files <=> run.notes # <<>>
          /\ run.notes # <<>> => t.files[Index] = IndexContent(run.notes)
      BY <2>3, <2>4 DEF Memorised
    <3>4. /\ AppsIndex \in DOMAIN t.files <=> run.apps # {}
          /\ run.apps # {} => t.files[AppsIndex] = AppsContent(run.apps)
          /\ \A s \in DOMAIN run.skills : t.files[SkillFile(s)] = <<"skill", s, run.skills[s]>>
      BY <2>4 DEF Listed, Skilled
    <3>5. QED
      BY <2>4, <3>1, <3>2, <3>3, <3>4 DEF Exact
  <2>5. QED
    BY <2>1, <2>2, <2>4
<1>3. QED
  BY <1>1, <1>2, WorkspaceInvariance, PTL

\* TwinsAgree, under the same hypothesis: between two calls the directory and its
\* in-memory twin are the same files with the same bytes and the same pinned notes.
THEOREM TwinsAreOne ==
  ASSUME \A m \in Mails : Attached[m] \notin {"MEMORY.md", "apps.json"}
  PROVE  WorkspaceSpec => []TwinsAgree
<1>1. PlainNames
  BY DEF PlainNames
<1>2. WorkspaceInv => TwinsAgree
  <2> SUFFICES ASSUME WorkspaceInv, torn = {}, ~InACall
               PROVE  /\ disk.there = tree.there \/ disk.files = <<>>
                      /\ disk.files = tree.files
                      /\ disk.manifest = tree.manifest
    BY DEF TwinsAgree
  <2>1. run.pc \notin Middle /\ cleaning.pc # "manifest" /\ \A m \in Mails : ~Half(m)
    BY DEF InACall, Middle
  <2>2. \A p : ~OfMemory(p) => Alike(disk.files, tree.files, p)
    BY <2>1 DEF WorkspaceInv, Paired
  <2>3. /\ \A p : OfMemory(p) => Alike(disk.files, tree.files, p)
        /\ disk.manifest = tree.manifest
    BY <2>1 DEF WorkspaceInv, Remembered
  <2>4. IsFiles(disk.files) /\ IsFiles(tree.files)
    BY DEF WorkspaceInv, WorkspaceTypes
  <2>5. disk.files = tree.files
    BY <2>2, <2>3, <2>4, AlikeEverywhere
  <2>6. disk.there = tree.there \/ disk.files = <<>>
    <3>1. /\ disk.there \in BOOLEAN /\ tree.there \in BOOLEAN
          /\ disk.files # <<>> => disk.there /\ tree.there
      BY <2>5 DEF WorkspaceInv, WorkspaceTypes, Directory, Twin
    <3>2. QED
      BY <3>1
  <2>7. QED
    BY <2>3, <2>5, <2>6
<1>3. QED
  BY <1>1, <1>2, WorkspaceInvariance, PTL

(***************************************************************************)
(* Skills: the table and the registry.                                     *)
(***************************************************************************)
Busy == {"add", "readBack", "emit"}
SkillEffectType ==
  [pc : {"idle", "next", "done", "failed"} \cup Busy, rest : SUBSET SkillNames,
   name : SkillNames \cup {""}, id : Nat, version : Nat]
SkillMessageType ==
  [kind : {"register", "unregister"}, name : SkillNames, id : Nat, version : Nat]
  \cup [kind : {"harvested"}, name : {""}, id : Authors, version : {0}]
Entries(f) ==
  /\ DOMAIN f \subseteq SkillNames /\ f = [n \in DOMAIN f |-> f[n]]
  /\ \A n \in DOMAIN f : f[n] \in [id : Nat, version : Nat]

SkillTypes ==
  /\ twin \in {"sqlite", "memory"} /\ nextSkill \in Nat
  /\ Entries(table) /\ Entries(registry)
  /\ owed \in [Authors -> SUBSET SkillNames]
  /\ effect \in [Authors -> SkillEffectType]
  /\ \A a \in Authors : /\ effect[a].pc \in Busy => effect[a].name \in SkillNames
                        /\ effect[a].pc = "add" => twin = "sqlite"
  /\ removal \in [pc : {"idle", "deleted", "sent"}, name : SkillNames \cup {""}]
  /\ removal.pc # "idle" => removal.name \in SkillNames
  /\ inbox \in Seq(SkillMessageType)

\* Rows are told apart by their ids, of which the twin has given out the last.
RowsApart ==
  /\ \E k \in Nat : \A n \in DOMAIN table : table[n].id \in 1..k
  /\ twin = "memory" => \A n \in DOMAIN table : table[n].id <= nextSkill
  /\ \A m, n \in DOMAIN table : table[m].id = table[n].id => m = n

\* The messages about a skill, and those that take one out of the registry.
About(n) == {m \in SkillMessageType : m.name = n}
Unregisters == {m \in SkillMessageType : m.kind = "unregister"}
OneUnregister ==
  /\ Once(inbox, Unregisters)
  /\ \A i \in DOMAIN inbox : inbox[i].kind = "unregister" =>
       removal.pc = "sent" /\ removal.name = inbox[i].name

Handles(a, n) == effect[a].pc \in Busy /\ effect[a].name = n
Removing(n) == removal.pc # "idle" /\ removal.name = n

\* What an author knows of the row it is at.
Knows(e) ==
  /\ e.pc = "add" => e.id = (IF e.name \in DOMAIN table THEN table[e.name].id ELSE 0)
  /\ e.pc = "add" /\ e.name \in DOMAIN table => e.version = table[e.name].version
  /\ e.pc = "readBack" => e.name \in DOMAIN table /\ table[e.name].id = e.id
  /\ e.pc = "emit" => e.name \in DOMAIN table /\ table[e.name] = [id |-> e.id, version |-> e.version]

\* A skill that no operation was cut short on has one at most under way.
OneOperation(n) ==
  /\ \A a, b \in Authors : Handles(a, n) /\ Handles(b, n) => a = b
  /\ Once(inbox, About(n))
  /\ \A a \in Authors : Handles(a, n) => /\ ~Has(inbox, About(n)) /\ ~Removing(n)
                                          /\ Knows(effect[a])
  /\ Removing(n) => n \notin DOMAIN table
  /\ \A i \in DOMAIN inbox : inbox[i].name = n /\ inbox[i].kind = "register" =>
       /\ ~Removing(n)
       /\ n \in DOMAIN table
       /\ table[n] = [id |-> inbox[i].id, version |-> inbox[i].version]

HomesAgree(n) ==
  /\ n \in DOMAIN registry <=> n \in DOMAIN table
  /\ n \in DOMAIN table => registry[n] = table[n]
Settled(n) == OneOperation(n) /\ (~Open(n) => HomesAgree(n))

SkillsKept == SkillTypes /\ RowsApart /\ OneUnregister /\ \A n \in SkillNames \ unsettled : Settled(n)

\* The next id is above every one in the table.
LEMMA FreshIdFacts ==
  ASSUME SkillTypes, RowsApart
  PROVE  /\ FreshId \in Nat /\ FreshId # 0
         /\ \A n \in DOMAIN table : table[n].id < FreshId
<1> DEFINE ids == {table[n].id : n \in DOMAIN table}
<1>1. /\ \A n \in DOMAIN table : table[n].id \in Nat
      /\ nextSkill \in Nat
  BY DEF SkillTypes, Entries
<1>2. PICK k \in Nat : \A n \in DOMAIN table : table[n].id \in 1..k
  BY DEF RowsApart
<1>3. CASE twin = "memory"
  BY <1>1, <1>3 DEF FreshId, RowsApart
<1>4. CASE twin # "memory"
  <2>1. ids \in SUBSET (1..k)
    BY <1>2
  <2>2. \E g \in {0} \cup ids : \A x \in {0} \cup ids : g >= x
    <3>1. CASE ids = {}
      BY <3>1
    <3>2. CASE ids # {}
      <4>1. PICK g : g = Max(ids)
        OBVIOUS
      <4>2. g \in ids /\ \A x \in ids : x <= g
        BY <1>2, <2>1, <3>2, <4>1, MaxProperties
      <4>3. \A x \in ids : x \in Nat
        BY <1>1
      <4>4. g \in Nat /\ g >= 0 /\ \A x \in ids : g >= x
        BY <4>2, <4>3
      <4>5. QED
        BY <4>2, <4>4
    <3>3. QED
      BY <3>1, <3>2
  <2>3. PICK g : g = Max({0} \cup ids)
    OBVIOUS
  <2>4. g \in {0} \cup ids /\ \A x \in {0} \cup ids : g >= x
    BY <2>2, <2>3 DEF Max
  <2>5. FreshId = g + 1
    BY <1>4, <2>3 DEF FreshId
  <2>6. g \in Nat
    BY <1>1, <2>4
  <2>7. \A n \in DOMAIN table : table[n].id <= g
    BY <1>1, <2>4, <2>6
  <2>8. QED
    BY <1>1, <2>5, <2>6, <2>7
<1>5. QED
  BY <1>3, <1>4

\* Open in the terms of the invariant.
LEMMA OpenIs ==
  ASSUME SkillTypes, NEW n \in SkillNames
  PROVE  Open(n) <=> (\E a \in Authors : Handles(a, n)) \/ Has(inbox, About(n)) \/ Removing(n)
<1>1. \A i \in DOMAIN inbox : inbox[i] \in SkillMessageType
  <2>1. inbox \in Seq(SkillMessageType)
    BY DEF SkillTypes
  <2>2. QED
    BY <2>1
<1>2. (\E i \in DOMAIN inbox : inbox[i].name = n) <=> Has(inbox, About(n))
  BY <1>1 DEF Has, About
<1>3. QED
  BY <1>2 DEF Open, Handles, Busy, Removing

\* A skill nobody has in hand has no operation open and no news under way.
LEMMA IdleSkill ==
  ASSUME SkillTypes, NEW n \in SkillNames, ~Open(n)
  PROVE  OneOperation(n) /\ ~Has(inbox, About(n)) /\ ~Removing(n)
         /\ \A a \in Authors : ~Handles(a, n)
<1>1. ~Has(inbox, About(n)) /\ ~Removing(n) /\ \A a \in Authors : ~Handles(a, n)
  BY OpenIs
<1>2. \A i \in DOMAIN inbox : inbox[i].name # n /\ inbox[i] \notin About(n)
  BY DEF Open, About
<1>3. QED
  BY <1>1, <1>2 DEF OneOperation, Once

\* What the channel holds about a skill, unless a step is about it.
SameNews(n) ==
  /\ Once(inbox, About(n)) => Once(inbox', About(n))
  /\ Has(inbox', About(n)) <=> Has(inbox, About(n))
  /\ \A i \in DOMAIN inbox' : inbox'[i].name = n => \E j \in DOMAIN inbox : inbox[j] = inbox'[i]

\* What a message appended to the inbox changes of the news about the skills.
LEMMA NewsAppended ==
  ASSUME inbox \in Seq(SkillMessageType), NEW m \in SkillMessageType,
         inbox' = Append(inbox, m)
  PROVE  /\ inbox' \in Seq(SkillMessageType)
         /\ \A i \in DOMAIN inbox' : inbox'[i] = m \/ \E j \in DOMAIN inbox : inbox[j] = inbox'[i]
         /\ \A K : Has(inbox', K) <=> Has(inbox, K) \/ m \in K
         /\ \A K : Once(inbox, K) /\ (m \notin K \/ ~Has(inbox, K)) => Once(inbox', K)
         /\ \A n \in SkillNames : m.name # n => SameNews(n)
<1>1. \A K : /\ Has(inbox', K) <=> Has(inbox, K) \/ m \in K
             /\ Once(inbox, K) /\ (m \notin K \/ ~Has(inbox, K)) => Once(inbox', K)
  BY AppendHas
<1>2. inbox' \in Seq(SkillMessageType)
  BY AppendTyped
<1>3. \A i \in DOMAIN inbox' : inbox'[i] = m \/ \E j \in DOMAIN inbox : inbox[j] = inbox'[i]
  <2>1. PICK k \in Nat : k = Len(inbox) /\ DOMAIN inbox = 1..k
    OBVIOUS
  <2>2. DOMAIN inbox' = 1..(k + 1) /\ inbox'[k + 1] = m /\ \A i \in 1..k : inbox'[i] = inbox[i]
    BY <2>1
  <2>3. \A i \in 1..(k + 1) : i \in 1..k \/ i = k + 1
    BY <2>1
  <2>4. QED
    BY <2>1, <2>2, <2>3
<1>4. ASSUME NEW n \in SkillNames, m.name # n PROVE SameNews(n)
  <2>1. m \notin About(n)
    BY <1>4 DEF About
  <2>2. QED
    BY <1>1, <1>3, <1>4, <2>1 DEF SameNews
<1>5. QED
  BY <1>1, <1>2, <1>3, <1>4

\* An unchanged inbox brings the same news.
LEMMA NewsSame == inbox' = inbox => \A n \in SkillNames : SameNews(n)
BY DEF SameNews

\* A step that is not about a skill leaves it settled.
Undisturbed(n) ==
  /\ \A a \in Authors : Handles(a, n)' => Handles(a, n) /\ effect'[a] = effect[a]
  /\ \A a \in Authors : Handles(a, n) => Handles(a, n)'
  /\ Removing(n)' <=> Removing(n)
  /\ n \in DOMAIN table' <=> n \in DOMAIN table
  /\ n \in DOMAIN table => table'[n] = table[n]
  /\ n \in DOMAIN registry' <=> n \in DOMAIN registry
  /\ n \in DOMAIN registry => registry'[n] = registry[n]
  /\ SameNews(n)

\* A step that does not touch a skill keeps it settled.
LEMMA StaysSettled ==
  ASSUME SkillTypes, SkillTypes', NEW n \in SkillNames, Settled(n), Undisturbed(n)
  PROVE  Settled(n)'
<1>1. Open(n)' <=> Open(n)
  <2>1. Open(n)' <=> (\E a \in Authors : Handles(a, n)') \/ Has(inbox', About(n)) \/ Removing(n)'
    <3>1. \A i \in DOMAIN inbox' : inbox'[i] \in SkillMessageType
      <4>1. inbox' \in Seq(SkillMessageType)
        BY DEF SkillTypes
      <4>2. QED
        BY <4>1
    <3>2. (\E i \in DOMAIN inbox' : inbox'[i].name = n) <=> Has(inbox', About(n))
      BY <3>1 DEF Has, About
    <3>3. QED
      BY <3>2 DEF Open, Handles, Busy, Removing
  <2>2. QED
    BY <2>1, OpenIs DEF Undisturbed, SameNews
<1>2. OneOperation(n)'
  <2>1. \A a, b \in Authors : Handles(a, n)' /\ Handles(b, n)' => a = b
    BY DEF Settled, OneOperation, Undisturbed
  <2>2. Once(inbox', About(n))
    BY DEF Settled, OneOperation, Undisturbed, SameNews
  <2>3. ASSUME NEW a \in Authors, Handles(a, n)'
        PROVE  ~Has(inbox', About(n)) /\ ~Removing(n)' /\ Knows(effect[a])'
    <3>1. Handles(a, n) /\ effect'[a] = effect[a]
      BY <2>3 DEF Undisturbed
    <3>2. ~Has(inbox, About(n)) /\ ~Removing(n) /\ Knows(effect[a]) /\ effect[a].name = n
      BY <3>1 DEF Settled, OneOperation, Handles
    <3>3. Knows(effect[a])'
      BY <3>1, <3>2 DEF Knows, Undisturbed
    <3>4. QED
      BY <3>2, <3>3 DEF Undisturbed, SameNews
  <2>4. Removing(n)' => n \notin DOMAIN table'
    BY DEF Settled, OneOperation, Undisturbed
  <2>5. ASSUME NEW i \in DOMAIN inbox', inbox'[i].name = n, inbox'[i].kind = "register"
        PROVE  /\ ~Removing(n)' /\ n \in DOMAIN table'
               /\ table'[n] = [id |-> inbox'[i].id, version |-> inbox'[i].version]
    <3>1. PICK j \in DOMAIN inbox : inbox[j] = inbox'[i]
      BY <2>5 DEF Undisturbed, SameNews
    <3>2. /\ ~Removing(n) /\ n \in DOMAIN table
          /\ table[n] = [id |-> inbox[j].id, version |-> inbox[j].version]
      BY <2>5, <3>1 DEF Settled, OneOperation
    <3>3. QED
      BY <3>1, <3>2 DEF Undisturbed
  <2>6. QED
    BY <2>1, <2>2, <2>3, <2>4, <2>5 DEF OneOperation
<1>3. HomesAgree(n) => HomesAgree(n)'
  BY DEF HomesAgree, Undisturbed
<1>4. QED
  BY <1>1, <1>2, <1>3 DEF Settled

\* An author's step changes its own effect alone.
LEMMA AuthorMoves ==
  ASSUME SkillTypes, NEW a \in Authors, NEW e, effect' = [effect EXCEPT ![a] = e]
  PROVE  /\ effect'[a] = e /\ \A b \in Authors : b # a => effect'[b] = effect[b]
         /\ e \in SkillEffectType => effect' \in [Authors -> SkillEffectType]
<1>1. effect \in [Authors -> SkillEffectType]
  BY DEF SkillTypes
<1>2. QED
  BY <1>1

\* Its step keeps the types if the effect it leaves is typed.
AuthorTyped(e) ==
  /\ e \in SkillEffectType /\ (e.pc \in Busy => e.name \in SkillNames)
  /\ e.pc = "add" => twin = "sqlite"

\* A step of an author's keeps the types.
LEMMA AuthorTypes ==
  ASSUME SkillTypes, NEW a \in Authors, NEW e, effect' = [effect EXCEPT ![a] = e],
         AuthorTyped(e), twin' = twin, nextSkill' \in Nat, Entries(table'),
         registry' = registry, owed' = owed, removal' = removal,
         inbox' \in Seq(SkillMessageType)
  PROVE  SkillTypes'
<1>1. effect' \in [Authors -> SkillEffectType]
  BY AuthorMoves DEF AuthorTyped
<1>2. \A b \in Authors : /\ effect'[b].pc \in Busy => effect'[b].name \in SkillNames
                         /\ effect'[b].pc = "add" => twin' = "sqlite"
  BY AuthorMoves DEF AuthorTyped, SkillTypes
<1>3. Entries(table)' /\ Entries(registry)'
  <2>1. Entries(registry)
    BY DEF SkillTypes
  <2>2. QED
    BY <2>1 DEF Entries
<1>4. QED
  BY <1>1, <1>2, <1>3 DEF SkillTypes

\* It leaves the skills settled that it is not about.
LEMMA AuthorAside ==
  ASSUME SkillTypes, SkillTypes', NEW a \in Authors, NEW e, effect' = [effect EXCEPT ![a] = e],
         NEW n \in SkillNames, Settled(n), ~Handles(a, n), ~(e.pc \in Busy /\ e.name = n),
         removal' = removal, registry' = registry, SameNews(n),
         n \in DOMAIN table' <=> n \in DOMAIN table,
         n \in DOMAIN table => table'[n] = table[n]
  PROVE  Settled(n)'
<1>1. effect'[a] = e /\ \A b \in Authors : b # a => effect'[b] = effect[b]
  BY AuthorMoves
<1>2. \A b \in Authors : /\ Handles(b, n)' => Handles(b, n) /\ effect'[b] = effect[b]
                         /\ Handles(b, n) => Handles(b, n)'
  BY <1>1 DEF Handles
<1>3. Undisturbed(n)
  BY <1>2 DEF Undisturbed, Removing
<1>4. QED
  BY <1>3, StaysSettled

\* The skill an author is at, and nobody else.
LEMMA AtWork ==
  ASSUME SkillTypes', NEW a \in Authors, NEW n \in SkillNames, Handles(a, n)',
         \A b \in Authors : Handles(b, n)' => b = a,
         ~Has(inbox', About(n)), ~Removing(n)', Knows(effect[a])'
  PROVE  Settled(n)'
<1>1. \A i \in DOMAIN inbox' : inbox'[i].name # n /\ inbox'[i] \notin About(n)
  <2>1. inbox' \in Seq(SkillMessageType)
    BY DEF SkillTypes
  <2>2. \A i \in DOMAIN inbox' : inbox'[i] \in SkillMessageType
    BY <2>1
  <2>3. QED
    BY <2>2 DEF Has, About
<1>2. \A b \in Authors : Handles(b, n)' => Knows(effect[b])'
  <2>1. ASSUME NEW b \in Authors, Handles(b, n)' PROVE Knows(effect[b])'
    <3>1. b = a
      BY <2>1
    <3>2. QED
      BY <3>1
  <2>2. QED
    BY <2>1
<1>3. OneOperation(n)'
  BY <1>1, <1>2 DEF OneOperation, Once
<1>4. Open(n)'
  BY DEF Open, Handles, Busy
<1>5. QED
  BY <1>3, <1>4 DEF Settled

\* The row of the skill is as the author takes it to be, alone.
LEMMA Handling ==
  ASSUME SkillTypes, NEW a \in Authors, NEW n \in SkillNames, Handles(a, n), Settled(n)
  PROVE  /\ \A b \in Authors : Handles(b, n) => b = a
         /\ ~Has(inbox, About(n)) /\ ~Removing(n) /\ Knows(effect[a])
BY DEF Settled, OneOperation

\* Firing store-skill keeps the invariant.
LEMMA FireStoreSkillKeeps ==
  ASSUME SkillsKept, NEW a \in Authors, FireStoreSkill(a)
  PROVE  SkillsKept'
<1> DEFINE e == [NoEffect EXCEPT !.pc = "next", !.rest = owed[a]]
<1>1. SkillTypes /\ RowsApart /\ OneUnregister
  BY DEF SkillsKept
<1>2. /\ effect' = [effect EXCEPT ![a] = e] /\ effect[a].pc = "idle"
      /\ UNCHANGED <<twin, table, nextSkill, registry, owed, removal, inbox, unsettled, stops>>
  BY DEF FireStoreSkill
<1>3. e.pc = "next" /\ e \in SkillEffectType
  BY <1>1 DEF NoEffect, SkillEffectType, SkillTypes
<1> HIDE DEF e
<1>4. SkillTypes'
  <2>1. AuthorTyped(e)
    BY <1>3 DEF AuthorTyped, Busy
  <2>2. nextSkill' \in Nat /\ Entries(table') /\ inbox' \in Seq(SkillMessageType)
    BY <1>1, <1>2 DEF SkillTypes
  <2>3. QED
    BY <1>1, <1>2, <2>1, <2>2, AuthorTypes
<1>5. RowsApart' /\ OneUnregister'
  BY <1>1, <1>2 DEF RowsApart, OneUnregister
<1>6. ASSUME NEW n \in SkillNames \ unsettled' PROVE Settled(n)'
  BY <1>1, <1>2, <1>3, <1>4, <1>6, AuthorAside, NewsSame DEF SkillsKept, Handles, Busy
<1>7. QED
  BY <1>4, <1>5, <1>6 DEF SkillsKept

\* Looking the skill's row up keeps the invariant.
LEMMA LookupSkillKeeps ==
  ASSUME SkillsKept, NEW a \in Authors, LookupSkill(a)
  PROVE  SkillsKept'
<1>1. SkillTypes /\ RowsApart /\ OneUnregister
  BY DEF SkillsKept
<1>2. PICK n0 : n0 = Upcoming(a)
  OBVIOUS
<1>3. PICK row : row = IF n0 \in DOMAIN table THEN table[n0] ELSE NoRow
  OBVIOUS
<1>4. PICK e : e = [pc |-> "add", rest |-> effect[a].rest \ {n0}, name |-> n0,
                    id |-> row.id, version |-> row.version]
  OBVIOUS
<1>5. /\ effect' = [effect EXCEPT ![a] = e] /\ effect[a].pc = "next" /\ twin = "sqlite"
      /\ Begins(n0)
      /\ UNCHANGED <<twin, table, nextSkill, registry, owed, removal, inbox, stops>>
  <2>1. effect' = [effect EXCEPT ![a] = [pc |-> "add", rest |-> @.rest \ {n0}, name |-> n0,
                                         id |-> row.id, version |-> row.version]]
    BY <1>2, <1>3 DEF LookupSkill
  <2>2. QED
    BY <1>2, <1>4, <2>1 DEF LookupSkill, Storing
<1>6. n0 \in SkillNames
  <2>1. effect[a].rest \in SUBSET SkillNames /\ effect[a].rest # {}
    BY <1>1 DEF SkillTypes, SkillEffectType, LookupSkill, Storing
  <2>2. n0 \in effect[a].rest
    BY <1>2, <2>1 DEF Upcoming
  <2>3. QED
    BY <2>1, <2>2
<1>7. row \in [id : Nat, version : Nat]
  BY <1>1, <1>3 DEF SkillTypes, Entries, NoRow
<1>8. e.pc = "add" /\ e.name = n0 /\ e.id = row.id /\ e.version = row.version /\ e \in SkillEffectType
  BY <1>1, <1>4, <1>6, <1>7 DEF SkillEffectType, Busy, SkillTypes
<1>9. SkillTypes'
  <2>1. AuthorTyped(e)
    BY <1>5, <1>6, <1>8 DEF AuthorTyped
  <2>2. nextSkill' \in Nat /\ Entries(table') /\ inbox' \in Seq(SkillMessageType)
    BY <1>1, <1>5 DEF SkillTypes
  <2>3. QED
    BY <1>1, <1>5, <2>1, <2>2, AuthorTypes
<1>10. RowsApart' /\ OneUnregister'
  BY <1>1, <1>5 DEF RowsApart, OneUnregister
<1>11. ASSUME NEW n \in SkillNames \ unsettled' PROVE Settled(n)'
  <2>1. CASE n # n0
    <3>1. n \notin unsettled
      BY <1>5, <1>11, <2>1 DEF Begins
    <3>2. Settled(n)
      BY <3>1 DEF SkillsKept
    <3>3. QED
      BY <1>1, <1>5, <1>8, <1>9, <2>1, <3>2, AuthorAside, NewsSame DEF Handles, Busy
  <2>2. CASE n = n0
    <3>1. ~Open(n)
      BY <1>5, <1>11, <2>2 DEF Begins
    <3>2. ~Has(inbox, About(n)) /\ ~Removing(n) /\ \A b \in Authors : ~Handles(b, n)
      BY <1>1, <3>1, IdleSkill
    <3>3. effect'[a] = e /\ \A b \in Authors : b # a => effect'[b] = effect[b]
      BY <1>1, <1>5, AuthorMoves
    <3>4. Handles(a, n)' /\ \A b \in Authors : Handles(b, n)' => b = a
      BY <1>8, <2>2, <3>2, <3>3 DEF Handles, Busy
    <3>5. Knows(effect[a])'
      BY <1>3, <1>5, <1>8, <3>3 DEF Knows, NoRow
    <3>6. QED
      BY <1>5, <1>9, <3>2, <3>4, <3>5, AtWork DEF Removing
  <2>3. QED
    BY <2>1, <2>2
<1>12. QED
  BY <1>9, <1>10, <1>11 DEF SkillsKept

\* UPDATE hits rows by id: those of other skills are unsettled by it.
LEMMA UpdateSkillKeeps ==
  ASSUME SkillsKept, NEW a \in Authors, UpdateSkill(a)
  PROVE  SkillsKept'
<1>1. SkillTypes /\ RowsApart /\ OneUnregister
  BY DEF SkillsKept
<1>2. PICK e : e = [effect[a] EXCEPT !.pc = "readBack", !.version = 0]
  OBVIOUS
<1>3. PICK hit : hit = Named(effect[a].id)
  OBVIOUS
<1>4. /\ effect' = [effect EXCEPT ![a] = e] /\ effect[a].pc = "add" /\ effect[a].id # 0
      /\ table' = [n \in DOMAIN table |->
                     IF n \in hit THEN [table[n] EXCEPT !.version = effect[a].version + 1]
                     ELSE table[n]]
      /\ unsettled' = unsettled \cup (hit \ {effect[a].name})
      /\ UNCHANGED <<twin, nextSkill, registry, owed, removal, inbox, stops>>
  <2>1. effect' = [effect EXCEPT ![a] = [@ EXCEPT !.pc = "readBack", !.version = 0]]
    BY DEF UpdateSkill
  <2>2. effect \in [Authors -> SkillEffectType]
    BY <1>1 DEF SkillTypes
  <2>3. effect' = [effect EXCEPT ![a] = e]
    BY <1>2, <2>1, <2>2
  <2>4. QED
    BY <1>3, <2>3 DEF UpdateSkill
<1>5. effect[a] \in SkillEffectType /\ effect[a].name \in SkillNames
  BY <1>1, <1>4 DEF SkillTypes, Busy
<1>6. /\ e \in SkillEffectType /\ e.pc = "readBack" /\ e.id = effect[a].id
      /\ e.name = effect[a].name
  BY <1>2, <1>5 DEF SkillEffectType, Busy
<1>7. /\ DOMAIN table' = DOMAIN table
      /\ \A n \in DOMAIN table : /\ table'[n].id = table[n].id
                                 /\ table'[n] \in [id : Nat, version : Nat]
                                 /\ n \notin hit => table'[n] = table[n]
  <2>1. effect[a].version + 1 \in Nat
    <3>1. effect[a].version \in Nat
      BY <1>5 DEF SkillEffectType
    <3>2. QED
      BY <3>1
  <2>2. \A n \in DOMAIN table : table[n] \in [id : Nat, version : Nat]
    BY <1>1 DEF SkillTypes, Entries
  <2>3. QED
    BY <1>4, <2>1, <2>2
<1>8. SkillTypes'
  <2>1. AuthorTyped(e)
    BY <1>5, <1>6 DEF AuthorTyped
  <2>2. Entries(table')
    <3>1. table' = [n \in DOMAIN table' |-> table'[n]]
      BY <1>4
    <3>2. DOMAIN table \subseteq SkillNames
      BY <1>1 DEF SkillTypes, Entries
    <3>3. QED
      BY <1>7, <3>1, <3>2 DEF Entries
  <2>3. nextSkill' \in Nat /\ inbox' \in Seq(SkillMessageType)
    BY <1>1, <1>4 DEF SkillTypes
  <2>4. QED
    BY <1>1, <1>4, <2>1, <2>2, <2>3, AuthorTypes
<1>9. RowsApart' /\ OneUnregister'
  BY <1>1, <1>4, <1>7 DEF RowsApart, OneUnregister
<1>10. ASSUME NEW n \in SkillNames \ unsettled' PROVE Settled(n)'
  <2>1. n \notin unsettled /\ Settled(n)
    BY <1>4, <1>10 DEF SkillsKept
  <2>2. CASE n # effect[a].name
    <3>1. n \notin hit
      BY <1>4, <1>10, <2>2
    <3>2. ~Handles(a, n) /\ ~(e.pc \in Busy /\ e.name = n)
      BY <1>6, <2>2 DEF Handles
    <3>3. QED
      BY <1>1, <1>4, <1>7, <1>8, <2>1, <3>1, <3>2, AuthorAside, NewsSame
  <2>3. CASE n = effect[a].name
    <3>1. Handles(a, n)
      BY <1>4, <2>3 DEF Handles, Busy
    <3>2. /\ \A b \in Authors : Handles(b, n) => b = a
          /\ ~Has(inbox, About(n)) /\ ~Removing(n) /\ Knows(effect[a])
      BY <1>1, <2>1, <3>1, Handling
    <3>3. effect'[a] = e /\ \A b \in Authors : b # a => effect'[b] = effect[b]
      BY <1>1, <1>4, AuthorMoves
    <3>4. Handles(a, n)' /\ \A b \in Authors : Handles(b, n)' => b = a
      BY <1>6, <2>3, <3>2, <3>3 DEF Handles, Busy
    <3>5. n \in DOMAIN table /\ table[n].id = effect[a].id
      BY <1>4, <2>3, <3>2 DEF Knows
    <3>6. Knows(effect[a])'
      BY <1>6, <1>7, <2>3, <3>3, <3>5 DEF Knows
    <3>7. ~Has(inbox', About(n)) /\ ~Removing(n)'
      BY <1>4, <3>2 DEF Removing
    <3>8. QED
      BY <1>8, <3>4, <3>6, <3>7, AtWork
  <2>4. QED
    BY <2>2, <2>3
<1>11. QED
  BY <1>8, <1>9, <1>10 DEF SkillsKept

\* A row put in under a name, with the id it had or one above all.
LEMMA PutFacts ==
  ASSUME SkillTypes, RowsApart, NEW n \in SkillNames, NEW row \in [id : Nat, version : Nat],
         table' = Put(table, n, row), twin' = twin,
         \/ n \in DOMAIN table /\ row.id = table[n].id /\ nextSkill' = nextSkill
         \/ n \notin DOMAIN table /\ row.id = FreshId
            /\ (twin = "memory" => nextSkill' = FreshId)
  PROVE  /\ Entries(table') /\ RowsApart'
         /\ n \in DOMAIN table' /\ table'[n] = row
         /\ \A m : m # n => (m \in DOMAIN table' <=> m \in DOMAIN table)
         /\ \A m \in DOMAIN table : m # n => table'[m] = table[m]
<1>1. /\ DOMAIN table' = DOMAIN table \cup {n} /\ table'[n] = row
      /\ \A m \in DOMAIN table : m # n => table'[m] = table[m]
      /\ table' = [m \in DOMAIN table' |-> table'[m]]
  BY DEF Put
<1>2. \A m \in DOMAIN table : table[m] \in [id : Nat, version : Nat]
  BY DEF SkillTypes, Entries
<1>3. Entries(table')
  BY <1>1, <1>2 DEF Entries, SkillTypes
<1>4. PICK k \in Nat : \A m \in DOMAIN table : table[m].id \in 1..k
  BY DEF RowsApart
<1>5. CASE n \in DOMAIN table
  <2>1. DOMAIN table' = DOMAIN table /\ \A m \in DOMAIN table : table'[m].id = table[m].id
    BY <1>1, <1>5
  <2>2. nextSkill' = nextSkill
    BY <1>5
  <2>3. RowsApart'
    BY <2>1, <2>2 DEF RowsApart
  <2>4. QED
    BY <1>1, <1>3, <2>3
<1>6. CASE n \notin DOMAIN table
  <2>1. /\ FreshId \in Nat /\ FreshId # 0 /\ row.id = FreshId
        /\ \A m \in DOMAIN table : table[m].id < FreshId
    BY <1>6, FreshIdFacts
  <2>2. PICK i \in Nat : i = FreshId
    BY <2>1
  <2>3. \A m \in DOMAIN table' : table'[m].id \in 1..i
    BY <1>1, <1>2, <1>4, <2>1, <2>2
  <2>4. \A l, m \in DOMAIN table' : table'[l].id = table'[m].id => l = m
    BY <1>1, <1>2, <2>1, <2>2 DEF RowsApart
  <2>5. twin' = "memory" => nextSkill' = i
    BY <1>6, <2>2
  <2>6. RowsApart'
    BY <2>2, <2>3, <2>4, <2>5 DEF RowsApart
  <2>7. QED
    BY <1>1, <1>3, <2>6
<1>7. QED
  BY <1>5, <1>6

\* INSERT, or what UNIQUE makes of it.
LEMMA InsertSkillKeeps ==
  ASSUME SkillsKept, NEW a \in Authors, InsertSkill(a)
  PROVE  SkillsKept'
<1>1. SkillTypes /\ RowsApart /\ OneUnregister
  BY DEF SkillsKept
<1>2. /\ effect[a].pc = "add" /\ effect[a].id = 0 /\ twin = "sqlite"
      /\ UNCHANGED <<twin, nextSkill, registry, owed, removal, inbox, unsettled, stops>>
  BY <1>1 DEF InsertSkill, SkillTypes
<1>3. effect[a] \in SkillEffectType /\ effect[a].name \in SkillNames
  BY <1>1, <1>2 DEF SkillTypes, Busy
<1>4. PICK n0 \in SkillNames : n0 = effect[a].name
  BY <1>3
<1>5. CASE n0 \in DOMAIN table
  <2>1. PICK e : e = Over("failed")
    OBVIOUS
  <2>2. effect' = [effect EXCEPT ![a] = e] /\ table' = table
    BY <1>4, <1>5, <2>1 DEF InsertSkill
  <2>3. e.pc = "failed" /\ e \in SkillEffectType
    BY <2>1 DEF Over, NoEffect, SkillEffectType
  <2>4. SkillTypes'
    <3>1. AuthorTyped(e)
      BY <2>3 DEF AuthorTyped, Busy
    <3>2. nextSkill' \in Nat /\ Entries(table') /\ inbox' \in Seq(SkillMessageType)
      BY <1>1, <1>2, <2>2 DEF SkillTypes
    <3>3. QED
      BY <1>1, <1>2, <2>2, <3>1, <3>2, AuthorTypes
  <2>5. RowsApart' /\ OneUnregister'
    BY <1>1, <1>2, <2>2 DEF RowsApart, OneUnregister
  <2>6. ASSUME NEW n \in SkillNames \ unsettled' PROVE Settled(n)'
    <3>1. n \notin unsettled /\ Settled(n)
      BY <1>2, <2>6 DEF SkillsKept
    <3>2. ~Handles(a, n)
      <4>1. SUFFICES ASSUME Handles(a, n) PROVE FALSE
        OBVIOUS
      <4>2. n = n0 /\ Knows(effect[a])
        BY <1>1, <1>4, <3>1, <4>1, Handling DEF Handles
      <4>3. table[n0].id = 0
        BY <1>2, <1>4, <1>5, <4>2 DEF Knows
      <4>4. QED
        BY <1>1, <1>5, <4>3 DEF RowsApart
    <3>3. QED
      BY <1>1, <1>2, <2>2, <2>3, <2>4, <3>1, <3>2, AuthorAside, NewsSame DEF Busy
  <2>7. QED
    BY <2>4, <2>5, <2>6 DEF SkillsKept
<1>6. CASE n0 \notin DOMAIN table
  <2>1. PICK row : row = [id |-> FreshId, version |-> 1]
    OBVIOUS
  <2>2. PICK e : e = [effect[a] EXCEPT !.pc = "readBack", !.id = FreshId]
    OBVIOUS
  <2>3. effect' = [effect EXCEPT ![a] = e] /\ table' = Put(table, n0, row)
    <3>1. effect' = [effect EXCEPT ![a] = [@ EXCEPT !.pc = "readBack", !.id = FreshId]]
      BY <1>4, <1>6 DEF InsertSkill
    <3>2. effect \in [Authors -> SkillEffectType]
      BY <1>1 DEF SkillTypes
    <3>3. QED
      BY <1>4, <1>6, <2>1, <2>2, <3>1, <3>2 DEF InsertSkill
  <2>4. FreshId \in Nat
    BY <1>1, FreshIdFacts
  <2>5. row \in [id : Nat, version : Nat] /\ row.id = FreshId
    BY <2>1, <2>4
  <2>6. e.pc = "readBack" /\ e.name = n0 /\ e.id = row.id /\ e \in SkillEffectType
    BY <1>3, <1>4, <2>2, <2>4, <2>5 DEF SkillEffectType, Busy
  <2>7. /\ Entries(table') /\ RowsApart' /\ n0 \in DOMAIN table' /\ table'[n0] = row
        /\ \A m : m # n0 => (m \in DOMAIN table' <=> m \in DOMAIN table)
        /\ \A m \in DOMAIN table : m # n0 => table'[m] = table[m]
    BY <1>1, <1>2, <1>6, <2>3, <2>5, PutFacts
  <2>8. SkillTypes'
    <3>1. AuthorTyped(e)
      BY <2>6 DEF AuthorTyped
    <3>2. nextSkill' \in Nat /\ inbox' \in Seq(SkillMessageType)
      BY <1>1, <1>2 DEF SkillTypes
    <3>3. QED
      BY <1>1, <1>2, <2>3, <2>7, <3>1, <3>2, AuthorTypes
  <2>9. OneUnregister'
    BY <1>1, <1>2 DEF OneUnregister
  <2>10. ASSUME NEW n \in SkillNames \ unsettled' PROVE Settled(n)'
    <3>1. n \notin unsettled /\ Settled(n)
      BY <1>2, <2>10 DEF SkillsKept
    <3>2. CASE n # n0
      BY <1>1, <1>2, <1>4, <2>3, <2>6, <2>7, <2>8, <3>1, <3>2, AuthorAside, NewsSame DEF Handles
    <3>3. CASE n = n0
      <4>1. Handles(a, n)
        BY <1>2, <1>4, <3>3 DEF Handles, Busy
      <4>2. /\ \A b \in Authors : Handles(b, n) => b = a
            /\ ~Has(inbox, About(n)) /\ ~Removing(n)
        BY <1>1, <3>1, <4>1, Handling
      <4>3. effect'[a] = e /\ \A b \in Authors : b # a => effect'[b] = effect[b]
        BY <1>1, <2>3, AuthorMoves
      <4>4. Handles(a, n)' /\ \A b \in Authors : Handles(b, n)' => b = a
        BY <2>6, <3>3, <4>2, <4>3 DEF Handles, Busy
      <4>5. Knows(effect[a])'
        BY <2>6, <2>7, <4>3 DEF Knows
      <4>6. ~Has(inbox', About(n)) /\ ~Removing(n)'
        BY <1>2, <4>2 DEF Removing
      <4>7. QED
        BY <2>8, <4>4, <4>5, <4>6, AtWork
    <3>4. QED
      BY <3>2, <3>3
  <2>11. QED
    BY <2>7, <2>8, <2>9, <2>10 DEF SkillsKept
<1>7. QED
  BY <1>5, <1>6

\* The in-memory twin does the whole of it under its mutex.
LEMMA MemoryAddSkillKeeps ==
  ASSUME SkillsKept, NEW a \in Authors, MemoryAddSkill(a)
  PROVE  SkillsKept'
<1>1. SkillTypes /\ RowsApart /\ OneUnregister
  BY DEF SkillsKept
<1>2. PICK n0 : n0 = Upcoming(a)
  OBVIOUS
<1>3. PICK row : row = [id      |-> IF n0 \in DOMAIN table THEN table[n0].id ELSE FreshId,
                        version |-> IF n0 \in DOMAIN table THEN table[n0].version + 1 ELSE 1]
  OBVIOUS
<1>4. PICK e : e = [pc |-> "readBack", rest |-> effect[a].rest \ {n0}, name |-> n0,
                    id |-> row.id, version |-> 0]
  OBVIOUS
<1>5. /\ effect' = [effect EXCEPT ![a] = e] /\ effect[a].pc = "next" /\ twin = "memory"
      /\ table' = Put(table, n0, row)
      /\ nextSkill' = IF n0 \in DOMAIN table THEN nextSkill ELSE FreshId
      /\ Begins(n0)
      /\ UNCHANGED <<twin, registry, owed, removal, inbox, stops>>
  <2>1. effect' = [effect EXCEPT ![a] = [pc |-> "readBack", rest |-> @.rest \ {n0}, name |-> n0,
                                         id |-> row.id, version |-> 0]]
    BY <1>2, <1>3 DEF MemoryAddSkill
  <2>2. QED
    BY <1>2, <1>3, <1>4, <2>1 DEF MemoryAddSkill, Storing
<1>6. n0 \in SkillNames /\ effect[a].rest \ {n0} \in SUBSET SkillNames
  <2>1. effect[a].rest \in SUBSET SkillNames /\ effect[a].rest # {}
    BY <1>1 DEF SkillTypes, SkillEffectType, MemoryAddSkill, Storing
  <2>2. n0 \in effect[a].rest
    BY <1>2, <2>1 DEF Upcoming
  <2>3. QED
    BY <2>1, <2>2
<1>7. /\ row \in [id : Nat, version : Nat]
      /\ row.id = IF n0 \in DOMAIN table THEN table[n0].id ELSE FreshId
  <2>1. FreshId \in Nat
    BY <1>1, FreshIdFacts
  <2>2. n0 \in DOMAIN table => table[n0].id \in Nat /\ table[n0].version \in Nat
    BY <1>1 DEF SkillTypes, Entries
  <2>3. n0 \in DOMAIN table => table[n0].version + 1 \in Nat
    BY <2>2
  <2>4. QED
    BY <1>3, <2>1, <2>2, <2>3
<1>8. /\ e.pc = "readBack" /\ e.name = n0 /\ e.id = row.id /\ e.version = 0
      /\ e \in SkillEffectType
  BY <1>4, <1>6, <1>7 DEF SkillEffectType, Busy
<1>9. /\ Entries(table') /\ RowsApart' /\ n0 \in DOMAIN table' /\ table'[n0] = row
      /\ \A m : m # n0 => (m \in DOMAIN table' <=> m \in DOMAIN table)
      /\ \A m \in DOMAIN table : m # n0 => table'[m] = table[m]
  BY <1>1, <1>5, <1>6, <1>7, PutFacts
<1>10. SkillTypes'
  <2>1. AuthorTyped(e)
    BY <1>6, <1>8 DEF AuthorTyped
  <2>2. nextSkill' \in Nat /\ inbox' \in Seq(SkillMessageType)
    BY <1>1, <1>5, FreshIdFacts DEF SkillTypes
  <2>3. QED
    BY <1>1, <1>5, <1>9, <2>1, <2>2, AuthorTypes
<1>11. OneUnregister'
  BY <1>1, <1>5 DEF OneUnregister
<1>12. ASSUME NEW n \in SkillNames \ unsettled' PROVE Settled(n)'
  <2>1. CASE n # n0
    <3>1. n \notin unsettled
      BY <1>5, <1>12, <2>1 DEF Begins
    <3>2. Settled(n)
      BY <3>1 DEF SkillsKept
    <3>3. ~Handles(a, n) /\ ~(e.pc \in Busy /\ e.name = n)
      BY <1>5, <1>8, <2>1 DEF Handles, Busy
    <3>4. QED
      BY <1>1, <1>5, <1>9, <1>10, <2>1, <3>2, <3>3, AuthorAside, NewsSame
  <2>2. CASE n = n0
    <3>1. ~Open(n)
      BY <1>5, <1>12, <2>2 DEF Begins
    <3>2. ~Has(inbox, About(n)) /\ ~Removing(n) /\ \A b \in Authors : ~Handles(b, n)
      BY <1>1, <3>1, IdleSkill
    <3>3. effect'[a] = e /\ \A b \in Authors : b # a => effect'[b] = effect[b]
      BY <1>1, <1>5, AuthorMoves
    <3>4. Handles(a, n)' /\ \A b \in Authors : Handles(b, n)' => b = a
      BY <1>8, <2>2, <3>2, <3>3 DEF Handles, Busy
    <3>5. Knows(effect[a])'
      BY <1>8, <1>9, <3>3 DEF Knows
    <3>6. ~Has(inbox', About(n)) /\ ~Removing(n)'
      BY <1>5, <3>2 DEF Removing
    <3>7. QED
      BY <1>10, <3>4, <3>5, <3>6, AtWork
  <2>3. QED
    BY <2>1, <2>2
<1>13. QED
  BY <1>9, <1>10, <1>11, <1>12 DEF SkillsKept

\* Reading the row back keeps the invariant.
LEMMA ReadBackKeeps ==
  ASSUME SkillsKept, NEW a \in Authors, ReadBack(a)
  PROVE  SkillsKept'
<1>1. SkillTypes /\ RowsApart /\ OneUnregister
  BY DEF SkillsKept
<1>2. PICK found : found = {table[n].version : n \in Named(effect[a].id)}
  OBVIOUS
<1>3. PICK v : v = IF found = {} THEN 0 ELSE CHOOSE u \in found : TRUE
  OBVIOUS
<1>4. PICK e : e = [effect[a] EXCEPT !.pc = "emit", !.version = v]
  OBVIOUS
<1>5. /\ effect' = [effect EXCEPT ![a] = e] /\ effect[a].pc = "readBack"
      /\ UNCHANGED <<twin, table, nextSkill, registry, owed, removal, inbox, unsettled, stops>>
  <2>1. effect' = [effect EXCEPT ![a] = [@ EXCEPT !.pc = "emit", !.version = v]]
    BY <1>2, <1>3 DEF ReadBack
  <2>2. effect \in [Authors -> SkillEffectType]
    BY <1>1 DEF SkillTypes
  <2>3. effect' = [effect EXCEPT ![a] = e]
    BY <1>4, <2>1, <2>2
  <2>4. QED
    BY <2>3 DEF ReadBack
<1>6. effect[a] \in SkillEffectType /\ effect[a].name \in SkillNames
  BY <1>1, <1>5 DEF SkillTypes, Busy
<1>7. v \in Nat
  <2>1. \A n \in DOMAIN table : table[n].version \in Nat
    BY <1>1 DEF SkillTypes, Entries
  <2>2. found \subseteq Nat
    BY <1>2, <2>1 DEF Named
  <2>3. QED
    BY <1>3, <2>2
<1>8. /\ e \in SkillEffectType /\ e.pc = "emit" /\ e.id = effect[a].id
      /\ e.name = effect[a].name /\ e.version = v
  BY <1>4, <1>6, <1>7 DEF SkillEffectType, Busy
<1>9. SkillTypes'
  <2>1. AuthorTyped(e)
    BY <1>6, <1>8 DEF AuthorTyped
  <2>2. nextSkill' \in Nat /\ Entries(table') /\ inbox' \in Seq(SkillMessageType)
    BY <1>1, <1>5 DEF SkillTypes
  <2>3. QED
    BY <1>1, <1>5, <2>1, <2>2, AuthorTypes
<1>10. RowsApart' /\ OneUnregister'
  BY <1>1, <1>5 DEF RowsApart, OneUnregister
<1>11. ASSUME NEW n \in SkillNames \ unsettled' PROVE Settled(n)'
  <2>1. n \notin unsettled /\ Settled(n)
    BY <1>5, <1>11 DEF SkillsKept
  <2>2. CASE n # effect[a].name
    <3>1. ~Handles(a, n) /\ ~(e.pc \in Busy /\ e.name = n)
      BY <1>8, <2>2 DEF Handles
    <3>2. QED
      BY <1>1, <1>5, <1>9, <2>1, <3>1, AuthorAside, NewsSame
  <2>3. CASE n = effect[a].name
    <3>1. Handles(a, n)
      BY <1>5, <2>3 DEF Handles, Busy
    <3>2. /\ \A b \in Authors : Handles(b, n) => b = a
          /\ ~Has(inbox, About(n)) /\ ~Removing(n) /\ Knows(effect[a])
      BY <1>1, <2>1, <3>1, Handling
    <3>3. effect'[a] = e /\ \A b \in Authors : b # a => effect'[b] = effect[b]
      BY <1>1, <1>5, AuthorMoves
    <3>4. Handles(a, n)' /\ \A b \in Authors : Handles(b, n)' => b = a
      BY <1>8, <2>3, <3>2, <3>3 DEF Handles, Busy
    <3>5. n \in DOMAIN table /\ table[n].id = effect[a].id
      BY <1>5, <2>3, <3>2 DEF Knows
    <3>6. v = table[n].version
      <4>1. Named(effect[a].id) = {n}
        BY <1>1, <3>5 DEF Named, RowsApart
      <4>2. found = {table[n].version}
        BY <1>2, <4>1
      <4>3. QED
        BY <1>3, <4>2
    <3>7. table[n] = [id |-> table[n].id, version |-> table[n].version]
      BY <1>1, <3>5 DEF SkillTypes, Entries
    <3>8. Knows(effect[a])'
      BY <1>5, <1>8, <2>3, <3>3, <3>5, <3>6, <3>7 DEF Knows
    <3>9. ~Has(inbox', About(n)) /\ ~Removing(n)'
      BY <1>5, <3>2 DEF Removing
    <3>10. QED
      BY <1>9, <3>4, <3>8, <3>9, AtWork
  <2>4. QED
    BY <2>2, <2>3
<1>12. QED
  BY <1>9, <1>10, <1>11 DEF SkillsKept

\* A skill nobody is at any more, whose last word is on its way.
LEMMA OnItsWay ==
  ASSUME SkillTypes', NEW n \in SkillNames, \A b \in Authors : ~Handles(b, n)',
         Once(inbox', About(n)), Has(inbox', About(n)),
         Removing(n)' => n \notin DOMAIN table',
         \A i \in DOMAIN inbox' : inbox'[i].name = n /\ inbox'[i].kind = "register" =>
           /\ ~Removing(n)' /\ n \in DOMAIN table'
           /\ table'[n] = [id |-> inbox'[i].id, version |-> inbox'[i].version]
  PROVE  Settled(n)'
<1>1. Open(n)'
  BY DEF Has, About, Open
<1>2. OneOperation(n)'
  BY DEF OneOperation
<1>3. QED
  BY <1>1, <1>2 DEF Settled

\* Emitting register-skill keeps the invariant.
LEMMA EmitRegisterKeeps ==
  ASSUME SkillsKept, NEW a \in Authors, EmitRegister(a)
  PROVE  SkillsKept'
<1>1. SkillTypes /\ RowsApart /\ OneUnregister
  BY DEF SkillsKept
<1>2. PICK n0 : n0 = effect[a].name
  OBVIOUS
<1>3. PICK m : m = [kind |-> "register", name |-> n0,
                    id |-> effect[a].id, version |-> effect[a].version]
  OBVIOUS
<1>4. PICK e : e = [NoEffect EXCEPT !.pc = "next", !.rest = effect[a].rest]
  OBVIOUS
<1>5. /\ effect' = [effect EXCEPT ![a] = e] /\ effect[a].pc = "emit"
      /\ inbox' = Append(inbox, m)
      /\ UNCHANGED <<twin, table, nextSkill, registry, owed, removal, unsettled, stops>>
  BY <1>2, <1>3, <1>4 DEF EmitRegister
<1>6. effect[a] \in SkillEffectType /\ n0 \in SkillNames
  BY <1>1, <1>2, <1>5 DEF SkillTypes, Busy
<1>7. e.pc = "next" /\ e \in SkillEffectType
  BY <1>4, <1>6 DEF SkillEffectType, NoEffect
<1>8. /\ m.kind = "register" /\ m.name = n0 /\ m.id = effect[a].id
      /\ m.version = effect[a].version /\ m \in SkillMessageType
  BY <1>3, <1>6 DEF SkillEffectType, SkillMessageType
<1>9. inbox \in Seq(SkillMessageType)
  BY <1>1 DEF SkillTypes
<1>10. /\ inbox' \in Seq(SkillMessageType)
       /\ \A i \in DOMAIN inbox' : inbox'[i] = m \/ \E j \in DOMAIN inbox : inbox[j] = inbox'[i]
       /\ \A K : Has(inbox', K) <=> Has(inbox, K) \/ m \in K
       /\ \A K : Once(inbox, K) /\ (m \notin K \/ ~Has(inbox, K)) => Once(inbox', K)
       /\ \A n \in SkillNames : m.name # n => SameNews(n)
  BY <1>5, <1>8, <1>9, NewsAppended
<1>11. SkillTypes'
  <2>1. AuthorTyped(e)
    BY <1>7 DEF AuthorTyped, Busy
  <2>2. nextSkill' \in Nat /\ Entries(table')
    BY <1>1, <1>5 DEF SkillTypes
  <2>3. QED
    BY <1>1, <1>5, <1>10, <2>1, <2>2, AuthorTypes
<1>12. RowsApart'
  BY <1>1, <1>5 DEF RowsApart
<1>13. OneUnregister'
  <2>1. m \notin Unregisters
    BY <1>8 DEF Unregisters
  <2>2. Once(inbox', Unregisters)
    BY <1>1, <1>10, <2>1 DEF OneUnregister
  <2>3. \A i \in DOMAIN inbox' : inbox'[i].kind = "unregister" =>
          removal'.pc = "sent" /\ removal'.name = inbox'[i].name
    BY <1>1, <1>5, <1>8, <1>10 DEF OneUnregister
  <2>4. QED
    BY <2>2, <2>3 DEF OneUnregister
<1>14. ASSUME NEW n \in SkillNames \ unsettled' PROVE Settled(n)'
  <2>1. n \notin unsettled /\ Settled(n)
    BY <1>5, <1>14 DEF SkillsKept
  <2>2. CASE n # n0
    <3>1. ~Handles(a, n) /\ ~(e.pc \in Busy /\ e.name = n) /\ SameNews(n)
      BY <1>2, <1>7, <1>8, <1>10, <2>2 DEF Handles, Busy
    <3>2. QED
      BY <1>1, <1>5, <1>11, <2>1, <3>1, AuthorAside
  <2>3. CASE n = n0
    <3>1. Handles(a, n)
      BY <1>2, <1>5, <2>3 DEF Handles, Busy
    <3>2. /\ \A b \in Authors : Handles(b, n) => b = a
          /\ ~Has(inbox, About(n)) /\ ~Removing(n) /\ Knows(effect[a])
          /\ Once(inbox, About(n))
      BY <1>1, <2>1, <3>1, Handling DEF Settled, OneOperation
    <3>3. effect'[a] = e /\ \A b \in Authors : b # a => effect'[b] = effect[b]
      BY <1>1, <1>5, AuthorMoves
    <3>4. \A b \in Authors : ~Handles(b, n)'
      BY <1>7, <3>2, <3>3 DEF Handles, Busy
    <3>5. m \in About(n)
      BY <1>8, <2>3 DEF About
    <3>6. Once(inbox', About(n)) /\ Has(inbox', About(n))
      BY <1>10, <3>2, <3>5
    <3>7. /\ n \in DOMAIN table
          /\ table[n] = [id |-> m.id, version |-> m.version]
      BY <1>2, <1>5, <1>8, <2>3, <3>2 DEF Knows
    <3>8. \A i \in DOMAIN inbox' : inbox'[i].name = n => inbox'[i] = m
      <4>1. \A j \in DOMAIN inbox : inbox[j] \in SkillMessageType
        BY <1>9
      <4>2. \A j \in DOMAIN inbox : inbox[j].name # n
        BY <3>2, <4>1 DEF Has, About
      <4>3. QED
        BY <1>10, <4>2
    <3>9. ~Removing(n)'
      BY <1>5, <3>2 DEF Removing
    <3>10. QED
      BY <1>5, <1>11, <3>4, <3>6, <3>7, <3>8, <3>9, OnItsWay
  <2>4. QED
    BY <2>2, <2>3
<1>15. QED
  BY <1>11, <1>12, <1>13, <1>14 DEF SkillsKept

\* Emitting skill-harvested keeps the invariant.
LEMMA EmitHarvestedKeeps ==
  ASSUME SkillsKept, NEW a \in Authors, EmitHarvested(a)
  PROVE  SkillsKept'
<1>1. SkillTypes /\ RowsApart /\ OneUnregister
  BY DEF SkillsKept
<1>2. PICK m : m = [kind |-> "harvested", name |-> "", id |-> a, version |-> 0]
  OBVIOUS
<1>3. PICK e : e = Over("done")
  OBVIOUS
<1>4. /\ effect' = [effect EXCEPT ![a] = e] /\ effect[a].pc = "next"
      /\ inbox' = Append(inbox, m)
      /\ UNCHANGED <<twin, table, nextSkill, registry, owed, removal, unsettled, stops>>
  BY <1>2, <1>3 DEF EmitHarvested
<1>5. e.pc = "done" /\ e \in SkillEffectType
  BY <1>3 DEF Over, NoEffect, SkillEffectType
<1>6. m.kind = "harvested" /\ m.name \notin SkillNames /\ m \in SkillMessageType
  BY <1>2, SkillsAssumption DEF SkillMessageType
<1>7. /\ inbox' \in Seq(SkillMessageType)
      /\ \A i \in DOMAIN inbox' : inbox'[i] = m \/ \E j \in DOMAIN inbox : inbox[j] = inbox'[i]
      /\ \A K : Once(inbox, K) /\ (m \notin K \/ ~Has(inbox, K)) => Once(inbox', K)
      /\ \A n \in SkillNames : m.name # n => SameNews(n)
  <2>1. inbox \in Seq(SkillMessageType)
    BY <1>1 DEF SkillTypes
  <2>2. QED
    BY <1>4, <1>6, <2>1, NewsAppended
<1>8. SkillTypes'
  <2>1. AuthorTyped(e)
    BY <1>5 DEF AuthorTyped, Busy
  <2>2. nextSkill' \in Nat /\ Entries(table')
    BY <1>1, <1>4 DEF SkillTypes
  <2>3. QED
    BY <1>1, <1>4, <1>7, <2>1, <2>2, AuthorTypes
<1>9. RowsApart'
  BY <1>1, <1>4 DEF RowsApart
<1>10. OneUnregister'
  <2>1. m \notin Unregisters
    BY <1>6 DEF Unregisters
  <2>2. Once(inbox', Unregisters)
    BY <1>1, <1>7, <2>1 DEF OneUnregister
  <2>3. \A i \in DOMAIN inbox' : inbox'[i].kind = "unregister" =>
          removal'.pc = "sent" /\ removal'.name = inbox'[i].name
    BY <1>1, <1>4, <1>6, <1>7 DEF OneUnregister
  <2>4. QED
    BY <2>2, <2>3 DEF OneUnregister
<1>11. ASSUME NEW n \in SkillNames \ unsettled' PROVE Settled(n)'
  <2>1. n \notin unsettled /\ Settled(n)
    BY <1>4, <1>11 DEF SkillsKept
  <2>2. ~Handles(a, n) /\ ~(e.pc \in Busy /\ e.name = n) /\ SameNews(n)
    BY <1>4, <1>5, <1>6, <1>7 DEF Handles, Busy
  <2>3. QED
    BY <1>1, <1>4, <1>8, <2>1, <2>2, AuthorAside
<1>12. QED
  BY <1>8, <1>9, <1>10, <1>11 DEF SkillsKept

\* A store-skill that fails keeps the invariant.
LEMMA StoreSkillFailsKeeps ==
  ASSUME SkillsKept, NEW a \in Authors, StoreSkillFails(a)
  PROVE  SkillsKept'
<1>1. SkillTypes /\ RowsApart /\ OneUnregister
  BY DEF SkillsKept
<1>2. PICK e : e = Over("failed")
  OBVIOUS
<1>3. /\ effect' = [effect EXCEPT ![a] = e]
      /\ unsettled' = unsettled \cup (IF effect[a].pc \in Busy THEN {effect[a].name} ELSE {})
      /\ UNCHANGED <<twin, table, nextSkill, registry, owed, removal, inbox>>
  BY <1>2 DEF StoreSkillFails, Busy
<1>4. e.pc = "failed" /\ e \in SkillEffectType
  BY <1>2 DEF Over, NoEffect, SkillEffectType
<1>5. SkillTypes'
  <2>1. AuthorTyped(e)
    BY <1>4 DEF AuthorTyped, Busy
  <2>2. nextSkill' \in Nat /\ Entries(table') /\ inbox' \in Seq(SkillMessageType)
    BY <1>1, <1>3 DEF SkillTypes
  <2>3. QED
    BY <1>1, <1>3, <2>1, <2>2, AuthorTypes
<1>6. RowsApart' /\ OneUnregister'
  BY <1>1, <1>3 DEF RowsApart, OneUnregister
<1>7. ASSUME NEW n \in SkillNames \ unsettled' PROVE Settled(n)'
  <2>1. n \notin unsettled /\ Settled(n)
    BY <1>3, <1>7 DEF SkillsKept
  <2>2. ~Handles(a, n) /\ ~(e.pc \in Busy /\ e.name = n)
    BY <1>3, <1>4, <1>7 DEF Handles, Busy
  <2>3. QED
    BY <1>1, <1>3, <1>5, <2>1, <2>2, AuthorAside, NewsSame
<1>8. QED
  BY <1>5, <1>6, <1>7 DEF SkillsKept

\* While no removal waits for its answer no unregister-skill is on the channel.
LEMMA NoUnregister ==
  ASSUME SkillTypes, OneUnregister, removal.pc # "sent"
  PROVE  ~Has(inbox, Unregisters) /\ \A i \in DOMAIN inbox : inbox[i].kind # "unregister"
BY DEF OneUnregister, Has, Unregisters

\* A step that changes nothing keeps the invariant.
LEMMA SkillsStand ==
  ASSUME SkillsKept,
         UNCHANGED <<twin, table, nextSkill, registry, owed, effect, removal, inbox, unsettled>>
  PROVE  SkillsKept'
<1>1. SkillTypes /\ RowsApart /\ OneUnregister
  BY DEF SkillsKept
<1>2. SkillTypes'
  <2>1. Entries(table)' /\ Entries(registry)'
    <3>1. Entries(table) /\ Entries(registry)
      BY <1>1 DEF SkillTypes
    <3>2. QED
      BY <3>1 DEF Entries
  <2>2. QED
    BY <1>1, <2>1 DEF SkillTypes
<1>3. RowsApart' /\ OneUnregister'
  BY <1>1 DEF RowsApart, OneUnregister
<1>4. ASSUME NEW n \in SkillNames \ unsettled' PROVE Settled(n)'
  <2>1. Settled(n)
    BY <1>4 DEF SkillsKept
  <2>2. Undisturbed(n)
    BY NewsSame DEF Undisturbed, Handles, Removing
  <2>3. QED
    BY <1>1, <1>2, <2>1, <2>2, StaysSettled
<1>5. QED
  BY <1>2, <1>3, <1>4 DEF SkillsKept

\* Deleting a skill's row keeps the invariant.
LEMMA DeleteSkillKeeps ==
  ASSUME SkillsKept, NEW n0 \in SkillNames, DeleteSkill(n0)
  PROVE  SkillsKept'
<1>1. SkillTypes /\ RowsApart /\ OneUnregister
  BY DEF SkillsKept
<1>2. CASE UNCHANGED <<table, unsettled, removal>>
  <2>1. UNCHANGED <<twin, table, nextSkill, registry, owed, effect, removal, inbox, unsettled>>
    BY <1>2 DEF DeleteSkill
  <2>2. QED
    BY <2>1, SkillsStand
<1>3. CASE /\ Begins(n0) /\ table' = Drop(table, n0)
           /\ removal' = [pc |-> "deleted", name |-> n0]
  <2>1. removal.pc = "idle" /\ UNCHANGED <<twin, nextSkill, registry, owed, effect, inbox>>
    BY DEF DeleteSkill
  <2>2. /\ DOMAIN table' = DOMAIN table \ {n0} /\ \A n \in DOMAIN table' : table'[n] = table[n]
        /\ table' = [n \in DOMAIN table' |-> table'[n]]
    BY <1>3 DEF Drop
  <2>3. removal'.pc = "deleted" /\ removal'.name = n0
    BY <1>3
  <2>4. SkillTypes'
    <3>1. Entries(table)' /\ Entries(registry)'
      <4>1. Entries(table) /\ Entries(registry)
        BY <1>1 DEF SkillTypes
      <4>2. QED
        BY <2>1, <2>2, <4>1 DEF Entries
    <3>2. removal' \in [pc : {"idle", "deleted", "sent"}, name : SkillNames \cup {""}]
      BY <1>3
    <3>3. QED
      BY <1>1, <2>1, <2>3, <3>1, <3>2 DEF SkillTypes
  <2>5. RowsApart'
    BY <1>1, <2>1, <2>2 DEF RowsApart
  <2>6. OneUnregister'
    BY <1>1, <2>1, NoUnregister DEF OneUnregister
  <2>7. ASSUME NEW n \in SkillNames \ unsettled' PROVE Settled(n)'
    <3>1. CASE n # n0
      <4>1. n \notin unsettled
        BY <1>3, <2>7, <3>1 DEF Begins
      <4>2. Settled(n)
        BY <4>1 DEF SkillsKept
      <4>3. Removing(n)' <=> Removing(n)
        BY <2>1, <2>3, <3>1 DEF Removing
      <4>4. \A a \in Authors : /\ Handles(a, n)' <=> Handles(a, n)
                               /\ effect'[a] = effect[a]
        BY <2>1 DEF Handles
      <4>5. SameNews(n)
        BY <2>1, NewsSame
      <4>6. Undisturbed(n)
        BY <2>1, <2>2, <3>1, <4>3, <4>4, <4>5 DEF Undisturbed
      <4>7. QED
        BY <1>1, <2>4, <4>2, <4>6, StaysSettled
    <3>2. CASE n = n0
      <4>1. ~Open(n)
        BY <1>3, <2>7, <3>2 DEF Begins
      <4>2. \A i \in DOMAIN inbox : inbox[i].name # n
        BY <4>1 DEF Open
      <4>3. \A a \in Authors : ~Handles(a, n)
        BY <1>1, <4>1, IdleSkill
      <4>4. \A a \in Authors : ~Handles(a, n)'
        BY <2>1, <4>3 DEF Handles
      <4>5. Once(inbox', About(n))
        BY <2>1, <4>2 DEF Once, About
      <4>6. n \notin DOMAIN table'
        BY <2>2, <3>2
      <4>7. OneOperation(n)'
        BY <2>1, <4>2, <4>4, <4>5, <4>6 DEF OneOperation
      <4>8. Open(n)'
        BY <2>3, <3>2 DEF Open
      <4>9. QED
        BY <4>7, <4>8 DEF Settled
    <3>3. QED
      BY <3>1, <3>2
  <2>8. QED
    BY <2>4, <2>5, <2>6, <2>7 DEF SkillsKept
<1>4. QED
  BY <1>2, <1>3 DEF DeleteSkill

\* Sending unregister-skill keeps the invariant.
LEMMA SendUnregisterKeeps ==
  ASSUME SkillsKept, SendUnregister
  PROVE  SkillsKept'
<1>1. SkillTypes /\ RowsApart /\ OneUnregister
  BY DEF SkillsKept
<1>2. PICK n0 \in SkillNames : n0 = removal.name
  BY <1>1 DEF SkillTypes, SendUnregister
<1>3. PICK m : m = [kind |-> "unregister", name |-> n0, id |-> 0, version |-> 0]
  OBVIOUS
<1>4. /\ inbox' = Append(inbox, m) /\ removal' = [removal EXCEPT !.pc = "sent"]
      /\ removal.pc = "deleted"
      /\ UNCHANGED <<twin, table, nextSkill, registry, owed, effect, unsettled, stops>>
  BY <1>2, <1>3 DEF SendUnregister
<1>5. /\ removal'.pc = "sent" /\ removal'.name = n0
      /\ removal' \in [pc : {"idle", "deleted", "sent"}, name : SkillNames \cup {""}]
  BY <1>1, <1>2, <1>4 DEF SkillTypes
<1>6. m.kind = "unregister" /\ m.name = n0 /\ m \in SkillMessageType /\ m \in Unregisters
  BY <1>3 DEF SkillMessageType, Unregisters
<1>7. inbox \in Seq(SkillMessageType)
  BY <1>1 DEF SkillTypes
<1>8. /\ inbox' \in Seq(SkillMessageType)
      /\ \A i \in DOMAIN inbox' : inbox'[i] = m \/ \E j \in DOMAIN inbox : inbox[j] = inbox'[i]
      /\ \A K : Has(inbox', K) <=> Has(inbox, K) \/ m \in K
      /\ \A K : Once(inbox, K) /\ (m \notin K \/ ~Has(inbox, K)) => Once(inbox', K)
      /\ \A n \in SkillNames : m.name # n => SameNews(n)
  BY <1>4, <1>6, <1>7, NewsAppended
<1>9. SkillTypes'
  <2>1. Entries(table)' /\ Entries(registry)'
    <3>1. Entries(table) /\ Entries(registry)
      BY <1>1 DEF SkillTypes
    <3>2. QED
      BY <1>4, <3>1 DEF Entries
  <2>2. QED
    BY <1>1, <1>4, <1>5, <1>8, <2>1 DEF SkillTypes
<1>10. RowsApart'
  BY <1>1, <1>4 DEF RowsApart
<1>11. ~Has(inbox, Unregisters) /\ \A i \in DOMAIN inbox : inbox[i].kind # "unregister"
  BY <1>1, <1>4, NoUnregister
<1>12. OneUnregister'
  <2>1. Once(inbox', Unregisters)
    BY <1>1, <1>8, <1>11 DEF OneUnregister
  <2>2. \A i \in DOMAIN inbox' : inbox'[i].kind = "unregister" => inbox'[i] = m
    BY <1>8, <1>11
  <2>3. QED
    BY <1>5, <1>6, <2>1, <2>2 DEF OneUnregister
<1>13. ASSUME NEW n \in SkillNames \ unsettled' PROVE Settled(n)'
  <2>1. n \notin unsettled /\ Settled(n)
    BY <1>4, <1>13 DEF SkillsKept
  <2>2. \A a \in Authors : /\ Handles(a, n)' <=> Handles(a, n)
                           /\ effect'[a] = effect[a]
    BY <1>4 DEF Handles
  <2>3. CASE n # n0
    <3>1. Removing(n)' <=> Removing(n)
      BY <1>2, <1>5, <2>3 DEF Removing
    <3>2. SameNews(n)
      BY <1>6, <1>8, <2>3
    <3>3. Undisturbed(n)
      BY <1>4, <2>2, <3>1, <3>2 DEF Undisturbed
    <3>4. QED
      BY <1>1, <1>9, <2>1, <3>3, StaysSettled
  <2>4. CASE n = n0
    <3>1. Removing(n)
      BY <1>2, <1>4, <2>4 DEF Removing
    <3>2. /\ n \notin DOMAIN table /\ Once(inbox, About(n))
          /\ \A a \in Authors : ~Handles(a, n)
          /\ \A i \in DOMAIN inbox : ~(inbox[i].name = n /\ inbox[i].kind = "register")
      BY <2>1, <3>1 DEF Settled, OneOperation
    <3>3. ~Has(inbox, About(n))
      <4>1. \A i \in DOMAIN inbox : inbox[i] \in SkillMessageType
        BY <1>7
      <4>2. \A i \in DOMAIN inbox : inbox[i].name # n
        BY <1>11, <3>2, <4>1, SkillsAssumption DEF SkillMessageType
      <4>3. QED
        BY <4>2 DEF Has, About
    <3>4. m \in About(n)
      BY <1>6, <2>4 DEF About
    <3>5. Once(inbox', About(n)) /\ Has(inbox', About(n))
      BY <1>8, <3>2, <3>3, <3>4
    <3>6. \A i \in DOMAIN inbox' : ~(inbox'[i].name = n /\ inbox'[i].kind = "register")
      BY <1>6, <1>8, <3>2
    <3>7. QED
      BY <1>4, <1>9, <2>2, <3>2, <3>5, <3>6, OnItsWay
  <2>5. QED
    BY <2>3, <2>4
<1>14. QED
  BY <1>9, <1>10, <1>12, <1>13 DEF SkillsKept

\* The message at the head of the channel is taken.
LEMMA NewsTaken ==
  ASSUME inbox \in Seq(SkillMessageType), inbox # <<>>, inbox' = Tail(inbox)
  PROVE  /\ inbox' \in Seq(SkillMessageType)
         /\ Head(inbox) \in SkillMessageType
         /\ 1 \in DOMAIN inbox /\ inbox[1] = Head(inbox)
         /\ \A i \in DOMAIN inbox' : \E j \in DOMAIN inbox : inbox[j] = inbox'[i]
         /\ \A K : Once(inbox, K) => Once(inbox', K)
         /\ \A K : Once(inbox, K) /\ Head(inbox) \in K => ~Has(inbox', K)
         /\ \A n \in SkillNames : Head(inbox).name # n => SameNews(n)
<1>1. Less(inbox', inbox, 1) /\ inbox' \in Seq(SkillMessageType)
  BY TailLess
<1>2. 1 \in DOMAIN inbox /\ inbox[1] = Head(inbox) /\ Head(inbox) \in SkillMessageType
  OBVIOUS
<1>3. \A K : /\ Has(inbox', K) => Has(inbox, K)
             /\ Once(inbox, K) => Once(inbox', K)
             /\ Once(inbox, K) /\ 1 \in DOMAIN inbox /\ inbox[1] \in K => ~Has(inbox', K)
  BY <1>1, LessHas
<1>4. \A i \in DOMAIN inbox' : \E j \in DOMAIN inbox : inbox[j] = inbox'[i]
  BY <1>1 DEF Less
<1>5. ASSUME NEW n \in SkillNames, Head(inbox).name # n PROVE SameNews(n)
  <2>1. Has(inbox, About(n)) => Has(inbox', About(n))
    <3>1. SUFFICES ASSUME NEW i \in DOMAIN inbox, inbox[i] \in About(n)
                   PROVE  Has(inbox', About(n))
      BY DEF Has
    <3>2. i # 1
      BY <1>2, <1>5, <3>1 DEF About
    <3>3. i - 1 \in DOMAIN inbox' /\ inbox'[i - 1] = inbox[i]
      BY <1>2, <3>1, <3>2
    <3>4. QED
      BY <3>1, <3>3 DEF Has
  <2>2. QED
    BY <1>3, <1>4, <2>1 DEF SameNews
<1>6. QED
  BY <1>1, <1>2, <1>3, <1>4, <1>5

\* A skill at rest whose homes agree.
LEMMA AtRest ==
  ASSUME SkillTypes', NEW n \in SkillNames, \A b \in Authors : ~Handles(b, n)',
         ~Has(inbox', About(n)), ~Removing(n)', HomesAgree(n)'
  PROVE  Settled(n)'
<1>1. \A i \in DOMAIN inbox' : inbox'[i].name # n /\ inbox'[i] \notin About(n)
  <2>1. inbox' \in Seq(SkillMessageType)
    BY DEF SkillTypes
  <2>2. \A i \in DOMAIN inbox' : inbox'[i] \in SkillMessageType
    BY <2>1
  <2>3. QED
    BY <2>2 DEF Has, About
<1>2. OneOperation(n)'
  BY <1>1 DEF OneOperation, Once
<1>3. QED
  BY <1>2 DEF Settled

\* Applying a message to the registry keeps the invariant.
LEMMA ApplySkillKeeps ==
  ASSUME SkillsKept, Apply
  PROVE  SkillsKept'
<1>1. SkillTypes /\ RowsApart /\ OneUnregister
  BY DEF SkillsKept
<1>2. PICK m : m = Head(inbox)
  OBVIOUS
<1>3. /\ inbox # <<>> /\ inbox' = Tail(inbox)
      /\ registry' = CASE m.kind = "register" ->
                              Put(registry, m.name, [id |-> m.id, version |-> m.version])
                       [] m.kind = "unregister" -> Drop(registry, m.name)
                       [] OTHER -> registry
      /\ owed' = IF m.kind = "harvested" THEN [owed EXCEPT ![m.id] = {}] ELSE owed
      /\ removal' = IF m.kind = "unregister" THEN NoRemoval ELSE removal
      /\ UNCHANGED <<twin, table, nextSkill, effect, unsettled, stops>>
  BY <1>2 DEF Apply
<1>4. inbox \in Seq(SkillMessageType)
  BY <1>1 DEF SkillTypes
<1>5. /\ inbox' \in Seq(SkillMessageType) /\ m \in SkillMessageType
      /\ 1 \in DOMAIN inbox /\ inbox[1] = m
      /\ \A i \in DOMAIN inbox' : \E j \in DOMAIN inbox : inbox[j] = inbox'[i]
      /\ \A K : Once(inbox, K) => Once(inbox', K)
      /\ \A K : Once(inbox, K) /\ m \in K => ~Has(inbox', K)
      /\ \A n \in SkillNames : m.name # n => SameNews(n)
  BY <1>2, <1>3, <1>4, NewsTaken
<1>6. \/ m.kind = "register" /\ m.name \in SkillNames /\ m.id \in Nat /\ m.version \in Nat
      \/ m.kind = "unregister" /\ m.name \in SkillNames
      \/ m.kind = "harvested" /\ m.name = ""
  BY <1>5 DEF SkillMessageType
<1>7. Entries(table) /\ Entries(registry)
  BY <1>1 DEF SkillTypes
<1>8. /\ Entries(registry')
      /\ \A n \in SkillNames : n # m.name =>
           /\ n \in DOMAIN registry' <=> n \in DOMAIN registry
           /\ n \in DOMAIN registry => registry'[n] = registry[n]
      /\ m.kind = "register" =>
           m.name \in DOMAIN registry' /\ registry'[m.name] = [id |-> m.id, version |-> m.version]
      /\ m.kind = "unregister" => m.name \notin DOMAIN registry'
  <2>1. CASE m.kind = "register"
    <3>1. PICK row : row = [id |-> m.id, version |-> m.version]
      OBVIOUS
    <3>2. row \in [id : Nat, version : Nat] /\ m.name \in SkillNames
      BY <1>6, <2>1, <3>1
    <3>3. registry' = Put(registry, m.name, row)
      BY <1>3, <2>1, <3>1
    <3>4. /\ DOMAIN registry' = DOMAIN registry \cup {m.name} /\ registry'[m.name] = row
          /\ \A n \in DOMAIN registry : n # m.name => registry'[n] = registry[n]
          /\ registry' = [n \in DOMAIN registry' |-> registry'[n]]
      BY <3>3 DEF Put
    <3>5. Entries(registry')
      BY <1>7, <3>2, <3>4 DEF Entries
    <3>6. QED
      BY <2>1, <3>1, <3>4, <3>5
  <2>2. CASE m.kind = "unregister"
    <3>1. registry' = Drop(registry, m.name)
      BY <1>3, <2>2
    <3>2. /\ DOMAIN registry' = DOMAIN registry \ {m.name}
          /\ \A n \in DOMAIN registry' : registry'[n] = registry[n]
          /\ registry' = [n \in DOMAIN registry' |-> registry'[n]]
      BY <3>1 DEF Drop
    <3>3. Entries(registry')
      BY <1>7, <3>2 DEF Entries
    <3>4. QED
      BY <2>2, <3>2, <3>3
  <2>3. CASE m.kind = "harvested"
    <3>1. registry' = registry
      BY <1>3, <2>3
    <3>2. QED
      BY <1>7, <2>3, <3>1
  <2>4. QED
    BY <1>6, <2>1, <2>2, <2>3
<1>9. /\ removal' \in [pc : {"idle", "deleted", "sent"}, name : SkillNames \cup {""}]
      /\ removal'.pc # "idle" => removal' = removal
  BY <1>1, <1>3 DEF SkillTypes, NoRemoval
<1>10. SkillTypes'
  <2>1. Entries(table)' /\ Entries(registry)'
    BY <1>3, <1>7, <1>8 DEF Entries
  <2>2. owed' \in [Authors -> SUBSET SkillNames]
    BY <1>1, <1>3 DEF SkillTypes
  <2>3. removal'.pc # "idle" => removal'.name \in SkillNames
    BY <1>1, <1>9 DEF SkillTypes
  <2>4. QED
    BY <1>1, <1>3, <1>5, <1>9, <2>1, <2>2, <2>3 DEF SkillTypes
<1>11. RowsApart'
  BY <1>1, <1>3 DEF RowsApart
<1>12. m.kind = "unregister" => removal.pc = "sent" /\ removal.name = m.name
  BY <1>1, <1>5 DEF OneUnregister
<1>13. OneUnregister'
  <2>1. Once(inbox', Unregisters)
    BY <1>1, <1>5 DEF OneUnregister
  <2>2. CASE m.kind = "unregister"
    <3>1. m \in Unregisters
      BY <1>5, <2>2 DEF Unregisters
    <3>2. ~Has(inbox', Unregisters)
      BY <1>1, <1>5, <3>1 DEF OneUnregister
    <3>3. \A i \in DOMAIN inbox' : inbox'[i] \in SkillMessageType
      BY <1>5
    <3>4. \A i \in DOMAIN inbox' : inbox'[i].kind # "unregister"
      BY <3>2, <3>3 DEF Has, Unregisters
    <3>5. QED
      BY <2>1, <3>4 DEF OneUnregister
  <2>3. CASE m.kind # "unregister"
    <3>1. removal' = removal
      BY <1>3, <2>3
    <3>2. QED
      BY <1>1, <1>5, <2>1, <3>1 DEF OneUnregister
  <2>4. QED
    BY <2>2, <2>3
<1>14. ASSUME NEW n \in SkillNames \ unsettled' PROVE Settled(n)'
  <2>1. n \notin unsettled /\ Settled(n)
    BY <1>3, <1>14 DEF SkillsKept
  <2>2. \A a \in Authors : /\ Handles(a, n)' <=> Handles(a, n)
                           /\ effect'[a] = effect[a]
    BY <1>3 DEF Handles
  <2>3. CASE n # m.name
    <3>1. Removing(n)' <=> Removing(n)
      <4>1. CASE m.kind = "unregister"
        BY <1>3, <1>12, <2>3, <4>1 DEF Removing, NoRemoval
      <4>2. CASE m.kind # "unregister"
        BY <1>3, <4>2 DEF Removing
      <4>3. QED
        BY <4>1, <4>2
    <3>2. SameNews(n)
      BY <1>5, <2>3
    <3>3. Undisturbed(n)
      BY <1>3, <1>8, <2>2, <2>3, <3>1, <3>2 DEF Undisturbed
    <3>4. QED
      BY <1>1, <1>10, <2>1, <3>3, StaysSettled
  <2>4. CASE n = m.name
    <3>1. m \in About(n)
      BY <1>5, <2>4 DEF About
    <3>2. Has(inbox, About(n)) /\ Once(inbox, About(n))
      BY <1>5, <2>1, <3>1 DEF Has, Settled, OneOperation
    <3>3. ~Has(inbox', About(n))
      BY <1>5, <3>1, <3>2
    <3>4. \A b \in Authors : ~Handles(b, n)'
      BY <2>1, <2>2, <3>2 DEF Settled, OneOperation
    <3>5. CASE m.kind = "register"
      <4>1. /\ ~Removing(n) /\ n \in DOMAIN table
            /\ table[n] = [id |-> m.id, version |-> m.version]
        BY <1>5, <2>1, <2>4, <3>5 DEF Settled, OneOperation
      <4>2. ~Removing(n)'
        BY <1>3, <3>5, <4>1 DEF Removing
      <4>3. HomesAgree(n)'
        BY <1>3, <1>8, <2>4, <3>5, <4>1 DEF HomesAgree
      <4>4. QED
        BY <1>10, <3>3, <3>4, <4>2, <4>3, AtRest
    <3>6. CASE m.kind = "unregister"
      <4>1. n \notin DOMAIN table
        BY <1>12, <2>1, <2>4, <3>6 DEF Settled, OneOperation, Removing
      <4>2. ~Removing(n)'
        BY <1>3, <3>6 DEF Removing, NoRemoval
      <4>3. HomesAgree(n)'
        BY <1>3, <1>8, <2>4, <3>6, <4>1 DEF HomesAgree
      <4>4. QED
        BY <1>10, <3>3, <3>4, <4>2, <4>3, AtRest
    <3>7. QED
      BY <1>6, <2>4, <3>5, <3>6, SkillsAssumption
  <2>5. QED
    BY <2>3, <2>4
<1>15. QED
  BY <1>10, <1>11, <1>13, <1>14 DEF SkillsKept

\* A crash, with the log replayed, keeps the invariant.
LEMMA SkillsCrashKeeps ==
  ASSUME SkillsKept, SkillsCrash
  PROVE  SkillsKept'
<1>1. SkillTypes /\ RowsApart /\ OneUnregister
  BY DEF SkillsKept
<1>2. /\ unsettled' = unsettled \cup {n \in SkillNames : Open(n)}
      /\ effect' = [a \in Authors |-> NoEffect]
      /\ removal' = NoRemoval /\ inbox' = <<>>
      /\ UNCHANGED <<twin, table, nextSkill, registry, owed>>
  BY DEF SkillsCrash
<1>3. NoEffect \in SkillEffectType /\ NoEffect.pc = "idle"
  BY DEF NoEffect, SkillEffectType
<1>4. SkillTypes'
  <2>1. Entries(table)' /\ Entries(registry)'
    <3>1. Entries(table) /\ Entries(registry)
      BY <1>1 DEF SkillTypes
    <3>2. QED
      BY <1>2, <3>1 DEF Entries
  <2>2. effect' \in [Authors -> SkillEffectType] /\ \A a \in Authors : effect'[a].pc = "idle"
    BY <1>2, <1>3
  <2>3. /\ removal' \in [pc : {"idle", "deleted", "sent"}, name : SkillNames \cup {""}]
        /\ removal'.pc = "idle"
    BY <1>2 DEF NoRemoval
  <2>4. inbox' \in Seq(SkillMessageType)
    BY <1>2
  <2>5. QED
    BY <1>1, <1>2, <2>1, <2>2, <2>3, <2>4 DEF SkillTypes, Busy
<1>5. RowsApart' /\ OneUnregister'
  BY <1>1, <1>2 DEF RowsApart, OneUnregister, Once
<1>6. ASSUME NEW n \in SkillNames \ unsettled' PROVE Settled(n)'
  <2>1. n \notin unsettled /\ ~Open(n)
    BY <1>2, <1>6
  <2>2. HomesAgree(n)
    BY <2>1 DEF SkillsKept, Settled
  <2>3. HomesAgree(n)'
    BY <1>2, <2>2 DEF HomesAgree
  <2>4. \A b \in Authors : ~Handles(b, n)'
    BY <1>2, <1>3 DEF Handles, Busy
  <2>5. ~Has(inbox', About(n)) /\ ~Removing(n)'
    <3>1. \A i : i \notin DOMAIN inbox'
      BY <1>2
    <3>2. QED
      BY <1>2, <3>1 DEF Has, Removing, NoRemoval
  <2>6. QED
    BY <1>4, <2>3, <2>4, <2>5, AtRest
<1>7. QED
  BY <1>4, <1>5, <1>6 DEF SkillsKept

\* The invariant holds of the state the program starts in.
LEMMA SkillsKeptInit == SkillsInit => SkillsKept
<1> SUFFICES ASSUME SkillsInit PROVE SkillsKept
  OBVIOUS
<1>1. NoEffect \in SkillEffectType /\ NoEffect.pc = "idle"
  BY DEF NoEffect, SkillEffectType
<1>2. effect \in [Authors -> SkillEffectType] /\ \A a \in Authors : effect[a].pc = "idle"
  BY <1>1 DEF SkillsInit
<1>3. Entries(<<>>)
  BY DEF Entries
<1>4. removal \in [pc : {"idle", "deleted", "sent"}, name : SkillNames \cup {""}]
      /\ removal.pc = "idle"
  BY DEF SkillsInit, NoRemoval
<1>5. inbox = <<>> /\ inbox \in Seq(SkillMessageType)
  BY DEF SkillsInit
<1>6. owed \in [Authors -> SUBSET SkillNames]
  BY DEF SkillsInit
<1>7. SkillTypes
  BY <1>2, <1>3, <1>4, <1>5, <1>6 DEF SkillTypes, SkillsInit, Busy
<1>8. RowsApart /\ OneUnregister
  BY <1>5 DEF RowsApart, OneUnregister, Once, SkillsInit
<1>9. ASSUME NEW n \in SkillNames PROVE Settled(n)
  <2>1. \A a \in Authors : ~Handles(a, n)
    BY <1>2 DEF Handles, Busy
  <2>2. OneOperation(n)
    <3>1. \A i : i \notin DOMAIN inbox
      BY <1>5
    <3>2. QED
      BY <1>4, <2>1, <3>1 DEF OneOperation, Once, Removing
  <2>3. HomesAgree(n)
    BY DEF HomesAgree, SkillsInit
  <2>4. QED
    BY <2>2, <2>3 DEF Settled
<1>10. QED
  BY <1>7, <1>8, <1>9 DEF SkillsKept

\* For any skills and any number of authors, removals, failures and deaths, over
\* either store: a skill whose last operation ran to its end and met no other has
\* an entry exactly if it has a row, with the row's id and version.
THEOREM SkillHomesMatch == SkillsSpec => []SkillHomesAgree
<1>1. SkillsKept /\ [SkillsNext]_skillVars => SkillsKept'
  <2>1. SUFFICES ASSUME SkillsKept, [SkillsNext]_skillVars PROVE SkillsKept'
    OBVIOUS
  <2>2. CASE UNCHANGED skillVars
    BY <2>1, <2>2, SkillsStand DEF skillVars
  <2>3. CASE SkillsNext
    <3>1. ASSUME NEW a \in Authors,
                 \/ FireStoreSkill(a) \/ LookupSkill(a) \/ UpdateSkill(a)
                 \/ InsertSkill(a) \/ MemoryAddSkill(a) \/ ReadBack(a) \/ EmitRegister(a)
                 \/ EmitHarvested(a) \/ StoreSkillFails(a)
          PROVE  SkillsKept'
      BY <2>1, <3>1, FireStoreSkillKeeps, LookupSkillKeeps, UpdateSkillKeeps, InsertSkillKeeps,
         MemoryAddSkillKeeps, ReadBackKeeps, EmitRegisterKeeps, EmitHarvestedKeeps,
         StoreSkillFailsKeeps
    <3>2. ASSUME NEW n \in SkillNames, DeleteSkill(n) PROVE SkillsKept'
      BY <2>1, <3>2, DeleteSkillKeeps
    <3>3. CASE SendUnregister \/ Apply \/ SkillsCrash
      BY <2>1, <3>3, SendUnregisterKeeps, ApplySkillKeeps, SkillsCrashKeeps
    <3>4. QED
      BY <2>3, <3>1, <3>2, <3>3 DEF SkillsNext
  <2>4. QED
    BY <2>1, <2>2, <2>3
<1>2. SkillsKept => SkillHomesAgree
  BY DEF SkillsKept, Settled, HomesAgree, SkillHomesAgree
<1>3. QED
  BY <1>1, <1>2, SkillsKeptInit, PTL DEF SkillsSpec
=============================================================================
