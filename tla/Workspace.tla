------------------------------ MODULE Workspace ------------------------------
(***************************************************************************)
(* The directory of one task (workspace/, datastore/) and everything that  *)
(* writes into it: the mail laid in by an effect nobody waits for, the     *)
(* provisioning of a run by start-agent-run, the agent itself, and         *)
(* archive-task, which deletes it.                                         *)
(*                                                                         *)
(* The port has two implementations, which the twin rule (decision-012)    *)
(* wants indistinguishable.  disk is the directory in $WORKDIR and the     *)
(* manifest beside it: a call of OS writes one file after the other and a  *)
(* crash may fall in between.  tree is the in-memory twin, whose calls     *)
(* hold a mutex: one happens as a whole, with the last write of its twin.  *)
(*                                                                         *)
(* Abstracted: a file's bytes to what they were written from, media types  *)
(* and the order of listings left out, a skill to one file, path checks to *)
(* names that are safe already.                                            *)
(***************************************************************************)
EXTENDS Naturals, Sequences, FiniteSets

CONSTANTS
  Notes,    \* memory notes
  Apps,     \* apps
  Skills,   \* skills
  Mails,    \* mails of the task, 1..n in the order they were taken up
  Attached, \* name of the file attached to each mail
  MaxRuns,  \* bound: provisionings
  MaxEdits, \* bound: mails, and changes to notes, apps and skills, together
  MaxEnds   \* bound: crashes and archive-tasks together

VARIABLES
  disk,       \* the OS workspace: task-<id>/, its store link and the manifest
  tree,       \* the in-memory twin
  collection, \* notes and apps in the model, skills in the content store
  run,        \* start-agent-run and the agent
  mailing,    \* lay-in-from-inbox: for each mail what it is to write next
  cleaning,   \* archive-task
  torn,       \* history: what the OS workspace was left with half a call of
  spent       \* runs begun, mails and edits, ends met

workspaceVars == <<disk, tree, collection, run, mailing, cleaning, torn, spent>>

-----------------------------------------------------------------------------
\* Paths, relative to task-<id>.
NoteFile(n) == <<"in/memory", n>>
Index == <<"in", "MEMORY.md">>
AppsIndex == <<"in", "apps.json">>
InFile(name) == <<"in", name>>
SkillFile(s) == <<".claude/skills", s>>
Body == InFile("body.txt")
Reply == <<"out", "reply.txt">>
Box(p) == p[1]

\* files maps the paths that exist to their content.
Without(files, paths) == [p \in DOMAIN files \ paths |-> files[p]]
With(files, p, content) ==
  [q \in DOMAIN files \cup {p} |-> IF q = p THEN content ELSE files[q]]
In(files, box) == {p \in DOMAIN files : Box(p) = box}

Gone == [there |-> FALSE, files |-> <<>>, manifest |-> {}]
Made(t) == [t EXCEPT !.there = TRUE]
Wrote(t, p, content) == [Made(t) EXCEPT !.files = With(@, p, content)]

\* memoryParts: a note's raw content, and the index of them all.
NoteContent(notes, n) == <<"note", n, notes[n]>>
IndexContent(notes) == <<"index", notes>>
AppsContent(apps) == <<"apps.json", apps>>
MailContent(m) == <<"mail", m, "part">>

Stale(files, notes) == In(files, "in/memory") \ {NoteFile(n) : n \in DOMAIN notes}

-----------------------------------------------------------------------------
\* Memory.WriteMemory: prune, then the notes and the index, none if there is
\* no note; the name set is pinned either way.
MemoryWriteMemory(t, notes) ==
  LET kept == Without(t.files, Stale(t.files, notes) \cup {Index})
      new  == {NoteFile(n) : n \in DOMAIN notes}
              \cup (IF DOMAIN notes = {} THEN {} ELSE {Index})
  IN [there |-> TRUE, manifest |-> DOMAIN notes,
      files |-> [p \in DOMAIN kept \cup new |->
                   IF p \notin new THEN kept[p]
                   ELSE IF p = Index THEN IndexContent(notes)
                   ELSE NoteContent(notes, p[2])]]

\* WriteApps: an index of the running apps, or none at all.
WriteApps(t, apps) ==
  IF apps = {} THEN [t EXCEPT !.files = Without(@, {AppsIndex})]
  ELSE Wrote(t, AppsIndex, AppsContent(apps))

ResetOutKeepsReply(t) == Made(t)
ResetOut(t) == [Made(t) EXCEPT !.files = Without(@, In(@, "out"))]

-----------------------------------------------------------------------------
Idle == [pc |-> "idle", notes |-> <<>>, apps |-> {}, skills |-> <<>>, raced |-> FALSE,
         again |-> FALSE]

WorkspaceInit ==
  /\ disk = [there |-> FALSE, files |-> <<>>, manifest |-> {}, link |-> FALSE]
  /\ tree = Gone
  /\ collection = [notes |-> <<>>, apps |-> {}, skills |-> <<>>]
  /\ run = Idle
  /\ mailing = [m \in Mails |-> "unsent"]
  /\ cleaning = [pc |-> "idle", archived |-> {}]
  /\ torn = {}
  /\ spent = [runs |-> 0, edits |-> 0, ends |-> 0]

-----------------------------------------------------------------------------
\* remember, forget, run-app, unregister-app, store-skill, the owner's Remove: what
\* there is to provision changes, whatever is being provisioned.
Edit(new) ==
  /\ spent.edits < MaxEdits
  /\ collection' = new
  /\ spent' = [spent EXCEPT !.edits = @ + 1]
  /\ UNCHANGED <<disk, tree, run, mailing, cleaning, torn>>

Version(f, x) == IF x \in DOMAIN f THEN f[x] + 1 ELSE 1
Remember(n) == Edit([collection EXCEPT !.notes = With(@, n, Version(@, n))])
Forget(n) == n \in DOMAIN collection.notes
             /\ Edit([collection EXCEPT !.notes = Without(@, {n})])
RegisterApp(a) == a \notin collection.apps
                  /\ Edit([collection EXCEPT !.apps = @ \cup {a}])
RetireApp(a) == a \in collection.apps /\ Edit([collection EXCEPT !.apps = @ \ {a}])
StoreSkill(s) == Edit([collection EXCEPT !.skills = With(@, s, Version(@, s))])
DropSkill(s) == s \in DOMAIN collection.skills
                /\ Edit([collection EXCEPT !.skills = Without(@, {s})])

-----------------------------------------------------------------------------
\* lay-in-from-inbox: Create, then body.txt, then the attachment, under the
\* name the mail gave it; the effects of two mails may overlap.
LayIn(m) ==
  /\ mailing[m] = "unsent" /\ spent.edits < MaxEdits
  /\ \A k \in Mails : k < m => mailing[k] # "unsent"
  /\ mailing' = [mailing EXCEPT ![m] = "body"]
  /\ disk' = Made(disk) /\ tree' = Made(tree)
  /\ spent' = [spent EXCEPT !.edits = @ + 1]
  /\ UNCHANGED <<collection, run, cleaning, torn>>

Half(m) == mailing[m] = "attachment"
MailWrites(m, p) ==
  /\ disk' = Wrote(disk, p, MailContent(m))
  /\ torn' = IF \E k \in Mails \ {m} : Half(k) THEN torn \cup {"files"} ELSE torn
  /\ UNCHANGED <<collection, run, cleaning, spent>>

WriteBody(m) ==
  /\ mailing[m] = "body"
  /\ MailWrites(m, Body)
  /\ mailing' = [mailing EXCEPT ![m] = "attachment"]
  /\ UNCHANGED tree

WriteAttachment(m) ==
  /\ Half(m)
  /\ MailWrites(m, InFile(Attached[m]))
  /\ mailing' = [mailing EXCEPT ![m] = "laid"]
  /\ tree' = Wrote(Wrote(tree, Body, MailContent(m)), InFile(Attached[m]), MailContent(m))

-----------------------------------------------------------------------------
At(pc) == run.pc = pc
Goes(pc) == run' = [run EXCEPT !.pc = pc]
quiet == <<collection, mailing, cleaning, spent>>

\* launch-agent-run, for a new turn or, the same run, again after a crash: its
\* command carries the notes and the running apps of that moment.
StartRun ==
  /\ At("idle") /\ (run.again \/ spent.runs < MaxRuns)
  /\ run' = [run EXCEPT !.pc = "launched", !.notes = collection.notes,
                        !.apps = collection.apps, !.raced = cleaning.pc # "idle"]
  /\ spent' = [spent EXCEPT !.runs = IF run.again THEN @ ELSE @ + 1]
  /\ UNCHANGED <<disk, tree, collection, mailing, cleaning, torn>>

\* AllSkills: the effect reads the skill table itself, before it writes anything.
ReadSkills ==
  /\ At("launched")
  /\ run' = [run EXCEPT !.pc = "skills", !.skills = collection.skills]
  /\ UNCHANGED <<disk, tree, torn, quiet>>

\* provisionSkills: every stored skill is laid over what is there.
Lacking == {s \in DOMAIN run.skills :
              \/ SkillFile(s) \notin DOMAIN disk.files
              \/ disk.files[SkillFile(s)] # <<"skill", s, run.skills[s]>>}

WriteSkills(s) ==
  /\ At("skills") /\ s \in Lacking
  /\ disk' = Wrote(disk, SkillFile(s), <<"skill", s, run.skills[s]>>)
  /\ tree' = Wrote(tree, SkillFile(s), <<"skill", s, run.skills[s]>>)
  /\ UNCHANGED <<run, torn, quiet>>

SkillsWritten ==
  /\ At("skills") /\ Lacking = {}
  /\ Goes("prune")
  /\ UNCHANGED <<disk, tree, torn, quiet>>

PruneStaleMemorySkipped ==
  /\ At("prune")
  /\ Goes("notes")
  /\ UNCHANGED <<disk, tree, torn, quiet>>

\* pruneStaleMemory: one stale note after the other, and the index when nothing
\* is left to list.
PruneStaleMemory ==
  /\ At("prune")
  /\ LET stale == Stale(disk.files, run.notes)
         last  == IF run.notes = <<>> THEN {Index} ELSE {}
     IN \/ \E p \in stale : /\ disk' = [disk EXCEPT !.files = Without(@, {p})]
                            /\ UNCHANGED run
        \/ /\ stale = {}
           /\ disk' = [disk EXCEPT !.files = Without(@, last)]
           /\ Goes("notes")
  /\ UNCHANGED <<tree, torn, quiet>>

\* writeBox of memoryParts: the notes, then the index.
Unwritten == {n \in DOMAIN run.notes :
                \/ NoteFile(n) \notin DOMAIN disk.files
                \/ disk.files[NoteFile(n)] # NoteContent(run.notes, n)}

WriteNote(n) ==
  /\ At("notes") /\ n \in Unwritten
  /\ disk' = Wrote(disk, NoteFile(n), NoteContent(run.notes, n))
  /\ UNCHANGED <<tree, run, torn, quiet>>

WriteIndexAlways ==
  /\ At("notes") /\ Unwritten = {}
  /\ disk' = Wrote(disk, Index, IndexContent(run.notes))
  /\ Goes("manifest")
  /\ UNCHANGED <<tree, torn, quiet>>

WriteIndex ==
  /\ At("notes") /\ Unwritten = {}
  /\ disk' = IF run.notes = <<>> THEN disk
             ELSE Wrote(disk, Index, IndexContent(run.notes))
  /\ Goes("manifest")
  /\ UNCHANGED <<tree, torn, quiet>>

\* The manifest last; the in-memory twin has done the whole of it by now.
WriteManifest ==
  /\ At("manifest")
  /\ disk' = [disk EXCEPT !.manifest = DOMAIN run.notes]
  /\ tree' = MemoryWriteMemory(tree, run.notes)
  /\ torn' = torn \ (IF run.raced THEN {} ELSE {"notes"})
  /\ Goes("apps")
  /\ UNCHANGED quiet

ProvisionApps ==
  /\ At("apps")
  /\ disk' = WriteApps(disk, run.apps) /\ tree' = WriteApps(tree, run.apps)
  /\ Goes("link")
  /\ UNCHANGED <<torn, quiet>>

\* datastore.OS.Link: the link is removed and made again; a crash in between
\* leaves none.  The in-memory store has nothing to link.
Link ==
  /\ At("link")
  /\ \/ disk' = [Made(disk) EXCEPT !.link = FALSE] /\ disk.link /\ UNCHANGED run
     \/ disk' = [Made(disk) EXCEPT !.link = TRUE] /\ ~disk.link /\ Goes("out")
  /\ UNCHANGED <<tree, torn, quiet>>

EmptyOut ==
  /\ At("out")
  /\ disk' = ResetOut(disk) /\ tree' = ResetOut(tree)
  /\ Goes("handed")
  /\ UNCHANGED <<torn, quiet>>

-----------------------------------------------------------------------------
\* The agent: it writes its reply, deletes notes it was handed (DeleteIn), and
\* ends with its transcript.
ReplyFile == <<"reply", spent.runs, "">>
WriteReply ==
  /\ At("handed")
  /\ disk' = Wrote(disk, Reply, ReplyFile) /\ tree' = Wrote(tree, Reply, ReplyFile)
  /\ Goes("works")
  /\ UNCHANGED <<torn, quiet>>

DeleteIn(t, p) == [t EXCEPT !.files = Without(@, {p})]
DeleteNote(n) ==
  /\ At("works") /\ NoteFile(n) \in DOMAIN disk.files
  /\ disk' = DeleteIn(disk, NoteFile(n)) /\ tree' = DeleteIn(tree, NoteFile(n))
  /\ UNCHANGED <<run, torn, quiet>>

EndRun ==
  /\ At("works")
  /\ LET t == <<"", spent.runs>>
     IN /\ disk' = Wrote(disk, t, <<"transcript", spent.runs, "">>)
        /\ tree' = Wrote(tree, t, <<"transcript", spent.runs, "">>)
  /\ run' = Idle
  /\ UNCHANGED <<torn, quiet>>

-----------------------------------------------------------------------------
\* archive-task: the files are read and archived by their bytes, then Delete.
Archive ==
  /\ cleaning.pc = "idle" /\ spent.ends < MaxEnds
  /\ cleaning' = [pc |-> "check", archived |-> {disk.files[p] : p \in DOMAIN disk.files}]
  /\ spent' = [spent EXCEPT !.ends = @ + 1]
  /\ run' = [run EXCEPT !.raced = run.pc # "idle"]
  /\ UNCHANGED <<disk, tree, collection, mailing, torn>>

\* Calls that are half done: what a crash, or a delete that comes between, leaves
\* of one.  The next complete provisioning makes up for the notes.
Cut == (IF run.pc \in {"prune", "notes", "manifest"} \/ cleaning.pc = "manifest"
        THEN {"notes"} ELSE {})
       \cup (IF \E m \in Mails : Half(m) THEN {"files"} ELSE {})

Covered(files) == \A p \in DOMAIN files : files[p] \in cleaning.archived
Cleans(pc) == cleaning' = [cleaning EXCEPT !.pc = pc]

\* OS.Delete lists and compares, then removes the directory, then the manifest.
\* What is written after the listing goes unseen.
CheckCovered ==
  /\ cleaning.pc = "check"
  /\ Cleans(IF Covered(disk.files) THEN "remove" ELSE "idle")
  /\ UNCHANGED <<disk, tree, collection, run, mailing, torn, spent>>

\* Memory.Delete compares and removes under one lock.
MemoryDelete(t) == IF Covered(t.files) THEN Gone ELSE t

\* The twin saw what came after the listing and deletes nothing: the two differ
\* in files that no provisioning writes.
Apart == IF Covered(tree.files) THEN {} ELSE {"files"}

RemoveAll ==
  /\ cleaning.pc = "remove"
  /\ disk' = [disk EXCEPT !.there = FALSE, !.files = <<>>, !.link = FALSE]
  /\ tree' = MemoryDelete(tree)
  /\ torn' = torn \cup Cut \cup Apart
  /\ Cleans("manifest")
  /\ UNCHANGED <<collection, run, mailing, spent>>

RemoveManifestForgotten ==
  /\ cleaning.pc = "manifest"
  /\ Cleans("idle")
  /\ UNCHANGED <<disk, tree, collection, run, mailing, torn, spent>>

RemoveManifest ==
  /\ cleaning.pc = "manifest"
  /\ disk' = [disk EXCEPT !.manifest = {}]
  /\ torn' = torn \cup (IF tree.manifest = {} THEN {} ELSE {"notes"})
  /\ Cleans("idle")
  /\ UNCHANGED <<tree, collection, run, mailing, spent>>

\* The process dies: directory and twin stay as they are (the twin outlives a
\* simulated crash), effects and agent are gone; a run that has not ended will be
\* launched again.
Crash ==
  /\ spent.ends < MaxEnds
  /\ spent' = [spent EXCEPT !.ends = @ + 1]
  /\ torn' = torn \cup Cut
  /\ run' = [Idle EXCEPT !.again = run.again \/ ~At("idle")]
  /\ mailing' = [m \in Mails |-> IF mailing[m] = "unsent" THEN "unsent" ELSE "laid"]
  /\ cleaning' = [pc |-> "idle", archived |-> {}]
  /\ UNCHANGED <<disk, tree, collection>>

WorkspaceNext ==
  \/ \E n \in Notes : Remember(n) \/ Forget(n) \/ WriteNote(n) \/ DeleteNote(n)
  \/ \E a \in Apps : RegisterApp(a) \/ RetireApp(a)
  \/ \E s \in Skills : StoreSkill(s) \/ DropSkill(s) \/ WriteSkills(s)
  \/ \E m \in Mails : LayIn(m) \/ WriteBody(m) \/ WriteAttachment(m)
  \/ StartRun \/ ReadSkills \/ SkillsWritten \/ PruneStaleMemory \/ WriteIndex \/ WriteManifest
  \/ ProvisionApps \/ Link \/ EmptyOut \/ WriteReply \/ EndRun
  \/ Archive \/ CheckCovered \/ RemoveAll \/ RemoveManifest
  \/ Crash

WorkspaceSpec == WorkspaceInit /\ [][WorkspaceNext]_workspaceVars
-----------------------------------------------------------------------------
\* Provisioning is exact (feature-memory.md, feature-apps.md, decision-019): the
\* agent is handed the notes and the running apps its launch found, and no others,
\* their index, the name set the harvest will compare with, the skills the effect
\* found, the store and, in a new turn, an empty out/; after a crash in the middle
\* of an earlier provisioning as well, when mail is laid in or the collection
\* changes meanwhile, and whatever earlier turns left.  Not if the task is being
\* archived at the same time, which removes what is provisioned.
Exact(t) ==
  /\ In(t.files, "in/memory") = {NoteFile(n) : n \in DOMAIN run.notes}
  /\ \A n \in DOMAIN run.notes : t.files[NoteFile(n)] = NoteContent(run.notes, n)
  /\ Index \in DOMAIN t.files <=> run.notes # <<>>
  /\ run.notes # <<>> => t.files[Index] = IndexContent(run.notes)
  /\ t.manifest = DOMAIN run.notes
  /\ AppsIndex \in DOMAIN t.files <=> run.apps # {}
  /\ run.apps # {} => t.files[AppsIndex] = AppsContent(run.apps)
  /\ \A s \in DOMAIN run.skills : t.files[SkillFile(s)] = <<"skill", s, run.skills[s]>>
  /\ run.again \/ In(t.files, "out") = {}

HandedExactly ==
  At("handed") /\ ~run.raced => Exact(disk) /\ Exact(tree) /\ disk.link

\* A run that is launched again after a crash keeps its own partial out/: the
\* reset is tied to a turn, not to a bare relaunch (decision-019).
ResumedKeepsOut ==
  [][run.again /\ At("out") /\ run'.pc = "handed" =>
       \A p \in In(disk.files, "out") :
         disk.files[p] = ReplyFile => p \in DOMAIN disk'.files]_workspaceVars

\* The twin rule: between two calls both workspaces hold the same files with the
\* same bytes and pin the same notes, unless a crash or a delete cut a call short
\* and no provisioning has been completed since, or mails were laid in at once.
\* Only an empty workspace may exist for one alone: a WriteMemory of no notes
\* makes none on disk.
InACall == \/ run.pc \in {"prune", "notes", "manifest"} \/ cleaning.pc = "manifest"
           \/ \E m \in Mails : Half(m)

TwinsAgree ==
  torn = {} /\ ~InACall
  => /\ disk.there = tree.there \/ disk.files = <<>>
     /\ disk.files = tree.files
     /\ disk.manifest = tree.manifest
=============================================================================
