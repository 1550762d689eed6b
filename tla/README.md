# A TLA+ verification project for käsi

käsi is a mail-driven agent supervisor: a mail opens a task, an agent run works
on it in a workspace, what the run leaves behind becomes a reply, a form, a
skill or a memory note, and agents may register small web apps. Everything the
program knows is the fold of a log of messages; everything it does is a command
a pure handler returned. That is also the shape of this project: one module for
the runtime that folds, and one module per group of handlers, effects and
sources that the runtime drives.

Paths in this file are relative to the repository.

## 1. Inventory

| component | state it keeps | operations | how it interacts | what is hard | what makes it correct |
|---|---|---|---|---|---|
| `runtime/` | the log, the model, the channel, goroutines, running sources, `pending` | Start/replay, Send, loop, interpret, diffSubscriptions, Settle, Stop | everything goes through it | goroutine interleavings, crashes, a bounded channel, failed appends | replay converges; write before apply; Send returns after apply; sources match; the counter drains |
| `tasks/` harvest | `HarvestPending`, references, UI requests | agent-run-finished, run-harvest, mark-harvested, register-ui-request, finish-task, four effects | reads the workspace, writes the content store, sends to email, memory and skills | crash anywhere in the fan-out, the next turn or finish-task overtaking it | nothing owed is lost or repeated; archive before delete |
| `tasks/` lifecycle | tasks with status, turns, references, participants | create-task, append-to-task, answer-ui-request, set-loop-guard, notify-user | sent by email and web, sends spawn-agent-run | lost hops on a crash, answers on finished tasks, the loop breaker | a task awaiting an agent has one; the breaker holds |
| `agents/` runs | runs with status, session, harness, notify token, the cap | spawn, launch, stop, finish, record-session; start and signal effects; watch and launch sources | drives a harness, sends agent-run-finished | the process table outlives nothing, caps change, stop races finish | one live process per run, every run finishes once, the cap holds |
| `agents/` harnesses | the child processes | Start, Wait, Signal, IsLive | Claude, Codex, simulated, recorded | keyed by task, restarts | a run is watched by the harness that launched it |
| `email/` outbound | outbox entries, reply-from | assemble-reply, mark-reply-queued, send-outbox, send-email, mark-email-sent | content store rows, mail providers | duplicates, crashes between the provider and the log | a reply is queued once, sent at least once, never after it is known sent |
| `email/` inbound, `cmd/kasi/serve.go` | poll cursors, allowlist, mechanisms | pollers, route-email, record-poll-state | content store, tasks | two pollers, cursor past failures | a mail becomes at most one task or turn, and is not lost |
| `apps/`, `apprunner/` | the app registry; the machine's units | register, unregister, run, retire, restart, mark-running, mark-removed | control endpoint in `web/server.go`, systemd | overlapping requests, late effects, crashes between systemctl calls | the machine matches the registry, ports are not shared |
| `store/` | SQLite log and content, an in-memory twin of each | Append, AddInbox, AddOutbox, AddArchive, AddSkill, the migration | used by every effect | SELECT and INSERT from several goroutines, crashes in between | one row per key and the first content for good, from either twin; nothing is lost by migrating |
| `workspace/` | a directory per task, an in-memory twin | lay in, provision, Files, ResetOut, Delete, memory manifest | mail, run and harvest all use it | concurrent writers, calls cut in the middle, two-step delete | a run is handed exactly what is current; only covered files are deleted; the twins agree |
| `memory/`, `skills/`, `skilltree/` | notes; a registry over stored trees | remember, forget, register, unregister, store-skill, Remove | harvest and web | writes to two homes | only what was dropped goes; row and entry agree |
| `secrets/`, `credentials/`, the sign-in of `web/` | a vault outside the log, homes that hold copies; an audit trail in the log | set, remove, sign in and out, write-back | web, command line, turns of Codex | two stores and one act, overlapping writers, a process that outlives its request | the trail follows the vault; no rotated token is lost, no signed-out one returns |
| `settings/`, `admin/`, `counter/`, `link/` | single values; signed links | set-*, increment, sign, verify | web | none beyond the runtime | |
| `web/` | none of its own | pages, forms, control endpoints | Send and View | check on a snapshot, send later | |
| `mime/`, `transcript/`, `datastore/` | none but the store's link in a workspace | parsing and browsing | | | |
| `cassette/`, the twins of `agents/` and `cmd/kasi/simworld.go` | the table of live runs, tapes of captured turns | mail, agent, stop, crash; capture, save, load, play back | scenarios drive the real handlers through them | a command and the goroutines of the runs meet in one table | a test settles the turn it gave; what is played back is what happened |
| `testlang/`, `cmd/kasi/selftest.go`, `providers/kasi` | none that the running program uses | the repository's tests | | | |

`PROJECT.json` lists each with its status, and the hazards with the line where
each bites. Section 7 says what is left and in which order.

## 2. The modules

```
DurableModel  <- Runtime  <- MCRuntime          (state machine, its instance)
                         <- RuntimeProofs       (theorems)
Delivery      <- Harvest  <- MCHarvest
                         <- HarvestProofs
                 Apps     <- MCApps
                         <- AppsProofs
                 AgentRuns <- MCAgentRuns
                         <- AgentRunsProofs
                 Inbound  <- MCInbound
                         <- InboundProofs
Workspace, Skills, Codex, ContentStore, Mailbox, Cassettes  <- MCOutside
Workspace, Skills                               <- WorkspaceProofs
Codex, ContentStore, Mailbox, Cassettes         <- OutsideProofs
SequenceLemmas           (what the channel and the queues of effects need)
                         <- AgentRunsProofs, AppsProofs, InboundProofs,
                            HarvestProofs, OutsideProofs, WorkspaceProofs
```

An arrow reads "is instantiated or extended by". A module that models handlers
takes from `Runtime` what it proves of every application: the model survives a
crash because replay rebuilds it, a message is applied as soon as it is taken
or not at all, declared sources are started once by the diff after each message
and all of them again by a restart. In the modules below `Runtime` a turn of the loop is
therefore one action (`Reduce`), a crash is one action (`Restart`), and the
interleaving is kept where handlers and effects meet: between messages, between
two steps of an effect, between a source's start and its emission.

### Runtime (runtime/loop.go)

The application is a parameter: `Step` and `Cmds` are the two results of a
handler, `Desired` the sources the subscriptions declare, `Reports` what an
effect emits and `Prompt` what a source emits. Variables follow `App`: `log`
(Log), `model` (the snapshot), `inbox` (the channel), `running` and `pending`;
`pc`, `current` and `todo` are the reducer goroutine, `procs` the goroutines of
effects and sources, `caller` those that are inside `Send`, `phase` where the
process is in its life. `trail` is a history variable, the folds of the log's
prefixes. Actions: `Boot`, `Replay`, `GoLive`, `StartSubscriptions` (New, Start
and its replay), `Take`, `AppendLog`, `AppendFails`, `Apply`, `InterpretSend`,
`InterpretEffect`, `FinishMessage` (loop, apply, interpret, diffSubscriptions),
`Send`, `Emit`, `Return`, `EffectFails`, `Stop`, `LoopExit`, `Exit`, `Crash`.
The append and the fold are two steps, so a crash may fall between them.

`DurableModel` is what a reader may rely on: a truth that only ever takes one
handler step at a time, and a view that is absent (the process is down) or a
value the truth has had, at most the message being applied behind.
`RefinesDurableModel` says that Runtime implements it.

### Harvest (tasks, email outbound, memory, skills, workspace, store)

One task, its turns and its runs. `model` is the slice of the reducer's state
the fan-out touches (status, jobs, references, requests, outbox, notes, skills,
reply-from's domain); `ws` is the task's directory (which run wrote each file
of `out/`, the notes under `in/memory/`, the manifest beside it, the
transcripts); `store` the outbox rows, the archive and the stored skills;
`handed` how often the provider took each Message-ID. One operator per handler,
one action per step of an effect: `CaptureTranscript`, `ReadFiles`,
`StoreSkill`, `CaptureMemory`, `MintUIRequest`, `AssembleReply`, `Submit` and
`MarkOutboxSent` (the two halves of send-email), `ArchiveFiles`,
`CheckCovered`, `RemoveWorkspace`, `DeleteManifest` (archive-task and the three
parts of Work.Delete, between which a turn may end), `Emit`, `EffectFails`.
`StartTurn` and `EndTurn` stand for the agent run. A reply's link goes by whether its
run's request is registered; that it is still pending (`tasks/message_run_harvest.go:115`)
is left out, since no message of this module answers a request.

`Delivery` is the promise about replies: owed, queued, sent, in this order, and
accepted by the provider before it is known as sent. `RefinesDelivery` says
that Harvest implements it, with the stage of a reply read off the model.

### Apps (apps, apprunner, the control endpoint)

`apps` is the registry, `units` the machine (for each name the unit file and
the process, as what they were started with), `chosen` the add requests that
have read their port and not yet sent register-app. Actions: `ChoosePort` and
`Register` (add), `Order` (rm, restart), `Reduce`, `Fire`, `Install`, `Start`,
`StopUnit`, `RemoveUnit`, `RestartUnit` (one systemctl call each),
`EffectFails`, `Restart`. systemd itself is modelled from how `os.go` drives
it; whether disabling a missing unit is an error is the constant
`MissingUnitFails`, since the code is written both ways (`Remove` tolerates the
error, `Stop` returns it). Requests overlap as the web server allows; the
history variable `overlap` notes that one came before the last had settled.

### AgentRuns (agents, its harnesses)

`model` is the agents slice (the runs, the cap, the harness setting); `inbox`
the channel, in order; `effects` the start and signal effects in flight;
`started`, `launchers`, `watchers` the two sources of each run the cap lets in;
`table` the harness's map from a task to the process registered last; `procs`
the processes this kasi started; `threads` the Codex sessions in a task's
CODEX_HOME, which outlive it. Actions: `Spawn` (tasks asks), `Stop`,
`SetMaxConcurrentRuns`, `SetWorkerHarness` (the operator), `Reduce` (one turn of
the loop with every handler, the commands and the diff of the sources),
`LaunchRun`, `StartProcess` and `Register` (start-agent-run up to the start of
the process, and its place in the table: between the two the process runs and
nobody can find it), `StartFails`, `Signal`, `FindRun`, `GiveUp`, `SeeExit`,
`SeeCancel`, `SeeDeath` (the steps of Wait), `Exit` (the process), `Restart`.
The table is keyed by task, an entry is never removed and `Signal` does not look
at the run, as in the code.

### Inbound (the pollers, email inbound, the turns of tasks)

`mails` and `boxes` are the providers' side, in order of arrival; `rows` the
inbox rows of the content store; `model` the tasks (status, participants,
references, inbox rows, turns), the UI requests (owed, asked, answered), the runs
and the poll cursors; `pollers` where each poller's loop is and what it has
fetched. Actions: `Arrive` (a mail, new or an answer to a mail or reply),
`Fetch`, `Route`, `RouteFails`, `Record` (`pollInbox`, `pollForwardEmail` and
`route`, one Send at a time), `Reduce` (one turn of the loop with every handler
from route-email to register-ui-request), `EndRun` (the watcher's report),
`Mint`, `Answer` and `FinishTask` (the web's form and completion link, which look
at the model and then send), `Restart`. A cursor is the position in the mailbox
the poller has read up to, -1 the empty one. What makes a run end is AgentRuns'
matter, what becomes of its files Harvest's.

### Workspace (workspace, start-agent-run's provisioning, lay-in-from-inbox)

`disk` is the directory of one task and the manifest beside it, `tree` the
in-memory twin; a file is a path and what it was written from. A call of the
directory writes one file after the other, so a crash or another effect may come
in between; the twin holds a mutex and its call is one step, together with the
last write of the other. `run` is start-agent-run with what its message carried
(`StartRun` is launch-agent-run; `ReadSkills`, `WriteSkills`, `SkillsWritten`, `PruneStaleMemory`, `WriteNote`,
`WriteIndex`, `WriteManifest`, `ProvisionApps`, `Link`, `EmptyOut`) and then the
agent (`WriteReply`, `DeleteNote`, `EndRun`); `mailing` the lay-in effects,
which nobody waits for (`LayIn`, `WriteBody`, `WriteAttachment`); `cleaning` archive-task
(`Archive`, `CheckCovered`, `RemoveAll`, `RemoveManifest`); `collection` the
notes, apps and skills there are, which change at any time, during a provisioning too
(`Remember`, `Forget`, `RegisterApp`, `RetireApp`, `StoreSkill`, `DropSkill`): the
message launch-agent-run takes the notes and apps along, the effect reads the skills
when it starts. `torn` remembers which calls were cut, `run.again` that a crash came
before the end of the run, which is then launched once more.

### Skills (store-skill, the skill table, the registry, Remove)

`table` holds the rows of the content store and `registry` the slice of the
model. AddSkill is `LookupSkill` and then `UpdateSkill` or `InsertSkill` in
SQLite, `MemoryAddSkill` in the twin; the effect goes on with `ReadBack` and
`EmitRegister` for each skill and ends with `EmitHarvested`. `DeleteSkill` and
`SendUnregister` are the owner's Remove; `Apply` is the reducer;
`StoreSkillFails` and `SkillsCrash` the faults. `unsettled` remembers the names
whose last operation was cut or met another one.

### Codex (secrets, credentials, /codex and /secrets, the Codex harness)

`vault` is the credential at the reserved reference, `trail` the last event of
the audit trail. Browser tabs go through `SaveSecret`, `DeleteSecret`,
`ConnectCodex`, `PollCodex` and `DisconnectCodex` a step at a time (`Records`,
`SetPending`, `SignInTimesOut`, `Close`, `Polled`, `SignOut`); `signin` is the
process of each device sign-in and the goroutine that reaps it (`ProcessExits`,
`ReadAuth`, `Harvest`, `Harvested`); `turn` and `home` a task's turn and its
CODEX_HOME (`Materialize`, `Spawn`, `Rotate`, `Finalize`, `StillConnected`,
`Refresh`, `Refreshed`, `FinishTask`, `RemoveCodexHome`, `SweepCodexHomes`).
`CommandLine` is `kasi secret`, another process; `Death` ends kasi's own.

### ContentStore (store)

`lite` is SQLiteContent, `mem` its twin; a row is its id, its key and what it
holds. `AddMail` (AddInbox, AddOutbox) and `AddArchive` begin a call, `Select`
and `Insert` are its statements, `CallCut` a death or an error between two, and
`Migrate` what opening a database of the first schema does.

### Mailbox (JMAP.Fetch, IMAP.Fetch, the pollers)

What Inbound's `Fetch` takes as one step, request by request: `MailState`,
`EmailChanges`, `Download` and `Downloaded` over JMAP, where `changes` is the
history of the account; `SelectInbox` and `UidFetch` over IMAP, where `uids` are
the numbers given out under `validity`; `RouteMail` and `RecordPollState` in the
poller. The provider delivers, deletes and renumbers meanwhile (`Arrive`,
`Expunge`, `Renumber`: the mails still there get new numbers in some order); `FetchFails` and `PollerDies` are the faults. What kasi
itself sent arrives like any other mail: Email/changes does not tell mailboxes
apart, and route-email is what turns it away (Inbound).

### Cassettes (the rings of `kasi test`)

`ring` says which twin the scenario has; `script` the stimuli so far; `runs` the
model's runs; `live` for each run its launcher, its watcher and its entry in the
harness twin's table, of which `entry` is the one row; `stimulus` the command
under way. Actions: `DeliverMail`, `StopStimulus`, `CrashStimulus`,
`AgentStimulus` with `TakeScripted` or `TakeRecorded`, `HandOver`, `TurnReturns`
(or `PollsIdle` live) and `Settle`; `Launch`, `WaitStarts`, `LiveTurnEnds`,
`WaitStopped`, `Capture`, `EmitFinish`, `MarkEmitted` of a run; `GreenRun`,
`SaveTurn`, `LoadCassette` between the rings.

Some definitions appear beside a variant of themselves (`AppendLog` and
`AppendLogReleasesEarly`): the variant is what a slip in that code would make of
the definition. No specification uses one. Each was put in place of the original
to see that a property tells them apart.

## 3. What is checked

Every configuration sets `CHECK_DEADLOCK FALSE`: with requests, turns and
crashes bounded a system that has done all it was asked for really stops.

| run | question | instance |
|---|---|---|
| `runtime` | does the model always equal the fold of the log, is everything on the channel explained by the log, is `pending` exact, are sources matched, does Runtime refine DurableModel, does Send return after apply, is every Send answered or cut by a death, does the counter drain? | one edge and two crashes, or two edges and none, channel of 3, one failing effect, one failing append, fair |
| `harvest_turns` | nothing owed lost, request registered once, the reply is its turn's, threads and is queued once; no note forgotten on its own while the task is open; nothing deleted unarchived but what was written after the listing; refinement of Delivery | either two turns of four outcomes, two crashes, one fault, or two turns that learn, one finish at any time, one crash |
| `harvest_mail` | rows and entries agree, duplicates are bounded by restarts; every job is cleared and every mail sent unless an effect fails | one turn, two domains, two crashes, one fault, fair |
| `apps_reconcile` | no unit carries what the log does not hold, no app stays registered or removing unless an effect fails; while requests wait for one another the machine at rest matches the registry, ports are distinct; a removed app stays removed once no installation of it is under way | two names, two ports, three requests in any interleaving, a crash, a fault, fair |
| `agents_runs` | has a run one process at most, does the cap hold, is an end reported once and only when the process is gone, does a task keep its session and harness, do runs end and stops take effect? | two tasks, two runs (queued or one resuming the other), a cap of one that may be lifted, Codex at first and Claude as the operator's other choice, any two of stop, setting, death and failing launch, fair |
| `inbound_mail` | does the cursor skip no mail, is a mail fetched again taken up once, does the loop breaker bound the runs, does every turn of the agent end? | two mails of the owner, a guest or kasi itself, one mailbox, a guard of one run, one form or completion link, a death, a mail that fails to store, fair |
| `outside_the_log` | is a run handed exactly what its launch found, do the workspace's twins agree, does the audit trail follow the vault, is a home as good as the vault, do a skill's row and entry agree, are the content store's rows faithful, does the poll cursor pass no mail, does the agent command settle its turn, is what is played back what happened? | one component to a behaviour: one note, app and skill, three mails and edits, two provisionings, a crash or an archive; two authors of two skills, one Remove, one fault; two tabs, two grants, any four of two requests, two turns of a task and a death; two callers, three calls; three mails and two faults of the mailbox; scripts of four stimuli, of three with a note or an earlier cassette, two runs |

The small application of `MCRuntime` has one of everything the real modules
have: an edge message whose handler sends another, an effect that reports and
one that does not, a long-lived source and a one-shot one, and an unknown tag.

### Why the bounds are enough to be interesting

Two crashes let a re-driven effect be interrupted itself. A channel of three
with one edge, an effect and two sources reaches every relation of sender and
reducer except the full channel, which has a run of its own. Two turns are the
least for one turn's harvest to meet the next; two names in a band of two ports
fill it and give a port back. Counters (`requests`, `crashes`, `faults`,
`turn`, `finishes`, `trouble`) are bounded in the guard of the action that raises them,
by a constant the configuration names. In `AgentRuns` one bound covers settings,
stops, deaths and faults together: each alone and each pair of them occurs, and
two runs are the least for one to wait for the other or to resume it. In
`Inbound` two mails are the least for a batch that is taken up half, for a second
turn and for a guard of one run to trip; the second mailbox would only repeat the
first, as long as a mail reaches one of them (see below). In `outside_the_log` two
provisionings let the second meet what the first, or a crash in it, left; two mails
laid in may overlap; two tabs, two grants and a turn are the least for a sign-in, a
sign-out and a write-back to cross; two callers for two adds of one key; a window
of two changes is smaller than what three mails and a deletion make; four stimuli
hold a mail, a stop or a crash, another mail and a turn.

### Fairness

Reducer, started sources and effects in flight are goroutines and the Go
scheduler runs a runnable goroutine, so they are weakly fair (`Fairness` in each
module). No edge, user, agent or operator is obliged to act, no failure to
happen, and a long-lived source is not obliged to see its event. Weak fairness
of the disjunction over effects suffices because the bounded instances have
finitely many effects and each step consumes one. In `AgentRuns` the processes
exit too: a worker is told never to wait and always to stop (`workerPrompt`),
and a signalled one is killed three seconds later. `Inbound` takes from there that
runs end; nobody there is obliged to write, answer or finish. `outside_the_log` asks
for safety only and states no fairness.

### Where code and words disagree

Five runs look for a statement of the repository and find it violated by what
the code does. Each is in `PROJECT.json` with the quoted line.

| run | what happens |
|---|---|
| `runtime_full` | the reducer waits for room in the channel only it drains |
| `harvest_stale_reply` | a next turn resets `out/` before the last turn's reply is read |
| `apps_orphan` | a late install puts back a unit nobody owns |
| `codex_resurrected` | a turn's write-back puts back the credential of an operator who signed out between its look and its write |
| `agents_handoff` | a death between the end of a run and its hand-over leaves the task waiting for ever |

Five more configurations do the same and are no runs of `PROJECT.json`. TLC ends each
with a counterexample in a few seconds (`tlc -config MCAppsLateAck.cfg MCApps`):

| configuration, property | the repository says | what happens |
|---|---|---|
| `MCHarvestLateWrite`, `ArchivedBeforeDeleted` | "never delete a workspace before its contents are provably archived" (`docs/05-agents-and-tasks.md:333`) | a turn ends between the listing of `Work.Delete` and its RemoveAll (`workspace/workspace_os.go:365`), and its reply is deleted unread |
| `MCHarvestLostTranscript`, `TranscriptsArchived` | "all run transcripts, into the `archive` table" (`docs/05-agents-and-tasks.md:326`), "Transcripts were archived by capture-transcript" (`tasks/command_archive_task.go:47`) | a task is finished before capture-transcript has read the transcript, which archive-task takes as covered and deletes |
| `MCAppsLateAck`, `RemovalSticks` | the status only "leaves "registered"/"removing" when mark-app-running/mark-app-removed" record success (`apps/subscription_apps_reconcile.go:16`) | an app is unregistered while it is installed; the acknowledgement makes it running, retire-app finds nothing to remove, and the app runs on |
| `MCAppsSharedPort`, `OwnPort` | "the app has the port to itself" (`docs/feature-apps.md:38`) | two apps added at once read the same free port (`web/server.go:455`) |
| `MCOutsideResume`, `ResumedKeepsOut` | a crash-resumed run "keeps its own partial `out/`" and "the reset is per-turn, not per-launch" (`docs/decision-019-out-is-a-per-turn-outbox.md:72`, 88) | every launch resets `out/` (`agents/command_start_agent_run.go:151`), so the run launched again after a crash finds its reply gone |

Other behaviour of this kind is visible as the condition under which a property
is stated or checked, and dropping the condition makes TLC show it:

- A failed append releases `Send` although nothing was applied:
  `SendReturnsApplied` excepts it.
- `ReplyIsTheTurns`, `NothingOwedIsLost` and the rest of `harvest_turns` are
  checked with `Overlap = FALSE`: a turn starts once the jobs of the one before
  are cleared, which `Settle` would ensure and `serve` does not ask for.
- `RepliesThread` is checked with one mail domain: a
  reply-from address that changes domain between the end of the run and the
  assembly gives the mail another Message-ID than was recorded, and a re-driven
  assembly after such a change queues a second reply.
- `NotesOnlyDropped`, `NothingOwedIsLost` and `ReplyIsTheTurns` are stated while no
  finish has come: a memory harvest between the two
  steps of `Work.Delete` finds the manifest and no notes and forgets them all.
  The same holds of the transcript and of `reply.txt`, which archive-task deletes
  while capture-transcript and assemble-reply may still have to read them.
- `UnitMatches` (but for its part about the log) is stated for histories
  without `overlap`: two overlapping adds may register one port twice
  (`MCAppsSharedPort`). `RemovalStands` needs no such condition, but begins where no
  installation of the app is under way: one that is revives it (`MCAppsLateAck`).
- `Reconciled` is checked with `MissingUnitFails = FALSE`: if disabling a
  missing unit is an error, a teardown cut short cannot be completed. And
  `UnitMatches` asks only for some process, because `enable --now` leaves the
  old process of an app registered anew.
- `LosesOnlyLateWrites` excepts what is written after Work.Delete has listed the
  directory (`MCHarvestLateWrite`) and is checked with one finish: `AddArchive` is
  idempotent on task and filename, so a task finished twice keeps the first file in
  the archive and deletes the second.
- `EverythingSettles`, `Reconciled` and `RunsEnd` hold unless an effect fails: a
  failed effect is recorded and its source, still declared, is not started
  again before a restart, although the comments of the reconcilers say they keep
  driving it.
- The caps of `agents_runs` are only lifted. Lowering the cap cancels the
  watchers of runs that are alive, and raising it again launches such a run a
  second time (`LaunchedOnce`, `HandedOverOnce`).
- A task asks for a run when its last one is over (`OnePerTask`). With two runs
  of one task at once and no cap the second takes the first one's entry in the
  table, and the first one's watcher waits for ever. `RunsEnd` exempts a run
  after a stopped one of its task for the same reason: the stopped one's late
  process may take the entry. `Signal` stops whichever process is there.
- What `RunsEnd` says of stops asks for a watched run and no crash: a run stopped while it queues,
  or whose kasi dies before it reports, stays stopping, since only running runs
  have a watcher. A stop is not checked against the status, so a stale page
  makes a finished run stopping as well.
- `CapHolds` counts running runs: a run stopped while it starts still gets its
  process, which nobody watches.
- `TakenUpOnce` is checked with one mailbox per mail (`Twice = FALSE`): route-email
  looks for the mail in the tasks, where it is only once create-task is applied, so
  two pollers that fetch one mail at once open two tasks for it. A mail without a
  Message-ID, which `AddInbox` stores anew each time, is not modelled.
- `TakenUpOnce` counts a mail that fails to store or to parse, and one for a
  paused task, as turned away: the first is logged and the cursor passes it, the
  second changes nothing at all, though the comment in append-to-task says it is
  recorded (`tasks/message_append_to_task.go:26`).
- `GuardHolds` allows one run more for each form answered: answer-ui-request does not
  count its run in `Turns`, which by its comment counts the runs spawned
  (`tasks/model_task.go:64`), nor does it look whether the task is paused or done.
- No property says that a paused task stays paused: agent-run-finished makes it
  awaiting-user whatever it was, as it does a finished one.
- `TurnsEnd` asks that kasi has not died: a death between append-to-task (or
  create-task, or answer-ui-request) and the spawn-agent-run it sends leaves the
  task with the agent and no run, until somebody writes again.
- `OneThread` asks for one Codex session while kasi has not died: a first turn
  cut short by a death begins a second session when it is launched again.
- `HandedExactly` says of `out/` that a new turn finds it empty. Of a run launched
  again after a crash it says nothing: decision-019 has it keep its own files, the code
  resets them (`MCOutsideResume`). It leaves out mail: nobody waits for the lay-in, a
  crash in it drops files, two at once may mix `body.txt` and attachments, and an
  attachment named apps.json or MEMORY.md is overwritten. It excepts a run provisioned
  while its task is archived. Skills are never pruned, so a removed one stays in the
  workspace. And an empty set of apps leaves no apps.json, where the interface's comment
  has an empty object written (`workspace/workspace.go`, WriteApps).
- `TwinsAgree` is asked between two calls, whatever the stage of the run. It excepts
  what a crash or a delete cut until the next provisioning, overlapping
  lay-ins, which mix on disk and not in memory, and an empty directory: WriteMemory
  of nothing makes one only in memory. A directory whose Delete has listed its files
  goes with whatever is written afterwards, while the twin compares and deletes under
  one lock and then refuses: the two differ in files for good. Delete's last step may
  remove the manifest a new run has just written.
- `SkillHomesAgree` excepts names whose operations overlapped or were cut. Two
  authors of one skill, or an author and Remove, may leave entry and row with
  different versions, although the effect's comment wants them to match
  (`tasks/command_store_skill.go:113`); an id given out again after a Remove makes an
  UPDATE hit another skill; ReadBack does not look whether it found a row and reports
  version 0; and a store-skill fired again after a crash brings back a skill removed
  meanwhile.
- `AuditFollowsVault` excepts a crash between the two writes, overlapping writers, and
  the command line, which leaves no event at all. `HomesFaithful` excepts a turn
  during which somebody wrote the vault or kasi died: the next turn's copy of the
  vault then overwrites the rotation. A sign-in the operator cancelled may still be
  harvested when its process had exited, and a poll may clear a newer sign-in than
  the one it asked.
- `RowsFaithful` leaves out mails without a Message-ID: SQLite takes the first and
  fails on the next, the twin stores each. Of two adds of one new key at once one
  fails in SQLite.
- `CursorExact` excepts mails of a renumbered mailbox, which by its comment the poll
  does not fetch across, and mails whose text an IMAP server sends as a quoted string
  and not as a literal: they are skipped and the cursor passes them. Over JMAP one
  download that fails makes the whole Fetch fail, and an answer that the changes
  cannot be calculated any more makes every later one fail: nothing anchors again.
- `TurnSettled` and `ReplayIsReality` except a run that its own watcher registered:
  RecordedHarness.Wait does so without waiting for the launcher, which then finds the
  run alive and provisions nothing, and a stopped run's late watcher takes the next
  one's place. A refreshed cassette keeps what the earlier one had and it has not. A
  recording with memory notes cannot be saved (writeFileMap makes no directories),
  and what a turn found in in/ is taken down at its end. A stop in the recorded ring
  takes nothing off the tape: the turn captured for the stopped run stays the next one
  offered, and handing it over says that nothing was stopped, although by the comment at
  `cmd/kasi/vocab.go:804` the recorded ring returns Stopped from the cassette.

## 4. What is proved

Every theorem holds for every value of the constants that satisfies the named
assumptions of the module (`AppAssumption`, `BoundAssumption`,
`CallerAssumption` of Runtime; one each in Harvest, Apps, AgentRuns, Inbound,
ContentStore, Mailbox, Skills and Cassettes). They ask that bounds be natural numbers, that the
sources a state declares and the notes of memory be finite, since the code loops
over them, and that no name be the absence of one (`"" \notin Mechanisms`,
`"" \notin SkillNames`, `Unnamed \notin FileKeys`). The bounds on requests, crashes and faults are any
numbers, so nothing proved depends on how many there are.

| theorems | module | property | under |
|---|---|---|---|
| `TypeCorrect`, `ReplayConverges`, `SourcesAlwaysMatch`, `SendReturnsAfterApply`, `Refinement`, `LogIsExplained`, `PendingIsExact` | RuntimeProofs | every safety property of `runtime` | |
| `TypeCorrect`, `OutboxIsBacked` | HarvestProofs | `TypeOK`, `OutboxBacked` | |
| `DeliveryIsImplemented`, `AnswersThread` | HarvestProofs | `RefinesDelivery`, `RepliesThread` | `Domains = {FirstDomain}` |
| `ForgetsOnlyDropped` | HarvestProofs | `NotesOnlyDropped` | |
| `ArchivesFirst` | HarvestProofs | `LosesOnlyLateWrites` | `\A plan \in Plans : plan.finishes <= 1` |
| `RepliesAreTheTurns`, `NoWorkIsLost` | HarvestProofs | `ReplyIsTheTurns`, `NothingOwedIsLost` | `~Overlap` |
| `TypeCorrect`, `AppsMatch`, `RemovalKept` | AppsProofs | `TypeOK`, `UnitMatches`, `RemovalStands` | |
| `TypeCorrect` | AgentRunsProofs | `TypeOK` | |
| `LaunchesOnce`, `CapIsKept`, `HandsOverOnce`, `ThreadsAreOne` | AgentRunsProofs | `LaunchedOnce`, `CapHolds`, `HandedOverOnce`, `OneThread` | `[][CapRaised]_vars` |
| `TypeCorrect`, `GuardIsKept` | InboundProofs | `TypeOK`, `GuardHolds` | |
| `TakesUpOnce` | InboundProofs | `TakenUpOnce` | `Twice = FALSE` |
| `StoresAgree` | OutsideProofs | `RowsFaithful` | |
| `CursorIsExact` | OutsideProofs | `CursorExact` | |
| `TrailFollows`, `HomesAreFaithful` | OutsideProofs | `AuditFollowsVault`, `HomesFaithful` | |
| `TurnsSettle`, `ReplaysAreReal` | OutsideProofs | `TurnSettled`, `ReplayIsReality` | |
| `HandedIsExact`, `TwinsAreOne` | WorkspaceProofs | `HandedExactly`, `TwinsAgree` | no `Attached[m]` is MEMORY.md or apps.json |
| `SkillHomesMatch` | WorkspaceProofs | `SkillHomesAgree` | |

The hypotheses are the ones under which the runs check the same properties,
and the code is wrong without them. `Domains = {FirstDomain}` says that replies
come from one mail domain: a Message-ID carries the domain, so a reply assembled
again after the operator changed it is a second reply. `CapRaised` says that a step never lowers
the cap: lowering it cancels the watchers of runs that are alive and queues
them, and raising it launches them again (a listed hazard). `Twice = FALSE` says
that a mail reaches one mailbox: route-email looks for the row in the tasks, so
two pollers that route one mail at once open two tasks. `finishes <= 1` says that
a task is marked done once at most: AddArchive keeps the first file of a name, so
what a second finish deletes may be nowhere. `~Overlap` says that a turn begins only
once the jobs of the last one are cleared, which `serve` does not wait for: a next
turn that begins earlier empties the out/ its predecessor's effects have yet to read
(the run `harvest_stale_reply`). And an attachment is laid into in/ under the name
the mail gives it, so one named MEMORY.md or apps.json replaces the index there.

### Runtime

The inductive invariant is `Inv`, the conjunction of `TypeOK`, `Held` (which
envelope the reducer holds at each `pc`, and that a goroutine holds the counter
at most twice), `Place` (how `pc`, `phase` and `cursor` relate: the cursor is
one behind the log exactly between append and apply) and `Folded` (the trail is
the fold of the log, and the model the point of it at the cursor).
`Convergence` alone is not inductive: the step that applies needs to know that
the entry after the cursor is the current one, which is `Place`, and that the
trail's next point is its fold, which is `Folded`. Each conjunct is preserved by
its own lemma (`TypeStep`, `HeldStep`, `PlaceStep`, `FoldedStep`), one step per
action; `Invariance` puts them together; the action property and the refinement
follow by one more case analysis over `Next`.

`LogIsExplained` needs to know of everything that will one day be in the log
where it comes from: `Causes` says so of the message in hand, of the commands
still to be interpreted and of every goroutine. A longer log explains whatever
a shorter one did (`ConsequencesStay`, `ExplainedStays`, `AccountedStays`), so
that only what a step creates has to be explained.

`PendingIsExact` counts. The counter is the length of the channel, the message
in hand, and a set of tokens (`Holds`), each named after the goroutine that has
it. What makes the count go through is `Distinct`: goroutines are told apart by
kind, name, place in the log and number, so a step that starts or ends one adds
or removes exactly its tokens. The diff of the sources, which stops and starts
several at once, is counted by a bijection (`SameSize`, `DiffCounted`).

### Harvest

`Inv` is `Types`, `Working` and `Delivered` (every effect and message refers to
a run, row or note there is), `Chains`, `Rows` and `Handed`. `Chains` is the
heart: for each source declared, the prompt not yet sent, the message on its way,
the effect at work and the message that settles it are one thing at a time
within a process. A re-driven effect therefore never meets itself, which is what
`Rows` (one row per Message-ID, one entry per row) needs when assemble-reply
looks a row up and adds it, and `Handed` (one process hands a mail over at most
once) when send-email does. Nothing is assumed about how turns overlap.

The refinement of Delivery needs to know why a stage is never skipped or left
backwards: between the step that queues a reply and the one that clears its job
there is nothing but the order in which assemble-reply says them. `ReplyInv` says
it four times: of an effect that reports (`Telling`), of a reply announced, whose
job is still to be cleared (`Promised`), of a job being cleared, whose reply is
queued or announced earlier on the channel (`Kept`), and of the references, which
have the Message-ID before the entry does (`Referenced`). `ReplyOwed` reads off
`Promised` and `Chains` that a reply is owed when it is queued; with that
`ReduceDelivers` maps the reducer's turn by the tag of its message, `SubmitDelivers`
maps the provider's acceptance, whose entry `Chains` knows as unsent, and every
other step is a stutter. Crashes, failing effects and overlapping turns are all
among those steps.

The other four say what the turns do to the workspace. Two facts carry over: `Ended`
(an end is announced once, after the run, and jobs are of runs that are over) and
`Uttered` (what an effect reports is of its own kind and run). `NotesKept` and `Early`
give `NotesOnlyDropped` with turns that overlap: until the finish every note a run did
not drop is in the registry, in in/memory/, in what an effect has read, and in no
forget on its way. `ArchiveInv` gives `LosesOnlyLateWrites`: with one finish the one
archive-task finds the archive empty, so the archive is what it read, and that is what
the listing of Work.Delete was compared with; a file that RemoveAll takes and the
archive lacks is therefore one that differs from the listing. `Requested` and `Linked`, which hold with turns
that overlap as well, tie a row's link to its own run's request.

With `~Overlap` a running turn has no job and no news of an earlier one (`OneTurn`),
so out/ and in/memory/ are what the last run left (`Laid`), what an effect has read
is still there (`ReadLast`), a reply's row is of its own run (`RowsOwn`), and what
capture-memory says is true of its turn (`Truthful`). `Backed` then says of every
effect that reports and of every message that clears a job that what the job promised
is stored, applied, or earlier on the channel, which is what `NothingOwedIsLost`
needs of the step that clears it (`Harvested`; `Replying` for the reply).

### Apps

A unit file is of a registration in the log (`Told`) whatever happens. The rest
holds while requests wait for one another: `Ordered` says that one thing at most
is under way for an app, from the request to mark-app-running or
mark-app-removed (`Alone`), that it was caused by a status that is still the
app's (`Caused`), and that the machine agrees with the registry when nothing is
(`Agrees`); `Ports` that a registration on its way fits the registry it will
find. `RemovalStands` needs none of this and no order of requests. An
installation begins only at a run-app that finds its app registered, and an app leaves
removing only by a message that is about an installation, a teardown or a new
registration; so an app under removal without an installation (`Starting`) stays so,
step by step (`ReduceStarts`, `EffectStarts`).

### AgentRuns

`Orderly` says of each run that one thing at most is under way for it: its
launcher, launch-agent-run, the start effect, or a process (`Launches`); a
watcher, finish-agent-run, agent-run-finished, or the count of what tasks has
received (`Reports_`); that whatever is under way for a running run belongs to
one the cap lets in (`LetIn`); and that a finished run has no live process
(`Gone`). With `Current` (the declared sources are the started ones) the diff
after each message never starts a second launcher. The cap follows by counting
the runs it lets in. `OneThread` needs three facts more: of a task's runs only
the first is not resumed and all share a harness (`Firsts`), whatever names a
session names one of its task's (`Sessions`), and the only session is the first
process's (`Begun`).

### Inbound

The types carry most of the argument: `Types` says what refers to what, `Polls`
where each poller's cursor, batch and waiting messages lie with regard to its
mailbox and to what is on the channel, `Forms` that a run ends once and is owed
a form before it is asked for one and asked before it answers. `GuardHolds` is a
count: the runs of a task and the calls for more on the channel are never more
than its turns and the humans' answers together (`TaskCalls`), which needs the
number of messages of a kind in a queue (`Number` in SequenceLemmas) and how it
changes when one is taken or added. `TakenUpOnce` needs that a mail is in one
mailbox and has one row (`Rows`), that a row is in one task at most, and one
message at most under way that may put it there (`Taken`), and that every mail
between the first recorded cursor and the one recorded next is done with, or is
beyond the one recorded last and in the batch or in hand (`Polled`).

### Outside the log

`Stored`, of the content store: both stores have the same archive and the same
named mail (`Twins`), ids are 1 to n, so that the next id of SQLite and the
twin's counter agree, and a caller that was answered has the row of its key
(`Answered`). The step that matters is an INSERT after a SELECT that another
goroutine has overtaken.

`CursorKept`, of the mailbox: what lies behind the cursor was handed over or is
excepted, what lies ahead was handed over by a poll that died at most, and the
same of the place the poller will log next together with what it holds (`Counts`,
`NextPlace`); a mail is created once
in the history and has one UID at most (`Lists`).

`SignedIn`, of Codex: out of `doubt` one write at most is not yet recorded and it
is the vault's last (`Trail`), and a home that is the vault's stays so or what
codex rotated there is on its way to the vault (`Homes`).

`TapeInv`, of the cassettes, follows the goroutines of any number of runs through the
twins' one table. `Launched` says that the launcher of the running run is over
whenever no stimulus settles, which is why the agent command finds the run and why a
run in the middle of a played turn is not provisioned; `Seated` that until a stopped
run's watcher has registered it late, the table's place is the running run's, which is not cancelled and
still waits; `GivenTurn` that the run somebody's turn is offered to is running, and
finished with that turn once the command returns. `Wound` says that the cassette is a
first part of the tape and the queue the rest of the cassette, `Emptied` that the run
that is about to be played has an empty out/.

### Workspace and Skills

`WorkspaceInv`, of the workspace, has six parts. `Provisioned` goes through the stages
of start-agent-run and says of each what is done by then: memory pruned of all the
notes the run does not have, then exactly the run's notes and index (on disk, and in
the twin once the manifest is written), the manifest, the listing of apps, the link,
an empty out/. It is stated of runs archive-task has not met; `Unraced` says those go
with an idle archive-task, and the exception inside WriteMemory (`Kept`) is what a
delete that met the run earlier leaves true. `SkillsHeld` makes the skills on disk
the twin's. `Paired` and `Remembered` are the twin rule taken apart: every path
outside memory is alike in both homes but for the body of a mail that is half laid
in; memory and manifest are alike outside WriteMemory. Each names the `torn` marks
that except it. A complete WriteMemory takes the mark for notes back, because
`Provisioned` knows what it has written on disk and `MemoryFacts` what the twin's one
call leaves. The sixth, `WorkspaceTypes`, is the types.

`SkillsKept`, of the skills: ids tell rows apart and the next one is above them all
(`RowsApart`), one unregister at most is on its way (`OneUnregister`), and of a skill
whose operations have not met (`Settled`) one operation is under way, which knows the
row as it is (`Knows`), or the two homes agree.

### SequenceLemmas

What appending, taking the first, removing one and joining do to membership,
uniqueness (`Once`), order and number of elements of a kind. The channel and the
queues of effects are sequences, and each proof above asks which of their
elements a step added or took.

## 5. What is only model-checked

- Liveness (`WaitsEnd`, `EverythingSettles`, `Reconciled`, `RunsEnd`, `TurnsEnd`):
  fairness and ENABLED are beyond the proof system.
- The five violations, which are counterexamples.

## 6. Abstractions

Texts are names: a mail body is the turn that wrote it, a start command the
request that brought it, a note its name. Rendering, logging, the command trace
and the clock are left out. Of `out/` the model keeps the boxes whose content
decides something. Handlers that never interact with the modelled ones are not
messages of the model. The effects of the harvest run concurrently with
everything, as in the code, but one effect reads its files in one step; where
the code reads twice and it matters (`capture-memory` reads the manifest last)
there are two steps. `Inbound` leaves out the files laid into the workspace
(Workspace has them) and fetches that fail (Mailbox); the allowlist and the guard do
not change. Failures are an effect's end without a report; partial
writes inside one SQLite statement or one file are not modelled. The modules of
`outside_the_log` share no state in the models: where they meet in the code (the
harvest reads the workspace that start-agent-run provisions, store-skill reads
out/) Harvest has the meeting.

### Not modelled

Rendering and form decoding, the settings' form engine (reflection, no state), the
parsers of mail, transcripts and test scripts (pure, sequential, covered by their
tables of tests), Submit of the two mail providers beyond succeeding or failing, the
client kits, and the single-assignment handlers of admin and counter.

## 7. Plan

Next, in this order:

1. A composition of Inbound with AgentRuns and the turn part of Harvest, with an
   abstract specification of a conversation whose turns alternate, and the send hops a
   crash loses.
2. The log's two twins as refinements of one sequence; Submit as two method calls,
   whose set-level refusals the code does not look at.
3. Pure code as operators checked against references: mail headers and threading, the
   settings' parser, the transcript's tool calls.
