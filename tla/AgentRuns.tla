------------------------------ MODULE AgentRuns ------------------------------
(***************************************************************************)
(* Agent runs (docs/05, decisions 015, 016, 024): tasks records a run with *)
(* spawn-agent-run; agent-watch declares a launcher and a watcher for each *)
(* run the concurrency cap lets in; the launcher asks for launch-agent-run *)
(* unless the harness already has the run; start-agent-run provisions the  *)
(* workspace and starts a process; the watcher waits for it and reports    *)
(* finish-agent-run, whose handler tells tasks with agent-run-finished.    *)
(*                                                                         *)
(* model is the reducer's agents slice, durable because the runtime        *)
(* rebuilds it from the log (module Runtime).  The channel, the effects,   *)
(* the sources' goroutines and the harness's table die with the process of *)
(* kasi; the sessions Codex keeps in the task's CODEX_HOME survive it.     *)
(* What becomes of a process whose kasi died is outside this module: procs *)
(* holds those this kasi started.                                          *)
(*                                                                         *)
(* Abstracted: what a run is given (secrets, skills, memory, apps) and     *)
(* leaves behind (exit code, manifest, transcript), which Harvest follows, *)
(* and the notify token, which record-notify-token writes and the control  *)
(* endpoint alone reads.                                                   *)
(* Claude runs every process of a task in the one session named after the  *)
(* task, written 0; Claude's retry of a session in use is part of Start.   *)
(***************************************************************************)
EXTENDS Integers, Sequences, FiniteSets, SequencesExt

CONSTANTS
  Tasks,        \* task ids
  MaxRuns,      \* bound: how many runs tasks asks for
  OnePerTask,   \* does a task ask for a run only when its last one is over?
  FirstCap,     \* the cap configured at first, 0 for none
  Caps,         \* the caps the operator may set later
  FirstHarness, \* the harness configured at first
  Harnesses,    \* the harnesses the operator may choose later
  MaxTrouble    \* bound: settings, stops, deaths and failing effects together

Harness == {"claude", "codex"}
RunId == 1..MaxRuns

ASSUME AgentRunsAssumption ==
  /\ Tasks \subseteq Nat \ {0}
  /\ OnePerTask \in BOOLEAN /\ FirstHarness \in Harness /\ Harnesses \subseteq Harness
  /\ FirstCap \in Nat /\ Caps \subseteq Nat
  /\ MaxRuns \in Nat \ {0} /\ MaxTrouble \in Nat

VARIABLES
  model,     \* the agents slice: the runs by id, the cap, the harness choice
  inbox,     \* the channel
  effects,   \* effects in flight, in the order they started
  started,   \* runs whose launcher and watcher are declared and running
  launchers, \* launchers that have not looked at the harness yet
  watchers,  \* watchers in flight, in the order they started
  table,     \* the harness: task -> the process registered last, 0 for none
  procs,     \* processes started by this kasi
  threads,   \* per task: the Codex sessions begun in its CODEX_HOME
  received,  \* history: per run, how often tasks heard that it is over
  asked,     \* history: the tasks that runs were asked for, in order
  launches,  \* history: how many processes were ever started
  trouble,   \* how much trouble there was, of all kinds
  crashes, faults

vars == <<model, inbox, effects, started, launchers, watchers, table, procs,
          threads, received, asked, launches, trouble, crashes, faults>>

\* about is a task for spawn-agent-run, a cap for set-max-concurrent-runs and a
\* run otherwise; session is record-session's; how is a choice or an outcome.
Message(tag, about, session, how) ==
  [tag |-> tag, about |-> about, session |-> session, how |-> how]
About(tag, run) == Message(tag, run, 0, "")

-----------------------------------------------------------------------------
\* Seeded faults, here and below: what a slip in the code would make of the
\* definition that follows.  No specification uses them; each shows that a
\* property tells the slip from the code.
ActiveRunsCountsAll(s) ==
  {r \in DOMAIN s.runs : s.runs[r].status = "running"}

ActiveRunsOldestOut(s) ==
  LET running == {r \in DOMAIN s.runs : s.runs[r].status = "running"}
  IN {r \in running : s.cap = 0 \/ Cardinality({q \in running : q > r}) < s.cap}

\* agentWatchSubs: the runs that may hold a process, the oldest running ones
\* up to the cap.
ActiveRuns(s) ==
  LET running == {r \in DOMAIN s.runs : s.runs[r].status = "running"}
  IN {r \in running : s.cap = 0 \/ Cardinality({q \in running : q < r}) < s.cap}

PinHarnessByChoice(s, m) == s.choice

\* pinHarness: a resumed run inherits the harness of the task's latest run.
PinHarness(s, m) ==
  LET prior == {r \in DOMAIN s.runs : s.runs[r].task = m.about}
  IN IF m.how = "resume" /\ prior # {} THEN s.runs[Max(prior)].harness ELSE s.choice

\* The handlers.  A run's id is its place; the session is the task's own.
SpawnAgentRun(s, m) ==
  [s EXCEPT !.runs = Append(@, [task |-> m.about, status |-> "running",
                                resume |-> m.how = "resume", harness |-> PinHarness(s, m),
                                session |-> 0])]

\* stop-agent-run and finish-agent-run look the run up by id, whatever its
\* status is by now.
StopAgentRun(s, r) == [s EXCEPT !.runs[r].status = "stopping"]

FinishAgentRun(s, m) ==
  [s EXCEPT !.runs[m.about].status =
     IF m.how = "stopped" \/ @ = "stopping" THEN "stopped" ELSE "finished"]

Update(s, m) ==
  CASE m.tag = "spawn-agent-run" -> SpawnAgentRun(s, m)
    [] m.tag = "stop-agent-run" -> StopAgentRun(s, m.about)
    [] m.tag = "finish-agent-run" -> FinishAgentRun(s, m)
    [] m.tag = "record-session" -> [s EXCEPT !.runs[m.about].session = m.session]
    [] m.tag = "set-max-concurrent-runs" -> [s EXCEPT !.cap = m.about]
    [] m.tag = "set-worker-harness" -> [s EXCEPT !.choice = m.how]
    [] OTHER -> s

\* The commands a handler returns: effects, and the one it sends to tasks.
\* launch-agent-run copies the session the run has now.
Commands(s, m) ==
  CASE m.tag = "launch-agent-run" ->
         <<[of |-> "start", run |-> m.about, session |-> s.runs[m.about].session,
            at |-> "spawn", proc |-> 0]>>
    [] m.tag = "stop-agent-run" ->
         <<[of |-> "signal", run |-> m.about, session |-> 0, at |-> "signal", proc |-> 0]>>
    [] OTHER -> <<>>

Sends(m) == IF m.tag = "finish-agent-run" THEN <<About("agent-run-finished", m.about)>> ELSE <<>>

-----------------------------------------------------------------------------
Init ==
  /\ model = [runs |-> <<>>, cap |-> FirstCap, choice |-> FirstHarness]
  /\ inbox = <<>> /\ effects = <<>>
  /\ started = {} /\ launchers = <<>> /\ watchers = <<>>
  /\ table = [t \in Tasks |-> 0] /\ procs = [p \in {} |-> 0]
  /\ threads = [t \in Tasks |-> <<>>]
  /\ received = [r \in RunId |-> 0] /\ asked = <<>>
  /\ launches = 0 /\ trouble = 0 /\ crashes = 0 /\ faults = 0

world == <<asked, trouble, crashes, faults>>
machine == <<table, procs, threads, launches>>

Trouble == trouble < MaxTrouble /\ trouble' = trouble + 1

Watcher(r) == [run |-> r, proc |-> 0, at |-> "await", cancelled |-> FALSE]

\* diffSubscriptions cancels the context of a watcher no longer declared; its
\* goroutine unwinds in its own time.
Cancel(ws, kept) ==
  [i \in DOMAIN ws |-> [ws[i] EXCEPT !.cancelled = @ \/ ws[i].run \notin kept]]

\* The loop's turn: pop, log, apply, start the effects, diff the sources.
Reduce ==
  /\ inbox # <<>>
  /\ LET m == Head(inbox)
         active == ActiveRuns(model')
         new == SetToSeq(active \ started)
     IN /\ model' = Update(model, m)
        /\ effects' = effects \o Commands(model, m)
        /\ inbox' = Tail(inbox) \o Sends(m)
        /\ received' = IF m.tag = "agent-run-finished"
                       THEN [received EXCEPT ![m.about] = @ + 1] ELSE received
        /\ started' = active
        /\ launchers' = launchers \o new
        /\ watchers' = Cancel(watchers, active) \o [i \in DOMAIN new |-> Watcher(new[i])]
  /\ UNCHANGED <<machine, world>>

-----------------------------------------------------------------------------
\* What comes from outside.  tasks asks for a run: a first mail for a new
\* session, any later one to resume it.
Over(r) == model.runs[r].status \in {"finished", "stopped"}
Idle(t) == /\ \A r \in DOMAIN model.runs : model.runs[r].task = t => Over(r)
           /\ \A i \in DOMAIN inbox : ~(inbox[i].tag = "spawn-agent-run" /\ inbox[i].about = t)

\* Task ids grow: a task's first run is asked for after those of older tasks.
Spawn(t) ==
  /\ Len(asked) < MaxRuns
  /\ \A u \in Tasks : u < t => u \in Range(asked)
  /\ OnePerTask => Idle(t)
  /\ asked' = Append(asked, t)
  /\ inbox' = Append(inbox, Message("spawn-agent-run", t, 0,
                                    IF t \in Range(asked) THEN "resume" ELSE "fresh"))
  /\ UNCHANGED <<model, effects, started, launchers, watchers, machine, received,
                 trouble, crashes, faults>>

\* The Stop button of a page that may be stale: web/browse.go checks the task
\* alone.
Stop(r) ==
  /\ Trouble
  /\ inbox' = Append(inbox, About("stop-agent-run", r))
  /\ UNCHANGED <<model, effects, started, launchers, watchers, machine, received,
                 asked, crashes, faults>>

Configure(m) ==
  /\ Trouble
  /\ inbox' = Append(inbox, m)
  /\ UNCHANGED <<model, effects, started, launchers, watchers, machine, received,
                 asked, crashes, faults>>
SetMaxConcurrentRuns(c) == Configure(Message("set-max-concurrent-runs", c, 0, ""))
SetWorkerHarness(h) == Configure(Message("set-worker-harness", 0, 0, h))

-----------------------------------------------------------------------------
TaskOf(r) == model.runs[r].task
Entry(r) == table[TaskOf(r)]

\* Harness.IsLive: is the process the table has for the task this run's?
\* An entry is never taken out, so also when it has exited.
IsLive(r) == Entry(r) # 0 /\ procs[Entry(r)].run = r

\* launchRun: look at the harness once, ask for a launch, done.
LaunchRun(i) ==
  /\ i \in DOMAIN launchers
  /\ launchers' = RemoveAt(launchers, i)
  /\ inbox' = IF IsLive(launchers[i]) THEN inbox
              ELSE Append(inbox, About("launch-agent-run", launchers[i]))
  /\ UNCHANGED <<model, effects, started, watchers, machine, received, world>>

-----------------------------------------------------------------------------
\* start-agent-run and signal-agent-run.
At(i, at) == i \in DOMAIN effects /\ effects[i].at = at
Ends(i) == effects' = RemoveAt(effects, i)
steady == <<model, started, launchers, watchers, received, world>>

\* The session a process runs in.  Codex begins one on Start; on Resume it goes
\* on with the one recorded, or with the newest of the task's CODEX_HOME if that
\* is the task's own name.
NewestThread(t) == IF threads[t] = <<>> THEN 0 ELSE Last(threads[t])

CodexSession(e, run, new) ==
  CASE ~run.resume -> new
    [] run.resume /\ e.session = 0 -> NewestThread(run.task)
    [] run.resume /\ e.session # 0 -> e.session

Session(e, run, new) == IF run.harness = "claude" THEN 0 ELSE CodexSession(e, run, new)

\* start-agent-run up to the first half of Start or Resume of the pinned
\* harness: the workspace is provisioned, out/ emptied, the process runs.
StartProcess(i) ==
  /\ At(i, "spawn")
  /\ LET e == effects[i]
         run == model.runs[e.run]
         session == Session(e, run, launches')
     IN /\ launches' = launches + 1
        /\ procs' = [p \in DOMAIN procs \cup {launches'} |->
                       IF p = launches' THEN [run |-> e.run, session |-> session, is |-> "up"]
                       ELSE procs[p]]
        /\ threads' = IF session = 0 \/ session \in Range(threads[run.task]) THEN threads
                      ELSE [threads EXCEPT ![run.task] = Append(@, session)]
        /\ effects' = [effects EXCEPT ![i].at = "register", ![i].proc = launches']
  /\ UNCHANGED <<steady, inbox, table>>

\* Second half: the process gets its task's place in the table, under the lock;
\* a session other than the task's own is recorded.
Register(i) ==
  /\ At(i, "register")
  /\ LET e == effects[i] IN
     /\ table' = [table EXCEPT ![TaskOf(e.run)] = e.proc]
     /\ inbox' = IF procs[e.proc].session = 0 THEN inbox
                 ELSE Append(inbox, Message("record-session", e.run, procs[e.proc].session, ""))
  /\ Ends(i)
  /\ UNCHANGED <<steady, procs, threads, launches>>

\* Resolving a secret, provisioning or starting the process fails: the error is
\* recorded, the effect over.
StartFails(i) ==
  /\ At(i, "spawn")
  /\ Trouble
  /\ faults' = faults + 1
  /\ Ends(i)
  /\ UNCHANGED <<model, inbox, started, launchers, watchers, machine, received,
                 asked, crashes>>

Alive(p) == procs[p].is \in {"up", "signalled"}
Signalled(p) == [procs EXCEPT ![p].is = IF @ = "up" THEN "signalled" ELSE @]

\* signal-agent-run: the process group of whatever run the table has.
Signal(i) ==
  /\ At(i, "signal")
  /\ LET p == Entry(effects[i].run) IN procs' = IF p = 0 THEN procs ELSE Signalled(p)
  /\ Ends(i)
  /\ UNCHANGED <<steady, inbox, table, threads, launches>>

\* A process ends: by itself, or because the signal is followed by a kill.
Exit(p) ==
  /\ p \in DOMAIN procs /\ Alive(p)
  /\ procs' = [procs EXCEPT ![p].is = "exited"]
  /\ UNCHANGED <<steady, inbox, effects, table, threads, launches>>

-----------------------------------------------------------------------------
\* watchRun: Harness.Wait, then finish-agent-run.
Watching(i, at) == i \in DOMAIN watchers /\ watchers[i].at = at
Reports(i, how) ==
  /\ inbox' = Append(inbox, Message("finish-agent-run", watchers[i].run, 0, how))
  /\ watchers' = RemoveAt(watchers, i)
calm == <<model, effects, started, launchers, received, world, table, threads, launches>>

\* awaitRun: the table has a process of this run.
FindRun(i) ==
  /\ Watching(i, "await") /\ IsLive(watchers[i].run)
  /\ watchers' = [watchers EXCEPT ![i].at = "select", ![i].proc = Entry(watchers[i].run)]
  /\ UNCHANGED <<calm, procs, inbox>>

\* awaitRun: cancelled before the harness knew the run.
GiveUp(i) ==
  /\ Watching(i, "await") /\ watchers[i].cancelled /\ ~IsLive(watchers[i].run)
  /\ Reports(i, "stopped")
  /\ UNCHANGED <<calm, procs>>

Exited(i) == procs[watchers[i].proc].is = "exited"
Reap(i) == procs' = [procs EXCEPT ![watchers[i].proc].is = "reaped"]

SeeExitEarly(i) ==
  /\ Watching(i, "select")
  /\ Reports(i, "exited")
  /\ UNCHANGED <<calm, procs>>

\* The select of Wait: the process has exited ...
SeeExit(i) ==
  /\ Watching(i, "select") /\ Exited(i)
  /\ Reap(i)
  /\ Reports(i, "exited")
  /\ UNCHANGED calm

\* ... or the context is cancelled, and the process is signalled ...
SeeCancel(i) ==
  /\ Watching(i, "select") /\ watchers[i].cancelled
  /\ procs' = Signalled(watchers[i].proc)
  /\ watchers' = [watchers EXCEPT ![i].at = "reap"]
  /\ UNCHANGED <<calm, inbox>>

\* ... and waited for.
SeeDeath(i) ==
  /\ Watching(i, "reap") /\ Exited(i)
  /\ Reap(i)
  /\ Reports(i, "stopped")
  /\ UNCHANGED calm

-----------------------------------------------------------------------------
RestartWatchesOnly ==
  /\ Trouble
  /\ crashes' = crashes + 1
  /\ model' = model /\ inbox' = <<>> /\ effects' = <<>>
  /\ table' = [t \in Tasks |-> 0] /\ procs' = [p \in {} |-> 0]
  /\ LET new == SetToSeq(ActiveRuns(model')) IN
     /\ started' = ActiveRuns(model')
     /\ launchers' = <<>>
     /\ watchers' = [i \in DOMAIN new |-> Watcher(new[i])]
  /\ UNCHANGED <<threads, received, asked, launches, faults>>

RestartKeepsTable ==
  /\ Trouble
  /\ crashes' = crashes + 1
  /\ model' = model /\ inbox' = <<>> /\ effects' = <<>>
  /\ table' = table /\ procs' = [p \in {} |-> 0]
  /\ LET new == SetToSeq(ActiveRuns(model')) IN
     /\ started' = ActiveRuns(model')
     /\ launchers' = new
     /\ watchers' = [i \in DOMAIN new |-> Watcher(new[i])]
  /\ UNCHANGED <<threads, received, asked, launches, faults>>

\* The process of kasi dies and Start replays: every declared source starts
\* afresh over an empty harness.
Restart ==
  /\ Trouble
  /\ crashes' = crashes + 1
  /\ model' = model /\ inbox' = <<>> /\ effects' = <<>>
  /\ table' = [t \in Tasks |-> 0] /\ procs' = [p \in {} |-> 0]
  /\ LET new == SetToSeq(ActiveRuns(model')) IN
     /\ started' = ActiveRuns(model')
     /\ launchers' = new
     /\ watchers' = [i \in DOMAIN new |-> Watcher(new[i])]
  /\ UNCHANGED <<threads, received, asked, launches, faults>>

EffectStep(i) == StartProcess(i) \/ Register(i) \/ Signal(i)
WatchStep(i) == FindRun(i) \/ GiveUp(i) \/ SeeExit(i) \/ SeeCancel(i) \/ SeeDeath(i)

Next ==
  \/ Reduce
  \/ \E t \in Tasks : Spawn(t)
  \/ \E r \in DOMAIN model.runs : Stop(r)
  \/ \E c \in Caps : SetMaxConcurrentRuns(c)
  \/ \E h \in Harnesses : SetWorkerHarness(h)
  \/ \E i \in DOMAIN launchers : LaunchRun(i)
  \/ \E i \in DOMAIN effects : EffectStep(i) \/ StartFails(i)
  \/ \E i \in DOMAIN watchers : WatchStep(i)
  \/ \E p \in DOMAIN procs : Exit(p)
  \/ Restart

Spec == Init /\ [][Next]_vars

\* The reducer, effects and sources are goroutines: Go runs them.  An agent is
\* told never to wait and always to stop (workerPrompt), and a signalled one is
\* killed, so a process exits.  Nobody is obliged to ask, stop, set or fail.
Fairness ==
  /\ WF_vars(Reduce)
  /\ WF_vars(\E i \in DOMAIN launchers : LaunchRun(i))
  /\ WF_vars(\E i \in DOMAIN effects : EffectStep(i))
  /\ WF_vars(\E i \in DOMAIN watchers : WatchStep(i))
  /\ WF_vars(\E p \in DOMAIN procs : Exit(p))
FairSpec == Spec /\ Fairness
-----------------------------------------------------------------------------
Runs == DOMAIN model.runs
Status == {"running", "stopping", "finished", "stopped"}
Is(r, status) == r \in Runs /\ model.runs[r].status = status

TypeOK ==
  /\ model.runs \in Seq([task : Tasks, status : Status, resume : BOOLEAN,
                         harness : Harness, session : 0..launches])
  /\ model.cap \in Caps \cup {FirstCap} /\ model.choice \in Harness
  /\ started \subseteq Runs /\ Range(launchers) \subseteq Runs
  /\ \A i \in DOMAIN watchers : watchers[i].run \in Runs /\ watchers[i].proc \in 0..launches
  /\ DOMAIN procs \subseteq 1..launches
  /\ \A t \in Tasks : table[t] \in DOMAIN procs \cup {0}

\* A launch fires exactly once per run per process of kasi (decision-015), so
\* no run has two agents at work in its workspace.
LaunchedOnce == \A p, q \in DOMAIN procs : procs[p].run = procs[q].run => p = q

\* The breaker of decision-016: while a cap is set, no more running runs hold a
\* process than it allows, however runs queue, end, restart or are stopped.
CapHolds ==
  model.cap > 0 =>
    Cardinality({r \in Runs : /\ model.runs[r].status = "running"
                              /\ \E p \in DOMAIN procs : procs[p].run = r /\ Alive(p)})
      <= model.cap

\* tasks hears of the end of a run once at most, restarts included, and of a
\* finished one only when its process is gone and out/ is final.
HandedOverOnce ==
  \A r \in RunId :
    /\ received[r] <= 1
    /\ received[r] = 1 /\ model.runs[r].status = "finished" =>
         \A p \in DOMAIN procs : procs[p].run = r => ~Alive(p)

\* One task, one session, one harness (decision-024): whatever the operator
\* chooses meanwhile, a task's runs share a harness, and while kasi has not died
\* under one of them they share a session.
OneThread ==
  /\ \A q, r \in Runs :
       model.runs[q].task = model.runs[r].task => model.runs[q].harness = model.runs[r].harness
  /\ \A t \in Tasks : crashes = 0 => Len(threads[t]) <= 1

\* No run is stranded: a run that is running ends, through queueing, restarts
\* and stops of others, unless its launch fails or an earlier run of its task
\* was stopped, whose late process may take its place in the harness.
\* And a stop of a run that is being watched ends it, unless kasi dies first.
RunsEnd ==
  \A r \in RunId :
    /\ Is(r, "running")
         ~> \/ ~Is(r, "running") \/ faults > 0
            \/ \E q \in 1..(r - 1) : (Is(q, "stopping") \/ Is(q, "stopped")) /\ TaskOf(q) = TaskOf(r)
    /\ (Is(r, "stopping") /\ \E i \in DOMAIN watchers : watchers[i].run = r)
         ~> (~Is(r, "stopping") \/ crashes > 0)

\* A restart may never strand in-flight work (decision-015): tasks hears of
\* every run that is over.
HandedOver == \A r \in RunId : (r \in Runs /\ Over(r)) ~> received[r] > 0
=============================================================================
