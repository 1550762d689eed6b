------------------------------- MODULE Harvest -------------------------------
(***************************************************************************)
(* What happens after an agent run: the post-finish fan-out of one task    *)
(* (decision-013) and the delivery of its replies.  The tasks reducer      *)
(* records one job per kind of work a run owes; harvest-reconcile turns a  *)
(* job into run-harvest, run-harvest into an effect that reads the task's  *)
(* workspace, and the effect ends by emitting what clears the job.         *)
(* assemble-reply queues an outbox row, outbox-reconcile drives            *)
(* send-email until mark-email-sent.                                       *)
(*                                                                         *)
(* model is the reducer's state: durable, because the runtime rebuilds it  *)
(* from the log (module Runtime, RefinesDurableModel), and moved by pure   *)
(* handlers, one operator each.  The channel, the effects in flight and    *)
(* the started sources die with the process.  The workspace, the content   *)
(* store and the mail provider survive it.                                 *)
(*                                                                         *)
(* Abstracted: mail bodies to which turn wrote them, notes to their names, *)
(* several notes or skills of a run to one, links to whether they are in   *)
(* the mail, the boxes other than out/ and in/memory/ left out.            *)
(* A message whose handler ran is in the log, so append and apply are one  *)
(* step; a crash between an effect's steps is kept.                        *)
(***************************************************************************)
EXTENDS Integers, Sequences, FiniteSets, SequencesExt

CONSTANTS
  MaxTurns,    \* bound: turns of the task; run r is turn r's agent run
  Plans,       \* bounds: what a behaviour may hold, one plan each
  Notes,       \* names of the memory notes there are at first
  Lesson,      \* name of the note a run may write
  Domains,     \* mail domains the reply-from identity may be in
  FirstDomain, \* the domain configured at first
  Overlap      \* may a turn start while the previous one's jobs are owed?

Run == 1..MaxTurns
File == {"reply", "request", "skill", "note"}
Kind == {"transcript", "skill", "memory", "request", "reply"}
Note == Notes \cup {Lesson}
Outcome == [ok : BOOLEAN, has : SUBSET File, drops : SUBSET Note]

\* The kinds of work followed, how a run may end, and how often at most the user
\* marks the task done, the process dies and an effect returns an error.
Plan == [followed : SUBSET Kind, outcomes : SUBSET Outcome,
         finishes : Nat, crashes : Nat, faults : Nat]

ASSUME HarvestAssumption ==
  /\ MaxTurns \in Nat \ {0}
  /\ \A plan \in Plans :
       /\ plan.followed \subseteq Kind /\ plan.outcomes \subseteq Outcome
       /\ plan.finishes \in Nat /\ plan.crashes \in Nat /\ plan.faults \in Nat
  /\ FirstDomain \in Domains
  /\ Lesson \notin Notes /\ IsFiniteSet(Notes)
  /\ Overlap \in BOOLEAN

VARIABLES
  model,    \* the tasks, email, memory and skills slices
  inbox,    \* the channel
  effects,  \* effects in flight
  started,  \* sources started and not yet dropped by a diff
  unsent,   \* sources whose Run has not emitted yet
  ws,       \* the task's workspace on disk
  store,    \* the content store
  handed,   \* how often the provider accepted each Message-ID
  world,    \* the plan; how many turns started, how each ended; what users did
  crashes, faults

vars == <<model, inbox, effects, started, unsent, ws, store, handed, world,
          crashes, faults>>

-----------------------------------------------------------------------------
\* An out/ box: which run wrote each file, 0 for no such file.
NoFiles == [f \in File |-> 0]
Manifest(out) == {f \in File : out[f] # 0}

\* Messages and Message-IDs.
Message(tag, run, name, id) == [tag |-> tag, run |-> run, name |-> name, id |-> id]
MarkHarvested(run, kind) == Message("mark-harvested", run, kind, 0)

\* The deterministic Message-ID of a run's reply carries the domain of the
\* address it is sent from.
ReplyMessageID(run, domain) == <<run, domain>>
MessageID == Run \X Domains

Job(run, kind) == [run |-> run, kind |-> kind]
SourceJob(j) == [of |-> "harvest", run |-> j.run, kind |-> j.kind, id |-> 0]
SourceMail(e) == [of |-> "send-email", run |-> 0, kind |-> "", id |-> e.id]

\* harvestReconcileSubs and outboxReconcileSubs: one source per owed job, one
\* per pending outbox entry.
Desired(s) == {SourceJob(j) : j \in s.jobs}
              \cup {SourceMail(e) : e \in {f \in s.outbox : ~f.sent}}

\* What a source's Run emits, once.
Prompt(i) == IF i.of = "harvest" THEN Message("run-harvest", i.run, i.kind, 0)
             ELSE Message("send-outbox", 0, "", i.id)

-----------------------------------------------------------------------------
\* The handlers: pure functions of the model and a message.

\* Seeded faults, here and below: what a slip in the code would make of the
\* definition that follows.  No specification uses them; each shows that a
\* property tells the slip from the code.
AgentRunFinishedForgetsReference(s, r, o) ==
  [s EXCEPT !.status = "awaiting-user", !.runs = Append(@, r),
            !.jobs = @ \cup {Job(r, "reply")}]

\* agent-run-finished: a stopped or failed run owes its transcript alone; a
\* request takes precedence over the reply; the reply's Message-ID goes into
\* the references before anyone can answer it.
Owed(o) ==
  world.plan.followed \cap
    ({"transcript"} \cup
     IF ~o.ok THEN {}
     ELSE {"memory"} \cup ({"skill"} \cap o.has)
          \cup (IF "request" \in o.has THEN {"request"} ELSE {"reply"} \cap o.has))

AgentRunFinished(s, r, o) ==
  [s EXCEPT !.status = "awaiting-user",
            !.runs = Append(@, r),
            !.jobs = @ \cup {Job(r, k) : k \in Owed(o)},
            !.refs = IF "reply" \in Owed(o)
                     THEN @ \cup {ReplyMessageID(r, s.domain)} ELSE @]

\* mark-harvested: clears one (run, kind); an absent one is a no-op.
MarkHarvestedHandler(s, r, k) == [s EXCEPT !.jobs = @ \ {Job(r, k)}]

RegisterUIRequestKeepsJob(s, r) ==
  [s EXCEPT !.status = "awaiting-user", !.requests[r] = @ + 1,
            !.refs = @ \cup {ReplyMessageID(r, s.domain)},
            !.jobs = @ \cup {Job(r, "reply")}]

\* register-ui-request: records the request, clears its job and owes the reply
\* that carries its link, in one step.
RegisterUIRequest(s, r) ==
  [s EXCEPT !.status = "awaiting-user",
            !.requests[r] = @ + 1,
            !.refs = @ \cup {ReplyMessageID(r, s.domain)},
            !.jobs = (@ \ {Job(r, "request")}) \cup {Job(r, "reply")}]

MarkReplyQueuedOffByOne(s, id, mid) ==
  [s EXCEPT !.outbox = @ \cup {[id |-> id + 1, mid |-> mid, sent |-> FALSE]}]
MarkReplyQueuedAgain(s, id, mid) ==
  [s EXCEPT !.outbox = @ \cup {[id |-> id, mid |-> mid, sent |-> FALSE]}]

\* mark-reply-queued: pending, unless this row or this Message-ID already is.
MarkReplyQueued(s, id, mid) ==
  IF \E e \in s.outbox : e.id = id \/ e.mid = mid THEN s
  ELSE [s EXCEPT !.outbox = @ \cup {[id |-> id, mid |-> mid, sent |-> FALSE]}]

MarkEmailSentEveryEntry(s, id) ==
  [s EXCEPT !.outbox = {[e EXCEPT !.sent = TRUE] : e \in @}]
MarkEmailSent(s, id) ==
  [s EXCEPT !.outbox = {IF e.id = id THEN [e EXCEPT !.sent = TRUE] ELSE e : e \in @}]

Update(s, m) ==
  CASE m.tag = "agent-run-finished" -> AgentRunFinished(s, m.run, world.ended[m.run])
    [] m.tag = "mark-harvested" -> MarkHarvestedHandler(s, m.run, m.name)
    [] m.tag = "register-ui-request" -> RegisterUIRequest(s, m.run)
    [] m.tag = "mark-reply-queued" -> MarkReplyQueued(s, m.id, store.rows[m.id].mid)
    [] m.tag = "mark-email-sent" -> MarkEmailSent(s, m.id)
    [] m.tag = "remember" -> [s EXCEPT !.notes = @ \cup {m.name}]
    [] m.tag = "forget" -> [s EXCEPT !.notes = @ \ {m.name}]
    [] m.tag = "register-skill" -> [s EXCEPT !.skills = @ \cup {m.run}]
    [] m.tag = "set-reply-from" -> [s EXCEPT !.domain = m.name]
    [] m.tag = "finish-task" -> [s EXCEPT !.status = "done"]
    [] OTHER -> s

Effect(kind, run, id, domain, link) ==
  [kind |-> kind, run |-> run, id |-> id, domain |-> domain, link |-> link,
   pc |-> "start", out |-> NoFiles, kept |-> {}, papers |-> {}, says |-> <<>>]

EffectOf(kind) ==
  CASE kind = "transcript" -> "capture-transcript"
    [] kind = "skill" -> "store-skill"
    [] kind = "memory" -> "capture-memory"
    [] kind = "request" -> "mint-ui-request"
    [] kind = "reply" -> "assemble-reply"

\* The commands a handler returns: run-harvest dispatches on the kind, the
\* reply's From and request link being read from the model it sees.
Commands(s, m) ==
  CASE m.tag = "run-harvest" ->
         {Effect(EffectOf(m.name), m.run, 0,
                 IF m.name = "reply" THEN s.domain ELSE FirstDomain,
                 m.name = "reply" /\ s.requests[m.run] > 0)}
    [] m.tag = "send-outbox" -> {Effect("send-email", 0, m.id, FirstDomain, FALSE)}
    [] m.tag = "finish-task" -> {Effect("archive-task", 0, 0, FirstDomain, FALSE)}
    [] OTHER -> {}

-----------------------------------------------------------------------------
NotEnded == [ok |-> FALSE, has |-> {}, drops |-> {}]

Init ==
  /\ model = [status |-> "awaiting-agent", runs |-> <<>>, jobs |-> {}, refs |-> {},
              requests |-> [r \in Run |-> 0], outbox |-> {}, domain |-> FirstDomain,
              notes |-> Notes, skills |-> {}]
  /\ inbox = <<>> /\ effects = {} /\ started = {} /\ unsent = {}
  /\ ws = [live |-> FALSE, out |-> NoFiles, in |-> {}, papers |-> {}, manifest |-> {}]
  /\ store = [rows |-> <<>>, transcripts |-> {}, skills |-> {},
              artifacts |-> [f \in File |-> 0]]
  /\ handed = [i \in MessageID |-> 0]
  /\ \E plan \in Plans :
       world = [plan |-> plan, turn |-> 0, running |-> FALSE,
                ended |-> [r \in Run |-> NotEnded], domains |-> 0, finishes |-> 0]
  /\ crashes = 0 /\ faults = 0

budget == <<crashes, faults>>
outside == <<ws, store, handed, world>>

-----------------------------------------------------------------------------
\* The loop's turn: pop, log, apply, start the effects, diff the sources.
Reduce ==
  /\ inbox # <<>>
  /\ inbox' = Tail(inbox)
  /\ model' = Update(model, Head(inbox))
  /\ effects' = effects \cup Commands(model, Head(inbox))
  /\ started' = Desired(model')
  /\ unsent' = unsent \cup (Desired(model') \ started)
  /\ UNCHANGED <<outside, budget>>

\* A source's Run: emit once and finish.
Fire(i) ==
  /\ i \in unsent
  /\ inbox' = Append(inbox, Prompt(i))
  /\ unsent' = unsent \ {i}
  /\ UNCHANGED <<model, effects, started, outside, budget>>

-----------------------------------------------------------------------------
StartTurnKeepsOut ==
  /\ ~world.running /\ world.turn < MaxTurns
  /\ Overlap \/ (model.jobs = {} /\ inbox = <<>> /\ effects = {})
  /\ world' = [world EXCEPT !.turn = @ + 1, !.running = TRUE]
  /\ model' = [model EXCEPT !.status = "awaiting-agent"]
  /\ ws' = [ws EXCEPT !.live = TRUE, !.in = model.notes, !.manifest = model.notes]
  /\ UNCHANGED <<inbox, effects, started, unsent, store, handed, budget>>

\* The turns, seen from here.  A message reopens the task, whatever its status,
\* and start-agent-run provisions memory (in/ and the manifest beside the
\* workspace) and empties out/ before the agent runs.
StartTurn ==
  /\ ~world.running /\ world.turn < MaxTurns
  /\ Overlap \/ (model.jobs = {} /\ inbox = <<>> /\ effects = {})
  /\ world' = [world EXCEPT !.turn = @ + 1, !.running = TRUE]
  /\ model' = [model EXCEPT !.status = "awaiting-agent"]
  /\ ws' = [ws EXCEPT !.live = TRUE, !.out = NoFiles, !.in = model.notes,
                      !.manifest = model.notes]
  /\ UNCHANGED <<inbox, effects, started, unsent, store, handed, budget>>

\* The agent ends: its files are in out/, the notes it dropped gone from in/,
\* its transcript beside them, and agent-run-finished on the channel with the
\* listing of the whole of out/.  When the workspace was deleted under it there
\* is nothing.
EndTurn(o) ==
  LET r == world.turn IN
  /\ world.running
  /\ IF ws.live
     THEN /\ o.drops \subseteq ws.in
          /\ ws' = [ws EXCEPT !.out = [f \in File |-> IF f \in o.has THEN r ELSE @[f]],
                              !.in = @ \ o.drops, !.papers = @ \cup {r}]
     ELSE o.drops = {} /\ o.has = {} /\ UNCHANGED ws
  /\ world' = [world EXCEPT !.running = FALSE,
                            !.ended[r] = [o EXCEPT !.has = Manifest(ws'.out)]]
  /\ inbox' = Append(inbox, Message("agent-run-finished", r, "", 0))
  /\ UNCHANGED <<model, effects, started, unsent, store, handed, budget>>

\* The user follows the completion link, or finishes the task in the browser.
UserFinishes ==
  /\ world.turn > 0 /\ world.finishes < world.plan.finishes
  /\ world' = [world EXCEPT !.finishes = @ + 1]
  /\ inbox' = Append(inbox, Message("finish-task", 0, "", 0))
  /\ UNCHANGED <<model, effects, started, unsent, ws, store, handed, budget>>

\* An operator changes the address replies are sent from, once.
OperatorSetsReplyFrom(d) ==
  /\ d # model.domain /\ world.domains = 0
  /\ world' = [world EXCEPT !.domains = 1]
  /\ inbox' = Append(inbox, Message("set-reply-from", 0, d, 0))
  /\ UNCHANGED <<model, effects, started, unsent, ws, store, handed, budget>>

-----------------------------------------------------------------------------
\* The effects.  Becomes replaces one effect by its next state.
Becomes(e, f) == effects' = (effects \ {e}) \cup {f}
Ends(e) == effects' = effects \ {e}
At(e, kind, pc) == e \in effects /\ e.kind = kind /\ e.pc = pc
Reports(e, says) == Becomes(e, [e EXCEPT !.pc = "emit", !.says = says])
quiet == <<model, inbox, started, unsent, world, budget>>

\* capture-transcript: archived under (task, filename); no file is an error.
CaptureTranscript(e) ==
  /\ At(e, "capture-transcript", "start")
  /\ \/ /\ e.run \in ws.papers
        /\ store' = [store EXCEPT !.transcripts = @ \cup {e.run}]
        /\ Reports(e, <<MarkHarvested(e.run, "transcript")>>)
     \/ /\ e.run \notin ws.papers
        /\ Ends(e) /\ UNCHANGED store
  /\ UNCHANGED <<quiet, ws, handed>>

\* Work.Files or Work.Harvest: a workspace that is gone reads as empty.
ReadFiles(e) ==
  /\ e.kind \in {"store-skill", "capture-memory", "mint-ui-request", "assemble-reply"}
  /\ At(e, e.kind, "start")
  /\ Becomes(e, [e EXCEPT !.pc = "read", !.out = ws.out, !.kept = ws.in])
  /\ UNCHANGED <<quiet, ws, store, handed>>

CaptureMemoryClearsFirst(e) ==
  /\ At(e, "capture-memory", "read")
  /\ LET lost == SetToSeq(ws.manifest \ e.kept)
     IN Reports(e, <<MarkHarvested(e.run, "memory")>>
                   \o [i \in DOMAIN lost |-> Message("forget", 0, lost[i], 0)])
  /\ UNCHANGED <<quiet, ws, store, handed>>
CaptureMemoryForgetsSurvivors(e) ==
  /\ At(e, "capture-memory", "read")
  /\ LET lost == SetToSeq(ws.manifest)
     IN Reports(e, [i \in DOMAIN lost |-> Message("forget", 0, lost[i], 0)]
                   \o <<MarkHarvested(e.run, "memory")>>)
  /\ UNCHANGED <<quiet, ws, store, handed>>

\* capture-memory reads the pinned manifest last, then says what it found:
\* remembers, then forgets of what was neither kept nor rewritten, then
\* mark-harvested.
CaptureMemory(e) ==
  /\ At(e, "capture-memory", "read")
  /\ LET written == IF "note" \in Manifest(e.out) THEN {Lesson} ELSE {}
         lost == SetToSeq(ws.manifest \ (e.kept \cup written))
     IN Reports(e, [i \in 1..Cardinality(written) |-> Message("remember", 0, Lesson, 0)]
                   \o [i \in DOMAIN lost |-> Message("forget", 0, lost[i], 0)]
                   \o <<MarkHarvested(e.run, "memory")>>)
  /\ UNCHANGED <<quiet, ws, store, handed>>

StoreSkill(e) ==
  /\ At(e, "store-skill", "read")
  /\ IF "skill" \in Manifest(e.out)
     THEN /\ store' = [store EXCEPT !.skills = @ \cup {e.out["skill"]}]
          /\ Reports(e, <<Message("register-skill", e.out["skill"], "", 0),
                          MarkHarvested(e.run, "skill")>>)
     ELSE /\ Reports(e, <<MarkHarvested(e.run, "skill")>>)
          /\ UNCHANGED store
  /\ UNCHANGED <<quiet, ws, handed>>

\* mint-ui-request: no request.json is an error.
MintUIRequest(e) ==
  /\ At(e, "mint-ui-request", "read")
  /\ IF "request" \in Manifest(e.out)
     THEN Reports(e, <<Message("register-ui-request", e.run, "", 0)>>)
     ELSE Ends(e)
  /\ UNCHANGED <<quiet, ws, store, handed>>

\* AddOutbox: the row that already has this Message-ID, or a new one.
RowFor(mid) ==
  IF \E i \in DOMAIN store.rows : store.rows[i].mid = mid
  THEN CHOOSE i \in DOMAIN store.rows : store.rows[i].mid = mid
  ELSE Len(store.rows) + 1

AssembleReplyClearsFirst(e) ==
  LET mid == ReplyMessageID(e.run, e.domain)
      id  == RowFor(mid)
      row == [mid |-> mid, by |-> e.out["reply"], link |-> e.link, sent |-> FALSE]
  IN /\ At(e, "assemble-reply", "read")
     /\ store' = IF id \in DOMAIN store.rows THEN store
                 ELSE [store EXCEPT !.rows = Append(@, row)]
     /\ Reports(e, <<MarkHarvested(e.run, "reply"),
                     Message("mark-reply-queued", e.run, "", id)>>)
     /\ UNCHANGED <<quiet, ws, handed>>
AssembleReplyNeverClears(e) ==
  LET mid == ReplyMessageID(e.run, e.domain)
      id  == RowFor(mid)
      row == [mid |-> mid, by |-> e.out["reply"], link |-> e.link, sent |-> FALSE]
  IN /\ At(e, "assemble-reply", "read")
     /\ store' = IF id \in DOMAIN store.rows THEN store
                 ELSE [store EXCEPT !.rows = Append(@, row)]
     /\ Reports(e, <<Message("mark-reply-queued", e.run, "", id)>>)
     /\ UNCHANGED <<quiet, ws, handed>>

AssembleReply(e) ==
  LET mid == ReplyMessageID(e.run, e.domain)
      id  == RowFor(mid)
      row == [mid |-> mid, by |-> e.out["reply"], link |-> e.link, sent |-> FALSE]
  IN /\ At(e, "assemble-reply", "read")
     /\ store' = IF id \in DOMAIN store.rows THEN store
                 ELSE [store EXCEPT !.rows = Append(@, row)]
     /\ Reports(e, <<Message("mark-reply-queued", e.run, "", id),
                     MarkHarvested(e.run, "reply")>>)
     /\ UNCHANGED <<quiet, ws, handed>>

\* send-email, first half: the provider accepts the row's bytes.
Submit(e) ==
  /\ At(e, "send-email", "start")
  /\ handed' = [handed EXCEPT ![store.rows[e.id].mid] = @ + 1]
  /\ Becomes(e, [e EXCEPT !.pc = "submitted"])
  /\ UNCHANGED <<quiet, ws, store>>

MarkOutboxSentInModelOnly(e) ==
  /\ At(e, "send-email", "submitted")
  /\ Reports(e, <<Message("mark-email-sent", 0, "", e.id)>>)
  /\ UNCHANGED <<quiet, ws, store, handed>>

\* send-email, second half: MarkOutboxSent, then mark-email-sent.
MarkOutboxSent(e) ==
  /\ At(e, "send-email", "submitted")
  /\ store' = [store EXCEPT !.rows[e.id].sent = TRUE]
  /\ Reports(e, <<Message("mark-email-sent", 0, "", e.id)>>)
  /\ UNCHANGED <<quiet, ws, handed>>

\* archive-task, first half: every artifact archived under (task, filename),
\* where a row that is there already stays; transcripts taken as covered.
ArchiveFiles(e) ==
  /\ At(e, "archive-task", "start")
  /\ store' = [store EXCEPT !.artifacts =
                 [f \in File |-> IF @[f] = 0 THEN ws.out[f] ELSE @[f]]]
  /\ Becomes(e, [e EXCEPT !.pc = "delete", !.out = ws.out, !.kept = ws.in,
                          !.papers = ws.papers])
  /\ UNCHANGED <<quiet, ws, handed>>

CheckCoveredNothing(e) ==
  /\ At(e, "archive-task", "delete")
  /\ Becomes(e, [e EXCEPT !.pc = "remove", !.out = ws.out, !.kept = ws.in,
                          !.papers = ws.papers])
  /\ UNCHANGED <<quiet, ws, store, handed>>

\* Work.Delete, first half: it lists the live files and refuses while one of them
\* is not covered; the listing is kept.
CheckCovered(e) ==
  LET covered == /\ \A f \in Manifest(ws.out) : ws.out[f] = e.out[f]
                 /\ ws.in \subseteq e.kept /\ ws.papers \subseteq e.papers
  IN /\ At(e, "archive-task", "delete")
     /\ IF covered
        THEN Becomes(e, [e EXCEPT !.pc = "remove", !.out = ws.out, !.kept = ws.in,
                                  !.papers = ws.papers])
        ELSE Ends(e)
     /\ UNCHANGED <<quiet, ws, store, handed>>

\* Work.Delete, second half: RemoveAll takes whatever the directory holds by now.
\* finish-task stops no run, so a turn may have ended since the listing.
RemoveWorkspace(e) ==
  /\ At(e, "archive-task", "remove")
  /\ ws' = [ws EXCEPT !.live = FALSE, !.out = NoFiles, !.in = {}, !.papers = {}]
  /\ Becomes(e, [e EXCEPT !.pc = "manifest"])
  /\ UNCHANGED <<quiet, store, handed>>

\* The manifest beside the directory goes after it.
DeleteManifest(e) ==
  /\ At(e, "archive-task", "manifest")
  /\ ws' = [ws EXCEPT !.manifest = {}]
  /\ Ends(e)
  /\ UNCHANGED <<quiet, store, handed>>

\* An effect emits its next message and returns after the last.
Emit(e) ==
  /\ e \in effects /\ e.pc = "emit"
  /\ inbox' = Append(inbox, Head(e.says))
  /\ IF Len(e.says) = 1 THEN Ends(e) ELSE Becomes(e, [e EXCEPT !.says = Tail(@)])
  /\ UNCHANGED <<model, started, unsent, outside, budget>>

\* A read, a write or the provider fails: the error is recorded and the effect
\* is over.  Its source stays started, so nothing fires it again.
EffectFails(e) ==
  /\ e \in effects /\ e.pc # "emit" /\ faults < world.plan.faults
  /\ faults' = faults + 1
  /\ Ends(e)
  /\ UNCHANGED <<model, inbox, started, unsent, outside, crashes>>

EffectStep(e) ==
  \/ CaptureTranscript(e) \/ ReadFiles(e) \/ CaptureMemory(e) \/ StoreSkill(e)
  \/ MintUIRequest(e) \/ AssembleReply(e) \/ Submit(e) \/ MarkOutboxSent(e)
  \/ ArchiveFiles(e) \/ CheckCovered(e) \/ RemoveWorkspace(e) \/ DeleteManifest(e)
  \/ Emit(e)

-----------------------------------------------------------------------------
\* The process dies and Start replays: the channel and the effects are gone,
\* every declared source is started afresh.
Restart ==
  /\ crashes < world.plan.crashes
  /\ crashes' = crashes + 1
  /\ inbox' = <<>> /\ effects' = {}
  /\ started' = Desired(model) /\ unsent' = Desired(model)
  /\ UNCHANGED <<model, outside, faults>>

Next ==
  \/ Reduce
  \/ \E i \in unsent : Fire(i)
  \/ \E e \in effects : EffectStep(e) \/ EffectFails(e)
  \/ StartTurn \/ \E o \in world.plan.outcomes : EndTurn(o)
  \/ UserFinishes \/ \E d \in Domains : OperatorSetsReplyFrom(d)
  \/ Restart

Spec == Init /\ [][Next]_vars

\* The reducer, a started source and an effect in flight are goroutines: Go
\* runs them.  No user, agent or failure is obliged to act.
Fairness ==
  /\ WF_vars(Reduce)
  /\ WF_vars(\E i \in unsent : Fire(i))
  /\ WF_vars(\E e \in effects : EffectStep(e))
FairSpec == Spec /\ Fairness
-----------------------------------------------------------------------------
Sources == [of : {"harvest"}, run : Run, kind : Kind, id : {0}]
           \cup [of : {"send-email"}, run : {0}, kind : {""}, id : DOMAIN store.rows]

TypeOK ==
  /\ model.status \in {"awaiting-agent", "awaiting-user", "done"}
  /\ model.jobs \subseteq [run : Run, kind : Kind]
  /\ model.refs \subseteq MessageID
  /\ model.outbox \subseteq [id : DOMAIN store.rows, mid : MessageID, sent : BOOLEAN]
  /\ model.notes \subseteq Note /\ model.skills \subseteq Run
  /\ started \subseteq Sources /\ unsent \subseteq Sources
  /\ ws.out \in [File -> 0..MaxTurns] /\ ws.in \subseteq Note /\ ws.papers \subseteq Run
  /\ \A i \in DOMAIN store.rows : store.rows[i].mid \in MessageID
  /\ store.transcripts \subseteq Run /\ handed \in [MessageID -> Nat]
  /\ world.turn \in 0..MaxTurns /\ world.ended \in [Run -> Outcome]

Finished == Range(model.runs)
Queued(r) == \E e \in model.outbox : e.mid[1] = r

\* What each kind of work leaves behind once it is done for run r.
Done(r, kind) ==
  LET o == world.ended[r]
      droppedSince(n) == \E q \in Run : q > r /\ n \in world.ended[q].drops
  IN CASE kind = "transcript" -> r \in store.transcripts
       [] kind = "skill" -> r \in model.skills /\ r \in store.skills
       [] kind = "memory" -> /\ "note" \in o.has => Lesson \in model.notes \/ droppedSince(Lesson)
                             /\ o.drops \cap Notes \cap model.notes = {}
       [] kind = "request" -> model.requests[r] = 1
                              /\ (Job(r, "reply") \in model.jobs \/ Queued(r))
       [] kind = "reply" -> Queued(r)

\* marker present <=> not yet registered (message_register_ui_request.go): a
\* run's request is registered at most once, and owed exactly until then.
RequestMarker(r) ==
  /\ model.requests[r] \in {0, 1}
  /\ Job(r, "request") \in model.jobs <=> model.requests[r] = 0

\* A restart may never silently drop durable work (decision-013), nor register
\* a request twice: whatever an applied agent-run-finished owes is still a
\* pending job or has had its whole effect, at every crash point of the fan-out,
\* until the task is finished: archive-task may delete what a job has yet to read.
NothingOwedIsLost ==
  world.finishes = 0 => \A r \in Finished : \A k \in Owed(world.ended[r]) :
    /\ Job(r, k) \in model.jobs \/ Done(r, k)
    /\ k = "request" => RequestMarker(r)

\* The outbox the reconciler drives and the rows it sends agree: an entry names
\* a row with its own Message-ID, no Message-ID is queued twice, and an entry is
\* marked sent only when the provider has had it and the row says so.  A process
\* hands a mail to the provider at most once: every duplicate the provider has to
\* drop is paid for by a restart.
OutboxBacked ==
  /\ \A e \in model.outbox :
       /\ e.mid = store.rows[e.id].mid
       /\ e.sent => store.rows[e.id].sent /\ handed[e.mid] > 0
       /\ \A f \in model.outbox : f.mid = e.mid \/ f.id = e.id => f = e
  /\ \A i \in MessageID : handed[i] <= 1 + crashes

\* A queued reply carries its own turn's reply.txt and the link of its own
\* turn's request, never an earlier or a later turn's (decision-019), until the
\* task is finished: archive-task may delete reply.txt before it is assembled.
ReplyIsTheTurns ==
  world.finishes = 0 => \A i \in DOMAIN store.rows :
    LET row == store.rows[i]
        o == world.ended[row.mid[1]]
    IN /\ row.by = IF "reply" \in o.has THEN row.mid[1] ELSE 0
       /\ row.link = ("request" \in o.has)

\* A reply's Message-ID is among the task's references before the reply is
\* queued, so the answer to it threads back onto the task, and a re-driven
\* assemble queues the same row, never a second reply (decision-013).
RepliesThread ==
  \A e \in model.outbox :
    /\ e.mid \in model.refs
    /\ \A f \in model.outbox : f.mid[1] = e.mid[1] => f = e

\* A memory note is forgotten only because some run deleted its file, until the
\* task is finished: Work.Delete removes the notes before their manifest.
NotesOnlyDropped ==
  world.finishes = 0 => \A n \in Notes \ model.notes : \E r \in Run : n \in world.ended[r].drops

\* Never delete a workspace before its contents are provably archived
\* (docs/05): what a run left in out/ is what the archive holds when it goes.
ArchivedBeforeDeleted ==
  [][ws.live /\ ~ws'.live => \A f \in Manifest(ws.out) :
                           store.artifacts[f] = ws.out[f]]_vars

\* All run transcripts go into the archive before the workspace goes (docs/05,
\* Completion and cleanup): archive-task counts on capture-transcript for them.
TranscriptsArchived ==
  [][ws.live /\ ~ws'.live => ws.papers \subseteq store.transcripts]_vars

\* What the check is worth: a deleted workspace takes no file with it that the
\* archive lacks but one that came after Work.Delete listed the directory, so a
\* turn that ends between the archiving and the listing keeps its files.
LosesOnlyLateWrites ==
  [][ws.live /\ ~ws'.live =>
       \A f \in Manifest(ws.out) :
         \/ store.artifacts[f] = ws.out[f]
         \/ \E e \in effects : At(e, "archive-task", "remove") /\ e.out[f] # ws.out[f]]_vars

\* Everything owed is done and every queued mail is sent, if the process gets
\* to run and no effect fails.
EverythingSettles ==
  /\ \A r \in Run, k \in Kind :
       Job(r, k) \in model.jobs ~> (Job(r, k) \notin model.jobs \/ faults > 0)
  /\ \A i \in MessageID :
       (\E e \in model.outbox : e.mid = i /\ ~e.sent)
         ~> ((\E e \in model.outbox : e.mid = i /\ e.sent) \/ faults > 0)

\* The stage of run r's reply, as a reader of the model alone sees it.
Stage(r) ==
  CASE \E e \in model.outbox : e.mid[1] = r /\ e.sent -> "sent"
    [] Queued(r) /\ ~ \E e \in model.outbox : e.mid[1] = r /\ e.sent -> "queued"
    [] ~Queued(r) /\ (Job(r, "reply") \in model.jobs \/ Job(r, "request") \in model.jobs) -> "owed"
    [] OTHER -> "none"

Abstract == INSTANCE Delivery WITH
  stage <- [r \in Run |-> Stage(r)],
  Copy <- Domains,
  accepted <- [r \in Run |-> [d \in Domains |-> handed[<<r, d>>]]]

\* Harvest implements Delivery: a run's reply is owed, queued and sent in that
\* order, never unsent, requeued or dropped, and never handed over again once it
\* is known as sent, whatever restarts in between.
RefinesDelivery == Abstract!Spec
=============================================================================
