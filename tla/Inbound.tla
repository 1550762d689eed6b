------------------------------- MODULE Inbound -------------------------------
(***************************************************************************)
(* From a mail in a mailbox to a turn of a task (docs/04, decisions 016,   *)
(* 017, 018): two pollers fetch mail beyond a cursor, store each mail and  *)
(* send route-email, whose handler drops it, threads it onto a task        *)
(* (append-to-task) or opens one (create-task); both ask agents for a run; *)
(* the run's end hands the task back to the human, who answers by mail, by *)
(* form (answer-ui-request) or finishes the task.                          *)
(*                                                                         *)
(* model is the reducer's state (the tasks, the UI requests, the poll      *)
(* cursors and the runs), durable because the runtime rebuilds it from the *)
(* log.  rows are the content store's inbox rows.  The channel and the     *)
(* pollers die with the process.  A Message-ID is a mail's number, or -r   *)
(* for the reply to run r.                                                 *)
(*                                                                         *)
(* Abstracted: a run is over when its finish-agent-run is applied; what    *)
(* makes every run end is AgentRuns' matter.  The reply to a run may be    *)
(* answered as soon as the task knows its Message-ID; Harvest follows its  *)
(* way to the provider, and the archive of a finished task.  The files     *)
(* laid into the workspace, notify-user (which changes no state), changes  *)
(* of the allowlist and of the reply-from address are left out, as are     *)
(* fetches that fail, which a poller repeats.                              *)
(***************************************************************************)
EXTENDS Integers, Sequences, FiniteSets, SequencesExt

CONSTANTS
  Mechanisms,  \* the inbound mechanisms that are polled
  Envelopes,   \* what a mail may have as sender and other people
  Allowed,     \* the initiator allowlist
  Outcomes,    \* what a run may end with
  LoopGuard,   \* runs a task may have before the breaker trips, 0 for no limit
  Twice,       \* may one mail reach two mailboxes?
  MaxMails,    \* bound: mails that arrive
  MaxAnswers,  \* bound: forms answered and completion links followed
  MaxCrashes, MaxFaults

Self == "kasi"
Outcome == {"reply", "request", "failed"}

ASSUME InboundAssumption ==
  /\ \A e \in Envelopes : e.cc \subseteq STRING \ {Self}
  /\ Outcomes \subseteq Outcome
  /\ "" \notin Mechanisms
  /\ Twice \in BOOLEAN
  /\ LoopGuard \in Nat /\ MaxMails \in Nat /\ MaxAnswers \in Nat
  /\ MaxCrashes \in Nat /\ MaxFaults \in Nat

VARIABLES
  mails,    \* the mails that arrived, by number
  boxes,    \* per mechanism: the numbers of its mails in order of arrival
  rows,     \* the inbox rows of the content store: a row's mail
  model,    \* tasks, requests, runs, cursors
  inbox,    \* the channel
  pollers,  \* per mechanism: where its loop is
  anchor,   \* history: the cursor a mechanism first recorded, -1 before
  dropped,  \* history: mails that route-email or append-to-task turned away
  answers,  \* history: the tasks humans answered a form of, or finished
  crashes, faults

vars == <<mails, boxes, rows, model, inbox, pollers, anchor, dropped, answers,
          crashes, faults>>

\* about is a row, a run or a cursor; by names the poller that waits in Send.
Message(tag, about, task, how, by) ==
  [tag |-> tag, about |-> about, task |-> task, how |-> how, by |-> by]

Mail(row) == mails[rows[row]]

-----------------------------------------------------------------------------
\* Seeded faults, here and below: what a slip in the code would make of the
\* definition that follows.  No specification uses them; each shows that a
\* property tells the slip from the code.
\* HasIngestedInbox: is the row in some task already?
HasIngestedInbox(s, row) == \E t \in DOMAIN s.tasks : row \in Range(s.tasks[t].rows)

\* ByThreadKey: the tasks whose thread holds the Message-ID a mail answers.
ByThreadKey(s, mail) == {t \in DOMAIN s.tasks : mail.answers \in s.tasks[t].refs}

\* dropOwn: the people on a mail, kasi excepted.
People(mail) == ({mail.from} \cup mail.cc) \ {Self}

\* route-email: own mail and mail already taken up go nowhere, a mail on a
\* thread only to its task and only from a participant, any other opens a task
\* if its sender may.
RouteEmail(s, m) ==
  LET mail == Mail(m.about)
      threads == ByThreadKey(s, mail)
      first == Min(threads)
  IN IF mail.from = Self \/ HasIngestedInbox(s, m.about) THEN <<>>
     ELSE IF threads # {}
          THEN IF mail.from \in s.tasks[first].people
               THEN <<Message("append-to-task", m.about, first, "", "")>> ELSE <<>>
          ELSE IF mail.from \in Allowed
               THEN <<Message("create-task", m.about, 0, "", "")>> ELSE <<>>

\* create-task
CreateTask(s, m) ==
  [s EXCEPT !.tasks =
     Append(@, [status |-> "awaiting-agent", people |-> People(Mail(m.about)),
                refs |-> {rows[m.about]}, rows |-> <<m.about>>, turns |-> 1])]

\* A mail joins the thread: references and inbox rows.
Threaded(task, row) ==
  [task EXCEPT !.refs = @ \cup {rows[row]}, !.rows = Append(@, row)]

TripsLate(task) == LoopGuard > 0 /\ task.turns > LoopGuard

Trips(task) == LoopGuard > 0 /\ task.turns >= LoopGuard
Refuses(task) == task.status = "paused" \/ Trips(task)

AppendToTaskKeepsAwaiting(s, m) ==
  LET task == s.tasks[m.task] IN
  [s EXCEPT !.tasks[m.task] =
     IF task.status = "paused" THEN task
     ELSE [Threaded(task, m.about) EXCEPT
             !.people = @ \cup People(Mail(m.about)), !.status = "awaiting-agent",
             !.turns = IF Trips(task) THEN @ ELSE @ + 1]]

\* append-to-task: a paused task takes nothing in; one at the guard is paused.
AppendToTask(s, m) ==
  LET task == s.tasks[m.task] IN
  [s EXCEPT !.tasks[m.task] =
     CASE task.status = "paused" -> task
       [] task.status # "paused" /\ Trips(task) ->
            [Threaded(task, m.about) EXCEPT !.status = "paused"]
       [] ~Refuses(task) ->
            [Threaded(task, m.about) EXCEPT
               !.people = @ \cup People(Mail(m.about)),
               !.status = "awaiting-agent", !.turns = @ + 1]]

\* agent-run-finished: the task waits for the human, whatever it was before; a
\* reply's Message-ID joins the thread, a request is owed.
AgentRunFinished(s, m) ==
  [s EXCEPT !.tasks[m.task].status = "awaiting-user",
            !.tasks[m.task].refs = IF m.how = "reply" THEN @ \cup {-m.about} ELSE @,
            !.owed = IF m.how = "request" THEN @ \cup {m.about} ELSE @]

RegisterUIRequestKeepsMarker(s, m) ==
  [s EXCEPT !.asked = @ \cup {m.about}, !.tasks[m.task].status = "awaiting-user",
            !.tasks[m.task].refs = @ \cup {-m.about}]

\* register-ui-request: the form's link goes out with the reply to the run.
RegisterUIRequest(s, m) ==
  [s EXCEPT !.asked = @ \cup {m.about}, !.owed = @ \ {m.about},
            !.tasks[m.task].status = "awaiting-user",
            !.tasks[m.task].refs = @ \cup {-m.about}]

\* answer-ui-request: the task is the agent's again, whatever it was before.
AnswerUIRequest(s, m) ==
  [s EXCEPT !.answered = @ \cup {m.about}, !.tasks[m.task].status = "awaiting-agent"]

\* spawn-agent-run, finish-agent-run and record-poll-state change one field.
Update(s, m) ==
  CASE m.tag = "create-task" -> CreateTask(s, m)
    [] m.tag = "append-to-task" -> AppendToTask(s, m)
    [] m.tag = "agent-run-finished" -> AgentRunFinished(s, m)
    [] m.tag = "register-ui-request" -> RegisterUIRequest(s, m)
    [] m.tag = "answer-ui-request" -> AnswerUIRequest(s, m)
    [] m.tag = "finish-task" -> [s EXCEPT !.tasks[m.task].status = "done"]
    [] m.tag = "spawn-agent-run" -> [s EXCEPT !.runs = Append(@, [task |-> m.task, over |-> FALSE])]
    [] m.tag = "finish-agent-run" -> [s EXCEPT !.runs[m.about].over = TRUE]
    [] m.tag = "record-poll-state" -> [s EXCEPT !.cursor[m.by] = m.about]
    [] OTHER -> s

SpawnFor(task) == <<Message("spawn-agent-run", 0, task, "", "")>>

\* The messages a handler sends on.
Sends(s, m) ==
  CASE m.tag = "route-email" -> RouteEmail(s, m)
    [] m.tag = "create-task" -> SpawnFor(Len(s.tasks) + 1)
    [] m.tag = "append-to-task" -> IF Refuses(s.tasks[m.task]) THEN <<>> ELSE SpawnFor(m.task)
    [] m.tag = "answer-ui-request" -> SpawnFor(m.task)
    [] m.tag = "finish-agent-run" -> <<Message("agent-run-finished", m.about, m.task, m.how, "")>>
    [] OTHER -> <<>>

\* Mail turned away for good: not his own, not allowed, not on the thread, or
\* for a paused task.
TurnsAway(s, m) ==
  \/ m.tag = "route-email" /\ RouteEmail(s, m) = <<>> /\ ~HasIngestedInbox(s, m.about)
  \/ m.tag = "append-to-task" /\ s.tasks[m.task].status = "paused"

-----------------------------------------------------------------------------
Idle(cursor) == [at |-> "fetch", state |-> cursor, batch |-> <<>>, next |-> cursor]

Init ==
  /\ mails = <<>> /\ boxes = [k \in Mechanisms |-> <<>>] /\ rows = <<>>
  /\ model = [tasks |-> <<>>, runs |-> <<>>, owed |-> {}, asked |-> {}, answered |-> {},
              cursor |-> [k \in Mechanisms |-> -1]]
  /\ inbox = <<>> /\ pollers = [k \in Mechanisms |-> Idle(-1)]
  /\ anchor = [k \in Mechanisms |-> -1] /\ dropped = {} /\ answers = <<>>
  /\ crashes = 0 /\ faults = 0

\* After a mail is done with: the next of the batch, or the cursor.
Onward(p) == [p EXCEPT !.at = IF p.batch # <<>> THEN "route" ELSE "record"]

\* Send returns to a poller when its message has been applied.
Returned(p) ==
  IF p.at = "routing" THEN Onward(p) ELSE [p EXCEPT !.at = "fetch", !.state = p.next]

\* The loop's turn: pop, log, apply, interpret the sends, release the sender.
Reduce ==
  /\ inbox # <<>>
  /\ LET m == Head(inbox) IN
     /\ model' = Update(model, m)
     /\ inbox' = Tail(inbox) \o Sends(model, m)
     /\ pollers' = [k \in Mechanisms |-> IF k = m.by THEN Returned(pollers[k]) ELSE pollers[k]]
     /\ anchor' = [k \in Mechanisms |-> IF m.tag = "record-poll-state" /\ k = m.by /\ anchor[k] = -1
                                        THEN m.about ELSE anchor[k]]
     /\ dropped' = IF TurnsAway(model, m) THEN dropped \cup {rows[m.about]} ELSE dropped
  /\ UNCHANGED <<mails, boxes, rows, answers, crashes, faults>>

-----------------------------------------------------------------------------
\* A provider takes a mail in: a new one, or an answer to one that arrived or to
\* a reply of kasi's.
Known == {0} \cup DOMAIN mails \cup UNION {{i \in task.refs : i < 0} : task \in Range(model.tasks)}

Arrive(ks) ==
  /\ Len(mails) < MaxMails
  /\ \E e \in Envelopes, i \in Known :
       mails' = Append(mails, [from |-> e.from, cc |-> e.cc, answers |-> i])
  /\ boxes' = [k \in Mechanisms |-> IF k \in ks THEN Append(boxes[k], Len(mails')) ELSE boxes[k]]
  /\ UNCHANGED <<rows, model, inbox, pollers, anchor, dropped, answers, crashes, faults>>

rest == <<mails, boxes, model, anchor, answers, crashes>>
Poller(k, at) == pollers[k].at = at

\* Fetch: the mails beyond the cursor, in the order the provider lists them.  An
\* empty cursor is anchored to now.  A fetch that finds nothing new ends a tick.
Fetch(k) ==
  /\ Poller(k, "fetch")
  /\ Len(boxes[k]) # pollers[k].state
  /\ LET fresh == IF pollers[k].state = -1 THEN <<>>
                  ELSE SubSeq(boxes[k], pollers[k].state + 1, Len(boxes[k]))
     IN \E batch \in SetToSeqs(Range(fresh)) :
          pollers' = [pollers EXCEPT ![k] =
                        Onward([@ EXCEPT !.batch = batch, !.next = Len(boxes[k])])]
  /\ UNCHANGED <<rest, rows, inbox, dropped, faults>>

\* AddInbox is idempotent on Message-ID.
AddInbox(mail) == IF mail \in Range(rows) THEN rows ELSE Append(rows, mail)

Waits(k, at) == pollers' = [pollers EXCEPT ![k].at = at]

\* route: store the mail, send route-email and wait until it is applied.
Route(k) ==
  /\ Poller(k, "route")
  /\ LET mail == Head(pollers[k].batch) IN
     /\ rows' = AddInbox(mail)
     /\ inbox' = Append(inbox, Message("route-email",
                                       CHOOSE i \in DOMAIN rows' : rows'[i] = mail, 0, "", k))
     /\ pollers' = [pollers EXCEPT ![k].at = "routing", ![k].batch = Tail(@)]
  /\ UNCHANGED <<rest, dropped, faults>>

\* Storing or parsing the mail fails: it is logged and passed over.
RouteFails(k) ==
  /\ Poller(k, "route")
  /\ faults < MaxFaults /\ faults' = faults + 1
  /\ LET batch == pollers[k].batch IN
     /\ \E stored \in BOOLEAN : rows' = IF stored THEN AddInbox(Head(batch)) ELSE rows
     /\ dropped' = dropped \cup {Head(batch)}
     /\ pollers' = [pollers EXCEPT ![k] = Onward([@ EXCEPT !.batch = Tail(batch)])]
  /\ UNCHANGED <<rest, inbox>>

\* The cursor advances through the log, after the batch is routed.
Record(k) ==
  /\ Poller(k, "record")
  /\ inbox' = Append(inbox, Message("record-poll-state", pollers[k].next, 0, "", k))
  /\ Waits(k, "recording")
  /\ UNCHANGED <<rest, rows, dropped, faults>>

-----------------------------------------------------------------------------
outside == <<mails, boxes, rows, model, pollers, anchor, dropped, crashes, faults>>
OnChannel(tag, about) == \E i \in DOMAIN inbox : inbox[i].tag = tag /\ inbox[i].about = about
TaskOf(r) == model.runs[r].task

\* The watcher of a run reports its end.
EndRun(r, how) ==
  /\ ~model.runs[r].over /\ ~OnChannel("finish-agent-run", r)
  /\ inbox' = Append(inbox, Message("finish-agent-run", r, TaskOf(r), how, ""))
  /\ UNCHANGED <<outside, answers>>

\* mint-ui-request, driven until the request is registered.
Mint(r) ==
  /\ ~OnChannel("register-ui-request", r)
  /\ inbox' = Append(inbox, Message("register-ui-request", r, TaskOf(r), "", ""))
  /\ UNCHANGED <<outside, answers>>

Human(t) == Len(answers) < MaxAnswers /\ answers' = Append(answers, t)

\* The web looks at the model, then sends: a form not answered yet, a task not
\* done yet.
Answer(r) ==
  /\ r \notin model.answered
  /\ Human(TaskOf(r))
  /\ inbox' = Append(inbox, Message("answer-ui-request", r, TaskOf(r), "", ""))
  /\ UNCHANGED outside

FinishTask(t) ==
  /\ model.tasks[t].status # "done"
  /\ Human(t)
  /\ inbox' = Append(inbox, Message("finish-task", 0, t, "", ""))
  /\ UNCHANGED outside

RestartReanchors ==
  /\ crashes < MaxCrashes /\ crashes' = crashes + 1
  /\ inbox' = <<>>
  /\ pollers' = [k \in Mechanisms |-> Idle(-1)]
  /\ UNCHANGED <<mails, boxes, rows, model, anchor, dropped, answers, faults>>

\* The process dies; Start replays, the pollers resume from the logged cursor.
Restart ==
  /\ crashes < MaxCrashes /\ crashes' = crashes + 1
  /\ inbox' = <<>>
  /\ pollers' = [k \in Mechanisms |-> Idle(model.cursor[k])]
  /\ UNCHANGED <<mails, boxes, rows, model, anchor, dropped, answers, faults>>

Poll(k) == Fetch(k) \/ Route(k) \/ Record(k)
Ends == \E r \in DOMAIN model.runs, how \in Outcomes : EndRun(r, how)

Next ==
  \/ Reduce
  \/ \E ks \in SUBSET Mechanisms :
       ((\E k \in Mechanisms : ks = {k}) \/ (Twice /\ ks # {})) /\ Arrive(ks)
  \/ \E k \in Mechanisms : Poll(k) \/ RouteFails(k)
  \/ Ends
  \/ \E r \in model.owed : Mint(r)
  \/ \E r \in model.asked : Answer(r)
  \/ \E t \in DOMAIN model.tasks : FinishTask(t)
  \/ Restart

Spec == Init /\ [][Next]_vars

\* The reducer, the pollers and the reconciled effects run; a run ends
\* (AgentRuns!RunsEnd).  Nobody is obliged to write, answer or finish.
Fairness ==
  /\ WF_vars(Reduce)
  /\ \A k \in Mechanisms : WF_vars(Poll(k))
  /\ WF_vars(Ends)
  /\ WF_vars(\E r \in model.owed : Mint(r))
FairSpec == Spec /\ Fairness

-----------------------------------------------------------------------------
Tasks == DOMAIN model.tasks
Status == {"awaiting-agent", "awaiting-user", "done", "paused"}

\* What each part may be; a request is owed until it is registered, not after.
TypeOK ==
  /\ \A k \in Mechanisms :
       /\ pollers[k].at \in {"fetch", "route", "routing", "record", "recording"}
       /\ model.cursor[k] \in -1..Len(boxes[k]) /\ pollers[k].next \in -1..Len(boxes[k])
  /\ \A t \in Tasks : /\ model.tasks[t].status \in Status
                      /\ Range(model.tasks[t].rows) \subseteq DOMAIN rows
                      /\ model.tasks[t].refs \subseteq (DOMAIN mails) \cup {-r : r \in DOMAIN model.runs}
  /\ model.owed \cup model.asked \subseteq DOMAIN model.runs
  /\ model.owed \cap model.asked = {}
  /\ model.answered \subseteq model.asked

\* Where a mail is: a task and a place among its rows.
PlacesIn(t, m) ==
  {t} \X {p \in DOMAIN model.tasks[t].rows : rows[model.tasks[t].rows[p]] = m}
Places(m) == UNION {PlacesIn(t, m) : t \in Tasks}

\* A mail fetched again after a restart creates no second task and spawns no
\* second run, and the cursor in the log never passes a mail that was not taken up
\* or turned away (decision-018), wherever kasi died: every mail is taken up once
\* at most, and from the first recorded cursor on none is skipped.
TakenUpOnce ==
  /\ \A m \in DOMAIN mails : Cardinality(Places(m)) <= 1
  /\ \A k \in Mechanisms : \A p \in DOMAIN boxes[k] :
       0 <= anchor[k] /\ anchor[k] < p /\ p <= model.cursor[k] =>
         boxes[k][p] \in dropped \/ Places(boxes[k][p]) # {}

\* The loop breaker (decision-016): whatever mails a task gets, it has no more
\* runs than the guard allows, those a human's form asked for aside.
GuardHolds ==
  LoopGuard > 0 => \A t \in Tasks :
    Cardinality({r \in DOMAIN model.runs : TaskOf(r) = t})
      <= LoopGuard + Cardinality({i \in DOMAIN answers : answers[i] = t})

AwaitsAgent(t) == t \in Tasks /\ model.tasks[t].status = "awaiting-agent"

\* The agent's turn ends: a task waiting for the agent is handed back, whatever
\* mails, forms and links come in between, while kasi does not die.
TurnsEnd == \A t \in 1..MaxMails : AwaitsAgent(t) ~> (~AwaitsAgent(t) \/ crashes > 0)
=============================================================================
