---------------------------- MODULE HarvestProofs ----------------------------
(***************************************************************************)
(* Proofs about module Harvest, for any number of turns, notes, domains,   *)
(* crashes, failures and ways a run may end.                               *)
(***************************************************************************)
EXTENDS Harvest, SequenceLemmas

\* The types of the parts, the model's record by record.
MailSource(id) == [of |-> "send-email", run |-> 0, kind |-> "", id |-> id]
NoSource == [of |-> "none", run |-> 0, kind |-> "", id |-> 0]

Status == {"awaiting-agent", "awaiting-user", "done"}
JobType == [run : Run, kind : Kind]
EntryType == [id : Nat, mid : MessageID, sent : BOOLEAN]
ModelType == [status : Status, runs : Seq(Run), jobs : SUBSET JobType,
              refs : SUBSET MessageID, requests : [Run -> Nat],
              outbox : SUBSET EntryType, domain : Domains,
              notes : SUBSET Note, skills : SUBSET Run]
Box == [File -> 0..MaxTurns]
WorkspaceType == [live : BOOLEAN, out : Box, in : SUBSET Note,
                  papers : SUBSET Run, manifest : SUBSET Note]
RowType == [mid : MessageID, by : 0..MaxTurns, link : BOOLEAN, sent : BOOLEAN]
StoreType == [rows : Seq(RowType), transcripts : SUBSET Run, skills : SUBSET Run,
              artifacts : Box]
WorldType == [plan : Plans, turn : 0..MaxTurns, running : BOOLEAN,
              ended : [Run -> Outcome], domains : Nat, finishes : Nat]
Tag == {"agent-run-finished", "mark-harvested", "register-ui-request",
        "mark-reply-queued", "mark-email-sent", "remember", "forget",
        "register-skill", "set-reply-from", "finish-task", "run-harvest", "send-outbox"}
MessageType == [tag : Tag, run : 0..MaxTurns, name : Kind \cup Note \cup Domains \cup {""},
                id : Nat]
EffectKind == {"capture-transcript", "store-skill", "capture-memory", "mint-ui-request",
               "assemble-reply", "send-email", "archive-task"}
EffectType == [kind : EffectKind, run : 0..MaxTurns, id : Nat, domain : Domains,
               link : BOOLEAN,
               pc : {"start", "read", "submitted", "delete", "remove", "manifest", "emit"},
               out : Box, kept : SUBSET Note, papers : SUBSET Run, says : Seq(MessageType)]
JobSource == [of : {"harvest"}, run : Run, kind : Kind, id : {0}]
SourceType == JobSource \cup [of : {"send-email"}, run : {0}, kind : {""}, id : Nat]

Types ==
  /\ model \in ModelType
  /\ inbox \in Seq(MessageType)
  /\ effects \subseteq EffectType
  /\ started \subseteq SourceType /\ unsent \subseteq SourceType
  /\ ws \in WorkspaceType /\ store \in StoreType
  /\ world \in WorldType /\ (world.running => world.turn \in Run)
  /\ handed \in [MessageID -> Nat]
  /\ crashes \in Nat /\ faults \in Nat

\* What a message may name, by its tag.
Sound(m) ==
  /\ m.tag \in {"agent-run-finished", "mark-harvested", "run-harvest",
                "register-ui-request", "register-skill"} => m.run \in Run
  /\ m.tag \in {"mark-harvested", "run-harvest"} => m.name \in Kind
  /\ m.tag \in {"send-outbox", "mark-reply-queued", "mark-email-sent"} =>
       m.id \in DOMAIN store.rows
  /\ m.tag = "mark-reply-queued" =>
       m.run \in Run /\ store.rows[m.id].mid[1] = m.run
  /\ m.tag = "mark-email-sent" =>
       store.rows[m.id].sent /\ handed[store.rows[m.id].mid] > 0
  /\ m.tag \in {"remember", "forget"} => m.name \in Note
  /\ m.tag = "set-reply-from" => m.name \in Domains

\* The source a message or an effect was started for.
For(m) ==
  IF m.tag \in {"run-harvest", "mark-harvested"} THEN SourceJob(Job(m.run, m.name))
  ELSE IF m.tag = "register-ui-request" THEN SourceJob(Job(m.run, "request"))
  ELSE IF m.tag \in {"send-outbox", "mark-email-sent"} THEN MailSource(m.id)
  ELSE NoSource

KindOf(e) ==
  IF e.kind = "capture-transcript" THEN "transcript"
  ELSE IF e.kind = "store-skill" THEN "skill"
  ELSE IF e.kind = "capture-memory" THEN "memory"
  ELSE IF e.kind = "mint-ui-request" THEN "request"
  ELSE "reply"

Of(e) ==
  IF e.kind = "send-email" THEN MailSource(e.id)
  ELSE IF e.kind = "archive-task" THEN NoSource
  ELSE SourceJob(Job(e.run, KindOf(e)))

\* An effect: which stages its kind has, and what it says when it has done its
\* work, the message that settles its source last.
Says(e, s) ==
  /\ s # <<>> /\ For(s[Len(s)]) = Of(e)
  /\ \A i \in 1..Len(s) : /\ Sound(s[i]) /\ s[i].tag # "send-outbox"
                          /\ i # Len(s) => For(s[i]) = NoSource
Fine(e) ==
  /\ e.kind \notin {"send-email", "archive-task"} =>
       /\ e.run \in Run /\ e.pc \in {"start", "read", "emit"}
       /\ e.kind = "capture-transcript" => e.pc # "read"
  /\ e.kind = "send-email" =>
       /\ e.id \in DOMAIN store.rows
       /\ e.pc \in {"start", "submitted", "emit"}
       /\ e.pc # "start" => handed[store.rows[e.id].mid] > 0
       /\ e.pc = "emit" => store.rows[e.id].sent
  /\ e.kind = "archive-task" => e.pc \in {"start", "delete", "remove", "manifest"}
  /\ e.pc = "emit" => Says(e, e.says)
Working == \A e \in effects : Fine(e)

Delivered == \A i \in DOMAIN inbox : Sound(inbox[i])

\* One thing at a time: of every source declared, the prompt not yet sent, the
\* message on its way, the effect at work and the message that settles it are
\* never two at once within a process of kasi.
Chains ==
  /\ started = Desired(model)
  /\ unsent \subseteq started
  /\ \A i \in DOMAIN inbox : For(inbox[i]) # NoSource => For(inbox[i]) \in started \ unsent
  /\ \A e \in effects : Of(e) # NoSource => Of(e) \in started \ unsent
  /\ \A i, j \in DOMAIN inbox :
       For(inbox[i]) # NoSource /\ For(inbox[i]) = For(inbox[j]) => i = j
  /\ \A i \in DOMAIN inbox, e \in effects :
       For(inbox[i]) # NoSource => For(inbox[i]) # Of(e)
  /\ \A e, f \in effects : Of(e) # NoSource /\ Of(e) = Of(f) => e = f

\* Rows and entries agree, and each mail was handed over once per process at most.
Rows ==
  /\ \A i, j \in DOMAIN store.rows : store.rows[i].mid = store.rows[j].mid => i = j
  /\ \A e \in model.outbox :
       /\ e.id \in DOMAIN store.rows /\ e.mid = store.rows[e.id].mid
       /\ e.sent => store.rows[e.id].sent /\ handed[e.mid] > 0
       /\ \A f \in model.outbox : f.mid = e.mid \/ f.id = e.id => f = e

\* Mail k is on its way to the provider and has not reached it.
Leaving(k) ==
  \/ MailSource(k) \in unsent
  \/ \E i \in DOMAIN inbox : inbox[i].tag = "send-outbox" /\ inbox[i].id = k
  \/ \E e \in effects : e.kind = "send-email" /\ e.id = k /\ e.pc = "start"
Handed ==
  /\ \A i \in MessageID : handed[i] <= 1 + crashes
  /\ \A i \in MessageID : handed[i] > 0 => \E e \in model.outbox : e.mid = i
  /\ \A k \in DOMAIN store.rows : Leaving(k) => handed[store.rows[k].mid] <= crashes

Inv == Types /\ Working /\ Delivered /\ Chains /\ Rows /\ Handed
-----------------------------------------------------------------------------
\* The effect of a harvest step says which step it is of.
LEMMA KindOfEffect ==
  ASSUME NEW k \in Kind
  PROVE  /\ EffectOf(k) \in EffectKind \ {"send-email", "archive-task"}
         /\ \A e : e.kind = EffectOf(k) => KindOf(e) = k
BY DEF Kind, EffectOf, EffectKind, KindOf

\* Runs are numbers between 0 and the bound on turns.
LEMMA Bounds == 0 \in 0..MaxTurns /\ Run \subseteq 0..MaxTurns /\ MaxTurns \in Nat
BY HarvestAssumption DEF Run

\* A new effect is an effect.
LEMMA FreshEffect ==
  ASSUME NEW kind \in EffectKind, NEW run \in 0..MaxTurns, NEW id \in Nat,
         NEW domain \in Domains, NEW link \in BOOLEAN
  PROVE  Effect(kind, run, id, domain, link) \in EffectType
<1>1. NoFiles \in Box
  BY Bounds DEF NoFiles, Box
<1>2. <<>> \in Seq(MessageType)
  OBVIOUS
<1>3. QED
  BY <1>1, <1>2 DEF Effect, EffectType

\* The kinds of work a run owes are kinds of work.
LEMMA OwedIsWork == ASSUME NEW o PROVE Owed(o) \subseteq Kind
BY DEF Owed, Kind

\* What Sound says of a message that names a row.
LEMMA NamesRow ==
  ASSUME Types, NEW m \in MessageType, Sound(m),
         m.tag \in {"send-outbox", "mark-reply-queued", "mark-email-sent"}
  PROVE  /\ m.id \in DOMAIN store.rows /\ m.id \in Nat
         /\ store.rows[m.id] \in RowType /\ store.rows[m.id].mid \in MessageID
<1>1. m.id \in DOMAIN store.rows
  BY DEF Sound
<1>2. m.id \in Nat
  BY DEF MessageType
<1>3. store.rows \in Seq(RowType)
  BY DEF Types, StoreType
<1>4. store.rows[m.id] \in RowType
  BY <1>1, <1>3
<1>5. QED
  BY <1>1, <1>2, <1>4 DEF RowType

\* The update half of a sound message keeps the model's type.
LEMMA UpdateType ==
  ASSUME Types, NEW m \in MessageType, Sound(m)
  PROVE  Update(model, m) \in ModelType
<1>1. model \in ModelType
  BY DEF Types
<1>2. CASE m.tag = "agent-run-finished"
  <2> DEFINE o == world.ended[m.run]
             jobs == model.jobs \cup {Job(m.run, k) : k \in Owed(o)}
             runs == Append(model.runs, m.run)
             refs == IF "reply" \in Owed(o)
                     THEN model.refs \cup {ReplyMessageID(m.run, model.domain)}
                     ELSE model.refs
  <2>1. m.run \in Run
    BY <1>2 DEF Sound
  <2>2. jobs \subseteq JobType
    BY <1>1, <2>1, OwedIsWork DEF Job, JobType, ModelType
  <2>3. runs \in Seq(Run)
    BY <1>1, <2>1 DEF ModelType
  <2>4. ReplyMessageID(m.run, model.domain) \in MessageID
    BY <1>1, <2>1 DEF ReplyMessageID, MessageID, ModelType
  <2>5. refs \in SUBSET MessageID
    BY <1>1, <2>4 DEF ModelType
  <2>6. AgentRunFinished(model, m.run, o)
          = [model EXCEPT !.status = "awaiting-user", !.runs = runs, !.jobs = jobs,
                          !.refs = refs]
    BY DEF AgentRunFinished
  <2> HIDE DEF runs, jobs, refs, o
  <2>7. [model EXCEPT !.status = "awaiting-user", !.runs = runs, !.jobs = jobs,
                      !.refs = refs] \in ModelType
    BY <1>1, <2>2, <2>3, <2>5 DEF ModelType, Status
  <2>8. QED
    BY <1>2, <2>6, <2>7 DEF Update, o
<1>3. CASE m.tag = "mark-harvested"
  BY <1>1, <1>3 DEF Update, MarkHarvestedHandler, ModelType
<1>4. CASE m.tag = "register-ui-request"
  <2> DEFINE jobs == (model.jobs \ {Job(m.run, "request")}) \cup {Job(m.run, "reply")}
             refs == model.refs \cup {ReplyMessageID(m.run, model.domain)}
             n == model.requests[m.run] + 1
             requests == [model.requests EXCEPT ![m.run] = n]
  <2>1. m.run \in Run
    BY <1>4 DEF Sound
  <2>2. jobs \in SUBSET JobType
    BY <1>1, <2>1 DEF Job, JobType, Kind, ModelType
  <2>3. ReplyMessageID(m.run, model.domain) \in MessageID
    BY <1>1, <2>1 DEF ReplyMessageID, MessageID, ModelType
  <2>4. refs \in SUBSET MessageID
    BY <1>1, <2>3 DEF ModelType
  <2>5. requests \in [Run -> Nat]
    BY <1>1, <2>1 DEF ModelType
  <2>6. RegisterUIRequest(model, m.run)
          = [model EXCEPT !.status = "awaiting-user", !.requests = requests,
                          !.refs = refs, !.jobs = jobs]
    BY <1>1 DEF RegisterUIRequest, ModelType
  <2> HIDE DEF jobs, refs, requests, n
  <2>7. [model EXCEPT !.status = "awaiting-user", !.requests = requests,
                      !.refs = refs, !.jobs = jobs] \in ModelType
    BY <1>1, <2>2, <2>4, <2>5 DEF ModelType, Status
  <2>8. QED
    BY <1>4, <2>6, <2>7 DEF Update
<1>5. CASE m.tag = "mark-reply-queued"
  <2> DEFINE mid == store.rows[m.id].mid
  <2>1. m.id \in Nat /\ mid \in MessageID
    BY <1>5, NamesRow
  <2> HIDE DEF mid
  <2>2. [id |-> m.id, mid |-> mid, sent |-> FALSE] \in EntryType
    BY <2>1 DEF EntryType
  <2>3. MarkReplyQueued(model, m.id, mid) \in ModelType
    BY <1>1, <2>2 DEF MarkReplyQueued, ModelType
  <2>4. QED
    BY <1>5, <2>3 DEF Update, mid
<1>6. CASE m.tag = "mark-email-sent"
  <2>1. \A e \in model.outbox : e \in EntryType /\ [e EXCEPT !.sent = TRUE] \in EntryType
    BY <1>1 DEF ModelType, EntryType
  <2>2. MarkEmailSent(model, m.id) \in ModelType
    BY <1>1, <2>1 DEF MarkEmailSent, ModelType
  <2>3. QED
    BY <1>6, <2>2 DEF Update
<1>7. CASE m.tag = "remember"
  BY <1>1, <1>7 DEF Update, ModelType, Sound
<1>8. CASE m.tag = "forget"
  BY <1>1, <1>8 DEF Update, ModelType
<1>9. CASE m.tag = "register-skill"
  BY <1>1, <1>9 DEF Update, ModelType, Sound
<1>10. CASE m.tag = "set-reply-from"
  BY <1>1, <1>10 DEF Update, ModelType, Sound
<1>11. CASE m.tag = "finish-task"
  BY <1>1, <1>11 DEF Update, ModelType, Status
<1>12. CASE m.tag \in {"run-harvest", "send-outbox"}
  BY <1>1, <1>12 DEF Update
<1>13. QED
  BY <1>2, <1>3, <1>4, <1>5, <1>6, <1>7, <1>8, <1>9, <1>10, <1>11, <1>12
     DEF MessageType, Tag

\* The effect half of a sound message is a fresh effect that says nothing yet.
LEMMA CommandsType ==
  ASSUME Types, NEW m \in MessageType, Sound(m), NEW e \in Commands(model, m)
  PROVE  /\ e \in EffectType /\ e.pc = "start" /\ e.says = <<>>
         /\ \/ /\ m.tag = "run-harvest" /\ m.run \in Run /\ m.name \in Kind
               /\ e.kind = EffectOf(m.name) /\ e.run = m.run
            \/ m.tag = "send-outbox" /\ e.kind = "send-email" /\ e.id = m.id
            \/ m.tag = "finish-task" /\ e.kind = "archive-task"
         /\ Commands(model, m) = {e}
<1>1. model \in ModelType /\ FirstDomain \in Domains
  BY HarvestAssumption DEF Types
<1>2. CASE m.tag = "run-harvest"
  <2> DEFINE d == IF m.name = "reply" THEN model.domain ELSE FirstDomain
             l == m.name = "reply" /\ model.requests[m.run] > 0
  <2>1. m.run \in Run /\ m.name \in Kind /\ m.run \in 0..MaxTurns
    BY <1>2, Bounds DEF Sound
  <2>2. d \in Domains /\ l \in BOOLEAN
    BY <1>1 DEF ModelType
  <2>3. Commands(model, m) = {Effect(EffectOf(m.name), m.run, 0, d, l)}
    BY <1>2 DEF Commands
  <2> HIDE DEF d, l
  <2>4. EffectOf(m.name) \in EffectKind
    BY <2>1, KindOfEffect
  <2>5. Effect(EffectOf(m.name), m.run, 0, d, l) \in EffectType
    BY <2>1, <2>2, <2>4, FreshEffect
  <2>6. e = Effect(EffectOf(m.name), m.run, 0, d, l)
    BY <2>3
  <2>7. /\ e.pc = "start" /\ e.says = <<>>
        /\ e.kind = EffectOf(m.name) /\ e.run = m.run
    BY <2>6 DEF Effect
  <2>8. QED
    BY <1>2, <2>1, <2>3, <2>5, <2>6, <2>7
<1>3. CASE m.tag = "send-outbox"
  <2>1. Commands(model, m) = {Effect("send-email", 0, m.id, FirstDomain, FALSE)}
    BY <1>3 DEF Commands
  <2>2. "send-email" \in EffectKind /\ 0 \in 0..MaxTurns /\ m.id \in Nat
    BY Bounds DEF EffectKind, MessageType
  <2>3. Effect("send-email", 0, m.id, FirstDomain, FALSE) \in EffectType
    BY <1>1, <2>2, FreshEffect
  <2>4. e = Effect("send-email", 0, m.id, FirstDomain, FALSE)
    BY <2>1
  <2>5. e.pc = "start" /\ e.says = <<>> /\ e.kind = "send-email" /\ e.id = m.id
    BY <2>4 DEF Effect
  <2>6. QED
    BY <1>3, <2>1, <2>3, <2>4, <2>5
<1>4. CASE m.tag = "finish-task"
  <2>1. Commands(model, m) = {Effect("archive-task", 0, 0, FirstDomain, FALSE)}
    BY <1>4 DEF Commands
  <2>2. "archive-task" \in EffectKind /\ 0 \in 0..MaxTurns
    BY Bounds DEF EffectKind
  <2>3. Effect("archive-task", 0, 0, FirstDomain, FALSE) \in EffectType
    BY <1>1, <2>2, FreshEffect
  <2>4. e = Effect("archive-task", 0, 0, FirstDomain, FALSE)
    BY <2>1
  <2>5. e.pc = "start" /\ e.says = <<>> /\ e.kind = "archive-task"
    BY <2>4 DEF Effect
  <2>6. QED
    BY <1>4, <2>1, <2>3, <2>4, <2>5
<1>5. QED
  BY <1>2, <1>3, <1>4 DEF Commands

\* The sources a model declares, and what they send first.
LEMMA DesiredType == ASSUME NEW s \in ModelType PROVE Desired(s) \subseteq SourceType
<1>1. ASSUME NEW j \in s.jobs PROVE SourceJob(j) \in SourceType
  <2>1. j \in JobType
    BY DEF ModelType
  <2>2. QED
    BY <2>1 DEF JobType, SourceJob, SourceType, JobSource
<1>2. ASSUME NEW e \in s.outbox PROVE SourceMail(e) \in SourceType
  <2>1. e \in EntryType
    BY DEF ModelType
  <2>2. QED
    BY <2>1 DEF EntryType, SourceMail, SourceType
<1>3. QED
  BY <1>1, <1>2 DEF Desired

\* A source is not the absence of one.
LEMMA SourceIsSome == ASSUME NEW i \in SourceType PROVE i # NoSource
<1>1. i.of = "harvest" \/ i.of = "send-email"
  BY DEF SourceType, JobSource
<1>2. NoSource.of = "none"
  BY DEF NoSource
<1>3. QED
  BY <1>1, <1>2

\* What a source prompts for: its own harvest step, or its own mail.
LEMMA PromptOf ==
  ASSUME NEW i \in SourceType
  PROVE  /\ Prompt(i) \in MessageType /\ For(Prompt(i)) = i
         /\ \/ \E r \in Run, k \in Kind :
                 /\ i = SourceJob(Job(r, k))
                 /\ Prompt(i) = Message("run-harvest", r, k, 0)
            \/ \E k \in Nat : i = MailSource(k) /\ Prompt(i) = Message("send-outbox", 0, "", k)
<1>1. CASE i \in JobSource
  <2>1. PICK r \in Run, k \in Kind : i = SourceJob(Job(r, k))
    BY <1>1 DEF JobSource, SourceJob, Job
  <2>2. Prompt(i) = Message("run-harvest", r, k, 0)
    BY <2>1 DEF Prompt, Message, SourceJob, Job
  <2>3. r \in 0..MaxTurns
    BY Bounds
  <2>4. Message("run-harvest", r, k, 0) \in MessageType
    BY <2>3 DEF MessageType, Tag, Message
  <2>5. For(Message("run-harvest", r, k, 0)) = SourceJob(Job(r, k))
    BY DEF For, Message
  <2>6. QED
    BY <2>1, <2>2, <2>4, <2>5
<1>2. CASE i \notin JobSource
  <2>1. PICK k \in Nat : i = MailSource(k)
    BY <1>2 DEF SourceType, MailSource
  <2>2. Prompt(i) = Message("send-outbox", 0, "", k)
    BY <2>1 DEF Prompt, Message, MailSource
  <2>3. Message("send-outbox", 0, "", k) \in MessageType
    BY Bounds DEF MessageType, Tag, Message
  <2>4. For(Message("send-outbox", 0, "", k)) = MailSource(k)
    BY DEF For, Message
  <2>5. QED
    BY <2>1, <2>2, <2>3, <2>4
<1>3. QED
  BY <1>1, <1>2

\* The rows of the outbox are numbered from 1, each with its message id.
LEMMA RowTypes ==
  ASSUME Types
  PROVE  /\ DOMAIN store.rows = 1..Len(store.rows) /\ Len(store.rows) \in Nat
         /\ \A k \in DOMAIN store.rows :
              /\ k \in Nat /\ k \in 1..Len(store.rows)
              /\ store.rows[k] \in RowType /\ store.rows[k].mid \in MessageID
              /\ store.rows[k].mid[1] \in Run
<1>1. store.rows \in Seq(RowType)
  BY DEF Types, StoreType
<1>2. DOMAIN store.rows = 1..Len(store.rows) /\ Len(store.rows) \in Nat
  BY <1>1
<1>3. ASSUME NEW k \in DOMAIN store.rows
      PROVE  store.rows[k] \in RowType /\ k \in Nat /\ k \in 1..Len(store.rows)
  BY <1>1, <1>2
<1>4. ASSUME NEW k \in DOMAIN store.rows
      PROVE  store.rows[k].mid \in MessageID /\ store.rows[k].mid[1] \in Run
  <2>1. store.rows[k].mid \in MessageID
    BY <1>3 DEF RowType
  <2>2. QED
    BY <2>1 DEF MessageID
<1>5. QED
  BY <1>2, <1>3, <1>4

\* Rows are added and marked sent, mails handed over, never taken back; so what
\* is sound or fine stays so.
Grows ==
  /\ \A k \in DOMAIN store.rows :
       /\ k \in DOMAIN store'.rows /\ store'.rows[k].mid = store.rows[k].mid
       /\ store.rows[k].sent => store'.rows[k].sent
  /\ \A i \in MessageID : handed[i] > 0 => handed'[i] > 0

\* A sound message stays sound while the world only grows.
LEMMA SoundStable ==
  ASSUME Types, NEW m \in MessageType, Sound(m), Grows
  PROVE  Sound(m)'
<1>1. \A k \in DOMAIN store.rows : store.rows[k].mid \in MessageID
  BY RowTypes
<1>2. CASE m.tag = "mark-reply-queued"
  BY <1>2 DEF Sound, Grows
<1>3. CASE m.tag = "mark-email-sent"
  BY <1>1, <1>3 DEF Sound, Grows
<1>4. CASE m.tag = "send-outbox"
  BY <1>4 DEF Sound, Grows
<1>5. CASE m.tag \notin {"mark-reply-queued", "mark-email-sent", "send-outbox"}
  BY <1>5 DEF Sound
<1>6. QED
  BY <1>2, <1>3, <1>4, <1>5

\* A fine effect stays fine while the world only grows.
LEMMA FineStable ==
  ASSUME Types, NEW e \in EffectType, Fine(e), Grows
  PROVE  Fine(e)'
<1>1. \A k \in DOMAIN store.rows : store.rows[k].mid \in MessageID
  BY RowTypes
<1>2. ASSUME e.pc = "emit" PROVE Says(e, e.says)'
  <2>1. Says(e, e.says)
    BY <1>2 DEF Fine
  <2>2. e.says \in Seq(MessageType)
    BY DEF EffectType
  <2>3. ASSUME NEW i \in 1..Len(e.says) PROVE Sound(e.says[i])'
    <3>1. e.says[i] \in MessageType
      BY <2>2
    <3>2. Sound(e.says[i])
      BY <2>1 DEF Says
    <3>3. QED
      BY <3>1, <3>2, SoundStable
  <2>4. QED
    BY <2>1, <2>3 DEF Says
<1>3. e.kind = "send-email" =>
        /\ e.id \in DOMAIN store'.rows
        /\ e.pc # "start" => handed'[store'.rows[e.id].mid] > 0
        /\ e.pc = "emit" => store'.rows[e.id].sent
  BY <1>1 DEF Fine, Grows
<1>4. QED
  BY <1>2, <1>3 DEF Fine

\* What the messages the effects report are.
LEMMA ReportsHarvested ==
  ASSUME NEW r \in Run, NEW k \in Kind
  PROVE  /\ MarkHarvested(r, k) \in MessageType /\ Sound(MarkHarvested(r, k))
         /\ For(MarkHarvested(r, k)) = SourceJob(Job(r, k))
         /\ MarkHarvested(r, k).tag # "send-outbox"
<1>1. r \in 0..MaxTurns
  BY Bounds
<1>2. QED
  BY <1>1 DEF MarkHarvested, Message, MessageType, Tag, Sound, For

\* Remembering or forgetting a note is a sound message of no source.
LEMMA ReportsNote ==
  ASSUME NEW n \in Note, NEW t \in {"remember", "forget"}
  PROVE  /\ Message(t, 0, n, 0) \in MessageType /\ Sound(Message(t, 0, n, 0))
         /\ For(Message(t, 0, n, 0)) = NoSource /\ Message(t, 0, n, 0).tag # "send-outbox"
<1>1. Message(t, 0, n, 0) \in MessageType
  BY Bounds DEF Message, MessageType, Tag
<1>2. /\ Sound(Message(t, 0, n, 0)) /\ For(Message(t, 0, n, 0)) = NoSource
      /\ Message(t, 0, n, 0).tag # "send-outbox"
  BY DEF Message, Sound, For
<1>3. QED
  BY <1>1, <1>2

\* Registering a skill is a sound message of no source.
LEMMA ReportsSkill ==
  ASSUME NEW r \in Run
  PROVE  /\ Message("register-skill", r, "", 0) \in MessageType
         /\ Sound(Message("register-skill", r, "", 0))
         /\ For(Message("register-skill", r, "", 0)) = NoSource
         /\ Message("register-skill", r, "", 0).tag # "send-outbox"
<1>1. r \in 0..MaxTurns
  BY Bounds
<1>2. QED
  BY <1>1 DEF Message, MessageType, Tag, Sound, For

\* Registering a request is a sound message of the run's request step.
LEMMA ReportsRequest ==
  ASSUME NEW r \in Run
  PROVE  /\ Message("register-ui-request", r, "", 0) \in MessageType
         /\ Sound(Message("register-ui-request", r, "", 0))
         /\ For(Message("register-ui-request", r, "", 0)) = SourceJob(Job(r, "request"))
         /\ Message("register-ui-request", r, "", 0).tag # "send-outbox"
<1>1. r \in 0..MaxTurns
  BY Bounds
<1>2. QED
  BY <1>1 DEF Message, MessageType, Tag, Sound, For

\* Marking a reply queued is sound once its row is in the outbox.
LEMMA ReportsQueued ==
  ASSUME NEW r \in Run, NEW k \in Nat
  PROVE  /\ Message("mark-reply-queued", r, "", k) \in MessageType
         /\ For(Message("mark-reply-queued", r, "", k)) = NoSource
         /\ Message("mark-reply-queued", r, "", k).tag # "send-outbox"
         /\ k \in DOMAIN store.rows /\ store.rows[k].mid[1] = r =>
              Sound(Message("mark-reply-queued", r, "", k))
<1>1. r \in 0..MaxTurns
  BY Bounds
<1>2. QED
  BY <1>1 DEF Message, MessageType, Tag, Sound, For

\* Marking a mail sent is sound once its row is sent and the server has it.
LEMMA ReportsSent ==
  ASSUME NEW k \in Nat
  PROVE  /\ Message("mark-email-sent", 0, "", k) \in MessageType
         /\ For(Message("mark-email-sent", 0, "", k)) = MailSource(k)
         /\ Message("mark-email-sent", 0, "", k).tag # "send-outbox"
         /\ /\ k \in DOMAIN store.rows /\ store.rows[k].sent
            /\ handed[store.rows[k].mid] > 0
            => Sound(Message("mark-email-sent", 0, "", k))
BY Bounds DEF Message, MessageType, Tag, Sound, For

-----------------------------------------------------------------------------
\* A step of an effect: it ends, or goes on for the same source.
Moves(e) ==
  \/ effects' = effects \ {e}
  \/ \E f \in EffectType : /\ effects' = (effects \ {e}) \cup {f}
                           /\ Of(f) = Of(e) /\ f.pc # "start" /\ Fine(f)'

\* What an effect that has done its work may report.
LEMMA Reporting ==
  ASSUME Types, Grows, NEW e \in EffectType, Fine(e), e.kind # "archive-task",
         e.kind = "send-email" => e.pc = "submitted" /\ store'.rows[e.id].sent,
         NEW says \in Seq(MessageType), says # <<>>,
         For(says[Len(says)]) = Of(e),
         \A i \in 1..Len(says) : /\ Sound(says[i])' /\ says[i].tag # "send-outbox"
                                 /\ i # Len(says) => For(says[i]) = NoSource,
         Reports(e, says)
  PROVE  Moves(e)
<1> DEFINE f == [e EXCEPT !.pc = "emit", !.says = says]
<1>1. f \in EffectType
  BY DEF EffectType
<1>2. /\ f.kind = e.kind /\ f.run = e.run /\ f.id = e.id
      /\ f.pc = "emit" /\ f.says = says
  BY DEF EffectType
<1> HIDE DEF f
<1>3. Of(f) = Of(e) /\ KindOf(f) = KindOf(e)
  BY <1>2 DEF Of, KindOf
<1>4. Says(f, f.says)'
  BY <1>2, <1>3 DEF Says
<1>5. Fine(e)'
  BY FineStable
<1>6. Fine(f)'
  BY <1>2, <1>4, <1>5 DEF Fine
<1>7. effects' = (effects \ {e}) \cup {f}
  BY DEF Reports, Becomes, f
<1>8. QED
  BY <1>1, <1>2, <1>3, <1>6, <1>7 DEF Moves

\* An effect that reports one message.
LEMMA ReportingOne ==
  ASSUME Types, Grows, NEW e \in EffectType, Fine(e), e.kind # "archive-task",
         e.kind = "send-email" => e.pc = "submitted" /\ store'.rows[e.id].sent,
         NEW m \in MessageType, For(m) = Of(e), Sound(m)', m.tag # "send-outbox",
         Reports(e, <<m>>)
  PROVE  Moves(e)
<1>1. <<m>> \in Seq(MessageType) /\ Len(<<m>>) = 1 /\ <<m>>[1] = m /\ <<m>> # <<>>
  OBVIOUS
<1> DEFINE s == <<m>>
<1>2. s \in Seq(MessageType) /\ Len(s) = 1 /\ s[1] = m /\ s # <<>> /\ Reports(e, s)
  BY <1>1
<1> HIDE DEF s
<1>3. /\ For(s[Len(s)]) = Of(e)
      /\ \A i \in 1..Len(s) : /\ Sound(s[i])' /\ s[i].tag # "send-outbox"
                              /\ i # Len(s) => For(s[i]) = NoSource
  BY <1>2
<1>4. QED
  BY <1>2, <1>3, Reporting

\* An effect that reports two, the second of which settles its source.
LEMMA ReportingTwo ==
  ASSUME Types, Grows, NEW e \in EffectType, Fine(e),
         e.kind \notin {"archive-task", "send-email"},
         NEW l \in MessageType, For(l) = NoSource, Sound(l)', l.tag # "send-outbox",
         NEW m \in MessageType, For(m) = Of(e), Sound(m)', m.tag # "send-outbox",
         Reports(e, <<l, m>>)
  PROVE  Moves(e)
<1>1. /\ <<l, m>> \in Seq(MessageType) /\ Len(<<l, m>>) = 2
      /\ <<l, m>>[1] = l /\ <<l, m>>[2] = m /\ <<l, m>> # <<>>
  OBVIOUS
<1> DEFINE s == <<l, m>>
<1>2. /\ s \in Seq(MessageType) /\ Len(s) = 2
      /\ s[1] = l /\ s[2] = m /\ s # <<>> /\ Reports(e, s)
  BY <1>1
<1> HIDE DEF s
<1>3. \A i \in 1..Len(s) : (i = 1 \/ i = 2) /\ (i # Len(s) => i = 1)
  BY <1>2
<1>4. /\ For(s[Len(s)]) = Of(e)
      /\ \A i \in 1..Len(s) : /\ Sound(s[i])' /\ s[i].tag # "send-outbox"
                              /\ i # Len(s) => For(s[i]) = NoSource
  BY <1>2, <1>3
<1>5. QED
  BY <1>2, <1>4, Reporting

\* An effect that starts or goes on, with nothing reported.
LEMMA GoingOn ==
  ASSUME Types, Grows, NEW e \in EffectType, NEW f \in EffectType,
         f.kind = e.kind, f.run = e.run, f.id = e.id, f.pc # "start",
         Becomes(e, f), Fine(f)'
  PROVE  Moves(e)
BY DEF Moves, Becomes, Of, KindOf

\* The effects that only read the disk change neither rows nor what was handed
\* over.
LEMMA SameRowsGrow ==
  ASSUME store'.rows = store.rows, handed' = handed
  PROVE  Grows
BY DEF Grows

\* A row added at the end of the outbox leaves the others as they are.
LEMMA AddingRowGrows ==
  ASSUME Types, NEW row \in RowType, store'.rows = Append(store.rows, row), handed' = handed
  PROVE  /\ Grows /\ DOMAIN store'.rows = 1..(Len(store.rows) + 1)
         /\ store'.rows[Len(store.rows) + 1] = row
         /\ \A k \in DOMAIN store.rows : k \in DOMAIN store'.rows /\ store'.rows[k] = store.rows[k]
<1> DEFINE rows == store.rows
           n == Len(rows)
<1>1. rows \in Seq(RowType)
  BY DEF Types, StoreType
<1>2. n \in Nat /\ DOMAIN rows = 1..n
  BY <1>1
<1>3. /\ Append(rows, row) \in Seq(RowType) /\ Len(Append(rows, row)) = n + 1
      /\ \A k \in 1..n : Append(rows, row)[k] = rows[k]
      /\ Append(rows, row)[n + 1] = row
  BY <1>1, AppendProperties
<1>4. DOMAIN Append(rows, row) = 1..(n + 1)
  BY <1>3
<1>5. \A k \in 1..n : k \in 1..(n + 1)
  BY <1>2
<1>6. store'.rows = Append(rows, row)
  OBVIOUS
<1> HIDE DEF rows, n
<1>7. \A k \in DOMAIN rows : k \in DOMAIN store'.rows /\ store'.rows[k] = rows[k]
  BY <1>2, <1>3, <1>4, <1>5, <1>6
<1>8. DOMAIN store'.rows = 1..(n + 1) /\ store'.rows[n + 1] = row
  BY <1>3, <1>4, <1>6
<1>9. Grows
  BY <1>7 DEF Grows, rows
<1>10. QED
  BY <1>7, <1>8, <1>9 DEF rows, n

\* The row assemble-reply takes is one with its Message-ID or a new one.
LEMMA RowForProperties ==
  ASSUME Types, NEW mid \in MessageID
  PROVE  /\ RowFor(mid) \in 1..(Len(store.rows) + 1)
         /\ \/ RowFor(mid) \in DOMAIN store.rows /\ store.rows[RowFor(mid)].mid = mid
            \/ /\ RowFor(mid) = Len(store.rows) + 1 /\ RowFor(mid) \notin DOMAIN store.rows
               /\ \A k \in DOMAIN store.rows : store.rows[k].mid # mid
<1>1. DOMAIN store.rows = 1..Len(store.rows) /\ Len(store.rows) \in Nat
  BY RowTypes
<1>2. CASE \E i \in DOMAIN store.rows : store.rows[i].mid = mid
  <2>1. RowFor(mid) = CHOOSE i \in DOMAIN store.rows : store.rows[i].mid = mid
    BY <1>2 DEF RowFor
  <2>2. RowFor(mid) \in DOMAIN store.rows /\ store.rows[RowFor(mid)].mid = mid
    BY <1>2, <2>1
  <2>3. QED
    BY <1>1, <2>2
<1>3. CASE ~ \E i \in DOMAIN store.rows : store.rows[i].mid = mid
  <2>1. RowFor(mid) = Len(store.rows) + 1
    BY <1>3 DEF RowFor
  <2>2. QED
    BY <1>1, <1>3, <2>1
<1>4. QED
  BY <1>2, <1>3

\* Storing the transcript moves its own effect only, and forgets nothing.
LEMMA CaptureTranscriptStep ==
  ASSUME Types, NEW e \in effects, Fine(e), CaptureTranscript(e)
  PROVE  Moves(e) /\ Grows /\ store' \in StoreType
<1>1. e \in EffectType /\ store \in StoreType
  BY DEF Types
<1>2. e.kind = "capture-transcript" /\ e.run \in Run /\ handed' = handed
  BY DEF CaptureTranscript, At, Fine
<1>3. store'.rows = store.rows /\ store' \in StoreType
  BY <1>1, <1>2 DEF CaptureTranscript, StoreType
<1>4. Grows
  BY <1>2, <1>3, SameRowsGrow
<1>5. CASE e.run \in ws.papers
  <2> DEFINE m == MarkHarvested(e.run, "transcript")
  <2>1. "transcript" \in Kind
    BY DEF Kind
  <2>2. m \in MessageType /\ Sound(m) /\ For(m) = SourceJob(Job(e.run, "transcript")) /\ m.tag # "send-outbox"
    BY <1>2, <2>1, ReportsHarvested
  <2>3. Of(e) = SourceJob(Job(e.run, "transcript"))
    BY <1>2 DEF Of, KindOf
  <2>4. Reports(e, <<m>>)
    BY <1>5 DEF CaptureTranscript
  <2> HIDE DEF m
  <2>5. Sound(m)'
    BY <1>4, <2>2, SoundStable
  <2>6. Moves(e)
    BY <1>1, <1>2, <1>4, <2>2, <2>3, <2>4, <2>5, ReportingOne
  <2>7. QED
    BY <1>3, <1>4, <2>6
<1>6. CASE e.run \notin ws.papers
  BY <1>3, <1>4, <1>6 DEF CaptureTranscript, Ends, Moves
<1>7. QED
  BY <1>5, <1>6

\* Reading the workspace's files moves its own effect only.
LEMMA ReadFilesStep ==
  ASSUME Types, NEW e \in effects, Fine(e), ReadFiles(e)
  PROVE  Moves(e) /\ Grows
<1>1. e \in EffectType /\ ws \in WorkspaceType
  BY DEF Types
<1>2. Grows
  BY SameRowsGrow DEF ReadFiles
<1>3. [e EXCEPT !.pc = "read", !.out = ws.out, !.kept = ws.in] \in EffectType
  BY <1>1 DEF EffectType, WorkspaceType
<1>4. PICK f \in EffectType :
        f = [e EXCEPT !.pc = "read", !.out = ws.out, !.kept = ws.in]
  BY <1>3
<1>5. /\ f.kind = e.kind /\ f.run = e.run /\ f.id = e.id
      /\ f.pc = "read"
  BY <1>1, <1>4 DEF EffectType
<1>6. Becomes(e, f)
  BY <1>4 DEF ReadFiles
<1>7. e.kind \in {"store-skill", "capture-memory", "mint-ui-request", "assemble-reply"}
  BY DEF ReadFiles
<1>8. Fine(f)'
  BY <1>5, <1>7 DEF Fine
<1>9. QED
  BY <1>1, <1>2, <1>5, <1>6, <1>8, GoingOn

\* Storing a skill moves its own effect only, and forgets nothing.
LEMMA StoreSkillStep ==
  ASSUME Types, NEW e \in effects, Fine(e), StoreSkill(e)
  PROVE  Moves(e) /\ Grows /\ store' \in StoreType
<1>1. e \in EffectType /\ store \in StoreType
  BY DEF Types
<1>2. e.kind = "store-skill" /\ e.run \in Run /\ handed' = handed
  BY DEF StoreSkill, At, Fine
<1>3. Of(e) = SourceJob(Job(e.run, "skill"))
  BY <1>2 DEF Of, KindOf
<1> DEFINE m == MarkHarvested(e.run, "skill")
<1>4. "skill" \in Kind
  BY DEF Kind
<1>5. m \in MessageType /\ Sound(m) /\ For(m) = SourceJob(Job(e.run, "skill")) /\ m.tag # "send-outbox"
  BY <1>2, <1>4, ReportsHarvested
<1>6. CASE "skill" \in Manifest(e.out)
  <2> DEFINE l == Message("register-skill", e.out["skill"], "", 0)
  <2>1. e.out["skill"] \in 0..MaxTurns /\ e.out["skill"] # 0
    BY <1>1, <1>6 DEF EffectType, Box, Manifest, File
  <2>2. e.out["skill"] \in Run
    BY <2>1, Bounds DEF Run
  <2>3. l \in MessageType /\ Sound(l) /\ For(l) = NoSource /\ l.tag # "send-outbox"
    BY <2>2, ReportsSkill
  <2>4. Reports(e, <<l, m>>)
    BY <1>6 DEF StoreSkill
  <2>5. store' = [store EXCEPT !.skills = @ \cup {e.out["skill"]}]
    BY <1>6 DEF StoreSkill
  <2>6. store'.rows = store.rows /\ store' \in StoreType
    BY <1>1, <2>2, <2>5 DEF StoreType
  <2>7. Grows
    BY <1>2, <2>6, SameRowsGrow
  <2> HIDE DEF l, m
  <2>8. Sound(m)' /\ Sound(l)'
    BY <1>5, <2>3, <2>7, SoundStable
  <2>9. Moves(e)
    BY <1>1, <1>2, <1>3, <1>5, <2>3, <2>4, <2>7, <2>8, ReportingTwo
  <2>10. QED
    BY <2>6, <2>7, <2>9
<1>7. CASE "skill" \notin Manifest(e.out)
  <2>1. Reports(e, <<m>>) /\ store' = store
    BY <1>7 DEF StoreSkill
  <2>2. Grows
    BY <1>2, <2>1, SameRowsGrow
  <2> HIDE DEF m
  <2>3. Sound(m)'
    BY <1>5, <2>2, SoundStable
  <2>4. Moves(e)
    BY <1>1, <1>2, <1>3, <1>5, <2>1, <2>2, <2>3, ReportingOne
  <2>5. QED
    BY <1>1, <2>1, <2>2, <2>4
<1>8. QED
  BY <1>6, <1>7

\* Minting a request moves its own effect only.
LEMMA MintUIRequestStep ==
  ASSUME Types, NEW e \in effects, Fine(e), MintUIRequest(e)
  PROVE  Moves(e) /\ Grows
<1>1. e \in EffectType
  BY DEF Types
<1>2. e.kind = "mint-ui-request" /\ e.run \in Run
  BY DEF MintUIRequest, At, Fine
<1>3. Of(e) = SourceJob(Job(e.run, "request"))
  BY <1>2 DEF Of, KindOf
<1>4. Grows
  BY SameRowsGrow DEF MintUIRequest
<1>5. CASE "request" \in Manifest(e.out)
  <2> DEFINE m == Message("register-ui-request", e.run, "", 0)
  <2>1. m \in MessageType /\ Sound(m) /\ For(m) = SourceJob(Job(e.run, "request")) /\ m.tag # "send-outbox"
    BY <1>2, ReportsRequest
  <2>2. Reports(e, <<m>>)
    BY <1>5 DEF MintUIRequest
  <2> HIDE DEF m
  <2>3. Sound(m)'
    BY <1>4, <2>1, SoundStable
  <2>4. QED
    BY <1>1, <1>2, <1>3, <1>4, <2>1, <2>2, <2>3, ReportingOne
<1>6. CASE "request" \notin Manifest(e.out)
  BY <1>4, <1>6 DEF MintUIRequest, Ends, Moves
<1>7. QED
  BY <1>5, <1>6

\* A message that settles no source and is no prompt.
Neutral(m) == For(m) = NoSource /\ m.tag # "send-outbox"

\* An effect that reports several notes before it settles its source.
LEMMA ReportingNotes ==
  ASSUME Types, Grows, NEW e \in EffectType, Fine(e),
         e.kind \notin {"archive-task", "send-email"},
         NEW a \in Seq(MessageType), NEW b \in Seq(MessageType),
         \A i \in 1..Len(a) : Sound(a[i])' /\ Neutral(a[i]),
         \A i \in 1..Len(b) : Sound(b[i])' /\ Neutral(b[i]),
         NEW m \in MessageType, For(m) = Of(e), Sound(m)', m.tag # "send-outbox",
         Reports(e, a \o b \o <<m>>)
  PROVE  Moves(e)
<1>1. PICK one \in Seq(MessageType) : one = <<m>> /\ Len(one) = 1 /\ one[1] = m
  <2>1. <<m>> \in Seq(MessageType) /\ Len(<<m>>) = 1 /\ <<m>>[1] = m
    OBVIOUS
  <2>2. QED
    BY <2>1
<1>2. PICK c \in Seq(MessageType) : c = a \o b
  <2>1. a \o b \in Seq(MessageType)
    BY ConcatProperties
  <2>2. QED
    BY <2>1
<1>3. /\ Len(a) \in Nat /\ Len(b) \in Nat /\ Len(c) = Len(a) + Len(b)
      /\ \A i \in 1..(Len(a) + Len(b)) :
           c[i] = IF i <= Len(a) THEN a[i] ELSE b[i - Len(a)]
  BY <1>2, ConcatProperties
<1>4. ASSUME NEW i \in 1..Len(c) PROVE Sound(c[i])' /\ Neutral(c[i])
  <2>1. i \in Nat /\ 1 <= i /\ i <= Len(a) + Len(b)
    BY <1>3
  <2>2. CASE i <= Len(a)
    <3>1. i \in 1..Len(a) /\ c[i] = a[i]
      BY <1>3, <2>1, <2>2
    <3>2. QED
      BY <3>1
  <2>3. CASE ~(i <= Len(a))
    <3>1. i - Len(a) \in 1..Len(b) /\ c[i] = b[i - Len(a)]
      BY <1>3, <2>1, <2>3
    <3>2. QED
      BY <3>1
  <2>4. QED
    BY <2>2, <2>3
<1>5. PICK s \in Seq(MessageType) : s = c \o one
  <2>1. c \o one \in Seq(MessageType)
    BY ConcatProperties
  <2>2. QED
    BY <2>1
<1>6. /\ Len(c) \in Nat /\ Len(s) = Len(c) + 1
      /\ \A i \in 1..(Len(c) + 1) : s[i] = IF i <= Len(c) THEN c[i] ELSE one[i - Len(c)]
  BY <1>1, <1>5, ConcatProperties
<1>7. s[Len(s)] = m /\ s # <<>>
  <2>1. Len(c) + 1 \in 1..(Len(c) + 1) /\ ~(Len(c) + 1 <= Len(c)) /\ (Len(c) + 1) - Len(c) = 1
    BY <1>6
  <2>2. QED
    BY <1>1, <1>6, <2>1
<1>8. ASSUME NEW i \in 1..Len(s)
      PROVE  /\ Sound(s[i])' /\ s[i].tag # "send-outbox"
             /\ i # Len(s) => For(s[i]) = NoSource
  <2>1. CASE i = Len(s)
    BY <1>7, <2>1
  <2>2. CASE i # Len(s)
    <3>1. i \in 1..Len(c) /\ i <= Len(c) /\ i \in 1..(Len(c) + 1)
      BY <1>6, <2>2
    <3>2. s[i] = c[i]
      BY <1>6, <3>1
    <3>3. QED
      BY <1>4, <3>1, <3>2 DEF Neutral
  <2>3. QED
    BY <2>1, <2>2
<1>9. Reports(e, s)
  BY <1>1, <1>2, <1>5
<1>10. For(s[Len(s)]) = Of(e)
  BY <1>7
<1>11. QED
  BY <1>7, <1>8, <1>9, <1>10, Reporting

\* Reading the notes moves its own effect only.
LEMMA CaptureMemoryStep ==
  ASSUME Types, NEW e \in effects, Fine(e), CaptureMemory(e)
  PROVE  Moves(e) /\ Grows
<1> DEFINE m == MarkHarvested(e.run, "memory")
           written == IF "note" \in Manifest(e.out) THEN {Lesson} ELSE {}
           lost == SetToSeq(ws.manifest \ (e.kept \cup written))
           A == [i \in 1..Cardinality(written) |-> Message("remember", 0, Lesson, 0)]
           B == [i \in DOMAIN lost |-> Message("forget", 0, lost[i], 0)]
<1>1. e \in EffectType /\ ws \in WorkspaceType
  BY DEF Types
<1>2. e.kind = "capture-memory" /\ e.run \in Run /\ handed' = handed
  BY DEF CaptureMemory, At, Fine
<1>3. Of(e) = SourceJob(Job(e.run, "memory"))
  BY <1>2 DEF Of, KindOf
<1>4. "memory" \in Kind
  BY DEF Kind
<1>5. m \in MessageType /\ Sound(m) /\ For(m) = SourceJob(Job(e.run, "memory")) /\ m.tag # "send-outbox"
  BY <1>2, <1>4, ReportsHarvested
<1>6. Grows
  BY SameRowsGrow DEF CaptureMemory
<1>7. Reports(e, A \o B \o <<m>>)
  BY DEF CaptureMemory
<1>8. lost \in Seq(Note)
  <2>1. ws.manifest \subseteq Note
    BY <1>1 DEF WorkspaceType
  <2>2. IsFiniteSet(Notes \cup {Lesson})
    BY HarvestAssumption, FS_AddElement
  <2>3. IsFiniteSet(ws.manifest \ (e.kept \cup written))
    BY <2>1, <2>2, FS_Subset DEF Note
  <2>4. lost \in Seq(ws.manifest \ (e.kept \cup written))
    BY <2>3, SetToSeqProperties
  <2>5. QED
    BY <2>1, <2>4
<1>9. Cardinality(written) \in Nat
  BY FS_EmptySet, FS_Singleton
<1>10. Lesson \in Note
  BY DEF Note
<1> HIDE DEF written, lost, m
<1>11. PICK a \in Seq(MessageType) : a = A
  <2>1. Message("remember", 0, Lesson, 0) \in MessageType
    BY <1>10, ReportsNote
  <2>2. A \in Seq(MessageType)
    BY <1>9, <2>1
  <2>3. QED
    BY <2>2
<1>12. ASSUME NEW i \in 1..Len(a) PROVE Sound(a[i])' /\ Neutral(a[i])
  <2>1. DOMAIN a = 1..Len(a)
    OBVIOUS
  <2>2. a[i] = Message("remember", 0, Lesson, 0)
    BY <1>11, <2>1
  <2>3. a[i] \in MessageType /\ Sound(a[i]) /\ Neutral(a[i])
    BY <1>10, <2>2, ReportsNote DEF Neutral
  <2>4. QED
    BY <1>6, <2>3, SoundStable
<1>13. ASSUME NEW i \in DOMAIN lost
       PROVE  /\ Message("forget", 0, lost[i], 0) \in MessageType
              /\ Sound(Message("forget", 0, lost[i], 0))
              /\ Neutral(Message("forget", 0, lost[i], 0))
  <2>1. lost[i] \in Note
    BY <1>8
  <2>2. QED
    BY <2>1, ReportsNote DEF Neutral
<1>14. PICK b \in Seq(MessageType) : b = B
  <2>1. DOMAIN lost = 1..Len(lost) /\ Len(lost) \in Nat
    BY <1>8
  <2>2. B \in Seq(MessageType)
    BY <1>13, <2>1
  <2>3. QED
    BY <2>2
<1>15. ASSUME NEW i \in 1..Len(b) PROVE Sound(b[i])' /\ Neutral(b[i])
  <2>1. DOMAIN b = 1..Len(b) /\ DOMAIN b = DOMAIN lost
    BY <1>14
  <2>2. b[i] = Message("forget", 0, lost[i], 0)
    BY <1>14, <2>1
  <2>3. b[i] \in MessageType /\ Sound(b[i]) /\ Neutral(b[i])
    BY <1>13, <2>1, <2>2
  <2>4. QED
    BY <1>6, <2>3, SoundStable
<1>16. Sound(m)' /\ For(m) = Of(e)
  BY <1>3, <1>5, <1>6, SoundStable DEF m
<1>17. Reports(e, a \o b \o <<m>>)
  BY <1>7, <1>11, <1>14
<1>18. QED
  BY <1>1, <1>2, <1>5, <1>6, <1>12, <1>15, <1>16, <1>17, ReportingNotes

\* Assembling the reply moves its own effect only, and adds at most one row.
LEMMA AssembleReplyStep ==
  ASSUME Types, NEW e \in effects, Fine(e), AssembleReply(e)
  PROVE  Moves(e) /\ Grows /\ store' \in StoreType
<1> DEFINE row == [mid |-> ReplyMessageID(e.run, e.domain), by |-> e.out["reply"],
                   link |-> e.link, sent |-> FALSE]
<1>1. e \in EffectType /\ store \in StoreType
  BY DEF Types
<1>2. e.kind = "assemble-reply" /\ e.run \in Run /\ e.domain \in Domains /\ handed' = handed
  BY <1>1 DEF AssembleReply, At, Fine, EffectType
<1>3. Of(e) = SourceJob(Job(e.run, "reply"))
  BY <1>2 DEF Of, KindOf
<1>4. /\ ReplyMessageID(e.run, e.domain) \in MessageID
      /\ ReplyMessageID(e.run, e.domain)[1] = e.run
  BY <1>2 DEF ReplyMessageID, MessageID
<1>5. PICK id \in 1..(Len(store.rows) + 1) : id = RowFor(ReplyMessageID(e.run, e.domain))
  BY <1>4, RowForProperties
<1>6. id \in Nat /\ Len(store.rows) \in Nat /\ DOMAIN store.rows = 1..Len(store.rows)
  BY RowTypes
<1>7. e.out["reply"] \in 0..MaxTurns /\ e.link \in BOOLEAN
  BY <1>1 DEF EffectType, Box, File
<1>8. row \in RowType /\ row.mid[1] = e.run
  BY <1>4, <1>7 DEF RowType
<1> DEFINE l == Message("mark-reply-queued", e.run, "", id)
           m == MarkHarvested(e.run, "reply")
<1>9. /\ store' = IF id \in DOMAIN store.rows THEN store
                  ELSE [store EXCEPT !.rows = Append(@, row)]
      /\ Reports(e, <<l, m>>)
  BY <1>5 DEF AssembleReply
<1> HIDE DEF row
<1>10. /\ Grows /\ store' \in StoreType
       /\ id \in DOMAIN store'.rows /\ store'.rows[id].mid[1] = e.run
  <2>1. CASE id \in DOMAIN store.rows
    <3>1. store' = store
      BY <1>9, <2>1
    <3>2. store.rows[id].mid = ReplyMessageID(e.run, e.domain)
      BY <1>4, <1>5, <2>1, RowForProperties
    <3>3. QED
      BY <1>1, <1>2, <1>4, <2>1, <3>1, <3>2, SameRowsGrow
  <2>2. CASE id \notin DOMAIN store.rows
    <3>1. store' = [store EXCEPT !.rows = Append(@, row)]
      BY <1>9, <2>2
    <3>2. Append(store.rows, row) \in Seq(RowType)
      BY <1>1, <1>8 DEF StoreType
    <3>3. store'.rows = Append(store.rows, row) /\ store' \in StoreType
      BY <1>1, <3>1, <3>2 DEF StoreType
    <3>4. /\ Grows /\ DOMAIN store'.rows = 1..(Len(store.rows) + 1)
          /\ store'.rows[Len(store.rows) + 1] = row
      BY <1>2, <1>8, <3>3, AddingRowGrows
    <3>5. id = Len(store.rows) + 1
      BY <1>6, <2>2
    <3>6. QED
      BY <1>8, <3>3, <3>4, <3>5
  <2>3. QED
    BY <2>1, <2>2
<1>11. l \in MessageType /\ For(l) = NoSource /\ l.tag # "send-outbox"
  BY <1>2, <1>6, ReportsQueued
<1>12. Sound(l)'
  BY <1>2, <1>10 DEF Sound, Message
<1>13. "reply" \in Kind
  BY DEF Kind
<1>14. m \in MessageType /\ Sound(m) /\ For(m) = Of(e) /\ m.tag # "send-outbox"
  BY <1>2, <1>3, <1>13, ReportsHarvested
<1> HIDE DEF l, m
<1>15. Sound(m)'
  BY <1>10, <1>14, SoundStable
<1>16. Moves(e)
  BY <1>1, <1>2, <1>9, <1>10, <1>11, <1>12, <1>14, <1>15, ReportingTwo
<1>17. QED
  BY <1>10, <1>16

\* Submitting a mail hands over the row it is about, once more.
LEMMA SubmitStep ==
  ASSUME Types, NEW e \in effects, Fine(e), Submit(e)
  PROVE  /\ Moves(e) /\ Grows /\ handed' \in [MessageID -> Nat]
         /\ e.kind = "send-email" /\ e.id \in DOMAIN store.rows /\ e.pc = "start"
         /\ handed'[store.rows[e.id].mid] = handed[store.rows[e.id].mid] + 1
         /\ \A i \in MessageID : i # store.rows[e.id].mid => handed'[i] = handed[i]
<1> DEFINE mid == store.rows[e.id].mid
           f == [e EXCEPT !.pc = "submitted"]
<1>1. e \in EffectType /\ handed \in [MessageID -> Nat]
  BY DEF Types
<1>2. e.kind = "send-email" /\ e.id \in DOMAIN store.rows /\ e.pc = "start"
  BY DEF Submit, At, Fine
<1>3. mid \in MessageID
  BY <1>2, RowTypes
<1>4. handed' = [handed EXCEPT ![mid] = @ + 1] /\ store' = store /\ Becomes(e, f)
  BY DEF Submit
<1>5. /\ f \in EffectType
      /\ f.kind = e.kind /\ f.run = e.run /\ f.id = e.id /\ f.pc = "submitted"
  BY <1>1 DEF EffectType
<1> HIDE DEF mid, f
<1>6. /\ handed' \in [MessageID -> Nat] /\ handed'[mid] = handed[mid] + 1
      /\ \A i \in MessageID : i # mid => handed'[i] = handed[i]
      /\ handed[mid] \in Nat
  BY <1>1, <1>3, <1>4
<1>7. \A i \in MessageID : handed[i] > 0 => handed'[i] > 0
  BY <1>6
<1>8. Grows
  BY <1>4, <1>7 DEF Grows
<1>9. handed'[mid] > 0
  BY <1>6
<1>10. Fine(f)'
  BY <1>2, <1>4, <1>5, <1>9 DEF Fine, mid
<1>11. Moves(e)
  BY <1>1, <1>4, <1>5, <1>8, <1>10, GoingOn
<1>12. QED
  BY <1>2, <1>6, <1>8, <1>11 DEF mid

\* Marking a row sent happens after it was handed over.
LEMMA MarkOutboxSentStep ==
  ASSUME Types, NEW e \in effects, Fine(e), MarkOutboxSent(e)
  PROVE  /\ Moves(e) /\ Grows /\ store' \in StoreType
         /\ e.id \in DOMAIN store.rows /\ handed[store.rows[e.id].mid] > 0
         /\ store'.rows = [store.rows EXCEPT ![e.id].sent = TRUE]
<1> DEFINE row == [store.rows[e.id] EXCEPT !.sent = TRUE]
           m == Message("mark-email-sent", 0, "", e.id)
<1>1. e \in EffectType /\ store \in StoreType
  BY DEF Types
<1>2. /\ e.kind = "send-email" /\ e.id \in DOMAIN store.rows /\ e.pc = "submitted"
      /\ handed[store.rows[e.id].mid] > 0 /\ handed' = handed /\ e.id \in Nat
  BY <1>1 DEF MarkOutboxSent, At, Fine, EffectType
<1>3. store.rows \in Seq(RowType) /\ store.rows[e.id] \in RowType
  BY <1>1, <1>2, RowTypes DEF StoreType
<1>4. row \in RowType /\ row.sent /\ row.mid = store.rows[e.id].mid
  BY <1>3 DEF RowType
<1>5. store' = [store EXCEPT !.rows = [store.rows EXCEPT ![e.id] = row]]
  BY <1>1, <1>2 DEF MarkOutboxSent, StoreType
<1> HIDE DEF row
<1>6. [store.rows EXCEPT ![e.id] = row] \in Seq(RowType)
  BY <1>2, <1>3, <1>4
<1>7. store'.rows = [store.rows EXCEPT ![e.id] = row] /\ store' \in StoreType
  BY <1>1, <1>5, <1>6 DEF StoreType
<1>8. /\ DOMAIN store'.rows = DOMAIN store.rows
      /\ store'.rows[e.id] = row
      /\ \A k \in DOMAIN store.rows : k # e.id => store'.rows[k] = store.rows[k]
  BY <1>2, <1>3, <1>7
<1>9. Grows
  BY <1>2, <1>4, <1>8 DEF Grows
<1>10. m \in MessageType /\ For(m) = MailSource(e.id) /\ m.tag # "send-outbox"
  BY <1>2, ReportsSent
<1>11. Of(e) = MailSource(e.id)
  BY <1>2 DEF Of
<1>12. /\ e.id \in DOMAIN store'.rows /\ store'.rows[e.id].sent
       /\ handed'[store'.rows[e.id].mid] > 0
  BY <1>2, <1>4, <1>8
<1>13. Sound(m)'
  BY <1>12 DEF Sound, Message
<1>14. Reports(e, <<m>>)
  BY DEF MarkOutboxSent
<1> HIDE DEF m
<1>15. Moves(e)
  BY <1>1, <1>2, <1>9, <1>10, <1>11, <1>12, <1>13, <1>14, ReportingOne
<1>16. store'.rows = [store.rows EXCEPT ![e.id].sent = TRUE]
  BY <1>7 DEF row
<1>17. QED
  BY <1>2, <1>7, <1>9, <1>15, <1>16

\* Archiving the files moves its own effect only, and forgets nothing.
LEMMA ArchiveFilesStep ==
  ASSUME Types, NEW e \in effects, Fine(e), ArchiveFiles(e)
  PROVE  Moves(e) /\ Grows /\ store' \in StoreType
<1>1. e \in EffectType /\ store \in StoreType /\ ws \in WorkspaceType
  BY DEF Types
<1>2. e.kind = "archive-task" /\ handed' = handed
  BY DEF ArchiveFiles, At
<1>3. PICK a \in Box : store' = [store EXCEPT !.artifacts = a]
  <2>1. store.artifacts \in Box /\ ws.out \in Box
    BY <1>1 DEF StoreType, WorkspaceType
  <2>2. [f \in File |-> IF store.artifacts[f] = 0 THEN ws.out[f] ELSE store.artifacts[f]]
          \in Box
    BY <2>1 DEF Box
  <2>3. QED
    BY <2>2 DEF ArchiveFiles
<1>4. store' \in StoreType /\ store'.rows = store.rows
  BY <1>1, <1>3 DEF StoreType
<1>5. Grows
  BY <1>2, <1>4, SameRowsGrow
<1>6. [e EXCEPT !.pc = "delete", !.out = ws.out, !.kept = ws.in, !.papers = ws.papers]
        \in EffectType
  BY <1>1 DEF EffectType, WorkspaceType
<1>7. PICK f \in EffectType :
        f = [e EXCEPT !.pc = "delete", !.out = ws.out, !.kept = ws.in,
                      !.papers = ws.papers]
  BY <1>6
<1>8. f.kind = e.kind /\ f.run = e.run /\ f.id = e.id /\ f.pc = "delete"
  BY <1>1, <1>7 DEF EffectType
<1>9. Becomes(e, f)
  BY <1>7 DEF ArchiveFiles
<1>10. Fine(f)'
  BY <1>2, <1>8 DEF Fine
<1>11. Moves(e)
  BY <1>1, <1>5, <1>8, <1>9, <1>10, GoingOn
<1>12. QED
  BY <1>4, <1>5, <1>11

\* Checking the live files moves its own effect only.
LEMMA CheckCoveredStep ==
  ASSUME Types, NEW e \in effects, Fine(e), CheckCovered(e)
  PROVE  Moves(e) /\ Grows
<1>1. e \in EffectType /\ ws \in WorkspaceType
  BY DEF Types
<1>2. e.kind = "archive-task" /\ handed' = handed /\ store' = store
  BY DEF CheckCovered, At
<1>3. Grows
  BY SameRowsGrow DEF CheckCovered
<1>4. [e EXCEPT !.pc = "remove", !.out = ws.out, !.kept = ws.in, !.papers = ws.papers]
        \in EffectType
  BY <1>1 DEF EffectType, WorkspaceType
<1>5. PICK f \in EffectType :
        f = [e EXCEPT !.pc = "remove", !.out = ws.out, !.kept = ws.in,
                      !.papers = ws.papers]
  BY <1>4
<1>6. f.kind = e.kind /\ f.run = e.run /\ f.id = e.id /\ f.pc = "remove"
  BY <1>1, <1>5 DEF EffectType
<1>7. Ends(e) \/ Becomes(e, f)
  BY <1>5 DEF CheckCovered
<1>8. Fine(f)'
  BY <1>2, <1>6 DEF Fine
<1>9. CASE Ends(e)
  BY <1>3, <1>9 DEF Ends, Moves
<1>10. CASE Becomes(e, f)
  BY <1>1, <1>3, <1>6, <1>8, <1>10, GoingOn
<1>11. QED
  BY <1>3, <1>7, <1>9, <1>10

\* Removing a workspace moves its own effect only.
LEMMA RemoveWorkspaceStep ==
  ASSUME Types, NEW e \in effects, Fine(e), RemoveWorkspace(e)
  PROVE  Moves(e) /\ Grows /\ ws' \in WorkspaceType
<1> DEFINE f == [e EXCEPT !.pc = "manifest"]
           gone == [ws EXCEPT !.live = FALSE, !.out = NoFiles, !.in = {}, !.papers = {}]
<1>1. e \in EffectType /\ ws \in WorkspaceType
  BY DEF Types
<1>2. e.kind = "archive-task"
  BY DEF RemoveWorkspace, At
<1>3. Grows
  BY SameRowsGrow DEF RemoveWorkspace
<1>4. Becomes(e, f) /\ ws' = gone
  BY DEF RemoveWorkspace
<1>5. NoFiles \in Box
  BY Bounds DEF NoFiles, Box
<1>6. gone \in WorkspaceType
  BY <1>1, <1>5 DEF WorkspaceType
<1>7. /\ f \in EffectType
      /\ f.kind = e.kind /\ f.run = e.run /\ f.id = e.id /\ f.pc = "manifest"
  BY <1>1 DEF EffectType
<1> HIDE DEF f, gone
<1>8. Fine(f)'
  BY <1>2, <1>7 DEF Fine
<1>9. Moves(e)
  BY <1>1, <1>3, <1>4, <1>7, <1>8, GoingOn
<1>10. QED
  BY <1>3, <1>4, <1>6, <1>9

\* Deleting a manifest moves its own effect only.
LEMMA DeleteManifestStep ==
  ASSUME Types, NEW e \in effects, DeleteManifest(e)
  PROVE  Moves(e) /\ Grows /\ ws' \in WorkspaceType
<1>1. ws \in WorkspaceType
  BY DEF Types
<1>2. ws' \in WorkspaceType
  BY <1>1 DEF DeleteManifest, WorkspaceType
<1>3. Grows
  BY SameRowsGrow DEF DeleteManifest
<1>4. QED
  BY <1>2, <1>3 DEF DeleteManifest, Ends, Moves

\* Every step of an effect but its reports: the effect ends or goes on for the
\* same source, the stores grow, the rest of kasi stays as it was.
EffectWorks(e) ==
  \/ CaptureTranscript(e) \/ ReadFiles(e) \/ CaptureMemory(e) \/ StoreSkill(e)
  \/ MintUIRequest(e) \/ AssembleReply(e) \/ Submit(e) \/ MarkOutboxSent(e)
  \/ ArchiveFiles(e) \/ CheckCovered(e) \/ RemoveWorkspace(e) \/ DeleteManifest(e)

\* Any step of an effect moves that effect only, and forgets nothing it may not.
LEMMA EffectWorksStep ==
  ASSUME Types, NEW e \in effects, Fine(e), EffectWorks(e)
  PROVE  /\ Moves(e) /\ Grows /\ UNCHANGED quiet
         /\ store' \in StoreType /\ ws' \in WorkspaceType /\ handed' \in [MessageID -> Nat]
<1>1. store \in StoreType /\ ws \in WorkspaceType /\ handed \in [MessageID -> Nat]
  BY DEF Types
<1>2. CASE CaptureTranscript(e)
  <2>1. UNCHANGED <<quiet, ws, handed>>
    BY <1>2 DEF CaptureTranscript
  <2>2. QED
    BY <1>1, <1>2, <2>1, CaptureTranscriptStep
<1>3. CASE ReadFiles(e)
  <2>1. UNCHANGED <<quiet, ws, store, handed>>
    BY <1>3 DEF ReadFiles
  <2>2. QED
    BY <1>1, <1>3, <2>1, ReadFilesStep
<1>4. CASE CaptureMemory(e)
  <2>1. UNCHANGED <<quiet, ws, store, handed>>
    BY <1>4 DEF CaptureMemory
  <2>2. QED
    BY <1>1, <1>4, <2>1, CaptureMemoryStep
<1>5. CASE StoreSkill(e)
  <2>1. UNCHANGED <<quiet, ws, handed>>
    BY <1>5 DEF StoreSkill
  <2>2. QED
    BY <1>1, <1>5, <2>1, StoreSkillStep
<1>6. CASE MintUIRequest(e)
  <2>1. UNCHANGED <<quiet, ws, store, handed>>
    BY <1>6 DEF MintUIRequest
  <2>2. QED
    BY <1>1, <1>6, <2>1, MintUIRequestStep
<1>7. CASE AssembleReply(e)
  <2>1. UNCHANGED <<quiet, ws, handed>>
    BY <1>7 DEF AssembleReply
  <2>2. QED
    BY <1>1, <1>7, <2>1, AssembleReplyStep
<1>8. CASE Submit(e)
  <2>1. UNCHANGED <<quiet, ws, store>>
    BY <1>8 DEF Submit
  <2>2. QED
    BY <1>1, <1>8, <2>1, SubmitStep
<1>9. CASE MarkOutboxSent(e)
  <2>1. UNCHANGED <<quiet, ws, handed>>
    BY <1>9 DEF MarkOutboxSent
  <2>2. QED
    BY <1>1, <1>9, <2>1, MarkOutboxSentStep
<1>10. CASE ArchiveFiles(e)
  <2>1. UNCHANGED <<quiet, ws, handed>>
    BY <1>10 DEF ArchiveFiles
  <2>2. QED
    BY <1>1, <1>10, <2>1, ArchiveFilesStep
<1>11. CASE RemoveWorkspace(e)
  <2>1. UNCHANGED <<quiet, store, handed>>
    BY <1>11 DEF RemoveWorkspace
  <2>2. QED
    BY <1>1, <1>11, <2>1, RemoveWorkspaceStep
<1>12. CASE DeleteManifest(e)
  <2>1. UNCHANGED <<quiet, store, handed>>
    BY <1>12 DEF DeleteManifest
  <2>2. QED
    BY <1>1, <1>12, <2>1, DeleteManifestStep
<1>13. CASE CheckCovered(e)
  <2>1. UNCHANGED <<quiet, ws, store, handed>>
    BY <1>13 DEF CheckCovered
  <2>2. QED
    BY <1>1, <1>13, <2>1, CheckCoveredStep
<1>14. QED
  BY <1>2, <1>3, <1>4, <1>5, <1>6, <1>7, <1>8, <1>9, <1>10, <1>11, <1>12, <1>13 DEF EffectWorks

\* An effect that reports queues the first message it has to say, and ends or goes on.
LEMMA EmitStep ==
  ASSUME Types, NEW e \in effects, Fine(e), Emit(e)
  PROVE  /\ Head(e.says) \in MessageType /\ Sound(Head(e.says))
         /\ Head(e.says).tag # "send-outbox"
         /\ inbox' = Append(inbox, Head(e.says))
         /\ \/ effects' = effects \ {e} /\ For(Head(e.says)) = Of(e)
            \/ /\ Moves(e)
               /\ For(Head(e.says)) = NoSource
         /\ Grows /\ UNCHANGED <<model, started, unsent, outside, budget>>
<1> DEFINE s == e.says
           f == [e EXCEPT !.says = Tail(s)]
<1>1. e \in EffectType /\ e.pc = "emit"
  BY DEF Emit, Types
<1>2. s \in Seq(MessageType)
  BY <1>1 DEF EffectType
<1>3. Says(e, s)
  BY <1>1 DEF Fine
<1>4. /\ inbox' = Append(inbox, Head(s))
      /\ IF Len(s) = 1 THEN Ends(e) ELSE Becomes(e, f)
      /\ UNCHANGED <<model, started, unsent, outside, budget>>
  BY DEF Emit
<1>5. Grows
  BY <1>4, SameRowsGrow DEF outside
<1>6. /\ f \in EffectType
      /\ f.kind = e.kind /\ f.run = e.run /\ f.id = e.id /\ f.pc = e.pc /\ f.says = Tail(s)
  <2>1. Tail(s) \in Seq(MessageType)
    BY <1>2, <1>3, HeadTailProperties DEF Says
  <2>2. QED
    BY <1>1, <2>1 DEF EffectType
<1> HIDE DEF s, f
<1>7. /\ s # <<>> /\ For(s[Len(s)]) = Of(e)
      /\ \A i \in 1..Len(s) : /\ Sound(s[i]) /\ s[i].tag # "send-outbox"
                              /\ i # Len(s) => For(s[i]) = NoSource
  BY <1>3 DEF Says
<1>8. Len(s) \in Nat /\ Len(s) > 0 /\ 1 \in 1..Len(s) /\ Head(s) = s[1] /\ s[1] \in MessageType
  BY <1>2, <1>7
<1>9. Head(s) \in MessageType /\ Sound(Head(s)) /\ Head(s).tag # "send-outbox"
  BY <1>7, <1>8
<1>10. CASE Len(s) = 1
  <2>1. effects' = effects \ {e} /\ For(Head(s)) = Of(e)
    BY <1>4, <1>7, <1>8, <1>10 DEF Ends
  <2>2. QED
    BY <1>4, <1>5, <1>9, <2>1 DEF s
<1>11. CASE Len(s) # 1
  <2>1. For(Head(s)) = NoSource
    BY <1>7, <1>8, <1>11
  <2>2. PICK t \in Seq(MessageType) : t = Tail(s)
    <3>1. Tail(s) \in Seq(MessageType)
      BY <1>2, <1>7, HeadTailProperties
    <3>2. QED
      BY <3>1
  <2>3. /\ Len(t) = Len(s) - 1
        /\ \A i \in 1..Len(t) : t[i] = s[i + 1]
    BY <1>2, <1>7, <2>2, HeadTailProperties
  <2>4. t # <<>> /\ t[Len(t)] = s[Len(s)]
    <3>1. Len(t) \in 1..Len(t) /\ Len(t) + 1 = Len(s) /\ Len(t) # 0
      BY <1>8, <1>11, <2>3
    <3>2. QED
      BY <2>3, <3>1
  <2>5. Of(f) = Of(e)
    BY <1>6 DEF Of, KindOf
  <2>6. ASSUME NEW i \in 1..Len(t)
        PROVE  /\ Sound(t[i])' /\ t[i].tag # "send-outbox"
               /\ i # Len(t) => For(t[i]) = NoSource
    <3>1. i + 1 \in 1..Len(s) /\ (i # Len(t) => i + 1 # Len(s)) /\ t[i] = s[i + 1]
      BY <1>8, <2>3
    <3>2. /\ Sound(t[i]) /\ t[i].tag # "send-outbox" /\ t[i] \in MessageType
          /\ i # Len(t) => For(t[i]) = NoSource
      BY <1>7, <2>2, <3>1
    <3>3. QED
      BY <1>5, <3>2, SoundStable
  <2>7. Says(f, f.says)'
    <3>1. f.says = t /\ For(t[Len(t)]) = Of(f)
      BY <1>6, <1>7, <2>2, <2>4, <2>5
    <3>2. QED
      BY <2>4, <2>6, <3>1 DEF Says
  <2>8. Fine(e)'
    BY <1>1, <1>5, FineStable
  <2>9. Fine(f)'
    BY <1>6, <2>7, <2>8 DEF Fine
  <2>10. Moves(e)
    BY <1>1, <1>4, <1>6, <1>11, <2>5, <2>9 DEF Becomes, Moves
  <2>11. QED
    BY <1>4, <1>5, <1>9, <2>1, <2>10 DEF s
<1>12. QED
  BY <1>10, <1>11

-----------------------------------------------------------------------------
\* Effects keep their type and stay fine through a step of one of them.
LEMMA MovesKeeps ==
  ASSUME Types, Working, Grows, NEW e \in effects, Moves(e)
  PROVE  effects' \subseteq EffectType /\ Working'
<1>1. effects \subseteq EffectType
  BY DEF Types
<1>2. ASSUME NEW g \in effects PROVE Fine(g)'
  BY <1>1, FineStable DEF Working
<1>3. QED
  BY <1>1, <1>2 DEF Moves, Working

\* Effects that end leave the remaining ones fine.
LEMMA EndsKeeps ==
  ASSUME Types, Working, Grows, effects' \subseteq effects
  PROVE  effects' \subseteq EffectType /\ Working'
<1>1. effects \subseteq EffectType
  BY DEF Types
<1>2. ASSUME NEW g \in effects PROVE Fine(g)'
  BY <1>1, FineStable DEF Working
<1>3. QED
  BY <1>1, <1>2 DEF Working

\* Appending to the channel adds one place, and popping moves the others up.
LEMMA AppendAdds ==
  ASSUME Types, NEW m \in MessageType, inbox' = Append(inbox, m)
  PROVE  /\ inbox' \in Seq(MessageType)
         /\ \E k \in Nat : /\ k \notin DOMAIN inbox /\ DOMAIN inbox' = DOMAIN inbox \cup {k}
                           /\ inbox'[k] = m /\ \A i \in DOMAIN inbox : inbox'[i] = inbox[i]
<1>1. inbox \in Seq(MessageType)
  BY DEF Types
<1> DEFINE n == Len(inbox)
<1>2. n \in Nat /\ DOMAIN inbox = 1..n
  BY <1>1
<1>3. /\ inbox' \in Seq(MessageType) /\ Len(inbox') = n + 1
      /\ \A i \in 1..n : inbox'[i] = inbox[i]
      /\ inbox'[n + 1] = m
  BY <1>1, AppendProperties
<1>4. DOMAIN inbox' = 1..(n + 1)
  BY <1>3
<1> HIDE DEF n
<1>5. n + 1 \in Nat /\ n + 1 \notin 1..n /\ 1..(n + 1) = 1..n \cup {n + 1}
  BY <1>2
<1>6. QED
  BY <1>2, <1>3, <1>4, <1>5

\* Taking the first message moves every other one place up.
LEMMA TailTakes ==
  ASSUME Types, inbox # <<>>, inbox' = Tail(inbox)
  PROVE  /\ inbox' \in Seq(MessageType)
         /\ 1 \in DOMAIN inbox /\ Head(inbox) = inbox[1] /\ Head(inbox) \in MessageType
         /\ \A i \in DOMAIN inbox' : /\ i \in Nat /\ i + 1 \in DOMAIN inbox /\ i + 1 # 1
                                     /\ inbox'[i] = inbox[i + 1]
<1>1. inbox \in Seq(MessageType)
  BY DEF Types
<1> DEFINE n == Len(inbox)
<1>2. n \in Nat /\ DOMAIN inbox = 1..n /\ n > 0
  BY <1>1
<1>3. /\ inbox' \in Seq(MessageType) /\ Len(inbox') = n - 1
      /\ \A i \in 1..(n - 1) : inbox'[i] = inbox[i + 1]
      /\ Head(inbox) = inbox[1]
  BY <1>1, HeadTailProperties
<1>4. DOMAIN inbox' = 1..(n - 1)
  BY <1>3
<1> HIDE DEF n
<1>5. 1 \in 1..n /\ \A i \in 1..(n - 1) : i \in Nat /\ i + 1 \in 1..n /\ i + 1 # 1
  BY <1>2
<1>6. inbox[1] \in MessageType
  BY <1>1, <1>2, <1>5
<1>7. QED
  BY <1>2, <1>3, <1>4, <1>5, <1>6

\* Messages stay sound in the channel, whatever is appended or popped.
LEMMA StaysSound ==
  ASSUME Types, Delivered, Grows, NEW i \in DOMAIN inbox, NEW j, inbox'[j] = inbox[i]
  PROVE  Sound(inbox[j])'
<1>1. inbox \in Seq(MessageType)
  BY DEF Types
<1>2. PICK l \in MessageType : l = inbox[i]
  BY <1>1
<1>3. Sound(l)'
  BY <1>2, SoundStable DEF Delivered
<1>4. inbox'[j] = l
  BY <1>2
<1>5. QED
  BY <1>3, <1>4 DEF Sound

\* A sound message added to the inbox keeps all of it sound.
LEMMA AppendDelivered ==
  ASSUME Types, Delivered, Grows, NEW m \in MessageType, Sound(m)', inbox' = Append(inbox, m)
  PROVE  Delivered'
<1>1. PICK k \in Nat : /\ k \notin DOMAIN inbox /\ DOMAIN inbox' = DOMAIN inbox \cup {k}
                       /\ inbox'[k] = m /\ \A i \in DOMAIN inbox : inbox'[i] = inbox[i]
  BY AppendAdds
<1>2. Sound(inbox[k])'
  BY <1>1 DEF Sound
<1>3. \A i \in DOMAIN inbox : Sound(inbox[i])'
  BY <1>1, StaysSound
<1>4. QED
  BY <1>1, <1>2, <1>3 DEF Delivered

\* Taking the first message keeps the rest sound.
LEMMA TailDelivered ==
  ASSUME Types, Delivered, Grows, inbox # <<>>, inbox' = Tail(inbox)
  PROVE  Delivered'
<1>1. ASSUME NEW i \in DOMAIN inbox' PROVE Sound(inbox[i])'
  BY TailTakes, StaysSound
<1>2. QED
  BY <1>1 DEF Delivered

\* An inbox left alone stays sound while the world only grows.
LEMMA SameDelivered ==
  ASSUME Types, Delivered, Grows, inbox' = inbox
  PROVE  Delivered'
<1>1. \A i \in DOMAIN inbox : Sound(inbox[i])'
  BY StaysSound
<1>2. QED
  BY <1>1 DEF Delivered

-----------------------------------------------------------------------------
\* What every step adds to the channel and takes of the effects, so far as the
\* sources go: started' and the sources declared stay, no effect is for a source
\* no effect was for.
Follows ==
  /\ started' = started /\ Desired(model') = Desired(model) /\ unsent' \subseteq unsent
  /\ \A g \in effects' : Of(g) # NoSource => \E h \in effects : Of(h) = Of(g)
  /\ \A g, h \in effects' : Of(g) # NoSource /\ Of(g) = Of(h) => g = h

\* An inbox left alone keeps the tokens single when no effect gains one.
LEMMA SameChains ==
  ASSUME Chains, Follows, inbox' = inbox
  PROVE  Chains'
<1>1. started' = Desired(model') /\ unsent' \subseteq started'
  BY DEF Chains, Follows
<1>2. \A i \in DOMAIN inbox' : For(inbox'[i]) # NoSource => For(inbox'[i]) \in started' \ unsent'
  BY DEF Chains, Follows
<1>3. \A e \in effects' : Of(e) # NoSource => Of(e) \in started' \ unsent'
  BY DEF Chains, Follows
<1>4. \A i, j \in DOMAIN inbox' :
        For(inbox'[i]) # NoSource /\ For(inbox'[i]) = For(inbox'[j]) => i = j
  BY DEF Chains
<1>5. \A i \in DOMAIN inbox', e \in effects' :
        For(inbox'[i]) # NoSource => For(inbox'[i]) # Of(e)
  BY DEF Chains, Follows
<1>6. \A e, f \in effects' : Of(e) # NoSource /\ Of(e) = Of(f) => e = f
  BY DEF Follows
<1>7. QED
  BY <1>1, <1>2, <1>3, <1>4, <1>5, <1>6 DEF Chains

\* A message may carry a source's token when nothing else does.
LEMMA AppendChains ==
  ASSUME Types, Chains, Follows, NEW m \in MessageType, inbox' = Append(inbox, m),
         For(m) # NoSource =>
           /\ For(m) \in started /\ For(m) \notin unsent'
           /\ \A i \in DOMAIN inbox : For(inbox[i]) # For(m)
           /\ \A e \in effects' : Of(e) # For(m)
  PROVE  Chains'
<1>0. PICK k \in Nat : /\ k \notin DOMAIN inbox /\ DOMAIN inbox' = DOMAIN inbox \cup {k}
                       /\ inbox'[k] = m /\ \A i \in DOMAIN inbox : inbox'[i] = inbox[i]
  BY AppendAdds
<1>1. started' = Desired(model') /\ unsent' \subseteq started'
  BY DEF Chains, Follows
<1>2. \A i \in DOMAIN inbox' : For(inbox'[i]) # NoSource => For(inbox'[i]) \in started' \ unsent'
  BY <1>0 DEF Chains, Follows
<1>3. \A e \in effects' : Of(e) # NoSource => Of(e) \in started' \ unsent'
  BY DEF Chains, Follows
<1>4. \A i, j \in DOMAIN inbox' :
        For(inbox'[i]) # NoSource /\ For(inbox'[i]) = For(inbox'[j]) => i = j
  BY <1>0 DEF Chains
<1>5. \A i \in DOMAIN inbox', e \in effects' :
        For(inbox'[i]) # NoSource => For(inbox'[i]) # Of(e)
  BY <1>0 DEF Chains, Follows
<1>6. \A e, f \in effects' : Of(e) # NoSource /\ Of(e) = Of(f) => e = f
  BY DEF Follows
<1>7. QED
  BY <1>1, <1>2, <1>3, <1>4, <1>5, <1>6 DEF Chains

\* An effect that moves keeps its own token and gains no other.
LEMMA MovesFollows ==
  ASSUME Chains, NEW e \in effects, Moves(e), UNCHANGED <<model, started, unsent>>
  PROVE  Follows
<1>1. CASE effects' = effects \ {e}
  BY <1>1 DEF Chains, Follows
<1>2. CASE effects' # effects \ {e}
  <2>1. PICK f : effects' = (effects \ {e}) \cup {f} /\ Of(f) = Of(e)
    BY <1>2 DEF Moves
  <2>2. \A g \in effects' : Of(g) # NoSource => \E h \in effects : Of(h) = Of(g)
    BY <2>1
  <2>3. \A g, h \in effects' : Of(g) # NoSource /\ Of(g) = Of(h) => g = h
    BY <2>1 DEF Chains
  <2>4. QED
    BY <2>2, <2>3 DEF Follows
<1>3. QED
  BY <1>1, <1>2

\* An effect that reports gives its token to its message.
LEMMA EmitChains ==
  ASSUME Inv, NEW e \in effects, Emit(e)
  PROVE  Chains'
<1>1. Types /\ Chains /\ Fine(e)
  BY DEF Inv, Working
<1>2. /\ Head(e.says) \in MessageType
      /\ inbox' = Append(inbox, Head(e.says))
      /\ \/ effects' = effects \ {e} /\ For(Head(e.says)) = Of(e)
         \/ /\ Moves(e)
            /\ For(Head(e.says)) = NoSource
      /\ UNCHANGED <<model, started, unsent>>
  BY <1>1, EmitStep
<1>3. CASE Moves(e) /\ For(Head(e.says)) = NoSource
  <2>1. Follows
    BY <1>1, <1>2, <1>3, MovesFollows
  <2>2. QED
    BY <1>1, <1>2, <1>3, <2>1, AppendChains
<1>4. CASE effects' = effects \ {e} /\ For(Head(e.says)) = Of(e)
  <2>1. Follows
    BY <1>1, <1>2, <1>4, MovesFollows DEF Moves
  <2>2. Of(e) # NoSource =>
          /\ Of(e) \in started /\ Of(e) \notin unsent'
          /\ \A i \in DOMAIN inbox : For(inbox[i]) # Of(e)
          /\ \A f \in effects' : Of(f) # Of(e)
    BY <1>1, <1>2, <1>4 DEF Chains
  <2>3. QED
    BY <1>1, <1>2, <1>4, <2>1, <2>2, AppendChains
<1>5. QED
  BY <1>2, <1>3, <1>4

\* A source that fires gives its token to its prompt.
LEMMA FireChains ==
  ASSUME Inv, NEW i \in unsent, Fire(i)
  PROVE  Chains' /\ Prompt(i) \in MessageType /\ Sound(Prompt(i))
<1>1. Types /\ Chains /\ i \in SourceType
  BY DEF Inv, Types
<1>2. /\ Prompt(i) \in MessageType /\ For(Prompt(i)) = i
      /\ \/ \E r \in Run, k \in Kind : Prompt(i) = Message("run-harvest", r, k, 0)
         \/ \E k \in Nat : i = MailSource(k) /\ Prompt(i) = Message("send-outbox", 0, "", k)
  BY <1>1, PromptOf
<1>3. Sound(Prompt(i))
  <2>1. CASE \E r \in Run, k \in Kind : Prompt(i) = Message("run-harvest", r, k, 0)
    BY <2>1 DEF Sound, Message
  <2>2. ASSUME NEW k \in Nat, i = MailSource(k), Prompt(i) = Message("send-outbox", 0, "", k)
        PROVE  Sound(Prompt(i))
    <3>1. MailSource(k) \in Desired(model)
      BY <1>1, <2>2 DEF Chains
    <3>2. PICK e \in model.outbox : MailSource(k) = SourceMail(e)
      BY <3>1 DEF Desired, SourceJob, MailSource
    <3>3. e.id = k
      BY <3>2 DEF SourceMail, MailSource
    <3>4. e.id \in DOMAIN store.rows
      BY <3>2 DEF Inv, Rows
    <3>5. k \in DOMAIN store.rows
      BY <3>3, <3>4
    <3>6. Sound(Message("send-outbox", 0, "", k))
      BY <3>5 DEF Sound, Message
    <3>7. QED
      BY <2>2, <3>6
  <2>3. QED
    BY <1>2, <2>1, <2>2
<1>4. Follows
  BY <1>1 DEF Fire, Follows, Chains
<1>5. /\ i \in started /\ i \notin unsent'
      /\ \A k \in DOMAIN inbox : For(inbox[k]) # i
      /\ \A e \in effects' : Of(e) # i
  <2>1. i # NoSource
    BY <1>1, SourceIsSome
  <2>2. unsent' = unsent \ {i} /\ effects' = effects
    BY DEF Fire
  <2>3. i \in started
    BY <1>1 DEF Chains
  <2>4. \A k \in DOMAIN inbox : For(inbox[k]) # i
    BY <1>1, <2>1 DEF Chains
  <2>5. \A e \in effects : Of(e) # i
    BY <1>1, <2>1 DEF Chains
  <2>6. QED
    BY <2>2, <2>3, <2>4, <2>5
<1>6. inbox' = Append(inbox, Prompt(i))
  BY DEF Fire
<1>7. Chains'
  BY <1>1, <1>2, <1>4, <1>5, <1>6, AppendChains
<1>8. QED
  BY <1>2, <1>3, <1>7

\* A handler drops no source but the one its message settles; a prompt's handler
\* changes nothing.
LEMMA DesiredKept ==
  ASSUME NEW s, NEW t, NEW x,
         \A j \in s.jobs : SourceJob(j) = x \/ j \in t.jobs,
         \A e \in s.outbox : ~e.sent => \/ SourceMail(e) = x
                                        \/ \E f \in t.outbox : ~f.sent /\ f.id = e.id
  PROVE  Desired(s) \ {x} \subseteq Desired(t)
<1>1. ASSUME NEW j \in s.jobs, SourceJob(j) # x PROVE SourceJob(j) \in Desired(t)
  BY <1>1 DEF Desired
<1>2. ASSUME NEW e \in s.outbox, ~e.sent, SourceMail(e) # x PROVE SourceMail(e) \in Desired(t)
  <2>1. PICK f \in t.outbox : ~f.sent /\ f.id = e.id
    BY <1>2
  <2>2. SourceMail(f) = SourceMail(e)
    BY <2>1 DEF SourceMail
  <2>3. SourceMail(f) \in Desired(t)
    BY <2>1 DEF Desired
  <2>4. QED
    BY <2>2, <2>3
<1>3. QED
  BY <1>1, <1>2 DEF Desired

\* A message takes at most its own source away from the desired ones.
LEMMA UpdateDesired ==
  ASSUME Types, NEW m \in MessageType
  PROVE  /\ Desired(model) \ {For(m)} \subseteq Desired(Update(model, m))
         /\ m.tag \in {"run-harvest", "send-outbox"} => Update(model, m) = model
<1>1. PICK t : t = Update(model, m)
  OBVIOUS
<1>2. model \in ModelType
  BY DEF Types
<1>3. CASE m.tag = "agent-run-finished"
  <2>1. t = AgentRunFinished(model, m.run, world.ended[m.run])
    BY <1>1, <1>3 DEF Update
  <2>2. model.jobs \subseteq t.jobs /\ t.outbox = model.outbox
    BY <1>2, <2>1 DEF AgentRunFinished, ModelType
  <2>3. QED
    BY <1>1, <1>3, <2>2, DesiredKept
<1>4. CASE m.tag = "mark-harvested"
  <2>1. t = [model EXCEPT !.jobs = @ \ {Job(m.run, m.name)}]
    BY <1>1, <1>4 DEF Update, MarkHarvestedHandler
  <2>2. t.jobs = model.jobs \ {Job(m.run, m.name)} /\ t.outbox = model.outbox
    BY <1>2, <2>1 DEF ModelType
  <2>3. For(m) = SourceJob(Job(m.run, m.name))
    BY <1>4 DEF For
  <2>4. QED
    BY <1>1, <1>4, <2>2, <2>3, DesiredKept
<1>5. CASE m.tag = "register-ui-request"
  <2>1. t = RegisterUIRequest(model, m.run)
    BY <1>1, <1>5 DEF Update
  <2>2. model.jobs \ {Job(m.run, "request")} \subseteq t.jobs /\ t.outbox = model.outbox
    BY <1>2, <2>1 DEF RegisterUIRequest, ModelType
  <2>3. For(m) = SourceJob(Job(m.run, "request"))
    BY <1>5 DEF For
  <2>4. QED
    BY <1>1, <1>5, <2>2, <2>3, DesiredKept
<1>6. CASE m.tag = "mark-reply-queued"
  <2>1. t = MarkReplyQueued(model, m.id, store.rows[m.id].mid)
    BY <1>1, <1>6 DEF Update
  <2>2. t.jobs = model.jobs /\ model.outbox \subseteq t.outbox
    BY <1>2, <2>1 DEF MarkReplyQueued, ModelType
  <2>3. QED
    BY <1>1, <1>6, <2>2, DesiredKept
<1>7. CASE m.tag = "mark-email-sent"
  <2>1. t = MarkEmailSent(model, m.id)
    BY <1>1, <1>7 DEF Update
  <2>2. /\ t.jobs = model.jobs
        /\ t.outbox = {IF e.id = m.id THEN [e EXCEPT !.sent = TRUE] ELSE e : e \in model.outbox}
    BY <1>2, <2>1 DEF MarkEmailSent, ModelType
  <2>3. For(m) = MailSource(m.id)
    BY <1>7 DEF For
  <2>4. ASSUME NEW e \in model.outbox
        PROVE  SourceMail(e) = For(m) \/ e \in t.outbox
    <3>1. CASE e.id = m.id
      BY <2>3, <3>1 DEF SourceMail, MailSource
    <3>2. CASE e.id # m.id
      BY <2>2, <3>2
    <3>3. QED
      BY <3>1, <3>2
  <2>5. QED
    BY <1>1, <1>7, <2>2, <2>4, DesiredKept
<1>8. CASE m.tag \in {"remember", "forget", "register-skill", "set-reply-from", "finish-task"}
  <2>1. t.jobs = model.jobs /\ t.outbox = model.outbox
    BY <1>1, <1>2, <1>8 DEF Update, ModelType
  <2>2. QED
    BY <1>1, <1>8, <2>1, DesiredKept
<1>9. CASE m.tag \in {"run-harvest", "send-outbox"}
  BY <1>9 DEF Update
<1>10. QED
  BY <1>3, <1>4, <1>5, <1>6, <1>7, <1>8, <1>9 DEF MessageType, Tag

\* The effect of a message is the message's source's, and prompts change no state.
LEMMA CommandFor ==
  ASSUME Types, NEW m \in MessageType, Sound(m), NEW e \in Commands(model, m)
  PROVE  /\ Of(e) = For(m) /\ Commands(model, m) = {e} /\ e \in EffectType
         /\ For(m) # NoSource => Update(model, m) = model
         /\ Fine(e)
<1>1. /\ e \in EffectType /\ e.pc = "start" /\ e.says = <<>>
      /\ \/ /\ m.tag = "run-harvest" /\ m.run \in Run /\ m.name \in Kind
            /\ e.kind = EffectOf(m.name) /\ e.run = m.run
         \/ m.tag = "send-outbox" /\ e.kind = "send-email" /\ e.id = m.id
         \/ m.tag = "finish-task" /\ e.kind = "archive-task"
      /\ Commands(model, m) = {e}
  BY CommandsType
<1>2. CASE m.tag = "run-harvest"
  <2>1. m.run \in Run /\ m.name \in Kind /\ e.kind = EffectOf(m.name) /\ e.run = m.run
    BY <1>1, <1>2
  <2>2. e.kind \notin {"send-email", "archive-task"} /\ KindOf(e) = m.name
    BY <2>1, KindOfEffect
  <2>3. Of(e) = For(m)
    BY <1>2, <2>1, <2>2 DEF Of, For
  <2>4. Fine(e)
    BY <1>1, <2>1, <2>2 DEF Fine
  <2>5. QED
    BY <1>1, <1>2, <2>3, <2>4, UpdateDesired
<1>3. CASE m.tag = "send-outbox"
  <2>1. e.kind = "send-email" /\ e.id = m.id
    BY <1>1, <1>3
  <2>2. Of(e) = For(m)
    BY <1>3, <2>1 DEF Of, For
  <2>3. e.id \in DOMAIN store.rows
    BY <1>3, <2>1, NamesRow
  <2>4. Fine(e)
    BY <1>1, <2>1, <2>3 DEF Fine
  <2>5. QED
    BY <1>1, <1>3, <2>2, <2>4, UpdateDesired
<1>4. CASE m.tag = "finish-task"
  <2>1. e.kind = "archive-task"
    BY <1>1, <1>4
  <2>2. Of(e) = NoSource /\ For(m) = NoSource
    BY <1>4, <2>1 DEF Of, For
  <2>3. Fine(e)
    BY <1>1, <2>1 DEF Fine
  <2>4. QED
    BY <1>1, <2>2, <2>3
<1>5. QED
  BY <1>1, <1>2, <1>3, <1>4

\* A reduce turn keeps one token per source.
LEMMA ReduceChains ==
  ASSUME Inv, Reduce
  PROVE  Chains'
<1> DEFINE m == Head(inbox)
<1>1. /\ Types /\ Chains /\ inbox # <<>> /\ inbox' = Tail(inbox)
      /\ model' = Update(model, m) /\ effects' = effects \cup Commands(model, m)
      /\ started' = Desired(model') /\ unsent' = unsent \cup (Desired(model') \ started)
  BY DEF Inv, Reduce
<1>2. /\ 1 \in DOMAIN inbox /\ m = inbox[1] /\ m \in MessageType
      /\ \A i \in DOMAIN inbox' : /\ i \in Nat /\ i + 1 \in DOMAIN inbox /\ i + 1 # 1
                                  /\ inbox'[i] = inbox[i + 1]
  BY <1>1, TailTakes
<1>3. Sound(m)
  BY <1>2 DEF Inv, Delivered
<1> HIDE DEF m
<1>4. PICK x : x = For(m)
  OBVIOUS
<1>5. /\ Desired(model) \ {x} \subseteq Desired(model')
      /\ \A c \in Commands(model, m) :
           /\ Of(c) = x /\ Commands(model, m) = {c}
           /\ x # NoSource => model' = model
  BY <1>1, <1>2, <1>3, <1>4, UpdateDesired, CommandFor
<1>6. x # NoSource => /\ x \in started \ unsent
                      /\ \A i \in DOMAIN inbox : i # 1 => For(inbox[i]) # x
                      /\ \A e \in effects : Of(e) # x
  BY <1>1, <1>2, <1>4 DEF Chains
<1>7. \A y : y \in started \ unsent /\ y # x => y \in started' \ unsent'
  BY <1>1, <1>5 DEF Chains
<1>8. \A c \in Commands(model, m) : x # NoSource => x \in started' \ unsent'
  BY <1>1, <1>5, <1>6 DEF Chains
<1>9. ASSUME NEW i \in DOMAIN inbox', For(inbox'[i]) # NoSource
      PROVE  For(inbox'[i]) # x /\ For(inbox'[i]) \in started' \ unsent'
  <2>1. i + 1 \in DOMAIN inbox /\ i + 1 # 1 /\ inbox'[i] = inbox[i + 1]
    BY <1>2
  <2>2. PICK k \in DOMAIN inbox : k # 1 /\ inbox'[i] = inbox[k]
    BY <2>1
  <2>3. For(inbox[k]) \in started \ unsent /\ For(inbox[k]) # x
    BY <1>1, <1>6, <1>9, <2>2 DEF Chains
  <2>4. QED
    BY <1>7, <2>2, <2>3
<1>10. \A e \in effects' : Of(e) # NoSource => Of(e) \in started' \ unsent'
  BY <1>1, <1>5, <1>6, <1>7, <1>8 DEF Chains
<1>11. ASSUME NEW i \in DOMAIN inbox', NEW j \in DOMAIN inbox',
              For(inbox'[i]) # NoSource, For(inbox'[i]) = For(inbox'[j])
       PROVE  i = j
  <2>1. /\ i \in Nat /\ i + 1 \in DOMAIN inbox /\ inbox'[i] = inbox[i + 1]
        /\ j \in Nat /\ j + 1 \in DOMAIN inbox /\ inbox'[j] = inbox[j + 1]
    BY <1>2
  <2>2. PICK k \in DOMAIN inbox : k = i + 1 /\ inbox'[i] = inbox[k]
    BY <2>1
  <2>3. PICK l \in DOMAIN inbox : l = j + 1 /\ inbox'[j] = inbox[l]
    BY <2>1
  <2>4. k = l
    BY <1>1, <1>11, <2>2, <2>3 DEF Chains
  <2>5. QED
    BY <2>1, <2>2, <2>3, <2>4
<1>12. ASSUME NEW i \in DOMAIN inbox', NEW e \in effects', For(inbox'[i]) # NoSource
       PROVE  For(inbox'[i]) # Of(e)
  <2>1. For(inbox'[i]) # x
    BY <1>9, <1>12
  <2>2. PICK k \in DOMAIN inbox : inbox'[i] = inbox[k]
    BY <1>2
  <2>3. CASE e \in effects
    BY <1>1, <1>12, <2>2, <2>3 DEF Chains
  <2>4. CASE e \notin effects
    BY <1>1, <1>5, <2>1, <2>4
  <2>5. QED
    BY <2>3, <2>4
<1>13. \A e, f \in effects' : Of(e) # NoSource /\ Of(e) = Of(f) => e = f
  BY <1>1, <1>5, <1>6 DEF Chains
<1>14. started' = Desired(model') /\ unsent' \subseteq started'
  <2>1. unsent \subseteq started'
    <3>1. x \notin unsent \/ x = NoSource
      BY <1>6
    <3>2. NoSource \notin unsent
      BY <1>1, SourceIsSome DEF Types
    <3>3. unsent \subseteq Desired(model)
      BY <1>1 DEF Chains
    <3>4. QED
      BY <1>1, <1>5, <3>1, <3>2, <3>3
  <2>2. QED
    BY <1>1, <2>1
<1>15. QED
  BY <1>9, <1>10, <1>11, <1>12, <1>13, <1>14 DEF Chains

-----------------------------------------------------------------------------
\* What a handler does to the outbox: an entry it adds is new, one it changes is
\* marked sent.
LEMMA OutboxUpdate ==
  ASSUME Types, Rows, NEW m \in MessageType, Sound(m)
  PROVE  /\ \A f \in Update(model, m).outbox :
              \/ f \in model.outbox
              \/ /\ m.tag = "mark-email-sent" /\ f.id = m.id /\ f.sent
                 /\ \E e \in model.outbox : f.id = e.id /\ f.mid = e.mid
              \/ /\ m.tag = "mark-reply-queued" /\ f.id = m.id /\ ~f.sent
                 /\ f.mid = store.rows[m.id].mid
                 /\ \A e \in model.outbox : e.id # f.id /\ e.mid # f.mid
         /\ \A e \in model.outbox : \E f \in Update(model, m).outbox :
              f.id = e.id /\ f.mid = e.mid /\ (e.sent => f.sent)
         /\ \A e, f \in Update(model, m).outbox : f.mid = e.mid \/ f.id = e.id => f = e
<1>1. PICK t : t = Update(model, m)
  OBVIOUS
<1>2. model \in ModelType
  BY DEF Types
<1>3. \A e, f \in model.outbox : f.mid = e.mid \/ f.id = e.id => f = e
  BY DEF Rows
<1>4. CASE m.tag = "mark-reply-queued"
  <2> DEFINE new == [id |-> m.id, mid |-> store.rows[m.id].mid, sent |-> FALSE]
  <2>1. t = MarkReplyQueued(model, m.id, store.rows[m.id].mid)
    BY <1>1, <1>4 DEF Update
  <2>2. CASE \E e \in model.outbox : e.id = m.id \/ e.mid = store.rows[m.id].mid
    <3>1. t = model
      BY <2>1, <2>2 DEF MarkReplyQueued
    <3>2. QED
      BY <1>1, <1>3, <3>1
  <2>3. CASE ~ \E e \in model.outbox : e.id = m.id \/ e.mid = store.rows[m.id].mid
    <3>1. t = [model EXCEPT !.outbox = @ \cup {new}]
      BY <2>1, <2>3 DEF MarkReplyQueued
    <3>2. t.outbox = model.outbox \cup {new}
      BY <1>2, <3>1 DEF ModelType
    <3>3. new.id = m.id /\ new.mid = store.rows[m.id].mid /\ new.sent = FALSE
      OBVIOUS
    <3> HIDE DEF new
    <3>4. \A e, f \in t.outbox : f.mid = e.mid \/ f.id = e.id => f = e
      BY <1>3, <2>3, <3>2, <3>3
    <3>5. QED
      BY <1>1, <1>4, <2>3, <3>2, <3>3, <3>4
  <2>4. QED
    BY <2>2, <2>3
<1>5. CASE m.tag = "mark-email-sent"
  <2> DEFINE Mark(e) == IF e.id = m.id THEN [e EXCEPT !.sent = TRUE] ELSE e
  <2>1. t = MarkEmailSent(model, m.id)
    BY <1>1, <1>5 DEF Update
  <2>2. t.outbox = {Mark(e) : e \in model.outbox}
    BY <1>2, <2>1 DEF MarkEmailSent, ModelType
  <2>3. ASSUME NEW e \in model.outbox
        PROVE  /\ Mark(e).id = e.id /\ Mark(e).mid = e.mid /\ (e.sent => Mark(e).sent)
               /\ Mark(e) = e \/ (e.id = m.id /\ Mark(e).sent)
    <3>1. e \in EntryType
      BY <1>2 DEF ModelType
    <3>2. CASE e.id = m.id
      <4>1. PICK f : f = [e EXCEPT !.sent = TRUE]
        OBVIOUS
      <4>2. f.id = e.id /\ f.mid = e.mid /\ f.sent
        BY <3>1, <4>1 DEF EntryType
      <4>3. Mark(e) = f
        BY <3>2, <4>1
      <4> HIDE DEF Mark
      <4>4. QED
        BY <3>2, <4>2, <4>3
    <3>3. CASE e.id # m.id
      <4>1. Mark(e) = e
        BY <3>3
      <4>2. QED
        BY <4>1
    <3>4. QED
      BY <3>2, <3>3
  <2> HIDE DEF Mark
  <2>4. \A e, f \in t.outbox : f.mid = e.mid \/ f.id = e.id => f = e
    <3>1. SUFFICES ASSUME NEW e \in t.outbox, NEW f \in t.outbox, f.mid = e.mid \/ f.id = e.id
                   PROVE  f = e
      OBVIOUS
    <3>2. PICK a \in model.outbox, b \in model.outbox : e = Mark(a) /\ f = Mark(b)
      BY <2>2
    <3>3. a = b
      BY <1>3, <2>3, <3>1, <3>2
    <3>4. QED
      BY <3>2, <3>3
  <2>5. \A f \in t.outbox :
          \/ f \in model.outbox
          \/ f.id = m.id /\ f.sent /\ \E e \in model.outbox : f.id = e.id /\ f.mid = e.mid
    BY <2>2, <2>3
  <2>6. \A e \in model.outbox : \E f \in t.outbox :
          f.id = e.id /\ f.mid = e.mid /\ (e.sent => f.sent)
    BY <2>2, <2>3
  <2>7. QED
    BY <1>1, <1>5, <2>4, <2>5, <2>6
<1>6. CASE m.tag \notin {"mark-reply-queued", "mark-email-sent"}
  <2>1. t.outbox = model.outbox
    BY <1>1, <1>2, <1>6 DEF Update, ModelType, AgentRunFinished, MarkHarvestedHandler,
                            RegisterUIRequest
  <2>2. QED
    BY <1>1, <1>3, <2>1
<1>7. QED
  BY <1>4, <1>5, <1>6

\* A reduce turn keeps what is known of the outbox's rows.
LEMMA ReduceRows ==
  ASSUME Inv, Reduce
  PROVE  Rows' /\ Handed'
<1> DEFINE m == Head(inbox)
<1>1. /\ Types /\ Rows /\ Handed /\ Chains /\ inbox # <<>> /\ inbox' = Tail(inbox)
      /\ model' = Update(model, m) /\ effects' = effects \cup Commands(model, m)
      /\ unsent' = unsent \cup (Desired(model') \ started)
      /\ store' = store /\ handed' = handed /\ crashes' = crashes
  BY DEF Inv, Reduce, outside, budget
<1>2. /\ 1 \in DOMAIN inbox /\ m = inbox[1] /\ m \in MessageType
      /\ \A i \in DOMAIN inbox' : \E j \in DOMAIN inbox : inbox'[i] = inbox[j]
  BY <1>1, TailTakes
<1>3. Sound(m)
  BY <1>2 DEF Inv, Delivered
<1> HIDE DEF m
<1>4. /\ \A f \in model'.outbox :
           \/ f \in model.outbox
           \/ /\ m.tag = "mark-email-sent" /\ f.id = m.id /\ f.sent
              /\ \E e \in model.outbox : f.id = e.id /\ f.mid = e.mid
           \/ /\ m.tag = "mark-reply-queued" /\ f.id = m.id /\ ~f.sent
              /\ f.mid = store.rows[m.id].mid
              /\ \A e \in model.outbox : e.id # f.id /\ e.mid # f.mid
      /\ \A e \in model.outbox : \E f \in model'.outbox :
           f.id = e.id /\ f.mid = e.mid /\ (e.sent => f.sent)
      /\ \A e, f \in model'.outbox : f.mid = e.mid \/ f.id = e.id => f = e
  BY <1>1, <1>2, <1>3, OutboxUpdate
<1>5. m.tag = "mark-email-sent" => store.rows[m.id].sent /\ handed[store.rows[m.id].mid] > 0
  BY <1>3 DEF Sound
<1>6. m.tag \in {"mark-email-sent", "mark-reply-queued"} => m.id \in DOMAIN store.rows
  BY <1>3 DEF Sound
<1>7. ASSUME NEW f \in model'.outbox
      PROVE  /\ f.id \in DOMAIN store.rows /\ f.mid = store.rows[f.id].mid
             /\ f.sent => store.rows[f.id].sent /\ handed[f.mid] > 0
  <2>1. CASE f \in model.outbox
    BY <1>1, <2>1 DEF Rows
  <2>2. CASE m.tag = "mark-email-sent" /\ f.id = m.id /\ \E e \in model.outbox : f.id = e.id /\ f.mid = e.mid
    BY <1>1, <1>5, <1>6, <2>2 DEF Rows
  <2>3. CASE m.tag = "mark-reply-queued" /\ f.id = m.id /\ f.mid = store.rows[m.id].mid /\ ~f.sent
    BY <1>6, <2>3
  <2>4. QED
    BY <1>4, <2>1, <2>2, <2>3
<1>8. Rows'
  BY <1>1, <1>4, <1>7 DEF Rows
<1>9. \A i \in MessageID : handed'[i] > 0 => \E e \in model'.outbox : e.mid = i
  BY <1>1, <1>4 DEF Handed
<1>10. ASSUME NEW k \in DOMAIN store.rows, MailSource(k) \in Desired(model') \ started
       PROVE  handed[store.rows[k].mid] <= crashes
  <2>1. PICK f \in model'.outbox : ~f.sent /\ MailSource(k) = SourceMail(f)
    BY <1>10 DEF Desired, SourceJob, MailSource
  <2>2. f.id = k /\ SourceMail(f) \notin Desired(model)
    BY <1>1, <1>10, <2>1 DEF SourceMail, MailSource, Chains
  <2>3. f \notin model.outbox
    BY <2>1, <2>2 DEF Desired
  <2>4. \A e \in model.outbox : e.mid # f.mid
    BY <1>4, <2>1, <2>3
  <2>5. f.mid = store.rows[k].mid /\ f.mid \in MessageID
    BY <1>1, <1>7, <2>2, RowTypes
  <2>6. ~(handed[f.mid] > 0)
    BY <1>1, <2>4, <2>5 DEF Handed
  <2>7. handed[f.mid] \in Nat /\ crashes \in Nat
    BY <1>1, <2>5 DEF Types
  <2>8. QED
    BY <2>5, <2>6, <2>7
<1>11. ASSUME NEW k \in DOMAIN store.rows, Leaving(k)' PROVE handed[store.rows[k].mid] <= crashes
  <2>1. CASE MailSource(k) \in unsent'
    BY <1>1, <1>10, <2>1 DEF Handed, Leaving
  <2>2. CASE \E i \in DOMAIN inbox' : inbox'[i].tag = "send-outbox" /\ inbox'[i].id = k
    BY <1>1, <1>2, <2>2 DEF Handed, Leaving
  <2>3. CASE \E e \in effects' : e.kind = "send-email" /\ e.id = k /\ e.pc = "start"
    <3>1. PICK e \in effects' : e.kind = "send-email" /\ e.id = k /\ e.pc = "start"
      BY <2>3
    <3>2. CASE e \in effects
      BY <1>1, <3>1, <3>2 DEF Handed, Leaving
    <3>3. CASE e \in Commands(model, m)
      <4>1. /\ \/ e.kind = EffectOf(m.name) /\ m.name \in Kind
               \/ m.tag = "send-outbox" /\ e.id = m.id
               \/ e.kind = "archive-task"
        BY <1>1, <1>2, <1>3, <3>3, CommandsType
      <4>2. m.tag = "send-outbox" /\ m.id = k
        BY <3>1, <4>1, KindOfEffect
      <4>3. Leaving(k)
        BY <1>2, <4>2 DEF Leaving
      <4>4. QED
        BY <1>1, <4>3 DEF Handed
    <3>4. QED
      BY <1>1, <3>1, <3>2, <3>3
  <2>4. QED
    BY <1>11, <2>1, <2>2, <2>3 DEF Leaving
<1>12. Handed'
  BY <1>1, <1>9, <1>11 DEF Handed
<1>13. QED
  BY <1>8, <1>12

\* Steps that leave the outbox alone and send no new mail on its way.
LEMMA RowsKept ==
  ASSUME Inv, Grows, model'.outbox = model.outbox, crashes' \in {crashes, crashes + 1},
         DOMAIN store'.rows = DOMAIN store.rows, handed' = handed,
         crashes' = crashes => \A k \in DOMAIN store.rows : Leaving(k)' => Leaving(k)
  PROVE  Rows' /\ Handed'
<1>1. Types /\ Rows /\ Handed
  BY DEF Inv
<1>2. \A k \in DOMAIN store.rows : /\ store'.rows[k].mid = store.rows[k].mid
                                   /\ store.rows[k].sent => store'.rows[k].sent
                                   /\ store.rows[k].mid \in MessageID
  BY <1>1, RowTypes DEF Grows
<1>3. Rows'
  BY <1>1, <1>2 DEF Rows
<1>4. /\ crashes \in Nat /\ handed \in [MessageID -> Nat]
      /\ \A i \in MessageID : handed[i] \in Nat
  BY <1>1 DEF Types
<1>5. ASSUME NEW i \in MessageID PROVE handed'[i] <= 1 + crashes'
  <2>1. handed[i] <= 1 + crashes /\ handed[i] \in Nat
    BY <1>1, <1>4 DEF Handed
  <2>2. QED
    BY <1>4, <2>1
<1>6. \A i \in MessageID : handed'[i] > 0 => \E e \in model'.outbox : e.mid = i
  BY <1>1 DEF Handed
<1>7. ASSUME NEW k \in DOMAIN store'.rows, Leaving(k)'
      PROVE  handed'[store'.rows[k].mid] <= crashes'
  <2>1. store'.rows[k].mid = store.rows[k].mid /\ store.rows[k].mid \in MessageID
    BY <1>2
  <2>2. CASE crashes' = crashes
    <3>1. handed[store.rows[k].mid] <= crashes
      BY <1>1, <1>7, <2>2 DEF Handed
    <3>2. QED
      BY <2>1, <2>2, <3>1
  <2>3. CASE crashes' = crashes + 1
    <3>1. handed[store.rows[k].mid] <= 1 + crashes /\ handed[store.rows[k].mid] \in Nat
      BY <1>1, <1>4, <2>1 DEF Handed
    <3>2. QED
      BY <1>4, <2>1, <2>3, <3>1
  <2>4. QED
    BY <2>2, <2>3
<1>8. Handed'
  BY <1>5, <1>6, <1>7 DEF Handed
<1>9. QED
  BY <1>3, <1>8

\* A mail that is leaving was leaving already, when no prompt joins the channel
\* but the one a source sends.
LEMMA LeavingKept ==
  ASSUME Types, unsent' \subseteq unsent,
         \/ inbox' = inbox
         \/ \E m \in MessageType : /\ inbox' = Append(inbox, m)
                                   /\ m.tag = "send-outbox" => MailSource(m.id) \in unsent,
         \A e \in effects' : e.pc = "start" => e \in effects,
         NEW k, Leaving(k)'
  PROVE  Leaving(k)
<1>1. CASE MailSource(k) \in unsent'
  BY <1>1 DEF Leaving
<1>2. CASE \E i \in DOMAIN inbox' : inbox'[i].tag = "send-outbox" /\ inbox'[i].id = k
  <2>1. CASE inbox' = inbox
    BY <1>2, <2>1 DEF Leaving
  <2>2. CASE inbox' # inbox
    <3>1. PICK m \in MessageType : /\ inbox' = Append(inbox, m)
                                   /\ m.tag = "send-outbox" => MailSource(m.id) \in unsent
      BY <2>2
    <3>2. PICK n \in Nat : /\ n \notin DOMAIN inbox /\ DOMAIN inbox' = DOMAIN inbox \cup {n}
                           /\ inbox'[n] = m /\ \A i \in DOMAIN inbox : inbox'[i] = inbox[i]
      BY <3>1, AppendAdds
    <3>3. QED
      BY <1>2, <3>1, <3>2 DEF Leaving
  <2>3. QED
    BY <2>1, <2>2
<1>3. CASE \E e \in effects' : e.kind = "send-email" /\ e.id = k /\ e.pc = "start"
  BY <1>3 DEF Leaving
<1>4. QED
  BY <1>1, <1>2, <1>3 DEF Leaving

\* An effect that moves is not at its start any more.
LEMMA MovesStarts ==
  ASSUME NEW e \in effects, Moves(e)
  PROVE  \A f \in effects' : f.pc = "start" => f \in effects
BY DEF Moves

\* Handing a mail over: the first time in the life of this process.
LEMMA SubmitRows ==
  ASSUME Inv, NEW e \in effects, Submit(e)
  PROVE  Rows' /\ Handed'
<1>1. Types /\ Rows /\ Handed /\ Chains /\ Fine(e)
  BY DEF Inv, Working
<1> DEFINE mid == store.rows[e.id].mid
<1>2. /\ Moves(e) /\ handed' \in [MessageID -> Nat]
      /\ e.kind = "send-email" /\ e.id \in DOMAIN store.rows /\ e.pc = "start"
      /\ handed'[mid] = handed[mid] + 1
      /\ \A i \in MessageID : i # mid => handed'[i] = handed[i]
  BY <1>1, SubmitStep
<1>3. /\ store' = store /\ model' = model /\ inbox' = inbox /\ unsent' = unsent
      /\ crashes' = crashes
      /\ effects' = (effects \ {e}) \cup {[e EXCEPT !.pc = "submitted"]}
  BY DEF Submit, quiet, budget, Becomes
<1>4. mid \in MessageID /\ handed[mid] \in Nat /\ crashes \in Nat
  BY <1>1, <1>2, RowTypes DEF Types
<1>5. Leaving(e.id)
  BY <1>2 DEF Leaving
<1>6. handed[mid] <= crashes
  BY <1>1, <1>2, <1>5 DEF Handed
<1>7. Of(e) = MailSource(e.id) /\ MailSource(e.id) # NoSource
  BY <1>2 DEF Of, MailSource, NoSource
<1>8. MailSource(e.id) \in Desired(model)
  BY <1>1, <1>7 DEF Chains
<1>9. PICK f \in model.outbox : f.id = e.id /\ ~f.sent
  <2>1. PICK f \in model.outbox : ~f.sent /\ MailSource(e.id) = SourceMail(f)
    BY <1>8 DEF Desired, SourceJob, MailSource
  <2>2. QED
    BY <2>1 DEF SourceMail, MailSource
<1>10. f.mid = mid
  BY <1>1, <1>9 DEF Rows
<1> HIDE DEF mid
<1>11. ASSUME NEW i \in MessageID
       PROVE  /\ handed'[i] <= 1 + crashes
              /\ handed'[i] > 0 => \E g \in model.outbox : g.mid = i
  <2>1. CASE i = mid
    BY <1>2, <1>4, <1>6, <1>9, <1>10, <2>1
  <2>2. CASE i # mid
    BY <1>1, <1>2, <2>2 DEF Handed
  <2>3. QED
    BY <2>1, <2>2
<1>12. ~Leaving(e.id)'
  <2>1. MailSource(e.id) \notin unsent
    BY <1>1, <1>7 DEF Chains
  <2>2. ASSUME NEW i \in DOMAIN inbox, inbox[i].tag = "send-outbox", inbox[i].id = e.id
        PROVE  FALSE
    <3>1. For(inbox[i]) = MailSource(e.id)
      BY <2>2 DEF For
    <3>2. QED
      BY <1>1, <1>7, <3>1 DEF Chains
  <2>3. ASSUME NEW g \in effects', g.kind = "send-email", g.id = e.id, g.pc = "start"
        PROVE  FALSE
    <3>1. g \in effects /\ Of(g) = MailSource(e.id)
      BY <1>2, <2>3, MovesStarts DEF Of
    <3>2. g = e
      BY <1>1, <1>7, <3>1 DEF Chains
    <3>3. e \in EffectType
      BY <1>1 DEF Types
    <3>4. [e EXCEPT !.pc = "submitted"].pc = "submitted"
      BY <3>3 DEF EffectType
    <3>5. QED
      BY <1>2, <1>3, <2>3, <3>2, <3>4
  <2>4. QED
    BY <1>3, <2>1, <2>2, <2>3 DEF Leaving
<1>13. ASSUME NEW k \in DOMAIN store.rows, Leaving(k)' PROVE handed'[store.rows[k].mid] <= crashes
  <2>1. k # e.id
    BY <1>12, <1>13
  <2>2. store.rows[k].mid # mid /\ store.rows[k].mid \in MessageID
    BY <1>1, <1>2, <2>1, RowTypes DEF Rows, mid
  <2>3. Leaving(k)
    BY <1>1, <1>2, <1>3, <1>13, MovesStarts, LeavingKept
  <2>4. QED
    BY <1>1, <1>2, <2>2, <2>3 DEF Handed
<1>14. Handed'
  BY <1>3, <1>11, <1>13 DEF Handed
<1>15. \A i \in MessageID : handed[i] > 0 => handed'[i] > 0
  BY <1>2, <1>4
<1>16. \A g \in model.outbox : g.mid \in MessageID
  BY <1>1, RowTypes DEF Rows
<1>17. Rows'
  BY <1>1, <1>3, <1>15, <1>16 DEF Rows
<1>18. QED
  BY <1>14, <1>17

\* Queueing a reply: its row may be new, and no other has its Message-ID.
LEMMA AssembleReplyRows ==
  ASSUME Inv, NEW e \in effects, AssembleReply(e)
  PROVE  Rows' /\ Handed'
<1>1. Types /\ Rows /\ Handed /\ Chains /\ Fine(e) /\ Working /\ Delivered
  BY DEF Inv, Working
<1>2. Moves(e) /\ Grows
  BY <1>1, AssembleReplyStep
<1>3. /\ model' = model /\ inbox' = inbox /\ unsent' = unsent /\ crashes' = crashes
      /\ handed' = handed
  BY DEF AssembleReply, quiet, budget
<1>4. ASSUME NEW k, Leaving(k)' PROVE Leaving(k)
  BY <1>1, <1>2, <1>3, <1>4, MovesStarts, LeavingKept
<1> DEFINE row == [mid |-> ReplyMessageID(e.run, e.domain), by |-> e.out["reply"],
                   link |-> e.link, sent |-> FALSE]
           id == RowFor(ReplyMessageID(e.run, e.domain))
<1>5. CASE store' = store
  BY <1>2, <1>3, <1>4, <1>5, RowsKept
<1>6. CASE store' # store
  <2>1. e.run \in Run /\ e.domain \in Domains /\ e \in EffectType
    BY <1>1 DEF AssembleReply, At, Fine, Types, EffectType
  <2>2. ReplyMessageID(e.run, e.domain) \in MessageID
    BY <2>1 DEF ReplyMessageID, MessageID
  <2>3. /\ id \notin DOMAIN store.rows
        /\ store' = [store EXCEPT !.rows = Append(store.rows, row)]
    BY <1>6 DEF AssembleReply
  <2>4. \A k \in DOMAIN store.rows : store.rows[k].mid # row.mid
    BY <1>1, <2>2, <2>3, RowForProperties
  <2>5. e.out["reply"] \in 0..MaxTurns /\ e.link \in BOOLEAN
    BY <2>1 DEF EffectType, Box, File
  <2>6. row \in RowType
    BY <2>2, <2>5 DEF RowType
  <2> HIDE DEF row, id
  <2>7. store'.rows = Append(store.rows, row)
    BY <1>1, <2>3 DEF Types, StoreType
  <2>8. PICK n \in Nat : n = Len(store.rows) + 1
    BY <1>1, RowTypes
  <2>9. /\ DOMAIN store'.rows = 1..n /\ store'.rows[n] = row
        /\ \A k \in DOMAIN store.rows : store'.rows[k] = store.rows[k]
    BY <1>1, <1>3, <2>6, <2>7, <2>8, AddingRowGrows
  <2>10. n \notin DOMAIN store.rows /\ DOMAIN store'.rows = DOMAIN store.rows \cup {n}
    BY <1>1, <2>8, <2>9, RowTypes
  <2>11. \A i, j \in DOMAIN store'.rows : store'.rows[i].mid = store'.rows[j].mid => i = j
    BY <1>1, <2>4, <2>9, <2>10 DEF Rows
  <2>12. Rows'
    BY <1>1, <1>3, <2>9, <2>10, <2>11 DEF Rows
  <2>13. ~Leaving(n)
    <3>1. ASSUME MailSource(n) \in unsent PROVE FALSE
      <4>1. MailSource(n) \in Desired(model)
        BY <1>1, <3>1 DEF Chains
      <4>2. PICK f \in model.outbox : MailSource(n) = SourceMail(f)
        BY <4>1 DEF Desired, SourceJob, MailSource
      <4>3. f.id = n
        BY <4>2 DEF SourceMail, MailSource
      <4>4. f.id \in DOMAIN store.rows
        BY <1>1 DEF Rows
      <4>5. QED
        BY <2>10, <4>3, <4>4
    <3>2. ASSUME NEW i \in DOMAIN inbox, inbox[i].tag = "send-outbox", inbox[i].id = n
          PROVE  FALSE
      <4>1. Sound(inbox[i])
        BY <1>1 DEF Delivered
      <4>2. inbox[i].id \in DOMAIN store.rows
        BY <3>2, <4>1 DEF Sound
      <4>3. QED
        BY <2>10, <3>2, <4>2
    <3>3. ASSUME NEW g \in effects, g.kind = "send-email", g.id = n
          PROVE  FALSE
      <4>1. g.id \in DOMAIN store.rows
        BY <1>1, <3>3 DEF Working, Fine
      <4>2. QED
        BY <2>10, <3>3, <4>1
    <3>4. QED
      BY <3>1, <3>2, <3>3 DEF Leaving
  <2>14. ASSUME NEW k \in DOMAIN store'.rows, Leaving(k)'
         PROVE  handed'[store'.rows[k].mid] <= crashes'
    <3>1. Leaving(k) /\ k # n
      BY <1>4, <2>13, <2>14
    <3>2. k \in DOMAIN store.rows /\ store'.rows[k] = store.rows[k]
      BY <2>9, <2>10, <3>1
    <3>3. QED
      BY <1>1, <1>3, <3>1, <3>2 DEF Handed
  <2>15. Handed'
    BY <1>1, <1>3, <2>14 DEF Handed
  <2>16. QED
    BY <2>12, <2>15
<1>7. QED
  BY <1>5, <1>6

-----------------------------------------------------------------------------
\* The invariant, action by action.
LEMMA InitInv == Init => Inv
<1> SUFFICES ASSUME Init PROVE Inv
  OBVIOUS
<1>1. NoFiles \in Box /\ [f \in File |-> 0] \in Box
  BY Bounds DEF NoFiles, Box
<1>2. NotEnded \in Outcome
  BY DEF NotEnded, Outcome
<1>3. model \in ModelType
  <2>1. <<>> \in Seq(Run) /\ FirstDomain \in Domains /\ Notes \subseteq Note
    BY HarvestAssumption DEF Note
  <2>2. QED
    BY <2>1 DEF Init, ModelType, Status
<1>4. ws \in WorkspaceType
  BY <1>1 DEF Init, WorkspaceType
<1>5. store \in StoreType /\ DOMAIN store.rows = {}
  <2>1. <<>> \in Seq(RowType) /\ DOMAIN <<>> = {}
    OBVIOUS
  <2>2. QED
    BY <1>1, <2>1 DEF Init, StoreType
<1>6. world \in WorldType
  BY <1>2, Bounds DEF Init, WorldType
<1>7. inbox \in Seq(MessageType) /\ DOMAIN inbox = {}
  BY DEF Init
<1>8. Types
  BY <1>3, <1>4, <1>5, <1>6, <1>7 DEF Init, Types
<1>9. Working /\ Delivered
  BY <1>7 DEF Init, Working, Delivered
<1>10. Desired(model) = {}
  BY DEF Init, Desired
<1>11. Chains
  BY <1>7, <1>10 DEF Init, Chains
<1>12. Rows
  BY <1>5 DEF Init, Rows
<1>13. Handed
  BY <1>5 DEF Init, Handed
<1>14. QED
  BY <1>8, <1>9, <1>11, <1>12, <1>13 DEF Inv

\* A reduce turn keeps the invariant.
LEMMA ReduceInv ==
  ASSUME Inv, Reduce
  PROVE  Inv'
<1> DEFINE m == Head(inbox)
<1>1. /\ Types /\ Working /\ Delivered /\ inbox # <<>> /\ inbox' = Tail(inbox)
      /\ model' = Update(model, m) /\ effects' = effects \cup Commands(model, m)
      /\ started' = Desired(model') /\ unsent' = unsent \cup (Desired(model') \ started)
      /\ UNCHANGED <<ws, store, handed, world, crashes, faults>>
  BY DEF Inv, Reduce, outside, budget
<1>2. Grows
  BY <1>1, SameRowsGrow
<1>3. /\ inbox' \in Seq(MessageType) /\ m \in MessageType
      /\ 1 \in DOMAIN inbox /\ m = inbox[1]
  BY <1>1, TailTakes
<1>4. Sound(m)
  BY <1>1, <1>3 DEF Delivered
<1> HIDE DEF m
<1>5. model' \in ModelType
  BY <1>1, <1>3, <1>4, UpdateType
<1>6. Desired(model') \subseteq SourceType
  BY <1>5, DesiredType
<1>7. \A c \in Commands(model, m) : c \in EffectType /\ Fine(c)'
  BY <1>1, <1>2, <1>3, <1>4, CommandFor, FineStable
<1>8. ASSUME NEW g \in effects PROVE Fine(g)'
  BY <1>1, <1>2, FineStable DEF Working, Types
<1>9. Types'
  BY <1>1, <1>3, <1>5, <1>6, <1>7 DEF Types
<1>10. Working'
  BY <1>1, <1>7, <1>8 DEF Working
<1>11. Delivered'
  BY <1>1, <1>2, TailDelivered
<1>12. QED
  BY <1>9, <1>10, <1>11, ReduceChains, ReduceRows DEF Inv

\* A source that fires keeps the invariant.
LEMMA FireInv ==
  ASSUME Inv, NEW i \in unsent, Fire(i)
  PROVE  Inv'
<1>1. /\ Types /\ Working /\ Delivered /\ inbox' = Append(inbox, Prompt(i))
      /\ unsent' = unsent \ {i} /\ i \in SourceType
      /\ UNCHANGED <<model, effects, started, ws, store, handed, world, crashes, faults>>
  BY DEF Inv, Types, Fire, outside, budget
<1>2. Grows
  BY <1>1, SameRowsGrow
<1>3. Chains' /\ Prompt(i) \in MessageType /\ Sound(Prompt(i))
  BY FireChains
<1>4. inbox' \in Seq(MessageType)
  BY <1>1, <1>3, AppendAdds
<1>5. Types'
  BY <1>1, <1>4 DEF Types
<1>6. PICK m \in MessageType : m = Prompt(i)
  BY <1>3
<1>7. Working' /\ Delivered'
  BY <1>1, <1>2, <1>3, <1>6, EndsKeeps, SoundStable, AppendDelivered
<1>8. m.tag = "send-outbox" => MailSource(m.id) \in unsent
  <2>1. For(m) = i
    BY <1>1, <1>6, PromptOf
  <2>2. m.tag = "send-outbox" => For(m) = MailSource(m.id)
    BY DEF For
  <2>3. QED
    BY <2>1, <2>2
<1>9. ASSUME NEW k, Leaving(k)' PROVE Leaving(k)
  <2>1. unsent' \subseteq unsent /\ \A e \in effects' : e.pc = "start" => e \in effects
    BY <1>1
  <2>2. inbox' = Append(inbox, m)
    BY <1>1, <1>6
  <2>3. QED
    BY <1>1, <1>8, <1>9, <2>1, <2>2, LeavingKept
<1>10. Rows' /\ Handed'
  BY <1>1, <1>2, <1>9, RowsKept
<1>11. QED
  BY <1>3, <1>5, <1>7, <1>10 DEF Inv

\* A step of an effect keeps the invariant.
LEMMA EffectWorksInv ==
  ASSUME Inv, NEW e \in effects, EffectWorks(e)
  PROVE  Inv'
<1>1. Types /\ Working /\ Delivered /\ Chains /\ Fine(e)
  BY DEF Inv, Working
<1>2. /\ Moves(e) /\ Grows
      /\ UNCHANGED <<model, inbox, started, unsent, world, crashes, faults>>
      /\ store' \in StoreType /\ ws' \in WorkspaceType /\ handed' \in [MessageID -> Nat]
  BY <1>1, EffectWorksStep DEF quiet, budget
<1>3. effects' \subseteq EffectType /\ Working'
  BY <1>1, <1>2, MovesKeeps
<1>4. Types'
  BY <1>1, <1>2, <1>3 DEF Types
<1>5. Delivered'
  BY <1>1, <1>2, SameDelivered
<1>6. Chains'
  BY <1>1, <1>2, MovesFollows, SameChains
<1>7. ASSUME NEW k, Leaving(k)' PROVE Leaving(k)
  BY <1>1, <1>2, <1>7, MovesStarts, LeavingKept
<1>8. CASE Submit(e)
  BY <1>3, <1>4, <1>5, <1>6, <1>8, SubmitRows DEF Inv
<1>9. CASE AssembleReply(e)
  BY <1>3, <1>4, <1>5, <1>6, <1>9, AssembleReplyRows DEF Inv
<1>10. CASE ~Submit(e) /\ ~AssembleReply(e)
  <2>1. handed' = handed
    BY <1>10 DEF EffectWorks, CaptureTranscript, ReadFiles, CaptureMemory, StoreSkill,
                 MintUIRequest, MarkOutboxSent, ArchiveFiles, CheckCovered, RemoveWorkspace,
                 DeleteManifest
  <2>2. DOMAIN store'.rows = DOMAIN store.rows
    <3>1. CASE MarkOutboxSent(e)
      <4>1. store'.rows = [store.rows EXCEPT ![e.id].sent = TRUE]
        BY <1>1, <3>1, MarkOutboxSentStep
      <4>2. QED
        BY <4>1
    <3>2. CASE ~MarkOutboxSent(e)
      <4>1. store \in StoreType
        BY <1>1 DEF Types
      <4>2. store'.rows = store.rows
        BY <1>10, <3>2, <4>1
           DEF EffectWorks, CaptureTranscript, ReadFiles, CaptureMemory, StoreSkill,
               MintUIRequest, ArchiveFiles, CheckCovered, RemoveWorkspace, DeleteManifest,
               StoreType
      <4>3. QED
        BY <4>2
    <3>3. QED
      BY <3>1, <3>2
  <2>3. Rows' /\ Handed'
    BY <1>2, <1>7, <2>1, <2>2, RowsKept
  <2>4. QED
    BY <1>3, <1>4, <1>5, <1>6, <2>3 DEF Inv
<1>11. QED
  BY <1>8, <1>9, <1>10

\* An effect that reports keeps the invariant.
LEMMA EmitInv ==
  ASSUME Inv, NEW e \in effects, Emit(e)
  PROVE  Inv'
<1>1. Types /\ Working /\ Delivered /\ Fine(e)
  BY DEF Inv, Working
<1>2. PICK m \in MessageType :
        /\ m = Head(e.says) /\ Sound(m) /\ m.tag # "send-outbox"
        /\ inbox' = Append(inbox, m)
        /\ effects' = effects \ {e} \/ Moves(e)
        /\ Grows /\ UNCHANGED <<model, started, unsent, ws, store, handed, world, crashes, faults>>
  BY <1>1, EmitStep DEF outside, budget
<1>3. Moves(e)
  BY <1>2 DEF Moves
<1>4. effects' \subseteq EffectType /\ Working'
  BY <1>1, <1>2, <1>3, MovesKeeps
<1>5. inbox' \in Seq(MessageType)
  BY <1>1, <1>2, AppendAdds
<1>6. Types'
  BY <1>1, <1>2, <1>4, <1>5 DEF Types
<1>7. Delivered'
  BY <1>1, <1>2, SoundStable, AppendDelivered
<1>8. ASSUME NEW k, Leaving(k)' PROVE Leaving(k)
  BY <1>1, <1>2, <1>3, <1>8, MovesStarts, LeavingKept
<1>9. Rows' /\ Handed'
  BY <1>2, <1>8, RowsKept
<1>10. QED
  BY <1>4, <1>6, <1>7, <1>9, EmitChains DEF Inv

\* An effect that fails keeps the invariant.
LEMMA EffectFailsInv ==
  ASSUME Inv, NEW e \in effects, EffectFails(e)
  PROVE  Inv'
<1>1. Types /\ Working /\ Delivered /\ Chains
  BY DEF Inv
<1>2. /\ effects' = effects \ {e} /\ faults' = faults + 1
      /\ UNCHANGED <<model, inbox, started, unsent, ws, store, handed, world, crashes>>
  BY DEF EffectFails, Ends, outside
<1>3. Grows /\ Moves(e)
  BY <1>2, SameRowsGrow DEF Moves
<1>4. effects' \subseteq EffectType /\ Working'
  BY <1>1, <1>2, <1>3, EndsKeeps
<1>5. Types'
  BY <1>1, <1>2, <1>4 DEF Types
<1>6. Delivered' /\ Chains'
  BY <1>1, <1>2, <1>3, SameDelivered, MovesFollows, SameChains
<1>7. ASSUME NEW k, Leaving(k)' PROVE Leaving(k)
  BY <1>1, <1>2, <1>3, <1>7, MovesStarts, LeavingKept
<1>8. Rows' /\ Handed'
  BY <1>2, <1>3, <1>7, RowsKept
<1>9. QED
  BY <1>4, <1>5, <1>6, <1>8 DEF Inv

\* The steps from outside: a message or none, no effect and no source.
LEMMA OutsideInv ==
  ASSUME Inv, UNCHANGED <<effects, started, unsent, store, handed, crashes, faults>>,
         ws' \in WorkspaceType, model' \in ModelType,
         world' \in WorldType, world'.running => world'.turn \in Run,
         model'.jobs = model.jobs, model'.outbox = model.outbox,
         \/ inbox' = inbox
         \/ \E m \in MessageType : /\ inbox' = Append(inbox, m) /\ Sound(m)
                                   /\ Neutral(m)
  PROVE  Inv'
<1>1. Types /\ Working /\ Delivered /\ Chains
  BY DEF Inv
<1>2. Grows
  BY SameRowsGrow
<1>3. Desired(model') = Desired(model)
  BY DEF Desired
<1>4. Follows
  BY <1>1, <1>3 DEF Follows, Chains
<1>5. Working'
  BY <1>1, <1>2, EndsKeeps
<1>6. inbox' \in Seq(MessageType) /\ Delivered' /\ Chains'
  <2>1. CASE inbox' = inbox
    BY <1>1, <1>2, <1>4, <2>1, SameDelivered, SameChains DEF Types
  <2>2. CASE inbox' # inbox
    <3>1. PICK m \in MessageType : inbox' = Append(inbox, m) /\ Sound(m) /\ For(m) = NoSource
      BY <2>2 DEF Neutral
    <3>2. Sound(m)'
      BY <1>1, <1>2, <3>1, SoundStable
    <3>3. QED
      BY <1>1, <1>2, <1>4, <3>1, <3>2, AppendAdds, AppendDelivered, AppendChains
  <2>3. QED
    BY <2>1, <2>2
<1>7. Types'
  BY <1>1, <1>6 DEF Types
<1>8. ASSUME NEW k, Leaving(k)' PROVE Leaving(k)
  <2>1. unsent' \subseteq unsent /\ \A e \in effects' : e.pc = "start" => e \in effects
    OBVIOUS
  <2>2. \/ inbox' = inbox
        \/ \E m \in MessageType : /\ inbox' = Append(inbox, m)
                                  /\ m.tag = "send-outbox" => MailSource(m.id) \in unsent
    BY DEF Neutral
  <2>3. QED
    BY <1>1, <1>8, <2>1, <2>2, LeavingKept
<1>9. Rows' /\ Handed'
  BY <1>2, <1>8, RowsKept
<1>10. QED
  BY <1>5, <1>6, <1>7, <1>9 DEF Inv

\* A run that starts keeps the invariant.
LEMMA StartTurnInv ==
  ASSUME Inv, StartTurn
  PROVE  Inv'
<1>1. /\ model \in ModelType /\ ws \in WorkspaceType /\ world \in WorldType
      /\ world.turn \in 0..MaxTurns
  BY DEF Inv, Types, WorldType
<1>2. NoFiles \in Box
  BY Bounds DEF NoFiles, Box
<1>3. PICK n \in Run : n = world.turn + 1
  <2>1. world.turn < MaxTurns
    BY DEF StartTurn
  <2>2. world.turn + 1 \in Run
    BY <1>1, <2>1, Bounds DEF Run
  <2>3. QED
    BY <2>2
<1>4. /\ world' = [world EXCEPT !.turn = n, !.running = TRUE]
      /\ model' = [model EXCEPT !.status = "awaiting-agent"]
      /\ ws' = [ws EXCEPT !.live = TRUE, !.out = NoFiles, !.in = model.notes,
                          !.manifest = model.notes]
      /\ UNCHANGED <<inbox, effects, started, unsent, store, handed, crashes, faults>>
  BY <1>1, <1>3 DEF StartTurn, budget, WorldType
<1>5. model' \in ModelType /\ model'.jobs = model.jobs /\ model'.outbox = model.outbox
  BY <1>1, <1>4 DEF ModelType, Status
<1>6. model.notes \in SUBSET Note
  BY <1>1 DEF ModelType
<1>7. ws' \in WorkspaceType
  BY <1>1, <1>2, <1>4, <1>6 DEF WorkspaceType
<1>8. n \in 0..MaxTurns
  BY Bounds
<1>9. world' \in WorldType /\ world'.turn \in Run
  BY <1>1, <1>3, <1>4, <1>8 DEF WorldType
<1>10. QED
  BY <1>4, <1>5, <1>7, <1>9, OutsideInv

\* A run that ends, with any outcome, keeps the invariant.
LEMMA EndTurnInv ==
  ASSUME Inv, NEW o \in world.plan.outcomes, EndTurn(o)
  PROVE  Inv'
<1> DEFINE r == world.turn
           filled == [f \in File |-> IF f \in o.has THEN r ELSE ws.out[f]]
           m == Message("agent-run-finished", r, "", 0)
<1>1. /\ Types /\ model \in ModelType /\ ws \in WorkspaceType /\ world \in WorldType
      /\ world.ended \in [Run -> Outcome] /\ world.plan \in Plans
  BY DEF Inv, Types, WorldType
<1>2. r \in Run /\ r \in 0..MaxTurns
  <2>1. r \in Run
    BY <1>1 DEF Types, EndTurn
  <2>2. QED
    BY <2>1, Bounds
<1>3. o \in Outcome
  BY <1>1, HarvestAssumption
<1>4. filled \in Box
  BY <1>1, <1>2 DEF WorkspaceType, Box
<1>5. /\ inbox' = Append(inbox, m)
      /\ UNCHANGED <<model, effects, started, unsent, store, handed, crashes, faults>>
      /\ world' = [world EXCEPT !.running = FALSE,
                                !.ended[r] = [o EXCEPT !.has = Manifest(ws'.out)]]
      /\ \/ ws' = ws
         \/ ws' = [ws EXCEPT !.out = filled, !.in = @ \ o.drops, !.papers = @ \cup {r}]
  <2>1. CASE ws.live
    <3>1. ws' = [ws EXCEPT !.out = [f \in File |-> IF f \in o.has THEN r ELSE @[f]],
                           !.in = @ \ o.drops, !.papers = @ \cup {r}]
      BY <2>1 DEF EndTurn
    <3>2. ws' = [ws EXCEPT !.out = filled, !.in = @ \ o.drops, !.papers = @ \cup {r}]
      BY <1>1, <3>1 DEF WorkspaceType
    <3>3. QED
      BY <3>2 DEF EndTurn, budget
  <2>2. CASE ~ws.live
    BY <2>2 DEF EndTurn, budget
  <2>3. QED
    BY <2>1, <2>2
<1>6. ws' \in WorkspaceType
  <2>1. CASE ws' = ws
    BY <1>1, <2>1
  <2>2. CASE ws' = [ws EXCEPT !.out = filled, !.in = @ \ o.drops, !.papers = @ \cup {r}]
    <3>1. ws.in \ o.drops \in SUBSET Note /\ ws.papers \cup {r} \in SUBSET Run
      BY <1>1, <1>2 DEF WorkspaceType
    <3> HIDE DEF filled, r
    <3>2. QED
      BY <1>1, <1>4, <2>2, <3>1 DEF WorkspaceType
  <2>3. QED
    BY <1>5, <2>1, <2>2
<1>7. PICK h \in Outcome : h = [o EXCEPT !.has = Manifest(ws'.out)]
  <2>1. Manifest(ws'.out) \in SUBSET File
    BY DEF Manifest
  <2>2. [o EXCEPT !.has = Manifest(ws'.out)] \in Outcome
    BY <1>3, <2>1 DEF Outcome
  <2>3. QED
    BY <2>2
<1>8. PICK ended \in [Run -> Outcome] : ended = [world.ended EXCEPT ![r] = h]
  <2>1. [world.ended EXCEPT ![r] = h] \in [Run -> Outcome]
    BY <1>1, <1>2
  <2>2. QED
    BY <2>1
<1>9. world' = [world EXCEPT !.running = FALSE, !.ended = ended]
  BY <1>1, <1>5, <1>7, <1>8 DEF WorldType
<1>10. world' \in WorldType /\ ~world'.running
  BY <1>1, <1>9 DEF WorldType
<1>11. m \in MessageType /\ Sound(m) /\ Neutral(m)
  <2>1. m \in MessageType
    BY <1>2 DEF Message, MessageType, Tag
  <2>2. Sound(m) /\ Neutral(m)
    BY <1>2 DEF Message, Sound, Neutral, For
  <2>3. QED
    BY <2>1, <2>2
<1> HIDE DEF m
<1>12. QED
  BY <1>1, <1>5, <1>6, <1>10, <1>11, OutsideInv

\* A user who finishes the task keeps the invariant.
LEMMA UserFinishesInv ==
  ASSUME Inv, UserFinishes
  PROVE  Inv'
<1> DEFINE m == Message("finish-task", 0, "", 0)
<1>1. /\ model \in ModelType /\ ws \in WorkspaceType /\ world \in WorldType
      /\ world.finishes \in Nat /\ (world.running => world.turn \in Run)
  BY DEF Inv, Types, WorldType
<1>2. /\ world' = [world EXCEPT !.finishes = @ + 1] /\ inbox' = Append(inbox, m)
      /\ UNCHANGED <<model, effects, started, unsent, ws, store, handed, crashes, faults>>
  BY DEF UserFinishes, budget
<1>3. m \in MessageType /\ Sound(m) /\ Neutral(m)
  <2>1. m \in MessageType
    BY Bounds DEF Message, MessageType, Tag
  <2>2. Sound(m) /\ Neutral(m)
    BY DEF Message, Sound, Neutral, For
  <2>3. QED
    BY <2>1, <2>2
<1> HIDE DEF m
<1>4. world' \in WorldType /\ (world'.running => world'.turn \in Run)
  BY <1>1, <1>2 DEF WorldType
<1>5. QED
  BY <1>1, <1>2, <1>3, <1>4, OutsideInv

\* An operator who changes the reply address keeps the invariant.
LEMMA OperatorInv ==
  ASSUME Inv, NEW d \in Domains, OperatorSetsReplyFrom(d)
  PROVE  Inv'
<1> DEFINE m == Message("set-reply-from", 0, d, 0)
<1>1. /\ model \in ModelType /\ ws \in WorkspaceType /\ world \in WorldType
      /\ world.running => world.turn \in Run
  BY DEF Inv, Types, WorldType
<1>2. /\ world' = [world EXCEPT !.domains = 1] /\ inbox' = Append(inbox, m)
      /\ UNCHANGED <<model, effects, started, unsent, ws, store, handed, crashes, faults>>
  BY DEF OperatorSetsReplyFrom, budget
<1>3. m \in MessageType /\ Sound(m) /\ Neutral(m)
  <2>1. m \in MessageType
    BY Bounds DEF Message, MessageType, Tag
  <2>2. Sound(m) /\ Neutral(m)
    BY DEF Message, Sound, Neutral, For
  <2>3. QED
    BY <2>1, <2>2
<1> HIDE DEF m
<1>4. world' \in WorldType /\ (world'.running => world'.turn \in Run)
  BY <1>1, <1>2 DEF WorldType
<1>5. QED
  BY <1>1, <1>2, <1>3, <1>4, OutsideInv

\* A restart of the server keeps the invariant.
LEMMA RestartInv ==
  ASSUME Inv, Restart
  PROVE  Inv'
<1>1. Types /\ Rows /\ Handed /\ Desired(model) \subseteq SourceType
  BY DesiredType DEF Inv, Types
<1>2. /\ inbox' = <<>> /\ effects' = {} /\ crashes' = crashes + 1
      /\ started' = Desired(model) /\ unsent' = Desired(model)
      /\ UNCHANGED <<model, ws, store, handed, world, faults>>
  BY DEF Restart, outside
<1>3. Grows
  BY <1>2, SameRowsGrow
<1>4. inbox' \in Seq(MessageType) /\ DOMAIN inbox' = {} /\ crashes \in Nat
  BY <1>1, <1>2 DEF Types
<1>5. Types'
  BY <1>1, <1>2, <1>4 DEF Types
<1>6. Working' /\ Delivered' /\ Chains'
  BY <1>2, <1>4 DEF Working, Delivered, Chains
<1>7. crashes' # crashes
  BY <1>2, <1>4
<1>8. Rows' /\ Handed'
  BY <1>2, <1>3, <1>7, RowsKept
<1>9. QED
  BY <1>5, <1>6, <1>8 DEF Inv

\* Every step keeps the invariant.
LEMMA NextInv == Inv /\ [Next]_vars => Inv'
<1> SUFFICES ASSUME Inv, [Next]_vars PROVE Inv'
  OBVIOUS
<1>1. CASE Reduce
  BY <1>1, ReduceInv
<1>2. CASE \E i \in unsent : Fire(i)
  BY <1>2, FireInv
<1>3. ASSUME NEW e \in effects, EffectStep(e) \/ EffectFails(e) PROVE Inv'
  <2>1. CASE Emit(e)
    BY <2>1, EmitInv
  <2>2. CASE EffectWorks(e)
    BY <2>2, EffectWorksInv
  <2>3. CASE EffectFails(e)
    BY <2>3, EffectFailsInv
  <2>4. QED
    BY <1>3, <2>1, <2>2, <2>3 DEF EffectStep, EffectWorks
<1>4. CASE StartTurn
  BY <1>4, StartTurnInv
<1>5. ASSUME NEW o \in world.plan.outcomes, EndTurn(o) PROVE Inv'
  BY <1>5, EndTurnInv
<1>6. CASE UserFinishes
  BY <1>6, UserFinishesInv
<1>7. ASSUME NEW d \in Domains, OperatorSetsReplyFrom(d) PROVE Inv'
  BY <1>7, OperatorInv
<1>8. CASE Restart
  BY <1>8, RestartInv
<1>9. CASE UNCHANGED vars
  <2>1. UNCHANGED <<model, inbox, effects, started, unsent, ws, store, handed, world,
                    crashes, faults>>
    BY <1>9 DEF vars
  <2>2. Types' /\ Working' /\ Delivered' /\ Chains' /\ Rows'
    BY <2>1 DEF Inv, Types, Working, Fine, Says, Delivered, Sound, Chains, Rows
  <2>3. Handed'
    BY <2>1 DEF Inv, Handed, Leaving
  <2>4. QED
    BY <2>2, <2>3 DEF Inv
<1>10. QED
  BY <1>1, <1>2, <1>3, <1>4, <1>5, <1>6, <1>7, <1>8, <1>9 DEF Next

\* The invariant of every behaviour.
LEMMA Invariance == Spec => []Inv
BY InitInv, NextInv, PTL DEF Spec

-----------------------------------------------------------------------------
\* Every part of the state has its type: what is owed, queued and referenced is
\* of this task, every pending entry has a row, every source is of one of them.
THEOREM TypeCorrect == Spec => []TypeOK
<1>1. Inv => TypeOK
  <2> SUFFICES ASSUME Inv PROVE TypeOK
    OBVIOUS
  <2>1. Types /\ Rows /\ Chains
    BY DEF Inv
  <2>2. /\ model.status \in {"awaiting-agent", "awaiting-user", "done"}
        /\ model.jobs \subseteq [run : Run, kind : Kind]
        /\ model.refs \subseteq MessageID
        /\ model.notes \subseteq Note /\ model.skills \subseteq Run
        /\ model.outbox \subseteq EntryType
    BY <2>1 DEF Types, ModelType, Status, JobType
  <2>3. model.outbox \subseteq [id : DOMAIN store.rows, mid : MessageID, sent : BOOLEAN]
    BY <2>1, <2>2 DEF Rows, EntryType
  <2>4. ASSUME NEW i \in started PROVE i \in Sources
    <3>1. i \in Desired(model) /\ i \in SourceType
      BY <2>1 DEF Chains, Types
    <3>2. CASE i \in JobSource
      BY <3>2 DEF Sources, JobSource
    <3>3. CASE i \notin JobSource
      <4>1. PICK k \in Nat : i = MailSource(k)
        BY <3>1, <3>3 DEF SourceType, MailSource
      <4>2. PICK e \in model.outbox : i = SourceMail(e)
        BY <3>1, <4>1 DEF Desired, SourceJob, MailSource
      <4>3. e.id \in DOMAIN store.rows
        BY <2>1 DEF Rows
      <4>4. QED
        BY <4>2, <4>3 DEF Sources, SourceMail
    <3>4. QED
      BY <3>2, <3>3
  <2>5. started \subseteq Sources /\ unsent \subseteq Sources
    BY <2>1, <2>4 DEF Chains
  <2>6. ws.out \in [File -> 0..MaxTurns] /\ ws.in \subseteq Note /\ ws.papers \subseteq Run
    BY <2>1 DEF Types, WorkspaceType, Box
  <2>7. \A i \in DOMAIN store.rows : store.rows[i].mid \in MessageID
    BY <2>1, RowTypes
  <2>8. store.transcripts \subseteq Run /\ handed \in [MessageID -> Nat]
    BY <2>1 DEF Types, StoreType
  <2>9. world.turn \in 0..MaxTurns /\ world.ended \in [Run -> Outcome]
    BY <2>1 DEF Types, WorldType
  <2>10. QED
    BY <2>2, <2>3, <2>5, <2>6, <2>7, <2>8, <2>9 DEF TypeOK
<1>2. QED
  BY <1>1, Invariance, PTL

\* The outbox the reconciler drives agrees with its rows, an entry is sent only
\* when the provider has had it, and one process hands a mail over once at most.
THEOREM OutboxIsBacked == Spec => []OutboxBacked
<1>1. Inv => OutboxBacked
  BY DEF Inv, Rows, Handed, OutboxBacked
<1>2. QED
  BY <1>1, Invariance, PTL

-----------------------------------------------------------------------------
(***************************************************************************)
(* Delivery: how a run's reply job is cleared.                             *)
(* assemble-reply announces the row before it clears the job, and both     *)
(* messages go through one channel, so the entry is there when the job     *)
(* goes, and the job is there when the entry comes.                        *)
(***************************************************************************)
ReplyOf(r) == SourceJob(Job(r, "reply"))
Queues(m, r) == m.tag = "mark-reply-queued" /\ m.run = r

\* What an effect of source x never says.
Untold(x) == {m \in MessageType :
                \/ m.tag = "mark-reply-queued" /\ x # ReplyOf(m.run)
                \/ m.tag = "mark-harvested" /\ m.name = "request"}

\* An effect that reports says nothing untold, and the reply's announces it first.
Announced(r) == Queued(r) \/ \E i \in DOMAIN inbox : Queues(inbox[i], r)
Tells(e) ==
  /\ ~Has(e.says, Untold(Of(e)))
  /\ \A r \in Run : Of(e) = ReplyOf(r) => Announced(r) \/ Queues(e.says[1], r)
Telling == \A e \in effects : e.pc = "emit" => Tells(e)

\* A reply announced has yet to clear its job.
Clears(r) == \E e \in effects : e.pc = "emit" /\ Of(e) = ReplyOf(r)
Promised ==
  \A i \in DOMAIN inbox, r \in Run : Queues(inbox[i], r) =>
    Clears(r) \/ \E j \in DOMAIN inbox : i < j /\ For(inbox[j]) = ReplyOf(r)

\* A reply's job cleared was announced before, and no request is cleared this way.
Settles(m, r) == m.tag = "mark-harvested" /\ m.run = r /\ m.name = "reply"
Kept ==
  \A j \in DOMAIN inbox :
    /\ inbox[j].tag = "mark-harvested" => inbox[j].name # "request"
    /\ \A r \in Run : Settles(inbox[j], r) =>
         Queued(r) \/ \E i \in DOMAIN inbox : i < j /\ Queues(inbox[i], r)

\* Under one mail domain, a reply owed and an entry queued are among the references.
Referenced == Domains = {FirstDomain} =>
  /\ \A r \in Run : Job(r, "reply") \in model.jobs =>
                      ReplyMessageID(r, FirstDomain) \in model.refs
  /\ \A e \in model.outbox : e.mid \in model.refs

ReplyInv == Telling /\ Promised /\ Kept /\ Referenced

\* The messages of two kinds the delivery is about; the others are plain.
Plain(m) == m.tag \notin {"mark-reply-queued", "mark-harvested"}

\* A plain message settles a reply only as its prompt, and is told by anyone.
LEMMA PlainUntold == ASSUME NEW m, Plain(m) PROVE \A x : m \notin Untold(x)
BY DEF Plain, Untold

\* The source of a run's reply is told by its effect and by its two messages.
LEMMA OfReply ==
  ASSUME NEW r \in Run
  PROVE  /\ ReplyOf(r) # NoSource
         /\ \A q \in Run : ReplyOf(q) = ReplyOf(r) => q = r
         /\ \A k \in Kind : SourceJob(Job(r, k)) = ReplyOf(r) => k = "reply"
         /\ \A k : MailSource(k) # ReplyOf(r)
         /\ \A e \in EffectType : Of(e) = ReplyOf(r) => e.kind = "assemble-reply" /\ e.run = r
         /\ \A m \in MessageType : m.tag = "mark-harvested" /\ For(m) = ReplyOf(r) =>
                                     m.run = r /\ m.name = "reply"
<1>1. /\ ReplyOf(r) = [of |-> "harvest", run |-> r, kind |-> "reply", id |-> 0]
      /\ ReplyOf(r) # NoSource
      /\ \A q \in Run : ReplyOf(q) = ReplyOf(r) => q = r
  BY DEF ReplyOf, SourceJob, Job, NoSource
<1>2. \A q, k : SourceJob(Job(q, k)) = ReplyOf(r) => q = r /\ k = "reply"
  BY <1>1 DEF SourceJob, Job
<1>3. ASSUME NEW k PROVE MailSource(k) # ReplyOf(r)
  <2>1. MailSource(k).of = "send-email"
    BY DEF MailSource
  <2>2. ReplyOf(r).of = "harvest"
    BY <1>1
  <2>3. QED
    BY <2>1, <2>2
<1>4. ASSUME NEW e \in EffectType, Of(e) = ReplyOf(r)
      PROVE  e.kind = "assemble-reply" /\ e.run = r
  <2>1. e.kind # "send-email" /\ e.kind # "archive-task"
    BY <1>1, <1>3, <1>4 DEF Of
  <2>2. e.run = r /\ KindOf(e) = "reply"
    BY <1>2, <1>4, <2>1 DEF Of
  <2>3. e.kind \in EffectKind
    BY DEF EffectType
  <2>4. QED
    BY <2>1, <2>2, <2>3 DEF EffectKind, KindOf
<1>5. ASSUME NEW m \in MessageType, m.tag = "mark-harvested", For(m) = ReplyOf(r)
      PROVE  m.run = r /\ m.name = "reply"
  BY <1>2, <1>5 DEF For
<1>6. QED
  BY <1>1, <1>2, <1>3, <1>4, <1>5

\* Where a message of the channel is after a new one comes last.
LEMMA AppendPlaces ==
  ASSUME Types, NEW m \in MessageType, inbox' = Append(inbox, m)
  PROVE  \E k \in Nat : /\ k \notin DOMAIN inbox /\ DOMAIN inbox' = DOMAIN inbox \cup {k}
                        /\ inbox'[k] = m /\ \A i \in DOMAIN inbox : inbox'[i] = inbox[i] /\ i < k
<1>1. inbox \in Seq(MessageType)
  BY DEF Types
<1>2. PICK n \in Nat : n = Len(inbox)
  BY <1>1
<1>3. DOMAIN inbox = 1..n /\ DOMAIN inbox' = 1..(n + 1) /\ inbox'[n + 1] = m
      /\ \A i \in 1..n : inbox'[i] = inbox[i]
  BY <1>1, <1>2
<1>4. n + 1 \in Nat /\ n + 1 \notin 1..n /\ 1..(n + 1) = 1..n \cup {n + 1}
      /\ \A i \in 1..n : i < n + 1
  BY <1>2
<1>5. QED
  BY <1>3, <1>4

\* A run announced stays so while the channel only gains and entries stay.
LEMMA AnnouncedKept ==
  ASSUME model'.outbox = model.outbox,
         \A i \in DOMAIN inbox : i \in DOMAIN inbox' /\ inbox'[i] = inbox[i],
         NEW r, Announced(r)
  PROVE  Announced(r)'
BY DEF Announced, Queued, Queues

\* A step from outside, a prompt or a pause: a plain message or none.
LEMMA OutsideReply ==
  ASSUME Types, ReplyInv, effects' = effects, model'.jobs = model.jobs,
         model'.outbox = model.outbox, model'.refs = model.refs,
         \/ inbox' = inbox
         \/ \E m \in MessageType : inbox' = Append(inbox, m) /\ Plain(m)
  PROVE  ReplyInv'
<1>1. Referenced'
  BY DEF ReplyInv, Referenced
<1>2. PICK K : /\ K \cap DOMAIN inbox = {} /\ DOMAIN inbox' = DOMAIN inbox \cup K
               /\ \A i \in DOMAIN inbox : inbox'[i] = inbox[i]
               /\ \A k \in K : Plain(inbox'[k])
  <2>1. CASE inbox' = inbox
    <3>1. \A i \in {} : Plain(inbox'[i])
      OBVIOUS
    <3>2. DOMAIN inbox' = DOMAIN inbox \cup {} /\ {} \cap DOMAIN inbox = {}
      BY <2>1
    <3>3. QED
      BY <2>1, <3>1, <3>2
  <2>2. CASE inbox' # inbox
    <3>1. PICK m \in MessageType : inbox' = Append(inbox, m) /\ Plain(m)
      BY <2>2
    <3>2. PICK k \in Nat : /\ k \notin DOMAIN inbox /\ DOMAIN inbox' = DOMAIN inbox \cup {k}
                           /\ inbox'[k] = m /\ \A i \in DOMAIN inbox : inbox'[i] = inbox[i]
      BY <3>1, AppendPlaces
    <3>3. {k} \cap DOMAIN inbox = {} /\ \A i \in {k} : Plain(inbox'[i])
      BY <3>1, <3>2
    <3>4. QED
      BY <3>2, <3>3
  <2>3. QED
    BY <2>1, <2>2
<1>3. ASSUME NEW e \in effects, e.pc = "emit" PROVE Tells(e)'
  <2>1. Tells(e)
    BY <1>3 DEF ReplyInv, Telling
  <2>2. QED
    BY <1>2, <2>1, AnnouncedKept DEF Tells
<1>4. Telling'
  BY <1>3 DEF Telling
<1>5. Promised'
  <2>1. ASSUME NEW i \in DOMAIN inbox', NEW r \in Run, Queues(inbox'[i], r)
        PROVE  Clears(r)' \/ \E j \in DOMAIN inbox' : i < j /\ For(inbox'[j]) = ReplyOf(r)
    <3>1. i \in DOMAIN inbox /\ Queues(inbox[i], r)
      BY <1>2, <2>1 DEF Plain, Queues
    <3>2. Clears(r) \/ \E j \in DOMAIN inbox : i < j /\ For(inbox[j]) = ReplyOf(r)
      BY <3>1 DEF ReplyInv, Promised
    <3>3. Clears(r) => Clears(r)'
      BY DEF Clears
    <3>4. QED
      BY <1>2, <3>2, <3>3
  <2>2. QED
    BY <2>1 DEF Promised
<1>6. Kept'
  <2>1. ASSUME NEW j \in DOMAIN inbox', inbox'[j].tag = "mark-harvested"
        PROVE  /\ j \in DOMAIN inbox /\ inbox'[j] = inbox[j]
               /\ inbox'[j].name # "request"
    BY <1>2, <2>1 DEF Plain, ReplyInv, Kept
  <2>2. ASSUME NEW j \in DOMAIN inbox', NEW r \in Run, Settles(inbox'[j], r)
        PROVE  Queued(r)' \/ \E i \in DOMAIN inbox' : i < j /\ Queues(inbox'[i], r)
    <3>1. j \in DOMAIN inbox /\ inbox'[j] = inbox[j]
      BY <2>1, <2>2 DEF Settles
    <3>2. Queued(r) \/ \E i \in DOMAIN inbox : i < j /\ Queues(inbox[i], r)
      BY <2>2, <3>1 DEF ReplyInv, Kept
    <3>3. Queued(r) => Queued(r)'
      BY DEF Queued
    <3>4. QED
      BY <1>2, <3>2, <3>3
  <2>3. QED
    BY <2>1, <2>2 DEF Kept
<1>7. QED
  BY <1>1, <1>4, <1>5, <1>6 DEF ReplyInv

\* The element of a sequence of one.
LEMMA OneHas ==
  ASSUME NEW m, NEW K
  PROVE  Has(<<m>>, K) <=> m \in K
<1>1. DOMAIN <<m>> = {1} /\ <<m>>[1] = m
  OBVIOUS
<1>2. QED
  BY <1>1 DEF Has

\* The elements of a sequence of two.
LEMMA TwoHas ==
  ASSUME NEW l, NEW m, NEW K
  PROVE  Has(<<l, m>>, K) <=> l \in K \/ m \in K
<1>1. DOMAIN <<l, m>> = {1, 2} /\ <<l, m>>[1] = l /\ <<l, m>>[2] = m
  OBVIOUS
<1>2. QED
  BY <1>1 DEF Has

\* Any effect may clear the job of its own kind, but for a request's.
LEMMA HarvestedTold ==
  ASSUME NEW r, NEW k, k # "request", NEW x
  PROVE  MarkHarvested(r, k) \notin Untold(x)
BY DEF MarkHarvested, Message, Untold

\* An effect that has done its work, or goes on with it.
Speaks(e) ==
  \/ effects' = effects \ {e}
  \/ \E f : /\ effects' = (effects \ {e}) \cup {f}
            /\ f.pc = "emit" => /\ ~Has(f.says, Untold(Of(f)))
                                /\ \A r \in Run : Of(f) = ReplyOf(r) => Queues(f.says[1], r)

\* An effect speaks when what it reports is told, the reply's announced first.
LEMMA ReportSpeaks ==
  ASSUME NEW e \in EffectType, NEW s, ~Has(s, Untold(Of(e))),
         e.kind = "assemble-reply" => Queues(s[1], e.run), Reports(e, s)
  PROVE  Speaks(e)
<1>1. PICK f : f = [e EXCEPT !.pc = "emit", !.says = s]
  OBVIOUS
<1>2. f.kind = e.kind /\ f.run = e.run /\ f.id = e.id /\ f.says = s
  BY <1>1 DEF EffectType
<1>3. Of(f) = Of(e)
  BY <1>2 DEF Of, KindOf
<1>4. effects' = (effects \ {e}) \cup {f}
  BY <1>1 DEF Reports, Becomes
<1>5. \A r \in Run : Of(e) = ReplyOf(r) => Queues(s[1], r)
  BY OfReply
<1>6. QED
  BY <1>2, <1>3, <1>4, <1>5 DEF Speaks

\* Every effect that has done its work speaks as it should.
LEMMA WorkSpeaks ==
  ASSUME Types, NEW e \in effects, Fine(e), EffectWorks(e)
  PROVE  Speaks(e) /\ e.pc # "emit"
<1>1. e \in EffectType /\ ws \in WorkspaceType
  BY DEF Types
<1>2. CASE CaptureTranscript(e)
  <2>1. e.kind = "capture-transcript" /\ e.pc = "start"
    BY <1>2 DEF CaptureTranscript, At
  <2>2. \/ Reports(e, <<MarkHarvested(e.run, "transcript")>>)
        \/ effects' = effects \ {e}
    BY <1>2 DEF CaptureTranscript, Ends
  <2>3. MarkHarvested(e.run, "transcript") \notin Untold(Of(e))
    BY HarvestedTold
  <2>4. ~Has(<<MarkHarvested(e.run, "transcript")>>, Untold(Of(e)))
    BY <2>3, OneHas
  <2>5. Reports(e, <<MarkHarvested(e.run, "transcript")>>) => Speaks(e)
    BY <1>1, <2>1, <2>4, ReportSpeaks
  <2>6. QED
    BY <2>1, <2>2, <2>5 DEF Speaks
<1>3. CASE ReadFiles(e)
  <2>1. PICK f : f = [e EXCEPT !.pc = "read", !.out = ws.out, !.kept = ws.in]
    OBVIOUS
  <2>2. f.pc = "read" /\ effects' = (effects \ {e}) \cup {f} /\ e.pc = "start"
    BY <1>1, <1>3, <2>1 DEF ReadFiles, Becomes, At, EffectType
  <2>3. QED
    BY <2>2 DEF Speaks
<1>4. CASE CaptureMemory(e)
  <2> DEFINE m == MarkHarvested(e.run, "memory")
             written == IF "note" \in Manifest(e.out) THEN {Lesson} ELSE {}
             lost == SetToSeq(ws.manifest \ (e.kept \cup written))
             A == [i \in 1..Cardinality(written) |-> Message("remember", 0, Lesson, 0)]
             B == [i \in DOMAIN lost |-> Message("forget", 0, lost[i], 0)]
  <2>1. e.kind = "capture-memory" /\ e.pc = "read" /\ Reports(e, A \o B \o <<m>>)
    BY <1>4 DEF CaptureMemory, At
  <2>2. PICK x : x = Of(e)
    OBVIOUS
  <2> DEFINE T == {n \in MessageType : n \notin Untold(x)}
  <2>3. Lesson \in Note
    BY DEF Note
  <2>4. A \in Seq(T)
    <3>1. Message("remember", 0, Lesson, 0) \in MessageType
      BY <2>3, ReportsNote
    <3>2. Message("remember", 0, Lesson, 0) \notin Untold(x)
      BY DEF Untold, Message
    <3>3. Cardinality(written) \in Nat
      BY FS_EmptySet, FS_Singleton
    <3> HIDE DEF written
    <3>4. QED
      BY <3>1, <3>2, <3>3
  <2>5. lost \in Seq(Note)
    <3>1. ws.manifest \subseteq Note
      BY <1>1 DEF WorkspaceType
    <3>2. IsFiniteSet(Notes \cup {Lesson})
      BY HarvestAssumption, FS_AddElement
    <3>3. IsFiniteSet(ws.manifest \ (e.kept \cup written))
      BY <3>1, <3>2, FS_Subset DEF Note
    <3>4. lost \in Seq(ws.manifest \ (e.kept \cup written))
      BY <3>3, SetToSeqProperties
    <3>5. QED
      BY <3>1, <3>4
  <2>6. B \in Seq(T)
    <3> HIDE DEF lost
    <3>1. ASSUME NEW i \in DOMAIN lost PROVE Message("forget", 0, lost[i], 0) \in T
      <4>1. lost[i] \in Note
        BY <2>5
      <4>2. Message("forget", 0, lost[i], 0) \in MessageType
        BY <4>1, ReportsNote
      <4>3. QED
        BY <4>2 DEF Untold, Message
    <3> HIDE DEF T
    <3>2. DOMAIN lost = 1..Len(lost) /\ Len(lost) \in Nat
      BY <2>5
    <3>3. QED
      BY <3>1, <3>2
  <2>7. PICK a \in Seq(T), b \in Seq(T) : a = A /\ b = B
    BY <2>4, <2>6
  <2>8. e.run \in Run /\ "memory" \in Kind
    BY <2>1 DEF Fine, Kind
  <2>9. m \in T
    BY <2>8, ReportsHarvested, HarvestedTold
  <2> HIDE DEF T, A, B, m
  <2>10. PICK c : c = <<m>> /\ c \in Seq(T)
    <3>1. <<m>> \in Seq(T)
      BY <2>9
    <3>2. QED
      BY <3>1
  <2>11. PICK s \in Seq(T) : s = a \o b \o c
    BY ConcatProperties, <2>10
  <2>12. ~Has(s, Untold(x))
    <3>1. \A i \in DOMAIN s : s[i] \in T
      OBVIOUS
    <3>2. QED
      BY <3>1 DEF Has, T
  <2>13. Reports(e, s)
    BY <2>1, <2>7, <2>10, <2>11
  <2>14. QED
    BY <1>1, <2>1, <2>2, <2>12, <2>13, ReportSpeaks
<1>5. CASE StoreSkill(e)
  <2>1. e.kind = "store-skill" /\ e.pc = "read"
    BY <1>5 DEF StoreSkill, At
  <2>2. PICK l, m : /\ l = Message("register-skill", e.out["skill"], "", 0)
                    /\ m = MarkHarvested(e.run, "skill")
    OBVIOUS
  <2>3. Reports(e, <<l, m>>) \/ Reports(e, <<m>>)
    BY <1>5, <2>2 DEF StoreSkill
  <2>4. l \notin Untold(Of(e)) /\ m \notin Untold(Of(e))
    <3>1. l.tag = "register-skill"
      BY <2>2 DEF Message
    <3>2. QED
      BY <2>2, <3>1, HarvestedTold DEF Untold
  <2>5. ~Has(<<l, m>>, Untold(Of(e))) /\ ~Has(<<m>>, Untold(Of(e)))
    BY <2>4, OneHas, TwoHas
  <2>6. QED
    BY <1>1, <2>1, <2>3, <2>5, ReportSpeaks
<1>6. CASE MintUIRequest(e)
  <2>1. e.kind = "mint-ui-request" /\ e.pc = "read"
    BY <1>6 DEF MintUIRequest, At
  <2>2. PICK m : m = Message("register-ui-request", e.run, "", 0)
    OBVIOUS
  <2>3. Reports(e, <<m>>) \/ effects' = effects \ {e}
    BY <1>6, <2>2 DEF MintUIRequest, Ends
  <2>4. m.tag = "register-ui-request"
    BY <2>2 DEF Message
  <2>5. ~Has(<<m>>, Untold(Of(e)))
    <3>1. m \notin Untold(Of(e))
      BY <2>4 DEF Untold
    <3>2. QED
      BY <3>1, OneHas
  <2>6. Reports(e, <<m>>) => Speaks(e)
    BY <1>1, <2>1, <2>5, ReportSpeaks
  <2>7. QED
    BY <2>1, <2>3, <2>6 DEF Speaks
<1>7. CASE AssembleReply(e)
  <2>1. e.kind = "assemble-reply" /\ e.pc = "read" /\ e.run \in Run
    BY <1>7 DEF AssembleReply, At, Fine
  <2>2. PICK l, m : /\ l = Message("mark-reply-queued", e.run, "",
                                   RowFor(ReplyMessageID(e.run, e.domain)))
                    /\ m = MarkHarvested(e.run, "reply")
    OBVIOUS
  <2>3. Reports(e, <<l, m>>)
    BY <1>7, <2>2 DEF AssembleReply
  <2>4. Queues(l, e.run) /\ l.tag = "mark-reply-queued" /\ l.run = e.run
    BY <2>2 DEF Queues, Message
  <2>5. Of(e) = ReplyOf(e.run)
    BY <2>1 DEF Of, KindOf, ReplyOf
  <2>6. l \notin Untold(Of(e)) /\ m \notin Untold(Of(e))
    BY <2>2, <2>4, <2>5, HarvestedTold DEF Untold
  <2>7. ~Has(<<l, m>>, Untold(Of(e))) /\ <<l, m>>[1] = l
    BY <2>6, TwoHas
  <2>8. QED
    BY <1>1, <2>1, <2>3, <2>4, <2>7, ReportSpeaks
<1>8. CASE Submit(e)
  <2>1. PICK f : f = [e EXCEPT !.pc = "submitted"]
    OBVIOUS
  <2>2. f.pc = "submitted" /\ effects' = (effects \ {e}) \cup {f} /\ e.pc = "start"
    BY <1>1, <1>8, <2>1 DEF Submit, Becomes, At, EffectType
  <2>3. QED
    BY <2>2 DEF Speaks
<1>9. CASE MarkOutboxSent(e)
  <2>1. e.kind = "send-email" /\ e.pc = "submitted"
    BY <1>9 DEF MarkOutboxSent, At
  <2>2. PICK m : m = Message("mark-email-sent", 0, "", e.id)
    OBVIOUS
  <2>3. Reports(e, <<m>>) /\ m.tag = "mark-email-sent"
    BY <1>9, <2>2 DEF MarkOutboxSent, Message
  <2>4. ~Has(<<m>>, Untold(Of(e)))
    <3>1. m \notin Untold(Of(e))
      BY <2>3 DEF Untold
    <3>2. QED
      BY <3>1, OneHas
  <2>5. QED
    BY <1>1, <2>1, <2>3, <2>4, ReportSpeaks
<1>10. CASE ArchiveFiles(e)
  <2>1. PICK f : f = [e EXCEPT !.pc = "delete", !.out = ws.out, !.kept = ws.in,
                               !.papers = ws.papers]
    OBVIOUS
  <2>2. f.pc = "delete" /\ effects' = (effects \ {e}) \cup {f} /\ e.pc = "start"
    BY <1>1, <1>10, <2>1 DEF ArchiveFiles, Becomes, At, EffectType
  <2>3. QED
    BY <2>2 DEF Speaks
<1>11. CASE RemoveWorkspace(e)
  <2>1. PICK f : f = [e EXCEPT !.pc = "manifest"]
    OBVIOUS
  <2>2. f.pc = "manifest"
    BY <1>1, <2>1 DEF EffectType
  <2>3. e.pc = "remove" /\ effects' = (effects \ {e}) \cup {f}
    BY <1>11, <2>1 DEF RemoveWorkspace, Becomes, At
  <2>4. QED
    BY <2>2, <2>3 DEF Speaks
<1>12. CASE DeleteManifest(e)
  BY <1>12 DEF DeleteManifest, Ends, At, Speaks
<1>13. CASE CheckCovered(e)
  <2>1. PICK f : f = [e EXCEPT !.pc = "remove", !.out = ws.out, !.kept = ws.in,
                               !.papers = ws.papers]
    OBVIOUS
  <2>2. f.pc = "remove"
    BY <1>1, <2>1 DEF EffectType
  <2>3. e.pc = "delete" /\ (effects' = (effects \ {e}) \cup {f} \/ effects' = effects \ {e})
    BY <1>13, <2>1 DEF CheckCovered, Becomes, Ends, At
  <2>4. QED
    BY <2>2, <2>3 DEF Speaks
<1>14. QED
  BY <1>2, <1>3, <1>4, <1>5, <1>6, <1>7, <1>8, <1>9, <1>10, <1>11, <1>12, <1>13 DEF EffectWorks

\* An effect at work, failing or done, leaves the channel to speak for itself.
LEMMA SpeaksReply ==
  ASSUME ReplyInv, NEW e \in effects, e.pc # "emit", Speaks(e), model' = model, inbox' = inbox
  PROVE  ReplyInv'
<1>1. Referenced' /\ Kept'
  BY DEF ReplyInv, Referenced, Kept, Queued, Queues, Settles
<1>2. \A g \in effects : g.pc = "emit" => g \in effects'
  BY DEF Speaks
<1>3. ASSUME NEW r, Clears(r) PROVE Clears(r)'
  BY <1>2, <1>3 DEF Clears
<1>4. Promised'
  BY <1>3 DEF ReplyInv, Promised, Queues
<1>5. \A r : Announced(r) => Announced(r)'
  BY DEF Announced, Queued, Queues
<1>6. ASSUME NEW g \in effects', g.pc = "emit" PROVE Tells(g)'
  <2>1. CASE g \in effects
    BY <1>5, <1>6, <2>1 DEF ReplyInv, Telling, Tells
  <2>2. CASE g \notin effects
    BY <1>6, <2>2 DEF Speaks, Tells
  <2>3. QED
    BY <2>1, <2>2
<1>7. QED
  BY <1>1, <1>4, <1>6 DEF ReplyInv, Telling

\* An effect that reports keeps the order of its two messages.
LEMMA EmitReply ==
  ASSUME Inv, ReplyInv, NEW e \in effects, Emit(e)
  PROVE  ReplyInv'
<1>1. /\ Types /\ Fine(e) /\ e \in EffectType /\ e.pc = "emit"
      /\ Tells(e)
  BY DEF Inv, Working, Types, Emit, ReplyInv, Telling
<1>2. PICK s \in Seq(MessageType) : s = e.says /\ s # <<>> /\ For(s[Len(s)]) = Of(e)
                                    /\ \A i \in 1..Len(s) : i # Len(s) => For(s[i]) = NoSource
  BY <1>1 DEF EffectType, Fine, Says
<1>3. PICK m \in MessageType : m = Head(s) /\ m = s[1] /\ 1 \in DOMAIN s /\ 1 \in 1..Len(s)
  BY <1>2
<1>4. /\ inbox' = Append(inbox, m) /\ model' = model
      /\ \/ Len(s) = 1 /\ effects' = effects \ {e}
         \/ Len(s) # 1 /\ effects' = (effects \ {e}) \cup {[e EXCEPT !.says = Tail(s)]}
  BY <1>2, <1>3 DEF Emit, Ends, Becomes
<1>5. m \notin Untold(Of(e))
  BY <1>1, <1>2, <1>3 DEF Tells, Has
<1>6. PICK k \in Nat : /\ k \notin DOMAIN inbox /\ DOMAIN inbox' = DOMAIN inbox \cup {k}
                       /\ inbox'[k] = m
                       /\ \A i \in DOMAIN inbox : inbox'[i] = inbox[i] /\ i < k
  BY <1>1, <1>4, AppendPlaces
<1>7. \/ For(m) = Of(e) /\ effects' = effects \ {e}
      \/ /\ For(m) = NoSource
         /\ \E f : /\ effects' = (effects \ {e}) \cup {f}
                   /\ Of(f) = Of(e) /\ f.pc = "emit" /\ f.says = Tail(s)
  <2>1. CASE Len(s) = 1
    BY <1>2, <1>3, <1>4, <2>1
  <2>2. CASE Len(s) # 1
    <3>1. PICK f : f = [e EXCEPT !.says = Tail(s)]
      OBVIOUS
    <3>2. f.kind = e.kind /\ f.run = e.run /\ f.id = e.id /\ f.pc = e.pc /\ f.says = Tail(s)
      BY <1>1, <3>1 DEF EffectType
    <3>3. Of(f) = Of(e)
      BY <3>2 DEF Of, KindOf
    <3>4. For(m) = NoSource
      BY <1>2, <1>3, <2>2
    <3>5. QED
      BY <1>1, <1>4, <2>2, <3>1, <3>2, <3>3, <3>4
  <2>3. QED
    BY <2>1, <2>2
<1>8. ASSUME NEW r, Announced(r) \/ Queues(m, r) PROVE Announced(r)'
  <2>1. CASE Announced(r)
    BY <1>4, <1>6, <2>1, AnnouncedKept
  <2>2. CASE Queues(m, r)
    BY <1>6, <2>2 DEF Announced
  <2>3. QED
    BY <1>8, <2>1, <2>2
<1>9. ~Has(Tail(s), Untold(Of(e)))
  <2>1. ~Has(s, Untold(Of(e)))
    BY <1>1, <1>2 DEF Tells
  <2>2. Less(Tail(s), s, 1)
    BY <1>2, TailLess
  <2>3. QED
    BY <2>1, <2>2, LessHas
<1>10. Telling'
  <2>1. ASSUME NEW g \in effects', g.pc = "emit" PROVE Tells(g)'
    <3>1. CASE g \in effects
      BY <1>8, <2>1, <3>1 DEF ReplyInv, Telling, Tells
    <3>2. CASE g \notin effects
      <4>1. Of(g) = Of(e) /\ g.says = Tail(s)
        BY <1>7, <3>2
      <4>2. \A r \in Run : Of(e) = ReplyOf(r) => Announced(r)'
        BY <1>1, <1>2, <1>3, <1>8 DEF Tells
      <4>3. QED
        BY <1>9, <4>1, <4>2 DEF Tells
    <3>3. QED
      BY <3>1, <3>2
  <2>2. QED
    BY <2>1 DEF Telling
<1>11. ASSUME NEW r \in Run, Clears(r)
       PROVE  Clears(r)' \/ For(inbox'[k]) = ReplyOf(r)
  <2>1. PICK g \in effects : g.pc = "emit" /\ Of(g) = ReplyOf(r)
    BY <1>11 DEF Clears
  <2>2. CASE g = e
    BY <1>6, <1>7, <2>1, <2>2 DEF Clears
  <2>3. CASE g # e
    BY <1>7, <2>1, <2>3 DEF Clears
  <2>4. QED
    BY <2>2, <2>3
<1>12. ASSUME NEW r \in Run, Queues(m, r) PROVE Clears(r)'
  <2>1. Of(e) = ReplyOf(r) /\ For(m) = NoSource
    BY <1>5, <1>12 DEF Untold, Queues, For
  <2>2. ReplyOf(r) # NoSource
    BY OfReply
  <2>3. QED
    BY <1>7, <2>1, <2>2 DEF Clears
<1>13. Promised'
  <2>1. ASSUME NEW i \in DOMAIN inbox', NEW r \in Run, Queues(inbox'[i], r)
        PROVE  Clears(r)' \/ \E j \in DOMAIN inbox' : i < j /\ For(inbox'[j]) = ReplyOf(r)
    <3>1. CASE i = k
      BY <1>6, <1>12, <2>1, <3>1
    <3>2. CASE i # k
      <4>1. i \in DOMAIN inbox /\ i < k /\ Queues(inbox[i], r)
        BY <1>6, <2>1, <3>2
      <4>2. Clears(r) \/ \E j \in DOMAIN inbox : i < j /\ For(inbox[j]) = ReplyOf(r)
        BY <4>1 DEF ReplyInv, Promised
      <4>3. QED
        BY <1>6, <1>11, <4>1, <4>2
    <3>3. QED
      BY <3>1, <3>2
  <2>2. QED
    BY <2>1 DEF Promised
<1>14. Kept'
  <2>1. ASSUME NEW j \in DOMAIN inbox', inbox'[j].tag = "mark-harvested"
        PROVE  inbox'[j].name # "request"
    BY <1>5, <1>6, <2>1 DEF ReplyInv, Kept, Untold
  <2>2. ASSUME NEW j \in DOMAIN inbox', NEW r \in Run, Settles(inbox'[j], r)
        PROVE  Queued(r)' \/ \E i \in DOMAIN inbox' : i < j /\ Queues(inbox'[i], r)
    <3>1. Queued(r) => Queued(r)'
      BY <1>4 DEF Queued
    <3>2. CASE j = k
      <4>1. For(m) = ReplyOf(r) /\ ~Queues(m, r)
        BY <1>6, <2>2, <3>2 DEF Settles, For, ReplyOf, Queues
      <4>2. Of(e) = ReplyOf(r)
        BY <1>7, <4>1, OfReply
      <4>3. Announced(r)
        BY <1>1, <1>2, <1>3, <4>1, <4>2 DEF Tells
      <4>4. QED
        BY <1>6, <3>1, <3>2, <4>3 DEF Announced
    <3>3. CASE j # k
      <4>1. j \in DOMAIN inbox /\ Settles(inbox[j], r)
        BY <1>6, <2>2, <3>3
      <4>2. Queued(r) \/ \E i \in DOMAIN inbox : i < j /\ Queues(inbox[i], r)
        BY <4>1 DEF ReplyInv, Kept
      <4>3. QED
        BY <1>6, <3>1, <4>2
    <3>4. QED
      BY <3>2, <3>3
  <2>3. QED
    BY <2>1, <2>2 DEF Kept
<1>15. Referenced'
  BY <1>4 DEF ReplyInv, Referenced
<1>16. QED
  BY <1>10, <1>13, <1>14, <1>15 DEF ReplyInv

\* A job some source, message or effect is for is owed.
LEMMA SourceOwed ==
  ASSUME NEW r \in Run, NEW k \in Kind, SourceJob(Job(r, k)) \in Desired(model),
         model \in ModelType
  PROVE  Job(r, k) \in model.jobs
<1>1. \A e : SourceMail(e) # SourceJob(Job(r, k))
  <2>1. ASSUME NEW e PROVE SourceMail(e) # SourceJob(Job(r, k))
    <3>1. SourceMail(e).of = "send-email" /\ SourceJob(Job(r, k)).of = "harvest"
      BY DEF SourceMail, SourceJob
    <3>2. QED
      BY <3>1
  <2>2. QED
    BY <2>1
<1>2. PICK j \in model.jobs : SourceJob(j) = SourceJob(Job(r, k))
  BY <1>1 DEF Desired
<1>3. j \in JobType
  BY DEF ModelType
<1>4. j.run = r /\ j.kind = k
  BY <1>2 DEF SourceJob, Job
<1>5. j = Job(r, k)
  BY <1>3, <1>4 DEF JobType, Job
<1>6. QED
  BY <1>5

\* When a reply is announced its job is still owed.
LEMMA ReplyOwed ==
  ASSUME Inv, ReplyInv, NEW r \in Run, NEW i \in DOMAIN inbox, Queues(inbox[i], r)
  PROVE  Job(r, "reply") \in model.jobs
<1>1. Clears(r) \/ \E j \in DOMAIN inbox : i < j /\ For(inbox[j]) = ReplyOf(r)
  BY DEF ReplyInv, Promised
<1>2. ReplyOf(r) \in Desired(model)
  BY <1>1, OfReply DEF Inv, Chains, Clears
<1>3. "reply" \in Kind
  BY DEF Kind
<1>4. model \in ModelType
  BY DEF Inv, Types
<1>5. QED
  BY <1>2, <1>3, <1>4, SourceOwed DEF ReplyOf

\* Taking the first message moves each other one place up.
LEMMA TailPlaces ==
  ASSUME Types, inbox # <<>>, inbox' = Tail(inbox)
  PROVE  /\ DOMAIN inbox \subseteq Nat /\ DOMAIN inbox' \subseteq Nat
         /\ \A j \in DOMAIN inbox : j # 1 => j - 1 \in DOMAIN inbox' /\ inbox'[j - 1] = inbox[j]
         /\ \A i \in DOMAIN inbox' : i + 1 \in DOMAIN inbox /\ inbox'[i] = inbox[i + 1]
<1>1. inbox \in Seq(MessageType)
  BY DEF Types
<1>2. PICK n \in Nat : n = Len(inbox) - 1
  BY <1>1
<1>3. /\ DOMAIN inbox = 1..(n + 1) /\ DOMAIN inbox' = 1..n
      /\ \A i \in 1..n : inbox'[i] = inbox[i + 1]
  BY <1>1, <1>2
<1>4. /\ \A j \in 1..(n + 1) : j # 1 => j - 1 \in 1..n /\ (j - 1) + 1 = j
      /\ \A i \in 1..n : i + 1 \in 1..(n + 1)
  BY <1>2
<1>5. QED
  BY <1>3, <1>4

\* What a handler does to the replies: entries and references stay, an announced
\* reply is queued, a job owed and an entry new have their reference.
LEMMA UpdateReply ==
  ASSUME Inv, NEW m \in MessageType, Sound(m), Referenced,
         \A r \in Run : Queues(m, r) => Job(r, "reply") \in model.jobs,
         model' = Update(model, m)
  PROVE  /\ Referenced'
         /\ \A r \in Run : Queued(r) \/ Queues(m, r) => Queued(r)'
<1>1. PICK t : t = Update(model, m) /\ t = model'
  OBVIOUS
<1>2. /\ model \in ModelType /\ Types /\ Rows
      /\ Domains = {FirstDomain} =>
           /\ model.domain = FirstDomain
           /\ \A e \in model.outbox : e.mid \in model.refs
           /\ \A r \in Run : Job(r, "reply") \in model.jobs =>
                               ReplyMessageID(r, FirstDomain) \in model.refs
  BY DEF Inv, Types, ModelType, Referenced
<1>3. /\ \A f \in t.outbox :
           \/ f \in model.outbox
           \/ \E e \in model.outbox : f.mid = e.mid
           \/ m.tag = "mark-reply-queued" /\ f.mid = store.rows[m.id].mid
      /\ \A e \in model.outbox : \E f \in t.outbox : f.mid = e.mid
  BY <1>1, <1>2, OutboxUpdate
<1>4. /\ model.refs \subseteq t.refs
      /\ Domains = {FirstDomain} => \A r \in Run : Job(r, "reply") \in t.jobs =>
           Job(r, "reply") \in model.jobs \/ ReplyMessageID(r, FirstDomain) \in t.refs
  <2>1. CASE m.tag = "agent-run-finished"
    <3>1. PICK o : o = world.ended[m.run] /\ t = AgentRunFinished(model, m.run, o)
      BY <1>1, <2>1 DEF Update
    <3>2. /\ t.jobs = model.jobs \cup {Job(m.run, k) : k \in Owed(o)}
          /\ t.refs = IF "reply" \in Owed(o)
                      THEN model.refs \cup {ReplyMessageID(m.run, model.domain)}
                      ELSE model.refs
      BY <1>2, <3>1 DEF AgentRunFinished, ModelType
    <3>3. \A r, k : Job(r, "reply") = Job(m.run, k) => r = m.run /\ k = "reply"
      BY DEF Job
    <3>4. QED
      BY <1>2, <3>2, <3>3
  <2>2. CASE m.tag = "register-ui-request"
    <3>1. t = RegisterUIRequest(model, m.run)
      BY <1>1, <2>2 DEF Update
    <3>2. /\ t.jobs = (model.jobs \ {Job(m.run, "request")}) \cup {Job(m.run, "reply")}
          /\ t.refs = model.refs \cup {ReplyMessageID(m.run, model.domain)}
      BY <1>2, <3>1 DEF RegisterUIRequest, ModelType
    <3>3. \A r : Job(r, "reply") = Job(m.run, "reply") => r = m.run
      BY DEF Job
    <3>4. QED
      BY <1>2, <3>2, <3>3
  <2>3. CASE m.tag = "mark-reply-queued"
    <3>1. t = MarkReplyQueued(model, m.id, store.rows[m.id].mid)
      BY <1>1, <2>3 DEF Update
    <3>2. t.jobs = model.jobs /\ t.refs = model.refs
      BY <1>2, <3>1 DEF MarkReplyQueued, ModelType
    <3>3. QED
      BY <3>2
  <2>4. CASE m.tag = "mark-email-sent"
    <3>1. PICK entries : t = [model EXCEPT !.outbox = entries]
      BY <1>1, <2>4 DEF Update, MarkEmailSent
    <3>2. t.jobs = model.jobs /\ t.refs = model.refs
      BY <1>2, <3>1 DEF ModelType
    <3>3. QED
      BY <3>2
  <2>5. CASE m.tag \notin {"agent-run-finished", "register-ui-request", "mark-reply-queued",
                           "mark-email-sent"}
    <3>1. t.jobs \subseteq model.jobs /\ t.refs = model.refs
      BY <1>1, <1>2, <2>5 DEF Update, MarkHarvestedHandler, ModelType
    <3>2. QED
      BY <3>1
  <2>6. QED
    BY <2>1, <2>2, <2>3, <2>4, <2>5
<1>5. ASSUME m.tag = "mark-reply-queued"
      PROVE  /\ m.run \in Run /\ store.rows[m.id].mid[1] = m.run
             /\ Domains = {FirstDomain} => store.rows[m.id].mid \in model.refs
  <2>1. m.run \in Run /\ store.rows[m.id].mid[1] = m.run
    BY <1>5 DEF Sound
  <2>2. store.rows[m.id].mid \in MessageID
    BY <1>2, <1>5, NamesRow
  <2>3. Domains = {FirstDomain} => store.rows[m.id].mid = ReplyMessageID(m.run, FirstDomain)
    BY <2>1, <2>2 DEF MessageID, ReplyMessageID
  <2>4. Queues(m, m.run)
    BY <1>5 DEF Queues
  <2>5. QED
    BY <1>2, <2>1, <2>3, <2>4
<1>6. Referenced'
  <2> SUFFICES ASSUME Domains = {FirstDomain}
               PROVE  /\ \A r \in Run : Job(r, "reply") \in t.jobs =>
                                           ReplyMessageID(r, FirstDomain) \in t.refs
                      /\ \A e \in t.outbox : e.mid \in t.refs
    BY <1>1 DEF Referenced
  <2>1. \A e \in t.outbox : e.mid \in t.refs
    BY <1>2, <1>3, <1>4, <1>5
  <2>2. \A r \in Run : Job(r, "reply") \in t.jobs => ReplyMessageID(r, FirstDomain) \in t.refs
    BY <1>2, <1>4
  <2>3. QED
    BY <2>1, <2>2
<1>7. ASSUME NEW r \in Run, Queued(r) PROVE Queued(r)'
  BY <1>1, <1>3, <1>7 DEF Queued
<1>8. ASSUME NEW r \in Run, Queues(m, r) PROVE Queued(r)'
  <2>1. m.tag = "mark-reply-queued" /\ m.run = r
    BY <1>8 DEF Queues
  <2>2. PICK mid : mid = store.rows[m.id].mid /\ mid[1] = r
    BY <1>5, <2>1
  <2>3. t = MarkReplyQueued(model, m.id, mid)
    BY <1>1, <2>1, <2>2 DEF Update
  <2>4. CASE \E e \in model.outbox : e.id = m.id \/ e.mid = mid
    <3>1. PICK e \in model.outbox : e.id = m.id \/ e.mid = mid
      BY <2>4
    <3>2. e.mid[1] = r
      BY <1>2, <2>2, <3>1 DEF Rows
    <3>3. QED
      BY <1>7, <3>2 DEF Queued
  <2>5. CASE ~ \E e \in model.outbox : e.id = m.id \/ e.mid = mid
    <3>1. PICK e : e = [id |-> m.id, mid |-> mid, sent |-> FALSE]
      OBVIOUS
    <3>2. t.outbox = model.outbox \cup {e}
      BY <1>2, <2>3, <2>5, <3>1 DEF MarkReplyQueued, ModelType
    <3>3. e.mid[1] = r
      BY <2>2, <3>1
    <3>4. QED
      BY <1>1, <3>2, <3>3 DEF Queued
  <2>6. QED
    BY <2>4, <2>5
<1>9. QED
  BY <1>6, <1>7, <1>8

\* The reducer's turn keeps the order of a reply's two messages.
LEMMA ReduceReply ==
  ASSUME Inv, ReplyInv, Reduce
  PROVE  ReplyInv'
<1>1. PICK m : m = Head(inbox)
  OBVIOUS
<1>2. /\ Types /\ Delivered /\ inbox # <<>> /\ inbox' = Tail(inbox)
      /\ model' = Update(model, m) /\ effects' = effects \cup Commands(model, m)
  BY <1>1 DEF Inv, Reduce
<1>3. 1 \in DOMAIN inbox /\ m = inbox[1] /\ m \in MessageType
  BY <1>1, <1>2, TailTakes
<1>4. Sound(m)
  BY <1>2, <1>3 DEF Delivered
<1>5. /\ DOMAIN inbox \subseteq Nat /\ DOMAIN inbox' \subseteq Nat
      /\ \A j \in DOMAIN inbox : j # 1 => j - 1 \in DOMAIN inbox' /\ inbox'[j - 1] = inbox[j]
      /\ \A i \in DOMAIN inbox' : i + 1 \in DOMAIN inbox /\ inbox'[i] = inbox[i + 1]
  BY <1>2, TailPlaces
<1>6. \A r \in Run : Queues(m, r) => Job(r, "reply") \in model.jobs
  BY <1>3, ReplyOwed
<1>7. /\ Referenced'
      /\ \A r \in Run : Queued(r) \/ Queues(m, r) => Queued(r)'
  BY <1>2, <1>3, <1>4, <1>6, UpdateReply DEF ReplyInv
<1>8. ASSUME NEW r \in Run, Announced(r) PROVE Announced(r)'
  <2>1. CASE Queued(r)
    BY <1>7, <2>1 DEF Announced
  <2>2. CASE ~Queued(r)
    <3>1. PICK i \in DOMAIN inbox : Queues(inbox[i], r)
      BY <1>8, <2>2 DEF Announced
    <3>2. CASE i = 1
      BY <1>3, <1>7, <3>1, <3>2 DEF Announced
    <3>3. CASE i # 1
      BY <1>5, <3>1, <3>3 DEF Announced
    <3>4. QED
      BY <3>2, <3>3
  <2>3. QED
    BY <2>1, <2>2
<1>9. Telling'
  <2>1. ASSUME NEW g \in effects', g.pc = "emit" PROVE Tells(g)'
    <3>1. g \in effects
      BY <1>2, <1>3, <1>4, <2>1, CommandsType
    <3>2. QED
      BY <1>8, <2>1, <3>1 DEF ReplyInv, Telling, Tells
  <2>2. QED
    BY <2>1 DEF Telling
<1>10. Promised'
  <2>1. ASSUME NEW i \in DOMAIN inbox', NEW r \in Run, Queues(inbox'[i], r)
        PROVE  Clears(r)' \/ \E j \in DOMAIN inbox' : i < j /\ For(inbox'[j]) = ReplyOf(r)
    <3>1. PICK k \in DOMAIN inbox : k = i + 1 /\ Queues(inbox[k], r) /\ i \in Nat
      BY <1>5, <2>1
    <3>2. CASE Clears(r)
      BY <1>2, <3>2 DEF Clears
    <3>3. CASE ~Clears(r)
      <4>1. PICK j \in DOMAIN inbox : k < j /\ For(inbox[j]) = ReplyOf(r)
        BY <3>1, <3>3 DEF ReplyInv, Promised
      <4>2. j \in Nat /\ j # 1 /\ i < j - 1
        BY <1>5, <3>1, <4>1
      <4>3. QED
        BY <1>5, <4>1, <4>2
    <3>4. QED
      BY <3>2, <3>3
  <2>2. QED
    BY <2>1 DEF Promised
<1>11. Kept'
  <2>1. ASSUME NEW j \in DOMAIN inbox', inbox'[j].tag = "mark-harvested"
        PROVE  inbox'[j].name # "request"
    BY <1>5, <2>1 DEF ReplyInv, Kept
  <2>2. ASSUME NEW j \in DOMAIN inbox', NEW r \in Run, Settles(inbox'[j], r)
        PROVE  Queued(r)' \/ \E i \in DOMAIN inbox' : i < j /\ Queues(inbox'[i], r)
    <3>1. PICK k \in DOMAIN inbox : k = j + 1 /\ Settles(inbox[k], r) /\ j \in Nat
      BY <1>5, <2>2
    <3>2. Queued(r) \/ \E i \in DOMAIN inbox : i < k /\ Queues(inbox[i], r)
      BY <3>1 DEF ReplyInv, Kept
    <3>3. CASE Queued(r)
      BY <1>7, <3>3
    <3>4. CASE ~Queued(r)
      <4>1. PICK i \in DOMAIN inbox : i < k /\ Queues(inbox[i], r)
        BY <3>2, <3>4
      <4>2. CASE i = 1
        BY <1>3, <1>7, <4>1, <4>2
      <4>3. CASE i # 1
        <5>1. i \in Nat /\ i - 1 < j
          BY <1>5, <3>1, <4>1, <4>3
        <5>2. QED
          BY <1>5, <4>1, <4>3, <5>1
      <4>4. QED
        BY <4>2, <4>3
    <3>5. QED
      BY <3>3, <3>4
  <2>3. QED
    BY <2>1, <2>2 DEF Kept
<1>12. QED
  BY <1>7, <1>9, <1>10, <1>11 DEF ReplyInv

\* At first, and when the process starts again, nothing is on its way.
LEMMA NothingSaid ==
  ASSUME inbox = <<>>, effects = {}, Referenced
  PROVE  ReplyInv
<1>1. DOMAIN inbox = {}
  OBVIOUS
<1>2. QED
  BY <1>1 DEF ReplyInv, Telling, Promised, Kept

\* Every step keeps the order of a reply's two messages.
LEMMA NextReply ==
  ASSUME Inv, ReplyInv, [Next]_vars
  PROVE  ReplyInv'
<1>1. Types /\ Working /\ model \in ModelType /\ unsent \subseteq SourceType
  BY DEF Inv, Types
<1>2. CASE Reduce
  BY <1>2, ReduceReply
<1>3. ASSUME NEW i \in unsent, Fire(i) PROVE ReplyInv'
  <2>1. PICK m : m = Prompt(i)
    OBVIOUS
  <2>2. m \in MessageType /\ m.tag \in {"run-harvest", "send-outbox"}
    BY <1>1, <2>1, PromptOf DEF Message, Prompt
  <2>3. Plain(m) /\ inbox' = Append(inbox, m)
    BY <1>3, <2>1, <2>2 DEF Fire, Plain
  <2>4. model' = model /\ effects' = effects
    BY <1>3 DEF Fire
  <2>5. QED
    BY <1>1, <2>2, <2>3, <2>4, OutsideReply
<1>4. ASSUME NEW e \in effects, EffectStep(e) \/ EffectFails(e) PROVE ReplyInv'
  <2>1. CASE Emit(e)
    BY <2>1, EmitReply
  <2>2. CASE EffectWorks(e)
    <3>1. Fine(e)
      BY <1>1 DEF Working
    <3>2. model' = model /\ inbox' = inbox
      BY <1>1, <2>2, <3>1, EffectWorksStep DEF quiet
    <3>3. QED
      BY <1>1, <2>2, <3>1, <3>2, WorkSpeaks, SpeaksReply
  <2>3. CASE EffectFails(e)
    <3>1. e.pc # "emit" /\ Speaks(e) /\ model' = model /\ inbox' = inbox
      BY <2>3 DEF EffectFails, Ends, Speaks
    <3>2. QED
      BY <3>1, SpeaksReply
  <2>4. QED
    BY <1>4, <2>1, <2>2, <2>3 DEF EffectStep, EffectWorks
<1>5. CASE StartTurn
  <2>1. model' = [model EXCEPT !.status = "awaiting-agent"] /\ UNCHANGED <<inbox, effects>>
    BY <1>5 DEF StartTurn
  <2>2. model'.jobs = model.jobs /\ model'.outbox = model.outbox /\ model'.refs = model.refs
    BY <1>1, <2>1 DEF ModelType
  <2>3. QED
    BY <1>1, <2>1, <2>2, OutsideReply
<1>6. ASSUME NEW o \in world.plan.outcomes, EndTurn(o) PROVE ReplyInv'
  <2>1. PICK m : m = Message("agent-run-finished", world.turn, "", 0)
    OBVIOUS
  <2>2. inbox' = Append(inbox, m) /\ UNCHANGED <<model, effects>>
    BY <1>6, <2>1 DEF EndTurn
  <2>3. world.turn \in 0..MaxTurns
    BY <1>1 DEF Types, WorldType
  <2>4. m \in MessageType /\ Plain(m)
    BY <2>1, <2>3 DEF Message, MessageType, Tag, Plain
  <2>5. QED
    BY <1>1, <2>2, <2>4, OutsideReply
<1>7. CASE UserFinishes
  <2>1. PICK m : m = Message("finish-task", 0, "", 0)
    OBVIOUS
  <2>2. inbox' = Append(inbox, m) /\ UNCHANGED <<model, effects>>
    BY <1>7, <2>1 DEF UserFinishes
  <2>3. m \in MessageType /\ Plain(m)
    BY <2>1, Bounds DEF Message, MessageType, Tag, Plain
  <2>4. QED
    BY <1>1, <2>2, <2>3, OutsideReply
<1>8. ASSUME NEW d \in Domains, OperatorSetsReplyFrom(d) PROVE ReplyInv'
  <2>1. PICK m : m = Message("set-reply-from", 0, d, 0)
    OBVIOUS
  <2>2. inbox' = Append(inbox, m) /\ UNCHANGED <<model, effects>>
    BY <1>8, <2>1 DEF OperatorSetsReplyFrom
  <2>3. m \in MessageType /\ Plain(m)
    BY <2>1, Bounds DEF Message, MessageType, Tag, Plain
  <2>4. QED
    BY <1>1, <2>2, <2>3, OutsideReply
<1>9. CASE Restart
  <2>1. inbox' = <<>> /\ effects' = {} /\ model' = model
    BY <1>9 DEF Restart
  <2>2. Referenced'
    BY <2>1 DEF ReplyInv, Referenced
  <2>3. DOMAIN inbox' = {}
    BY <2>1
  <2>4. QED
    BY <2>1, <2>2, <2>3 DEF ReplyInv, Telling, Promised, Kept
<1>10. CASE UNCHANGED vars
  <2>1. model' = model /\ inbox' = inbox /\ effects' = effects
    BY <1>10 DEF vars
  <2>2. QED
    BY <1>1, <2>1, OutsideReply
<1>11. QED
  BY <1>2, <1>3, <1>4, <1>5, <1>6, <1>7, <1>8, <1>9, <1>10 DEF Next

\* In every behaviour a reply is announced before its job is cleared.
LEMMA ReplyInvariance == Spec => []ReplyInv
<1>1. Init => ReplyInv
  <2>1. Init => Referenced
    BY DEF Init, Referenced
  <2>2. QED
    BY <2>1, NothingSaid DEF Init
<1>2. Inv /\ ReplyInv /\ [Next]_vars => ReplyInv'
  BY NextReply
<1>3. QED
  BY <1>1, <1>2, Invariance, PTL DEF Spec

\* A reply's Message-ID is a reference of its task before the reply is queued, and
\* a run has one reply, for as long as replies come from one mail domain.
THEOREM AnswersThread ==
  ASSUME Domains = {FirstDomain}
  PROVE  Spec => []RepliesThread
<1>1. Inv /\ ReplyInv => RepliesThread
  <2> SUFFICES ASSUME Inv, ReplyInv PROVE RepliesThread
    OBVIOUS
  <2>1. model.outbox \subseteq EntryType
    BY DEF Inv, Types, ModelType
  <2>2. \A e, f \in model.outbox : f.mid[1] = e.mid[1] => f.mid = e.mid
    BY <2>1 DEF EntryType, MessageID
  <2>3. \A e, f \in model.outbox : f.mid = e.mid => f = e
    BY DEF Inv, Rows
  <2>4. QED
    BY <2>2, <2>3 DEF ReplyInv, Referenced, RepliesThread
<1>2. QED
  BY <1>1, Invariance, ReplyInvariance, PTL

-----------------------------------------------------------------------------
(***************************************************************************)
(* Harvest implements Delivery.  The stage of a reply depends on what is   *)
(* owed and what is in the outbox alone.                                   *)
(***************************************************************************)
StageOf(jobs, outbox, r) ==
  IF \E e \in outbox : e.mid[1] = r /\ e.sent THEN "sent"
  ELSE IF \E e \in outbox : e.mid[1] = r THEN "queued"
  ELSE IF Job(r, "reply") \in jobs \/ Job(r, "request") \in jobs THEN "owed"
  ELSE "none"

Stages == [r \in Run |-> Stage(r)]
Accepted == [r \in Run |-> [d \in Domains |-> handed[<<r, d>>]]]

\* The stage before and after a step.
LEMMA StageSeen ==
  ASSUME NEW r
  PROVE  /\ Stage(r) = StageOf(model.jobs, model.outbox, r)
         /\ Stage(r)' = StageOf(model'.jobs, model'.outbox, r)
<1>1. Stage(r) = StageOf(model.jobs, model.outbox, r)
  <2>1. CASE \E e \in model.outbox : e.mid[1] = r /\ e.sent
    BY <2>1 DEF Stage, StageOf, Queued
  <2>2. CASE (\E e \in model.outbox : e.mid[1] = r) /\ ~ \E e \in model.outbox : e.mid[1] = r /\ e.sent
    BY <2>2 DEF Stage, StageOf, Queued
  <2>3. CASE ~ \E e \in model.outbox : e.mid[1] = r
    BY <2>3 DEF Stage, StageOf, Queued
  <2>4. QED
    BY <2>1, <2>2, <2>3
<1>2. Stage(r)' = StageOf(model'.jobs, model'.outbox, r)
  <2>1. CASE \E e \in model'.outbox : e.mid[1] = r /\ e.sent
    BY <2>1 DEF Stage, StageOf, Queued
  <2>2. CASE (\E e \in model'.outbox : e.mid[1] = r) /\ ~ \E e \in model'.outbox : e.mid[1] = r /\ e.sent
    BY <2>2 DEF Stage, StageOf, Queued
  <2>3. CASE ~ \E e \in model'.outbox : e.mid[1] = r
    BY <2>3 DEF Stage, StageOf, Queued
  <2>4. QED
    BY <2>1, <2>2, <2>3
<1>3. QED
  BY <1>1, <1>2

\* A step that takes one run's reply from one stage to another.
LEMMA OneMoves ==
  ASSUME NEW r \in Run, NEW x, NEW y,
         StageOf(model.jobs, model.outbox, r) = x, StageOf(model'.jobs, model'.outbox, r) = y,
         \A q \in Run : q # r => StageOf(model'.jobs, model'.outbox, q)
                                   = StageOf(model.jobs, model.outbox, q)
  PROVE  Stages[r] = x /\ Stages' = [Stages EXCEPT ![r] = y]
<1>1. Stage(r) = x /\ Stage(r)' = y
  BY StageSeen
<1>2. \A q \in Run : q # r => Stage(q)' = Stage(q)
  BY StageSeen
<1>3. QED
  BY <1>1, <1>2 DEF Stages

\* A step that takes no reply to another stage.
LEMMA NoneMoves ==
  ASSUME \A q \in Run : StageOf(model'.jobs, model'.outbox, q)
                          = StageOf(model.jobs, model.outbox, q)
  PROVE  Stages' = Stages
<1>1. \A q \in Run : Stage(q)' = Stage(q)
  BY StageSeen
<1>2. QED
  BY <1>1 DEF Stages

\* Under one domain a run has one Message-ID, and one entry of the outbox.
LEMMA OneEntry ==
  ASSUME Inv, Domains = {FirstDomain}
  PROVE  /\ \A i \in MessageID : i = <<i[1], FirstDomain>> /\ i[1] \in Run
         /\ \A e \in model.outbox : e.mid \in MessageID
         /\ \A e, f \in model.outbox : f.mid[1] = e.mid[1] => f = e
<1>1. \A i \in MessageID : i = <<i[1], FirstDomain>> /\ i[1] \in Run
  BY DEF MessageID
<1>2. \A e \in model.outbox : e.mid \in MessageID
  BY DEF Inv, Types, ModelType, EntryType
<1>3. \A e, f \in model.outbox : f.mid[1] = e.mid[1] => f.mid = e.mid
  BY <1>1, <1>2
<1>4. QED
  BY <1>1, <1>2, <1>3 DEF Inv, Rows

\* A mail some message or effect is for is queued and not known as sent.
LEMMA MailPending ==
  ASSUME Inv, NEW k, MailSource(k) \in Desired(model)
  PROVE  \E e \in model.outbox : e.id = k /\ ~e.sent
<1>1. \A j : SourceJob(j) # MailSource(k)
  <2>1. ASSUME NEW j PROVE SourceJob(j) # MailSource(k)
    <3>1. SourceJob(j).of = "harvest" /\ MailSource(k).of = "send-email"
      BY DEF SourceJob, MailSource
    <3>2. QED
      BY <3>1
  <2>2. QED
    BY <2>1
<1>2. PICK e \in model.outbox : ~e.sent /\ SourceMail(e) = MailSource(k)
  BY <1>1 DEF Desired
<1>3. e.id = k
  BY <1>2 DEF SourceMail, MailSource
<1>4. QED
  BY <1>2, <1>3

\* The jobs of other runs, or of another kind, say nothing of a run's stage.
LEMMA SameStage ==
  ASSUME NEW r, NEW jobs, NEW more, NEW outbox,
         \/ \E e \in outbox : e.mid[1] = r
         \/ (Job(r, "reply") \in jobs \/ Job(r, "request") \in jobs)
              <=> (Job(r, "reply") \in more \/ Job(r, "request") \in more)
  PROVE  StageOf(more, outbox, r) = StageOf(jobs, outbox, r)
BY DEF StageOf

\* What the provider has is as it was when nothing was handed over.
LEMMA AcceptedSame == ASSUME handed' = handed PROVE Accepted' = Accepted
BY DEF Accepted

\* The reducer's turn moves one reply a stage on, or none.
LEMMA ReduceDelivers ==
  ASSUME Inv, ReplyInv, Domains = {FirstDomain}, Reduce
  PROVE  Abstract!Next \/ UNCHANGED <<Stages, Accepted>>
<1>1. PICK m : m = Head(inbox)
  OBVIOUS
<1>2. /\ Types /\ Delivered /\ Rows /\ Chains /\ inbox # <<>> /\ inbox' = Tail(inbox)
      /\ model \in ModelType /\ handed' = handed
  BY <1>1 DEF Inv, Types, Reduce, outside
<1>3. 1 \in DOMAIN inbox /\ m = inbox[1] /\ m \in MessageType
  BY <1>1, <1>2, TailTakes
<1>4. Sound(m)
  BY <1>2, <1>3 DEF Delivered
<1>5. PICK t : t = Update(model, m) /\ t = model'
  BY <1>1 DEF Reduce
<1>6. Accepted' = Accepted
  BY <1>2, AcceptedSame
<1> DEFINE Now(q) == StageOf(model.jobs, model.outbox, q)
           Then(q) == StageOf(t.jobs, t.outbox, q)
<1>7. ASSUME NEW r \in Run, Now(r) = "none", Then(r) = "owed",
             \A q \in Run : q # r => Then(q) = Now(q)
      PROVE  Abstract!Next
  <2>1. Stages[r] = "none" /\ Stages' = [Stages EXCEPT ![r] = "owed"]
    BY <1>5, <1>7, OneMoves
  <2>2. QED
    BY <1>6, <2>1 DEF Abstract!Next, Abstract!Owe, Abstract!Moves, Stages, Accepted
<1>8. ASSUME \A q \in Run : Then(q) = Now(q) PROVE UNCHANGED <<Stages, Accepted>>
  BY <1>5, <1>6, <1>8, NoneMoves
<1>9. CASE m.tag = "agent-run-finished"
  <2>1. PICK o : o = world.ended[m.run] /\ t = AgentRunFinished(model, m.run, o)
    BY <1>5, <1>9 DEF Update
  <2>2. t.jobs = model.jobs \cup {Job(m.run, k) : k \in Owed(o)} /\ t.outbox = model.outbox
    BY <1>2, <2>1 DEF AgentRunFinished, ModelType
  <2>3. m.run \in Run
    BY <1>4, <1>9 DEF Sound
  <2>4. \A q, k, l : Job(q, k) = Job(m.run, l) => q = m.run
    BY DEF Job
  <2>5. \A q \in Run : q # m.run => Then(q) = Now(q)
    BY <2>2, <2>4, SameStage
  <2>6. Then(m.run) = Now(m.run) \/ (Now(m.run) = "none" /\ Then(m.run) = "owed")
    BY <2>2 DEF StageOf
  <2> HIDE DEF Now, Then
  <2>7. QED
    BY <1>7, <1>8, <2>3, <2>5, <2>6
<1>10. CASE m.tag = "mark-harvested"
  <2>1. t.jobs = model.jobs \ {Job(m.run, m.name)} /\ t.outbox = model.outbox
    BY <1>2, <1>5, <1>10 DEF Update, MarkHarvestedHandler, ModelType
  <2>2. m.run \in Run /\ m.name \in Kind /\ m.name # "request"
    BY <1>3, <1>4, <1>10 DEF Sound, ReplyInv, Kept
  <2>3. \A q, k : Job(q, k) = Job(m.run, m.name) => q = m.run /\ k = m.name
    BY DEF Job
  <2>4. CASE m.name = "reply"
    <3>1. Settles(inbox[1], m.run)
      BY <1>3, <1>10, <2>4 DEF Settles
    <3>2. \A i \in DOMAIN inbox : ~(i < 1)
      <4>1. inbox \in Seq(MessageType)
        BY <1>2 DEF Types
      <4>2. DOMAIN inbox = 1..Len(inbox) /\ Len(inbox) \in Nat
        BY <4>1
      <4>3. QED
        BY <4>2
    <3>3. Queued(m.run)
      BY <1>3, <2>2, <3>1, <3>2 DEF ReplyInv, Kept
    <3>4. \A q \in Run : Then(q) = Now(q)
      BY <2>1, <2>3, <3>3, SameStage DEF Queued
    <3>5. QED
      BY <1>8, <3>4
  <2>5. CASE m.name # "reply"
    <3>1. \A q \in Run : Then(q) = Now(q)
      BY <2>1, <2>2, <2>3, <2>5, SameStage
    <3>2. QED
      BY <1>8, <3>1
  <2>6. QED
    BY <2>4, <2>5
<1>11. CASE m.tag = "register-ui-request"
  <2>1. t = RegisterUIRequest(model, m.run)
    BY <1>5, <1>11 DEF Update
  <2>2. /\ t.jobs = (model.jobs \ {Job(m.run, "request")}) \cup {Job(m.run, "reply")}
        /\ t.outbox = model.outbox
    BY <1>2, <2>1 DEF RegisterUIRequest, ModelType
  <2>3. m.run \in Run
    BY <1>4, <1>11 DEF Sound
  <2>4. \A q, k, l : Job(q, k) = Job(m.run, l) => q = m.run
    BY DEF Job
  <2>5. \A q \in Run : q # m.run => Then(q) = Now(q)
    BY <2>2, <2>4, SameStage
  <2>6. Then(m.run) = Now(m.run) \/ (Now(m.run) = "none" /\ Then(m.run) = "owed")
    BY <2>2 DEF StageOf
  <2> HIDE DEF Now, Then
  <2>7. QED
    BY <1>7, <1>8, <2>3, <2>5, <2>6
<1>12. CASE m.tag = "mark-reply-queued"
  <2>1. PICK mid : mid = store.rows[m.id].mid
    OBVIOUS
  <2>2. t = MarkReplyQueued(model, m.id, mid)
    BY <1>5, <1>12, <2>1 DEF Update
  <2>3. m.run \in Run /\ mid[1] = m.run /\ mid \in MessageID
    BY <1>2, <1>3, <1>4, <1>12, <2>1, NamesRow DEF Sound
  <2>4. CASE \E e \in model.outbox : e.id = m.id \/ e.mid = mid
    BY <1>8, <2>2, <2>4 DEF MarkReplyQueued
  <2>5. CASE ~ \E e \in model.outbox : e.id = m.id \/ e.mid = mid
    <3>1. PICK e : e = [id |-> m.id, mid |-> mid, sent |-> FALSE]
      OBVIOUS
    <3>2. t.outbox = model.outbox \cup {e} /\ t.jobs = model.jobs
      BY <1>2, <2>2, <2>5, <3>1 DEF MarkReplyQueued, ModelType
    <3>3. e.mid = mid /\ ~e.sent
      BY <3>1
    <3>4. \A f \in model.outbox : f.mid[1] # m.run
      <4>1. \A f \in model.outbox : f.mid \in MessageID
        BY OneEntry
      <4>2. \A f \in model.outbox : f.mid[1] = m.run => f.mid = mid
        BY <2>3, <4>1, OneEntry
      <4>3. QED
        BY <2>5, <4>2
    <3>5. Queues(inbox[1], m.run)
      BY <1>3, <1>12 DEF Queues
    <3>6. Job(m.run, "reply") \in model.jobs
      BY <1>3, <2>3, <3>5, ReplyOwed
    <3>7. Now(m.run) = "owed" /\ Then(m.run) = "queued"
      BY <2>3, <3>2, <3>3, <3>4, <3>6 DEF StageOf
    <3>8. \A q \in Run : q # m.run => Then(q) = Now(q)
      BY <2>3, <3>2, <3>3 DEF StageOf
    <3>9. Stages[m.run] = "owed" /\ Stages' = [Stages EXCEPT ![m.run] = "queued"]
      BY <1>5, <2>3, <3>7, <3>8, OneMoves
    <3>10. QED
      BY <1>6, <2>3, <3>9 DEF Abstract!Next, Abstract!Queue, Abstract!Moves, Stages, Accepted
  <2>6. QED
    BY <2>4, <2>5
<1>13. CASE m.tag = "mark-email-sent"
  <2>1. t = MarkEmailSent(model, m.id)
    BY <1>5, <1>13 DEF Update
  <2>2. /\ t.jobs = model.jobs
        /\ t.outbox = {IF e.id = m.id THEN [e EXCEPT !.sent = TRUE] ELSE e : e \in model.outbox}
    BY <1>2, <2>1 DEF MarkEmailSent, ModelType
  <2>3. MailSource(m.id) \in Desired(model)
    <3>1. For(m) = MailSource(m.id) /\ MailSource(m.id) # NoSource
      <4>1. MailSource(m.id).of = "send-email" /\ NoSource.of = "none"
        BY DEF MailSource, NoSource
      <4>2. QED
        BY <1>13, <4>1 DEF For
    <3>2. QED
      BY <1>2, <1>3, <3>1 DEF Chains
  <2>4. PICK e \in model.outbox : e.id = m.id /\ ~e.sent
    BY <2>3, MailPending
  <2>5. PICK r \in Run : e.mid = <<r, FirstDomain>> /\ e.mid[1] = r
    BY OneEntry
  <2>6. PICK g : g = [e EXCEPT !.sent = TRUE]
    OBVIOUS
  <2>7. e \in EntryType
    BY <1>2 DEF ModelType
  <2>8. g.mid = e.mid /\ g.sent /\ g.id = e.id
    BY <2>6, <2>7 DEF EntryType
  <2>9. \A f \in model.outbox : f # e => f.id # m.id /\ f.mid[1] # r
    BY <1>2, <2>4, <2>5, OneEntry DEF Rows
  <2>10. t.outbox = (model.outbox \ {e}) \cup {g}
    <3> DEFINE Mark(f) == IF f.id = m.id THEN [f EXCEPT !.sent = TRUE] ELSE f
    <3>1. Mark(e) = g
      BY <2>4, <2>6
    <3>2. ASSUME NEW f \in model.outbox, f # e PROVE Mark(f) = f
      BY <2>9, <3>2
    <3>3. t.outbox = {Mark(f) : f \in model.outbox}
      BY <2>2
    <3> HIDE DEF Mark
    <3>4. QED
      BY <3>1, <3>2, <3>3
  <2>11. Now(r) = "queued" /\ Then(r) = "sent"
    BY <2>4, <2>5, <2>8, <2>9, <2>10 DEF StageOf
  <2>12. \A q \in Run : q # r => Then(q) = Now(q)
    BY <2>2, <2>5, <2>8, <2>10 DEF StageOf
  <2>13. Stages[r] = "queued" /\ Stages' = [Stages EXCEPT ![r] = "sent"]
    BY <1>5, <2>11, <2>12, OneMoves
  <2>14. Accepted[r][FirstDomain] > 0 /\ FirstDomain \in Domains
    <3>1. e.mid = store.rows[m.id].mid
      BY <1>2, <2>4 DEF Rows
    <3>2. handed[<<r, FirstDomain>>] > 0
      BY <1>4, <1>13, <2>5, <3>1 DEF Sound
    <3>3. QED
      BY <3>2 DEF Accepted
  <2>15. QED
    BY <1>6, <2>13, <2>14 DEF Abstract!Next, Abstract!MarkSent, Abstract!Moves, Stages, Accepted
<1>14. CASE m.tag \notin {"agent-run-finished", "mark-harvested", "register-ui-request",
                          "mark-reply-queued", "mark-email-sent"}
  <2>1. t.jobs = model.jobs /\ t.outbox = model.outbox
    BY <1>2, <1>5, <1>14 DEF Update, ModelType
  <2>2. QED
    BY <1>8, <2>1
<1>15. QED
  BY <1>9, <1>10, <1>11, <1>12, <1>13, <1>14

\* A mail handed over is one whose reply is queued and not known as sent.
LEMMA SubmitDelivers ==
  ASSUME Inv, Domains = {FirstDomain}, NEW e \in effects, Submit(e)
  PROVE  Abstract!Next
<1>1. /\ Types /\ Rows /\ Chains /\ Fine(e) /\ handed \in [MessageID -> Nat]
  BY DEF Inv, Types, Working
<1>2. e.kind = "send-email" /\ e.id \in DOMAIN store.rows /\ model' = model
  BY <1>1 DEF Submit, At, Fine, quiet
<1>3. MailSource(e.id) \in Desired(model)
  <2>1. Of(e) = MailSource(e.id) /\ MailSource(e.id) # NoSource
    <3>1. MailSource(e.id).of = "send-email" /\ NoSource.of = "none"
      BY DEF MailSource, NoSource
    <3>2. QED
      BY <1>2, <3>1 DEF Of
  <2>2. QED
    BY <1>1, <2>1 DEF Chains
<1>4. PICK f \in model.outbox : f.id = e.id /\ ~f.sent
  BY <1>3, MailPending
<1>5. PICK r \in Run : f.mid = <<r, FirstDomain>> /\ f.mid[1] = r
  BY OneEntry
<1>6. store.rows[e.id].mid = <<r, FirstDomain>>
  BY <1>1, <1>4, <1>5 DEF Rows
<1>7. handed' = [handed EXCEPT ![<<r, FirstDomain>>] = @ + 1]
  BY <1>6 DEF Submit
<1>8. StageOf(model.jobs, model.outbox, r) = "queued"
  BY <1>4, <1>5, OneEntry DEF StageOf
<1>9. Stages[r] = "queued" /\ Stages' = Stages
  <2>1. Stages' = Stages
    BY <1>2, NoneMoves
  <2>2. QED
    BY <1>8, <2>1, StageSeen DEF Stages
<1>10. FirstDomain \in Domains /\ \A q \in Run : <<q, FirstDomain>> \in MessageID
  BY HarvestAssumption DEF MessageID
<1>11. Accepted' = [Accepted EXCEPT ![r][FirstDomain] = @ + 1]
  <2>1. ASSUME NEW q \in Run
        PROVE  handed'[<<q, FirstDomain>>] = IF q = r THEN handed[<<q, FirstDomain>>] + 1
                                                      ELSE handed[<<q, FirstDomain>>]
    BY <1>1, <1>7, <1>10
  <2>2. Accepted = [q \in Run |-> [d \in {FirstDomain} |-> handed[<<q, d>>]]]
    BY DEF Accepted
  <2>3. Accepted' = [q \in Run |-> [d \in {FirstDomain} |-> handed'[<<q, d>>]]]
    BY DEF Accepted
  <2>4. QED
    BY <2>1, <2>2, <2>3
<1>12. QED
  BY <1>9, <1>10, <1>11 DEF Abstract!Next, Abstract!Accept, Stages, Accepted

\* Every step maps to a step of the abstract specification, or to a stutter.
LEMMA DeliveryStep ==
  ASSUME Inv, ReplyInv, Domains = {FirstDomain}, [Next]_vars
  PROVE  [Abstract!Next]_<<Stages, Accepted>>
<1> SUFFICES Abstract!Next \/ UNCHANGED <<Stages, Accepted>>
  OBVIOUS
<1>1. model \in ModelType
  BY DEF Inv, Types
<1>2. ASSUME model'.jobs = model.jobs, model'.outbox = model.outbox, handed' = handed
      PROVE  UNCHANGED <<Stages, Accepted>>
  BY <1>2, NoneMoves, AcceptedSame
<1>3. CASE Reduce
  BY <1>3, ReduceDelivers
<1>4. ASSUME NEW i \in unsent, Fire(i) PROVE UNCHANGED <<model, handed>>
  BY <1>4 DEF Fire, outside
<1>5. ASSUME NEW e \in effects, EffectStep(e) \/ EffectFails(e)
      PROVE  Abstract!Next \/ UNCHANGED <<model, handed>>
  <2>1. CASE Submit(e)
    BY <2>1, SubmitDelivers
  <2>2. CASE EffectFails(e)
    BY <2>2 DEF EffectFails, outside
  <2>3. CASE EffectStep(e) /\ ~Submit(e)
    BY <2>3 DEF EffectStep, CaptureTranscript, ReadFiles, CaptureMemory, StoreSkill,
                MintUIRequest, AssembleReply, MarkOutboxSent, ArchiveFiles,
                CheckCovered, RemoveWorkspace, DeleteManifest, Emit, quiet, outside
  <2>4. QED
    BY <1>5, <2>1, <2>2, <2>3
<1>6. CASE StartTurn
  <2>1. model' = [model EXCEPT !.status = "awaiting-agent"] /\ handed' = handed
    BY <1>6 DEF StartTurn
  <2>2. QED
    BY <1>1, <1>2, <2>1 DEF ModelType
<1>7. ASSUME NEW o \in world.plan.outcomes, EndTurn(o) PROVE UNCHANGED <<model, handed>>
  BY <1>7 DEF EndTurn
<1>8. CASE UserFinishes \/ \E d \in Domains : OperatorSetsReplyFrom(d)
  BY <1>2, <1>8 DEF UserFinishes, OperatorSetsReplyFrom
<1>9. CASE Restart \/ UNCHANGED vars
  BY <1>2, <1>9 DEF Restart, outside, vars
<1>10. QED
  BY <1>2, <1>3, <1>4, <1>5, <1>6, <1>7, <1>8, <1>9 DEF Next

\* The initial states map to initial states of the abstract specification.
LEMMA DeliveryInit == Init => Abstract!Init
<1> SUFFICES ASSUME Init PROVE Abstract!Init
  OBVIOUS
<1>1. model.jobs = {} /\ model.outbox = {}
  BY DEF Init
<1>2. \A r \in Run : Stage(r) = "none"
  BY <1>1, StageSeen DEF StageOf
<1>3. \A r \in Run, d \in Domains : handed[<<r, d>>] = 0
  BY DEF Init, MessageID
<1>4. QED
  BY <1>2, <1>3 DEF Abstract!Init

\* Harvest implements Delivery: whatever the crashes, failures and overlapping
\* turns, a run's reply is owed, queued and sent in that order, and never handed
\* over again once known as sent, for as long as replies come from one mail
\* domain.
THEOREM DeliveryIsImplemented ==
  ASSUME Domains = {FirstDomain}
  PROVE  Spec => RefinesDelivery
<1>1. Inv /\ ReplyInv /\ [Next]_vars => [Abstract!Next]_<<Stages, Accepted>>
  BY DeliveryStep
<1>2. Spec => [][Abstract!Next]_<<Stages, Accepted>>
  BY <1>1, Invariance, ReplyInvariance, PTL DEF Spec
<1>3. QED
  BY <1>2, DeliveryInit, PTL
     DEF Spec, RefinesDelivery, Abstract!Spec, Abstract!vars, Stages, Accepted

-----------------------------------------------------------------------------
(***************************************************************************)
(* The shapes of a step.  What the rest of the proofs need of most steps   *)
(* is which messages come to the channel, which effects go on and which    *)
(* state stays.                                                            *)
(***************************************************************************)
Tagged(tags) == {m \in MessageType : m.tag \in tags}

\* What the sources and the operator send.
Signals == {"run-harvest", "send-outbox", "set-reply-from"}

\* A step that moves no workspace, store, job or turn: effects may be over, a
\* signal may come, the channel may be lost.
Idle ==
  /\ effects' \subseteq effects
  /\ UNCHANGED <<model, ws, store, handed>>
  /\ world' \in WorldType
  /\ world'.plan = world.plan /\ world'.turn = world.turn /\ world'.running = world.running
  /\ world'.ended = world.ended /\ world'.finishes = world.finishes
  /\ \/ inbox' = inbox
     \/ inbox' = <<>> /\ effects' = {}
     \/ \E m \in Tagged(Signals) : inbox' = Append(inbox, m)

\* Every step has one of seven shapes.
LEMMA Shapes ==
  ASSUME Inv, [Next]_vars
  PROVE  \/ Reduce
         \/ \E e \in effects : EffectWorks(e)
         \/ \E e \in effects : Emit(e)
         \/ Idle
         \/ StartTurn
         \/ \E o \in world.plan.outcomes : EndTurn(o)
         \/ UserFinishes
<1>1. Types /\ world \in WorldType /\ unsent \subseteq SourceType
  BY DEF Inv, Types
<1>2. ASSUME NEW i \in unsent, Fire(i) PROVE Idle
  <2>1. PICK m : m = Prompt(i)
    OBVIOUS
  <2>2. m \in MessageType /\ m.tag \in Signals
    BY <1>1, <2>1, PromptOf DEF Message, Prompt, Signals
  <2>3. m \in Tagged(Signals)
    BY <2>2 DEF Tagged
  <2>4. /\ inbox' = Append(inbox, m)
        /\ UNCHANGED <<model, effects, ws, store, handed, world>>
    BY <1>2, <2>1 DEF Fire, outside
  <2>5. QED
    BY <1>1, <2>3, <2>4 DEF Idle
<1>3. ASSUME NEW e \in effects, EffectFails(e) PROVE Idle
  BY <1>1, <1>3 DEF EffectFails, Ends, outside, Idle
<1>4. ASSUME NEW d \in Domains, OperatorSetsReplyFrom(d) PROVE Idle
  <2>1. PICK m : m = Message("set-reply-from", 0, d, 0)
    OBVIOUS
  <2>2. m \in MessageType /\ m.tag \in Signals
    BY <2>1, Bounds DEF Message, MessageType, Tag, Signals
  <2>3. m \in Tagged(Signals)
    BY <2>2 DEF Tagged
  <2>4. /\ inbox' = Append(inbox, m) /\ world' = [world EXCEPT !.domains = 1]
        /\ UNCHANGED <<model, effects, ws, store, handed>>
    BY <1>4, <2>1 DEF OperatorSetsReplyFrom
  <2>5. /\ world' \in WorldType
        /\ world'.plan = world.plan /\ world'.turn = world.turn
        /\ world'.running = world.running
        /\ world'.ended = world.ended /\ world'.finishes = world.finishes
    BY <1>1, <2>4 DEF WorldType
  <2>6. QED
    BY <2>3, <2>4, <2>5 DEF Idle
<1>5. CASE Restart
  BY <1>1, <1>5 DEF Restart, outside, Idle
<1>6. CASE UNCHANGED vars
  BY <1>1, <1>6 DEF vars, Idle
<1>7. ASSUME NEW e \in effects, EffectStep(e) PROVE EffectWorks(e) \/ Emit(e)
  BY <1>7 DEF EffectStep, EffectWorks
<1>8. QED
  BY <1>2, <1>3, <1>4, <1>5, <1>6, <1>7 DEF Next

\* What an idle step brings to the channel: nothing but signals.
LEMMA IdleHas ==
  ASSUME Types, Idle, NEW K, K \cap Tagged(Signals) = {}
  PROVE  /\ Has(inbox', K) => Has(inbox, K)
         /\ Once(inbox, K) => Once(inbox', K)
         /\ \A L : Before(inbox, L, K) => Before(inbox', L, K)
<1>1. inbox \in Seq(MessageType)
  BY DEF Types
<1>2. CASE inbox' = inbox
  BY <1>2
<1>3. CASE inbox' = <<>>
  <2>1. DOMAIN inbox' = {}
    BY <1>3
  <2>2. QED
    BY <2>1 DEF Has, Once, Before
<1>4. CASE \E m \in Tagged(Signals) : inbox' = Append(inbox, m)
  <2>1. PICK m \in Tagged(Signals) : inbox' = Append(inbox, m)
    BY <1>4
  <2>2. m \in MessageType /\ m \notin K
    BY DEF Tagged
  <2>3. (Has(inbox', K) => Has(inbox, K)) /\ (Once(inbox, K) => Once(inbox', K))
    BY <1>1, <2>1, <2>2, AppendHas
  <2>4. ASSUME NEW L, Before(inbox, L, K) PROVE Before(inbox', L, K)
    BY <1>1, <2>1, <2>2, <2>4, BeforeAppend
  <2>5. QED
    BY <2>3, <2>4
<1>5. QED
  BY <1>2, <1>3, <1>4 DEF Idle

\* The reducer's turn: the first message is taken, its handler applied, its
\* command started; the disk, the store and the turns stay.
LEMMA Turning ==
  ASSUME Inv, Reduce
  PROVE  \E m \in MessageType :
           /\ m = inbox[1] /\ 1 \in DOMAIN inbox /\ inbox # <<>> /\ inbox' = Tail(inbox)
           /\ Sound(m) /\ Update(model, m) \in ModelType
           /\ model' = Update(model, m) /\ effects' = effects \cup Commands(model, m)
           /\ UNCHANGED <<ws, store, handed, world>>
<1>1. Types /\ Delivered /\ inbox # <<>> /\ inbox' = Tail(inbox)
  BY DEF Inv, Reduce
<1>2. /\ 1 \in DOMAIN inbox /\ Head(inbox) = inbox[1]
      /\ Head(inbox) \in MessageType
  BY <1>1, TailTakes
<1>3. PICK m \in MessageType : m = Head(inbox)
  BY <1>2
<1>4. Sound(m)
  BY <1>1, <1>2, <1>3 DEF Delivered
<1>5. Update(model, m) \in ModelType
  BY <1>1, <1>4, UpdateType
<1>6. /\ model' = Update(model, m) /\ effects' = effects \cup Commands(model, m)
      /\ UNCHANGED <<ws, store, handed, world>>
  BY <1>3 DEF Reduce, outside
<1>7. QED
  BY <1>1, <1>2, <1>3, <1>4, <1>5, <1>6

\* What taking the first message leaves in the channel.
LEMMA TakenHas ==
  ASSUME Types, inbox # <<>>, inbox' = Tail(inbox), NEW K
  PROVE  /\ Has(inbox', K) => Has(inbox, K)
         /\ Once(inbox, K) => Once(inbox', K)
         /\ inbox[1] \in K => Has(inbox, K) /\ (Once(inbox, K) => ~Has(inbox', K))
<1>1. inbox \in Seq(MessageType) /\ 1 \in DOMAIN inbox
  BY TailTakes DEF Types
<1>2. Less(inbox', inbox, 1)
  BY <1>1, TailLess
<1>3. QED
  BY <1>1, <1>2, LessHas DEF Has

\* A message that comes last.
LEMMA ComesHas ==
  ASSUME Types, NEW m \in MessageType, inbox' = Append(inbox, m), NEW K
  PROVE  /\ Has(inbox', K) <=> Has(inbox, K) \/ m \in K
         /\ Once(inbox, K) /\ (m \notin K \/ ~Has(inbox, K)) => Once(inbox', K)
<1>1. inbox \in Seq(MessageType)
  BY DEF Types
<1>2. QED
  BY <1>1, AppendHas

\* An effect goes on as the same effect or ends, its successor at least one step
\* further.
Same(e, f) == /\ f.kind = e.kind /\ f.run = e.run /\ f.id = e.id
              /\ f.domain = e.domain /\ f.link = e.link
Advances(e) ==
  \E F \in SUBSET EffectType :
    /\ effects' = (effects \ {e}) \cup F
    /\ \A f \in F : Same(e, f) /\ f.pc # "start" /\ F = {f}

\* What an effect may say, by its kind.
Utters(e, m) ==
  \/ /\ e.kind \in {"capture-transcript", "store-skill", "capture-memory", "assemble-reply"}
     /\ m = MarkHarvested(e.run, KindOf(e))
  \/ e.kind = "capture-memory" /\ m.tag \in {"remember", "forget"}
  \/ e.kind = "store-skill" /\ m.tag = "register-skill"
  \/ e.kind = "mint-ui-request" /\ m = Message("register-ui-request", e.run, "", 0)
  \/ e.kind = "assemble-reply" /\ m.tag = "mark-reply-queued" /\ m.run = e.run
  \/ e.kind = "send-email" /\ m.tag = "mark-email-sent"
Uttered == \A e \in effects : e.pc = "emit" => \A i \in DOMAIN e.says : Utters(e, e.says[i])

\* The successors of an effect that moves on, fit to say what they say.
Succeeds(e) ==
  /\ Advances(e)
  /\ \A g \in effects' : \/ g \in effects
                         \/ /\ Same(e, g) /\ g.pc # "start"
                            /\ g.pc = "emit" => \A i \in DOMAIN g.says : Utters(g, g.says[i])

\* What an effect utters its successor utters.
LEMMA SameUtters ==
  ASSUME NEW e, NEW f, Same(e, f)
  PROVE  /\ Of(f) = Of(e) /\ KindOf(f) = KindOf(e)
         /\ \A m : Utters(e, m) => Utters(f, m)
BY DEF Same, Of, KindOf, Utters

\* An effect at work that moves on, saying nothing yet.
LEMMA Pausing ==
  ASSUME NEW e \in EffectType, NEW f \in EffectType, Becomes(e, f), Same(e, f),
         f.pc \notin {"start", "emit"}
  PROVE  Succeeds(e)
<1>1. effects' = (effects \ {e}) \cup {f}
  BY DEF Becomes
<1>2. {f} \in SUBSET EffectType
  OBVIOUS
<1>3. \A g \in {f} : Same(e, g) /\ g.pc # "start" /\ {f} = {g}
  OBVIOUS
<1>4. Advances(e)
  BY <1>1, <1>2, <1>3 DEF Advances
<1>5. QED
  BY <1>1, <1>4 DEF Succeeds

\* An effect that ends.
LEMMA Ending == ASSUME NEW e, Ends(e) PROVE Succeeds(e)
<1>1. effects' = (effects \ {e}) \cup {} /\ {} \in SUBSET EffectType
  BY DEF Ends
<1>2. QED
  BY <1>1 DEF Advances, Succeeds

\* The effect an effect becomes when it reports.
LEMMA Reported ==
  ASSUME NEW e \in EffectType, NEW s \in Seq(MessageType), Reports(e, s)
  PROVE  \E f \in EffectType :
           /\ effects' = (effects \ {e}) \cup {f} /\ Same(e, f)
           /\ f.pc = "emit" /\ f.says = s /\ f.out = e.out /\ f.kept = e.kept
<1>1. [e EXCEPT !.pc = "emit", !.says = s] \in EffectType
  BY DEF EffectType
<1>2. PICK f \in EffectType : f = [e EXCEPT !.pc = "emit", !.says = s]
  BY <1>1
<1>3. Same(e, f) /\ f.pc = "emit" /\ f.says = s /\ f.out = e.out /\ f.kept = e.kept
  BY <1>2 DEF EffectType, Same
<1>4. effects' = (effects \ {e}) \cup {f}
  BY <1>2 DEF Reports, Becomes
<1>5. QED
  BY <1>3, <1>4

\* An effect that reports what it may utter.
LEMMA Uttering ==
  ASSUME NEW e \in EffectType, NEW s \in Seq(MessageType), Reports(e, s),
         \A i \in DOMAIN s : Utters(e, s[i])
  PROVE  Succeeds(e)
<1>1. PICK f \in EffectType :
        /\ effects' = (effects \ {e}) \cup {f} /\ Same(e, f) /\ f.pc = "emit" /\ f.says = s
  BY Reported
<1>2. {f} \in SUBSET EffectType
  OBVIOUS
<1>3. \A g \in {f} : Same(e, g) /\ g.pc # "start" /\ {f} = {g}
  BY <1>1
<1>4. Advances(e)
  BY <1>1, <1>2, <1>3 DEF Advances
<1>5. \A i \in DOMAIN f.says : Utters(f, f.says[i])
  BY <1>1, SameUtters
<1>6. QED
  BY <1>1, <1>4, <1>5 DEF Succeeds

\* The elements of one message.
LEMMA OneSays ==
  ASSUME NEW m \in MessageType
  PROVE  <<m>> \in Seq(MessageType) /\ \A i \in DOMAIN <<m>> : <<m>>[i] = m
OBVIOUS

\* The elements of two messages.
LEMMA TwoSays ==
  ASSUME NEW l \in MessageType, NEW m \in MessageType
  PROVE  /\ <<l, m>> \in Seq(MessageType)
         /\ \A i \in DOMAIN <<l, m>> : <<l, m>>[i] = l \/ <<l, m>>[i] = m
<1>1. <<l, m>> \in Seq(MessageType) /\ DOMAIN <<l, m>> = {1, 2}
      /\ <<l, m>>[1] = l /\ <<l, m>>[2] = m
  OBVIOUS
<1>2. QED
  BY <1>1

\* The notes capture-memory says are gone: of the manifest, neither kept nor
\* written again.
Missing(e) == ws.manifest \ (e.kept \cup IF "note" \in Manifest(e.out) THEN {Lesson} ELSE {})

\* What capture-memory reports: the note written, the notes missing, and that it
\* is done.
LEMMA MemorySays ==
  ASSUME Types, NEW e \in effects, Fine(e), CaptureMemory(e)
  PROVE  \E s \in Seq(MessageType) :
           /\ Reports(e, s) /\ s # <<>>
           /\ \A K : Has(s, K) <=>
                \/ "note" \in Manifest(e.out) /\ Message("remember", 0, Lesson, 0) \in K
                \/ \E n \in Missing(e) : Message("forget", 0, n, 0) \in K
                \/ MarkHarvested(e.run, "memory") \in K
<1> DEFINE m == MarkHarvested(e.run, "memory")
           written == IF "note" \in Manifest(e.out) THEN {Lesson} ELSE {}
           lost == SetToSeq(ws.manifest \ (e.kept \cup written))
           A == [i \in 1..Cardinality(written) |-> Message("remember", 0, Lesson, 0)]
           B == [i \in DOMAIN lost |-> Message("forget", 0, lost[i], 0)]
<1>1. e.kind = "capture-memory" /\ e.run \in Run /\ ws \in WorkspaceType
  BY DEF CaptureMemory, At, Fine, Types
<1>2. Reports(e, A \o B \o <<m>>)
  BY DEF CaptureMemory
<1>3. m \in MessageType
  <2>1. "memory" \in Kind
    BY DEF Kind
  <2>2. QED
    BY <1>1, <2>1, ReportsHarvested
<1>4. /\ lost \in Seq(Note)
      /\ \A i \in DOMAIN lost : lost[i] \in Missing(e)
      /\ \A n \in Missing(e) : \E i \in DOMAIN lost : lost[i] = n
  <2>1. ws.manifest \subseteq Note
    BY <1>1 DEF WorkspaceType
  <2>2. IsFiniteSet(Notes \cup {Lesson})
    BY HarvestAssumption, FS_AddElement
  <2>3. IsFiniteSet(ws.manifest \ (e.kept \cup written))
    BY <2>1, <2>2, FS_Subset DEF Note
  <2>4. PICK S : S = ws.manifest \ (e.kept \cup written)
    OBVIOUS
  <2>5. /\ SetToSeq(S) \in Seq(S)
        /\ \A n \in S : \E i \in DOMAIN SetToSeq(S) : SetToSeq(S)[i] = n
    BY <2>3, <2>4, SetToSeqProperties
  <2>6. S \subseteq Note /\ S = Missing(e) /\ lost = SetToSeq(S)
    BY <2>1, <2>4 DEF Missing
  <2>7. SetToSeq(S) \in Seq(Note)
    BY <2>5, <2>6, SeqWider
  <2>8. \A i \in DOMAIN SetToSeq(S) : SetToSeq(S)[i] \in S
    BY <2>5
  <2>9. QED
    BY <2>5, <2>6, <2>7, <2>8
<1>5. Lesson \in Note
  BY DEF Note
<1>6. PICK a \in Seq(MessageType) :
        /\ a = A
        /\ \A K : Has(a, K) <=> "note" \in Manifest(e.out) /\ Message("remember", 0, Lesson, 0) \in K
  <2>1. PICK l \in MessageType : l = Message("remember", 0, Lesson, 0)
    BY <1>5, ReportsNote
  <2>2. Cardinality(written) = IF "note" \in Manifest(e.out) THEN 1 ELSE 0
    BY FS_EmptySet, FS_Singleton
  <2> HIDE DEF written
  <2>3. CASE "note" \in Manifest(e.out)
    <3>1. A = [i \in 1..1 |-> l]
      BY <2>1, <2>2, <2>3
    <3>2. [i \in 1..1 |-> l] \in Seq(MessageType)
      OBVIOUS
    <3>3. DOMAIN A = {1} /\ A[1] = l
      BY <3>1
    <3>4. \A K : Has(A, K) <=> l \in K
      BY <3>3 DEF Has
    <3>5. QED
      BY <2>1, <2>3, <3>1, <3>2, <3>4
  <2>4. CASE "note" \notin Manifest(e.out)
    <3>1. A = [i \in 1..0 |-> l]
      BY <2>1, <2>2, <2>4
    <3>2. [i \in 1..0 |-> l] \in Seq(MessageType)
      OBVIOUS
    <3>3. DOMAIN A = {}
      BY <3>1
    <3>4. QED
      BY <2>4, <3>1, <3>2, <3>3 DEF Has
  <2>5. QED
    BY <2>3, <2>4
<1> HIDE DEF written, lost, m
<1>7. PICK b \in Seq(MessageType) :
        /\ b = B
        /\ \A K : Has(b, K) <=> \E n \in Missing(e) : Message("forget", 0, n, 0) \in K
  <2>1. ASSUME NEW i \in DOMAIN lost PROVE Message("forget", 0, lost[i], 0) \in MessageType
    <3>1. lost[i] \in Note
      BY <1>4
    <3>2. QED
      BY <3>1, ReportsNote
  <2>2. DOMAIN lost = 1..Len(lost) /\ Len(lost) \in Nat
    BY <1>4
  <2>3. B \in Seq(MessageType)
    BY <2>1, <2>2
  <2>4. \A K : Has(B, K) <=> \E n \in Missing(e) : Message("forget", 0, n, 0) \in K
    <3>1. DOMAIN B = DOMAIN lost /\ \A i \in DOMAIN lost : B[i] = Message("forget", 0, lost[i], 0)
      OBVIOUS
    <3> HIDE DEF B
    <3>2. QED
      BY <1>4, <3>1 DEF Has
  <2>5. QED
    BY <2>3, <2>4
<1>8. PICK c \in Seq(MessageType) : c = <<m>> /\ \A K : Has(c, K) <=> m \in K
  <2>1. <<m>> \in Seq(MessageType)
    BY <1>3
  <2>2. QED
    BY <2>1, OneHas
<1>9. PICK d \in Seq(MessageType) : d = a \o b /\ \A K : Has(d, K) <=> Has(a, K) \/ Has(b, K)
  <2>1. a \o b \in Seq(MessageType) /\ \A K : Has(a \o b, K) <=> Has(a, K) \/ Has(b, K)
    BY ConcatHas
  <2>2. QED
    BY <2>1
<1>10. PICK s \in Seq(MessageType) : s = d \o c /\ \A K : Has(s, K) <=> Has(d, K) \/ Has(c, K)
  <2>1. d \o c \in Seq(MessageType) /\ \A K : Has(d \o c, K) <=> Has(d, K) \/ Has(c, K)
    BY ConcatHas
  <2>2. QED
    BY <2>1
<1>11. Reports(e, s)
  BY <1>2, <1>6, <1>7, <1>8, <1>9, <1>10
<1>12. \A K : Has(s, K) <=>
         \/ "note" \in Manifest(e.out) /\ Message("remember", 0, Lesson, 0) \in K
         \/ \E n \in Missing(e) : Message("forget", 0, n, 0) \in K
         \/ m \in K
  BY <1>6, <1>7, <1>8, <1>9, <1>10
<1>13. s # <<>>
  <2>1. Has(s, {m})
    BY <1>12
  <2>2. QED
    BY <2>1 DEF Has
<1>14. QED
  BY <1>11, <1>12, <1>13 DEF m

\* Every effect that has done its work moves on by itself, saying what its kind may.
LEMMA WorksSucceeds ==
  ASSUME Types, NEW e \in effects, Fine(e), EffectWorks(e)
  PROVE  Succeeds(e) /\ e.pc # "emit" /\ e \in EffectType
<1>1. e \in EffectType /\ ws \in WorkspaceType
  BY DEF Types
<1>2. CASE CaptureTranscript(e)
  <2>1. e.kind = "capture-transcript" /\ e.pc = "start" /\ e.run \in Run /\ "transcript" \in Kind
    BY <1>2 DEF CaptureTranscript, At, Fine, Kind
  <2>2. PICK m \in MessageType : m = MarkHarvested(e.run, "transcript")
    BY <2>1, ReportsHarvested
  <2>3. Utters(e, m)
    BY <2>1, <2>2 DEF Utters, KindOf
  <2>4. Reports(e, <<m>>) \/ Ends(e)
    BY <1>2, <2>2 DEF CaptureTranscript
  <2>5. Reports(e, <<m>>) => Succeeds(e)
    BY <1>1, <2>3, OneSays, Uttering
  <2>6. QED
    BY <1>1, <2>1, <2>4, <2>5, Ending
<1>3. CASE ReadFiles(e)
  <2>1. [e EXCEPT !.pc = "read", !.out = ws.out, !.kept = ws.in] \in EffectType
    BY <1>1 DEF EffectType, WorkspaceType
  <2>2. PICK f \in EffectType : f = [e EXCEPT !.pc = "read", !.out = ws.out, !.kept = ws.in]
    BY <2>1
  <2>3. f.pc = "read" /\ Same(e, f)
    BY <1>1, <2>2 DEF EffectType, Same
  <2>4. Becomes(e, f) /\ e.pc = "start"
    BY <1>3, <2>2 DEF ReadFiles, At
  <2>5. QED
    BY <1>1, <2>3, <2>4, Pausing
<1>4. CASE CaptureMemory(e)
  <2>1. e.kind = "capture-memory" /\ e.pc = "read"
    BY <1>4 DEF CaptureMemory, At
  <2>2. PICK s \in Seq(MessageType) :
          /\ Reports(e, s) /\ s # <<>>
          /\ \A K : Has(s, K) <=>
                \/ "note" \in Manifest(e.out) /\ Message("remember", 0, Lesson, 0) \in K
                \/ \E n \in Missing(e) : Message("forget", 0, n, 0) \in K
                \/ MarkHarvested(e.run, "memory") \in K
    BY <1>4, MemorySays
  <2>3. ASSUME NEW i \in DOMAIN s PROVE Utters(e, s[i])
    <3>1. Has(s, {s[i]})
      BY DEF Has
    <3>2. \/ s[i] = Message("remember", 0, Lesson, 0)
          \/ \E n \in Missing(e) : s[i] = Message("forget", 0, n, 0)
          \/ s[i] = MarkHarvested(e.run, "memory")
      BY <2>2, <3>1
    <3>3. QED
      BY <2>1, <3>2 DEF Utters, KindOf, Message
  <2>4. QED
    BY <1>1, <2>1, <2>2, <2>3, Uttering
<1>5. CASE StoreSkill(e)
  <2>1. e.kind = "store-skill" /\ e.pc = "read" /\ e.run \in Run /\ "skill" \in Kind
    BY <1>5 DEF StoreSkill, At, Fine, Kind
  <2>2. PICK m \in MessageType : m = MarkHarvested(e.run, "skill")
    BY <2>1, ReportsHarvested
  <2>3. Utters(e, m)
    BY <2>1, <2>2 DEF Utters, KindOf
  <2>4. CASE "skill" \in Manifest(e.out)
    <3>1. e.out["skill"] \in 0..MaxTurns /\ e.out["skill"] # 0
      BY <1>1, <2>4 DEF EffectType, Box, Manifest, File
    <3>2. e.out["skill"] \in Run
      BY <3>1, Bounds DEF Run
    <3>3. PICK l \in MessageType : l = Message("register-skill", e.out["skill"], "", 0)
      BY <3>2, ReportsSkill
    <3>4. Utters(e, l)
      BY <2>1, <3>3 DEF Utters, Message
    <3>5. Reports(e, <<l, m>>)
      BY <1>5, <2>2, <2>4, <3>3 DEF StoreSkill
    <3>6. \A i \in DOMAIN <<l, m>> : Utters(e, <<l, m>>[i])
      BY <2>3, <3>4, TwoSays
    <3>7. QED
      BY <1>1, <2>1, <3>5, <3>6, TwoSays, Uttering
  <2>5. CASE "skill" \notin Manifest(e.out)
    <3>1. Reports(e, <<m>>)
      BY <1>5, <2>2, <2>5 DEF StoreSkill
    <3>2. QED
      BY <1>1, <2>1, <2>3, <3>1, OneSays, Uttering
  <2>6. QED
    BY <2>4, <2>5
<1>6. CASE MintUIRequest(e)
  <2>1. e.kind = "mint-ui-request" /\ e.pc = "read" /\ e.run \in Run
    BY <1>6 DEF MintUIRequest, At, Fine
  <2>2. PICK m \in MessageType : m = Message("register-ui-request", e.run, "", 0)
    BY <2>1, ReportsRequest
  <2>3. Utters(e, m)
    BY <2>1, <2>2 DEF Utters
  <2>4. Reports(e, <<m>>) \/ Ends(e)
    BY <1>6, <2>2 DEF MintUIRequest
  <2>5. Reports(e, <<m>>) => Succeeds(e)
    BY <1>1, <2>3, OneSays, Uttering
  <2>6. QED
    BY <1>1, <2>1, <2>4, <2>5, Ending
<1>7. CASE AssembleReply(e)
  <2>1. e.kind = "assemble-reply" /\ e.pc = "read" /\ e.run \in Run /\ "reply" \in Kind
    BY <1>7 DEF AssembleReply, At, Fine, Kind
  <2>2. PICK m \in MessageType : m = MarkHarvested(e.run, "reply")
    BY <2>1, ReportsHarvested
  <2>3. RowFor(ReplyMessageID(e.run, e.domain)) \in Nat
    <3>1. ReplyMessageID(e.run, e.domain) \in MessageID
      BY <1>1, <2>1 DEF ReplyMessageID, MessageID, EffectType
    <3>2. RowFor(ReplyMessageID(e.run, e.domain)) \in 1..(Len(store.rows) + 1)
      BY <3>1, RowForProperties
    <3>3. Len(store.rows) \in Nat
      BY RowTypes
    <3>4. QED
      BY <3>2, <3>3
  <2>4. PICK l \in MessageType :
          l = Message("mark-reply-queued", e.run, "", RowFor(ReplyMessageID(e.run, e.domain)))
    BY <2>1, <2>3, ReportsQueued
  <2>5. Reports(e, <<l, m>>)
    BY <1>7, <2>2, <2>4 DEF AssembleReply
  <2>6. Utters(e, m) /\ Utters(e, l)
    BY <2>1, <2>2, <2>4 DEF Utters, KindOf, Message
  <2>7. \A i \in DOMAIN <<l, m>> : Utters(e, <<l, m>>[i])
    BY <2>6, TwoSays
  <2>8. QED
    BY <1>1, <2>1, <2>5, <2>7, TwoSays, Uttering
<1>8. CASE Submit(e)
  <2>1. [e EXCEPT !.pc = "submitted"] \in EffectType
    BY <1>1 DEF EffectType
  <2>2. PICK f \in EffectType : f = [e EXCEPT !.pc = "submitted"]
    BY <2>1
  <2>3. f.pc = "submitted" /\ Same(e, f)
    BY <1>1, <2>2 DEF EffectType, Same
  <2>4. Becomes(e, f) /\ e.pc = "start"
    BY <1>8, <2>2 DEF Submit, At
  <2>5. QED
    BY <1>1, <2>3, <2>4, Pausing
<1>9. CASE MarkOutboxSent(e)
  <2>1. e.kind = "send-email" /\ e.pc = "submitted" /\ e.id \in Nat
    BY <1>1, <1>9 DEF MarkOutboxSent, At, EffectType
  <2>2. PICK m \in MessageType : m = Message("mark-email-sent", 0, "", e.id)
    BY <2>1, ReportsSent
  <2>3. Utters(e, m)
    BY <2>1, <2>2 DEF Utters, Message
  <2>4. Reports(e, <<m>>)
    BY <1>9, <2>2 DEF MarkOutboxSent
  <2>5. QED
    BY <1>1, <2>1, <2>3, <2>4, OneSays, Uttering
<1>10. CASE ArchiveFiles(e)
  <2>1. [e EXCEPT !.pc = "delete", !.out = ws.out, !.kept = ws.in, !.papers = ws.papers]
          \in EffectType
    BY <1>1 DEF EffectType, WorkspaceType
  <2>2. PICK f \in EffectType : f = [e EXCEPT !.pc = "delete", !.out = ws.out, !.kept = ws.in,
                                                   !.papers = ws.papers]
    BY <2>1
  <2>3. f.pc = "delete" /\ Same(e, f)
    BY <1>1, <2>2 DEF EffectType, Same
  <2>4. Becomes(e, f) /\ e.pc = "start"
    BY <1>10, <2>2 DEF ArchiveFiles, At
  <2>5. QED
    BY <1>1, <2>3, <2>4, Pausing
<1>11. CASE RemoveWorkspace(e)
  <2>1. [e EXCEPT !.pc = "manifest"] \in EffectType
    BY <1>1 DEF EffectType
  <2>2. PICK f \in EffectType : f = [e EXCEPT !.pc = "manifest"]
    BY <2>1
  <2>3. f.pc = "manifest" /\ Same(e, f)
    BY <1>1, <2>2 DEF EffectType, Same
  <2>4. Becomes(e, f) /\ e.pc = "remove"
    BY <1>11, <2>2 DEF RemoveWorkspace, At
  <2>5. QED
    BY <1>1, <2>3, <2>4, Pausing
<1>12. CASE DeleteManifest(e)
  BY <1>1, <1>12, Ending DEF DeleteManifest, At
<1>13. CASE CheckCovered(e)
  <2>1. [e EXCEPT !.pc = "remove", !.out = ws.out, !.kept = ws.in, !.papers = ws.papers]
          \in EffectType
    BY <1>1 DEF EffectType, WorkspaceType
  <2>2. PICK f \in EffectType : f = [e EXCEPT !.pc = "remove", !.out = ws.out, !.kept = ws.in,
                                                   !.papers = ws.papers]
    BY <2>1
  <2>3. f.pc = "remove" /\ Same(e, f)
    BY <1>1, <2>2 DEF EffectType, Same
  <2>4. (Becomes(e, f) \/ Ends(e)) /\ e.pc = "delete"
    BY <1>13, <2>2 DEF CheckCovered, At
  <2>5. CASE Becomes(e, f)
    BY <1>1, <2>3, <2>4, <2>5, Pausing
  <2>6. CASE Ends(e)
    BY <1>1, <2>4, <2>6, Ending
  <2>7. QED
    BY <2>4, <2>5, <2>6
<1>14. QED
  BY <1>2, <1>3, <1>4, <1>5, <1>6, <1>7, <1>8, <1>9, <1>10, <1>11, <1>12, <1>13 DEF EffectWorks

\* An effect that reports gives the first of its messages to the channel, and
\* keeps the others for its next step.
LEMMA Emits ==
  ASSUME Types, NEW e \in effects, Fine(e), Emit(e)
  PROVE  \E m \in MessageType :
           /\ m = e.says[1] /\ 1 \in DOMAIN e.says /\ Sound(m) /\ e \in EffectType
           /\ inbox' = Append(inbox, m) /\ UNCHANGED <<model, ws, store, handed, world>>
           /\ \/ /\ effects' = effects \ {e} /\ For(m) = Of(e)
                 /\ \A K : Has(e.says, K) => m \in K
              \/ /\ For(m) = NoSource
                 /\ \E f \in EffectType :
                      /\ effects' = (effects \ {e}) \cup {f} /\ Same(e, f) /\ f.pc = "emit"
                      /\ f.says # <<>> /\ f.says \in Seq(MessageType)
                      /\ \A K : Has(e.says, K) <=> m \in K \/ Has(f.says, K)
<1>1. e \in EffectType /\ e.pc = "emit"
  BY DEF Emit, Types
<1>2. PICK s \in Seq(MessageType) : s = e.says
  BY <1>1 DEF EffectType
<1>3. Says(e, s)
  BY <1>1, <1>2 DEF Fine
<1>4. /\ s # <<>> /\ For(s[Len(s)]) = Of(e)
      /\ \A i \in 1..Len(s) : Sound(s[i]) /\ (i # Len(s) => For(s[i]) = NoSource)
  BY <1>3 DEF Says
<1>5. PICK m \in MessageType : m = Head(s) /\ m = s[1] /\ 1 \in DOMAIN s /\ 1 \in 1..Len(s)
  BY <1>4
<1>6. /\ inbox' = Append(inbox, m) /\ UNCHANGED <<model, ws, store, handed, world>>
      /\ IF Len(s) = 1 THEN Ends(e) ELSE Becomes(e, [e EXCEPT !.says = Tail(s)])
  BY <1>2, <1>5 DEF Emit, outside
<1>7. CASE Len(s) = 1
  <2>1. effects' = effects \ {e} /\ For(m) = Of(e)
    BY <1>4, <1>5, <1>6, <1>7 DEF Ends
  <2>2. DOMAIN s = {1}
    BY <1>2, <1>7
  <2>3. \A K : Has(s, K) => m \in K
    BY <1>5, <2>2 DEF Has
  <2>4. QED
    BY <1>1, <1>2, <1>4, <1>5, <1>6, <2>1, <2>3
<1>8. CASE Len(s) # 1
  <2>1. PICK t \in Seq(MessageType) : t = Tail(s)
    BY <1>4, HeadTailProperties
  <2>2. /\ \A K : Has(s, K) <=> m \in K \/ Has(t, K)
        /\ t # <<>>
    <3>1. PICK n \in Nat : n = Len(s) - 1 /\ n # 0
      <4>1. s # <<>>
        BY <1>4
      <4>2. Len(s) \in Nat /\ Len(s) # 0
        BY <4>1
      <4>3. Len(s) - 1 \in Nat /\ Len(s) - 1 # 0
        BY <1>8, <4>2
      <4>4. QED
        BY <4>3
    <3>2. DOMAIN s = 1..(n + 1) /\ DOMAIN t = 1..n /\ Len(t) = n
          /\ \A i \in 1..n : t[i] = s[i + 1]
      BY <1>4, <2>1, <3>1
    <3>3. /\ \A i \in 1..(n + 1) : i = 1 \/ (i - 1 \in 1..n /\ (i - 1) + 1 = i)
          /\ \A i \in 1..n : i + 1 \in 1..(n + 1)
      BY <3>1
    <3>4. QED
      BY <1>5, <3>1, <3>2, <3>3 DEF Has
  <2>3. [e EXCEPT !.says = t] \in EffectType
    BY <1>1 DEF EffectType
  <2>4. PICK f \in EffectType : f = [e EXCEPT !.says = t]
    BY <2>3
  <2>5. Same(e, f) /\ f.pc = "emit" /\ f.says = t
    BY <1>1, <2>4 DEF EffectType, Same
  <2>6. effects' = (effects \ {e}) \cup {f}
    BY <1>6, <1>8, <2>1, <2>4 DEF Becomes
  <2>7. For(m) = NoSource
    BY <1>4, <1>5, <1>8
  <2>8. QED
    BY <1>1, <1>2, <1>4, <1>5, <1>6, <2>2, <2>5, <2>6, <2>7
<1>9. QED
  BY <1>7, <1>8

\* Every step keeps each effect to what its kind may say.
LEMMA UtteredNext == ASSUME Inv, Uttered, [Next]_vars PROVE Uttered'
<1>1. Types /\ Working /\ effects \subseteq EffectType
  BY DEF Inv, Types
<1>2. CASE Reduce
  <2>1. PICK m \in MessageType : Sound(m) /\ effects' = effects \cup Commands(model, m)
    BY <1>2, Turning
  <2>2. \A g \in Commands(model, m) : g.pc # "emit"
    BY <1>1, <2>1, CommandsType
  <2>3. QED
    BY <2>1, <2>2 DEF Uttered
<1>3. ASSUME NEW e \in effects, EffectWorks(e) PROVE Uttered'
  <2>1. Fine(e)
    BY <1>1 DEF Working
  <2>2. Succeeds(e)
    BY <1>1, <1>3, <2>1, WorksSucceeds
  <2>3. QED
    BY <2>2 DEF Succeeds, Uttered
<1>4. ASSUME NEW e \in effects, Emit(e) PROVE Uttered'
  <2>1. Fine(e) /\ e.pc = "emit"
    BY <1>1, <1>4 DEF Working, Emit
  <2>2. ASSUME NEW f \in effects', f \notin effects, f.pc = "emit", NEW i \in DOMAIN f.says
        PROVE  Utters(f, f.says[i])
    <3>1. Same(e, f) /\ \A K : Has(f.says, K) => Has(e.says, K)
      BY <1>1, <1>4, <2>1, <2>2, Emits
    <3>2. Has(f.says, {f.says[i]})
      BY DEF Has
    <3>3. Has(e.says, {f.says[i]})
      BY <3>1, <3>2
    <3>4. Utters(e, f.says[i])
      BY <2>1, <3>3 DEF Uttered, Has
    <3>5. QED
      BY <3>1, <3>4, SameUtters
  <2>3. QED
    BY <2>2 DEF Uttered
<1>5. CASE Idle \/ StartTurn \/ UserFinishes \/ \E o \in world.plan.outcomes : EndTurn(o)
  <2>1. effects' \subseteq effects
    BY <1>5 DEF Idle, StartTurn, UserFinishes, EndTurn
  <2>2. QED
    BY <2>1 DEF Uttered
<1>6. QED
  BY <1>2, <1>3, <1>4, <1>5, Shapes

\* Effects say what their kind may, in every behaviour.
LEMMA UtteredInvariance == Spec => []Uttered
<1>1. Init => Uttered
  BY DEF Init, Uttered
<1>2. Inv /\ Uttered /\ [Next]_vars => Uttered'
  BY UtteredNext
<1>3. QED
  BY <1>1, <1>2, Invariance, PTL DEF Spec

\* Which steps of an effect touch which part of the disk and the store.
LEMMA WorksKeep ==
  ASSUME Types, NEW e \in effects, EffectWorks(e)
  PROVE  /\ UNCHANGED <<model, inbox, world>>
         /\ store'.artifacts = store.artifacts \/ ArchiveFiles(e)
         /\ store'.rows = store.rows \/ AssembleReply(e) \/ MarkOutboxSent(e)
         /\ ws' = ws \/ RemoveWorkspace(e) \/ DeleteManifest(e)
         /\ store.transcripts \subseteq store'.transcripts
         /\ store.skills \subseteq store'.skills
<1>1. store \in StoreType
  BY DEF Types
<1>2. UNCHANGED <<model, inbox, world>>
  BY DEF EffectWorks, CaptureTranscript, ReadFiles, CaptureMemory, StoreSkill, MintUIRequest,
         AssembleReply, Submit, MarkOutboxSent, ArchiveFiles, CheckCovered, RemoveWorkspace,
         DeleteManifest, quiet
<1>3. CASE CaptureTranscript(e)
  <2>1. store' = store \/ store' = [store EXCEPT !.transcripts = @ \cup {e.run}]
    BY <1>3 DEF CaptureTranscript
  <2>2. QED
    BY <1>1, <1>2, <1>3, <2>1 DEF StoreType, CaptureTranscript
<1>4. CASE StoreSkill(e)
  <2>1. store' = store \/ store' = [store EXCEPT !.skills = @ \cup {e.out["skill"]}]
    BY <1>4 DEF StoreSkill
  <2>2. QED
    BY <1>1, <1>2, <1>4, <2>1 DEF StoreType, StoreSkill
<1>5. CASE AssembleReply(e)
  <2>1. PICK rows : store' = store \/ store' = [store EXCEPT !.rows = rows]
    BY <1>5 DEF AssembleReply
  <2>2. QED
    BY <1>1, <1>2, <1>5, <2>1 DEF StoreType, AssembleReply
<1>6. CASE MarkOutboxSent(e)
  <2>1. PICK rows : store' = [store EXCEPT !.rows = rows]
    BY <1>6 DEF MarkOutboxSent
  <2>2. QED
    BY <1>1, <1>2, <1>6, <2>1 DEF StoreType, MarkOutboxSent
<1>7. CASE ArchiveFiles(e)
  <2>1. PICK files : store' = [store EXCEPT !.artifacts = files]
    BY <1>7 DEF ArchiveFiles
  <2>2. QED
    BY <1>1, <1>2, <1>7, <2>1 DEF StoreType, ArchiveFiles
<1>8. CASE CheckCovered(e) \/ RemoveWorkspace(e) \/ DeleteManifest(e)
  BY <1>2, <1>8 DEF CheckCovered, RemoveWorkspace, DeleteManifest
<1>9. CASE ReadFiles(e) \/ CaptureMemory(e) \/ MintUIRequest(e) \/ Submit(e)
  BY <1>2, <1>9 DEF ReadFiles, CaptureMemory, MintUIRequest, Submit
<1>10. QED
  BY <1>3, <1>4, <1>5, <1>6, <1>7, <1>8, <1>9 DEF EffectWorks

-----------------------------------------------------------------------------
(***************************************************************************)
(* The archive.  With one finish there is one archive-task: it finds the   *)
(* archive empty, so what it archives is what it read, that is what        *)
(* Work.Delete checks the live files against, and what it then lists is    *)
(* in the archive.                                                         *)
(***************************************************************************)
Finishing == Tagged({"finish-task"})
Archiving == {e \in effects : e.kind = "archive-task"}
ArchiveInv ==
  /\ (\/ world.finishes = 0 \/ Has(inbox, Finishing)
      \/ \E e \in Archiving : e.pc = "start") => store.artifacts = NoFiles
  /\ \A e \in Archiving : e.pc = "delete" => store.artifacts = e.out
  /\ \A e \in Archiving : e.pc = "remove" =>
       \A f \in Manifest(e.out) : store.artifacts[f] = e.out[f]
  /\ Once(inbox, Finishing)
  /\ \A e, f \in Archiving : e = f
  /\ Archiving # {} => ~Has(inbox, Finishing)
  /\ world.finishes = 0 => ~Has(inbox, Finishing) /\ Archiving = {}

\* What an effect says is what it has done, never that a run ended or that the
\* task is done.
LEMMA UtteredTags ==
  ASSUME NEW e, NEW m, Utters(e, m)
  PROVE  m.tag \in {"mark-harvested", "remember", "forget", "register-skill",
                    "register-ui-request", "mark-reply-queued", "mark-email-sent"}
<1>1. \A r, k : MarkHarvested(r, k).tag = "mark-harvested"
  BY DEF MarkHarvested, Message
<1>2. \A r : Message("register-ui-request", r, "", 0).tag = "register-ui-request"
  BY DEF Message
<1>3. QED
  BY <1>1, <1>2 DEF Utters

\* Every step keeps one archive-task at most, and the archive as it left it.
LEMMA ArchiveNext ==
  ASSUME \A plan \in Plans : plan.finishes <= 1, Inv, Uttered, ArchiveInv, [Next]_vars
  PROVE  ArchiveInv'
<1>1. /\ Types /\ Working /\ effects \subseteq EffectType /\ world \in WorldType
      /\ store \in StoreType /\ ws \in WorkspaceType
  BY DEF Inv, Types
<1>2. CASE Reduce
  <2>1. PICK m \in MessageType :
          /\ m = inbox[1] /\ inbox # <<>> /\ inbox' = Tail(inbox) /\ Sound(m)
          /\ effects' = effects \cup Commands(model, m) /\ store' = store /\ world' = world
    BY <1>2, Turning
  <2>2. /\ Has(inbox', Finishing) => Has(inbox, Finishing)
        /\ Once(inbox', Finishing)
        /\ m \in Finishing => Has(inbox, Finishing) /\ ~Has(inbox', Finishing)
    BY <1>1, <2>1, TakenHas DEF ArchiveInv
  <2>3. CASE m \in Finishing
    <3>1. Archiving = {} /\ world.finishes # 0 /\ store.artifacts = NoFiles
      BY <2>2, <2>3 DEF ArchiveInv
    <3>2. \A c \in Commands(model, m) : c.pc = "start" /\ Commands(model, m) = {c}
      BY <1>1, <2>1, CommandsType
    <3>3. \A e, f \in Archiving' : e = f /\ e.pc = "start"
      BY <2>1, <3>1, <3>2 DEF Archiving
    <3>4. QED
      BY <2>1, <2>2, <2>3, <3>1, <3>3 DEF ArchiveInv
  <2>4. CASE m \notin Finishing
    <3>1. \A c \in Commands(model, m) : c.kind # "archive-task"
      <4>1. m.tag # "finish-task"
        BY <2>4 DEF Finishing, Tagged
      <4>2. ASSUME NEW c \in Commands(model, m) PROVE c.kind # "archive-task"
        BY <1>1, <2>1, <4>1, CommandsType, KindOfEffect
      <4>3. QED
        BY <4>2
    <3>2. Archiving' = Archiving
      BY <2>1, <3>1 DEF Archiving
    <3>3. QED
      BY <2>1, <2>2, <3>2 DEF ArchiveInv
  <2>5. QED
    BY <2>3, <2>4
<1>3. ASSUME NEW e \in effects, EffectWorks(e) PROVE ArchiveInv'
  <2>1. Fine(e) /\ e \in EffectType
    BY <1>1 DEF Working
  <2>2. inbox' = inbox /\ world' = world
    BY <1>1, <1>3, WorksKeep
  <2>3. PICK F \in SUBSET EffectType :
          /\ effects' = (effects \ {e}) \cup F
          /\ \A f \in F : f.kind = e.kind /\ f.pc # "start" /\ F = {f}
    BY <1>1, <1>3, <2>1, WorksSucceeds DEF Succeeds, Advances, Same
  <2>4. \A f, g \in Archiving' : f = g
    BY <2>3 DEF Archiving, ArchiveInv
  <2>5. Archiving' # {} => Archiving # {}
    BY <2>3 DEF Archiving
  <2>6. (\E f \in Archiving' : f.pc = "start") => \E f \in Archiving : f.pc = "start"
    BY <2>3 DEF Archiving
  <2>7. CASE ArchiveFiles(e)
    <3>1. e.kind = "archive-task" /\ e.pc = "start"
      BY <2>7 DEF ArchiveFiles, At
    <3>2. /\ e \in Archiving /\ store.artifacts = NoFiles /\ ~Has(inbox, Finishing)
          /\ world.finishes # 0
      BY <3>1 DEF Archiving, ArchiveInv
    <3>3. store'.artifacts = [f \in File |-> IF store.artifacts[f] = 0 THEN ws.out[f]
                                             ELSE store.artifacts[f]]
      BY <1>1, <2>7 DEF ArchiveFiles, StoreType
    <3>4. store'.artifacts = ws.out
      BY <1>1, <3>2, <3>3 DEF NoFiles, WorkspaceType, Box
    <3>5. PICK f : /\ f = [e EXCEPT !.pc = "delete", !.out = ws.out, !.kept = ws.in,
                                    !.papers = ws.papers]
                   /\ effects' = (effects \ {e}) \cup {f}
      BY <2>7 DEF ArchiveFiles, Becomes
    <3>6. f.kind = "archive-task" /\ f.pc = "delete" /\ f.out = ws.out
      BY <2>1, <3>1, <3>5 DEF EffectType
    <3>7. Archiving' = {f}
      BY <3>2, <3>5, <3>6 DEF Archiving, ArchiveInv
    <3>8. QED
      BY <2>2, <3>2, <3>4, <3>6, <3>7 DEF ArchiveInv
  <2>8. CASE ~ArchiveFiles(e)
    <3>1. store'.artifacts = store.artifacts
      BY <1>1, <1>3, <2>8, WorksKeep
    <3>2. ASSUME NEW f \in Archiving', f.pc = "delete" PROVE f \in Archiving
      <4>1. CASE f \in effects
        BY <4>1 DEF Archiving
      <4>2. CASE f \notin effects
        <5>1. e.kind = "archive-task"
          BY <2>3, <4>2 DEF Archiving
        <5>2. CheckCovered(e) \/ RemoveWorkspace(e) \/ DeleteManifest(e)
          BY <1>3, <2>8, <5>1 DEF EffectWorks, CaptureTranscript, ReadFiles, CaptureMemory,
             StoreSkill, MintUIRequest, AssembleReply, Submit, MarkOutboxSent, At
        <5>3. PICK g, h : /\ g = [e EXCEPT !.pc = "remove", !.out = ws.out, !.kept = ws.in,
                                           !.papers = ws.papers]
                          /\ h = [e EXCEPT !.pc = "manifest"]
          OBVIOUS
        <5>4. \/ effects' = (effects \ {e}) \cup {g}
              \/ effects' = (effects \ {e}) \cup {h}
              \/ effects' = effects \ {e}
          BY <5>2, <5>3 DEF CheckCovered, RemoveWorkspace, DeleteManifest, Becomes, Ends
        <5>5. g.pc = "remove" /\ h.pc = "manifest"
          BY <2>1, <5>3 DEF EffectType
        <5>6. QED
          BY <3>2, <4>2, <5>4, <5>5 DEF Archiving
      <4>3. QED
        BY <4>1, <4>2
    <3>3. ASSUME NEW f \in Archiving', f.pc = "remove", f \notin Archiving
          PROVE  \A i \in Manifest(f.out) : store.artifacts[i] = f.out[i]
      <4>1. f \notin effects /\ e.kind = "archive-task"
        BY <2>3, <3>3 DEF Archiving
      <4>2. CheckCovered(e) \/ RemoveWorkspace(e) \/ DeleteManifest(e)
        BY <1>3, <2>8, <4>1 DEF EffectWorks, CaptureTranscript, ReadFiles, CaptureMemory,
           StoreSkill, MintUIRequest, AssembleReply, Submit, MarkOutboxSent, At
      <4>3. PICK g, h : /\ g = [e EXCEPT !.pc = "remove", !.out = ws.out, !.kept = ws.in,
                                         !.papers = ws.papers]
                        /\ h = [e EXCEPT !.pc = "manifest"]
        OBVIOUS
      <4>4. h.pc = "manifest" /\ g.out = ws.out
        BY <2>1, <4>3 DEF EffectType
      <4>5. CheckCovered(e) /\ f = g
        BY <3>3, <4>1, <4>2, <4>3, <4>4
           DEF CheckCovered, RemoveWorkspace, DeleteManifest, Becomes, Ends, Archiving
      <4>6. \A i \in Manifest(ws.out) : ws.out[i] = e.out[i]
        <5>1. ~Ends(e)
          BY <4>1, <3>3 DEF Ends, Archiving
        <5>2. QED
          BY <4>5, <5>1 DEF CheckCovered
      <4>7. store.artifacts = e.out
        BY <4>1, <4>5 DEF ArchiveInv, Archiving, CheckCovered, At
      <4>8. QED
        BY <4>4, <4>5, <4>6, <4>7
    <3>4. \A f \in Archiving' : f.pc = "remove" =>
            \A i \in Manifest(f.out) : store'.artifacts[i] = f.out[i]
      BY <3>1, <3>3 DEF ArchiveInv
    <3>5. QED
      BY <2>2, <2>4, <2>5, <2>6, <3>1, <3>2, <3>4 DEF ArchiveInv
  <2>9. QED
    BY <2>7, <2>8
<1>4. ASSUME NEW e \in effects, Emit(e) PROVE ArchiveInv'
  <2>1. Fine(e) /\ e.pc = "emit"
    BY <1>1, <1>4 DEF Working, Emit
  <2>2. e.kind # "archive-task"
    BY <2>1 DEF Fine
  <2>3. PICK m \in MessageType :
          /\ m = e.says[1] /\ 1 \in DOMAIN e.says
          /\ inbox' = Append(inbox, m) /\ UNCHANGED <<store, world>>
          /\ \A f \in effects' : f \in effects \/ Same(e, f)
          /\ \A f \in effects : f = e \/ f \in effects'
    BY <1>1, <1>4, <2>1, Emits
  <2>4. m \notin Finishing
    BY <2>1, <2>3, UtteredTags DEF Uttered, Finishing, Tagged
  <2>5. (Has(inbox', Finishing) <=> Has(inbox, Finishing)) /\ Once(inbox', Finishing)
    BY <1>1, <2>3, <2>4, ComesHas DEF ArchiveInv
  <2>6. Archiving' = Archiving
    BY <2>2, <2>3 DEF Archiving, Same
  <2>7. QED
    BY <2>3, <2>5, <2>6 DEF ArchiveInv
<1>5. CASE Idle
  <2>1. Finishing \cap Tagged(Signals) = {}
    BY DEF Finishing, Tagged, Signals
  <2>2. /\ Has(inbox', Finishing) => Has(inbox, Finishing)
        /\ Once(inbox', Finishing)
    BY <1>1, <1>5, <2>1, IdleHas DEF ArchiveInv
  <2>3. Archiving' \subseteq Archiving
    BY <1>5 DEF Archiving, Idle
  <2>4. QED
    BY <1>5, <2>2, <2>3 DEF ArchiveInv, Idle
<1>6. CASE StartTurn
  <2>1. UNCHANGED <<inbox, effects, store>> /\ world'.finishes = world.finishes
    BY <1>1, <1>6 DEF StartTurn, WorldType
  <2>2. QED
    BY <2>1 DEF ArchiveInv, Archiving
<1>7. ASSUME NEW o \in world.plan.outcomes, EndTurn(o) PROVE ArchiveInv'
  <2>1. PICK m : m = Message("agent-run-finished", world.turn, "", 0)
    OBVIOUS
  <2>2. m \in MessageType /\ m \notin Finishing
    BY <1>1, <2>1 DEF Message, MessageType, Tag, WorldType, Finishing, Tagged
  <2>3. /\ inbox' = Append(inbox, m) /\ UNCHANGED <<effects, store>>
        /\ world'.finishes = world.finishes
    BY <1>1, <1>7, <2>1 DEF EndTurn, WorldType
  <2>4. (Has(inbox', Finishing) <=> Has(inbox, Finishing)) /\ Once(inbox', Finishing)
    BY <1>1, <2>2, <2>3, ComesHas DEF ArchiveInv
  <2>5. QED
    BY <2>3, <2>4 DEF ArchiveInv, Archiving
<1>8. CASE UserFinishes
  <2>1. PICK m : m = Message("finish-task", 0, "", 0)
    OBVIOUS
  <2>2. m \in MessageType
    BY <2>1, Bounds DEF Message, MessageType, Tag
  <2>3. inbox' = Append(inbox, m) /\ UNCHANGED <<effects, store>>
    BY <1>8, <2>1 DEF UserFinishes
  <2>4. world'.finishes = world.finishes + 1 /\ world.finishes = 0
    <3>1. world.finishes \in Nat /\ world.plan \in Plans
      BY <1>1 DEF WorldType
    <3>2. world.finishes < world.plan.finishes /\ world.plan.finishes <= 1
          /\ world.plan.finishes \in Nat
      BY <1>8, <3>1, HarvestAssumption DEF UserFinishes
    <3>3. world.finishes = 0
      BY <3>1, <3>2
    <3>4. world'.finishes = world.finishes + 1
      BY <1>1, <1>8 DEF UserFinishes, WorldType
    <3>5. QED
      BY <3>3, <3>4
  <2>5. ~Has(inbox, Finishing) /\ Archiving = {} /\ store.artifacts = NoFiles
    BY <2>4 DEF ArchiveInv
  <2>6. Once(inbox', Finishing)
    BY <1>1, <2>2, <2>3, <2>5, ComesHas DEF ArchiveInv
  <2>7. Archiving' = {}
    BY <2>3, <2>5 DEF Archiving
  <2>8. QED
    BY <2>3, <2>4, <2>5, <2>6, <2>7 DEF ArchiveInv
<1>9. QED
  BY <1>2, <1>3, <1>4, <1>5, <1>6, <1>7, <1>8, Shapes

\* What Work.Delete removes and the archive has not came after its listing.
LEMMA DeletedIsArchived ==
  ASSUME Inv, ArchiveInv, [Next]_vars, ws.live, ~ws'.live, NEW f \in Manifest(ws.out)
  PROVE  \/ store.artifacts[f] = ws.out[f]
         \/ \E e \in effects : At(e, "archive-task", "remove") /\ e.out[f] # ws.out[f]
<1>1. Types /\ ws \in WorkspaceType
  BY DEF Inv, Types
<1>2. ASSUME NEW e \in effects, RemoveWorkspace(e)
      PROVE  At(e, "archive-task", "remove") /\ (e.out[f] = ws.out[f] =>
               store.artifacts[f] = ws.out[f])
  <2>1. e \in Archiving /\ e.pc = "remove" /\ At(e, "archive-task", "remove")
    BY <1>2 DEF RemoveWorkspace, At, Archiving
  <2>2. \A i \in Manifest(e.out) : store.artifacts[i] = e.out[i]
    BY <2>1 DEF ArchiveInv
  <2>3. QED
    BY <2>1, <2>2 DEF Manifest
<1>3. ASSUME NEW e \in effects, EffectWorks(e) PROVE RemoveWorkspace(e)
  <2>1. ws' # ws
    OBVIOUS
  <2>2. RemoveWorkspace(e) \/ DeleteManifest(e)
    BY <1>1, <1>3, <2>1, WorksKeep
  <2>3. DeleteManifest(e) => ws'.live = ws.live
    BY <1>1 DEF DeleteManifest, WorkspaceType
  <2>4. QED
    BY <2>2, <2>3
<1>4. ASSUME Reduce \/ (\E e \in effects : Emit(e)) \/ Idle \/ UserFinishes PROVE FALSE
  <2>1. ws' = ws
    BY <1>4 DEF Reduce, Emit, Idle, UserFinishes, outside
  <2>2. QED
    BY <2>1
<1>5. ASSUME StartTurn PROVE FALSE
  BY <1>1, <1>5 DEF StartTurn, WorkspaceType
<1>6. ASSUME NEW o \in world.plan.outcomes, EndTurn(o) PROVE FALSE
  <2>1. PICK out, in, papers :
          ws' = ws \/ ws' = [ws EXCEPT !.out = out, !.in = in, !.papers = papers]
    BY <1>6 DEF EndTurn
  <2>2. QED
    BY <1>1, <2>1 DEF WorkspaceType
<1>7. QED
  BY <1>2, <1>3, <1>4, <1>5, <1>6, Shapes

\* A task marked done once at most: whatever runs, dies or fails meanwhile, the only
\* files a deleted workspace takes with it are in the archive or came after
\* Work.Delete listed the directory.
THEOREM ArchivesFirst ==
  ASSUME \A plan \in Plans : plan.finishes <= 1
  PROVE  Spec => LosesOnlyLateWrites
<1>1. Init => ArchiveInv
  <2>1. ASSUME Init PROVE ArchiveInv
    <3>1. DOMAIN inbox = {} /\ Archiving = {} /\ store.artifacts = NoFiles
      BY <2>1 DEF Init, Archiving, NoFiles
    <3>2. QED
      BY <3>1 DEF ArchiveInv, Has, Once
  <2>2. QED
    BY <2>1
<1>2. Inv /\ Uttered /\ ArchiveInv /\ [Next]_vars => ArchiveInv'
  BY ArchiveNext
<1>3. Inv /\ ArchiveInv /\ [Next]_vars =>
        [ws.live /\ ~ws'.live =>
           \A f \in Manifest(ws.out) :
             \/ store.artifacts[f] = ws.out[f]
             \/ \E e \in effects : At(e, "archive-task", "remove") /\ e.out[f] # ws.out[f]]_vars
  BY DeletedIsArchived
<1>4. QED
  BY <1>1, <1>2, <1>3, Invariance, UtteredInvariance, PTL DEF Spec, LosesOnlyLateWrites

-----------------------------------------------------------------------------
(***************************************************************************)
(* What the handlers and the turns do, part by part.                       *)
(***************************************************************************)
\* A handler's update of each part of the model.
LEMMA UpdateParts ==
  ASSUME Types, NEW m \in MessageType
  PROVE  /\ m.tag # "agent-run-finished" => Update(model, m).runs = model.runs
         /\ m.tag = "agent-run-finished" =>
              /\ Update(model, m).runs = Append(model.runs, m.run)
              /\ Update(model, m).jobs
                   = model.jobs \cup {Job(m.run, k) : k \in Owed(world.ended[m.run])}
         /\ m.tag = "mark-harvested" =>
              Update(model, m).jobs = model.jobs \ {Job(m.run, m.name)}
         /\ m.tag = "register-ui-request" =>
              /\ Update(model, m).jobs
                   = (model.jobs \ {Job(m.run, "request")}) \cup {Job(m.run, "reply")}
              /\ Update(model, m).requests
                   = [model.requests EXCEPT ![m.run] = model.requests[m.run] + 1]
         /\ m.tag \notin {"agent-run-finished", "mark-harvested", "register-ui-request"} =>
              Update(model, m).jobs = model.jobs
         /\ m.tag # "register-ui-request" => Update(model, m).requests = model.requests
         /\ m.tag = "remember" => Update(model, m).notes = model.notes \cup {m.name}
         /\ m.tag = "forget" => Update(model, m).notes = model.notes \ {m.name}
         /\ m.tag \notin {"remember", "forget"} => Update(model, m).notes = model.notes
         /\ m.tag = "register-skill" => Update(model, m).skills = model.skills \cup {m.run}
         /\ m.tag # "register-skill" => Update(model, m).skills = model.skills
<1>1. PICK t : t = Update(model, m)
  OBVIOUS
<1>2. model \in ModelType
  BY DEF Types
<1>3. CASE m.tag = "agent-run-finished"
  <2>1. t = AgentRunFinished(model, m.run, world.ended[m.run])
    BY <1>1, <1>3 DEF Update
  <2>2. /\ t.runs = Append(model.runs, m.run)
        /\ t.jobs = model.jobs \cup {Job(m.run, k) : k \in Owed(world.ended[m.run])}
        /\ t.requests = model.requests /\ t.notes = model.notes /\ t.skills = model.skills
    BY <1>2, <2>1 DEF AgentRunFinished, ModelType
  <2>3. QED
    BY <1>1, <1>3, <2>2
<1>4. CASE m.tag = "register-ui-request"
  <2>1. t = RegisterUIRequest(model, m.run)
    BY <1>1, <1>4 DEF Update
  <2>2. /\ t.jobs = (model.jobs \ {Job(m.run, "request")}) \cup {Job(m.run, "reply")}
        /\ t.runs = model.runs /\ t.notes = model.notes /\ t.skills = model.skills
    BY <1>2, <2>1 DEF RegisterUIRequest, ModelType
  <2>3. t.requests = [model.requests EXCEPT ![m.run] = model.requests[m.run] + 1]
    BY <1>2, <2>1 DEF RegisterUIRequest, ModelType
  <2>4. QED
    BY <1>1, <1>4, <2>2, <2>3
<1>5. CASE m.tag = "mark-harvested"
  <2>1. t = [model EXCEPT !.jobs = @ \ {Job(m.run, m.name)}]
    BY <1>1, <1>5 DEF Update, MarkHarvestedHandler
  <2>2. /\ t.jobs = model.jobs \ {Job(m.run, m.name)} /\ t.runs = model.runs
        /\ t.requests = model.requests /\ t.notes = model.notes /\ t.skills = model.skills
    BY <1>2, <2>1 DEF ModelType
  <2>3. QED
    BY <1>1, <1>5, <2>2
<1>6. CASE m.tag \in {"mark-reply-queued", "mark-email-sent"}
  <2>1. PICK entries : t = model \/ t = [model EXCEPT !.outbox = entries]
    BY <1>1, <1>6 DEF Update, MarkReplyQueued, MarkEmailSent
  <2>2. /\ t.jobs = model.jobs /\ t.runs = model.runs
        /\ t.requests = model.requests /\ t.notes = model.notes /\ t.skills = model.skills
    BY <1>2, <2>1 DEF ModelType
  <2>3. QED
    BY <1>1, <1>6, <2>2
<1>7. CASE m.tag = "remember"
  BY <1>2, <1>7 DEF Update, ModelType
<1>8. CASE m.tag = "forget"
  BY <1>2, <1>8 DEF Update, ModelType
<1>9. CASE m.tag = "register-skill"
  BY <1>2, <1>9 DEF Update, ModelType
<1>10. CASE m.tag \in {"set-reply-from", "finish-task", "run-harvest", "send-outbox"}
  BY <1>2, <1>10 DEF Update, ModelType
<1>11. QED
  BY <1>3, <1>4, <1>5, <1>6, <1>7, <1>8, <1>9, <1>10 DEF MessageType, Tag

\* A run that starts: the turn is the next one, and out/ is empty, in/memory/ and
\* the manifest what the memory is.
LEMMA Starting ==
  ASSUME Inv, StartTurn
  PROVE  /\ ~world.running /\ world'.running /\ world'.turn \in Run
         /\ world.turn \in 0..MaxTurns /\ world'.turn = world.turn + 1
         /\ world'.ended = world.ended
         /\ world'.finishes = world.finishes /\ world'.plan = world.plan
         /\ model'.jobs = model.jobs /\ model'.runs = model.runs
         /\ model'.requests = model.requests /\ model'.outbox = model.outbox
         /\ model'.notes = model.notes /\ model'.skills = model.skills
         /\ ws'.live /\ ws'.out = NoFiles /\ ws'.in = model.notes /\ ws'.manifest = model.notes
         /\ UNCHANGED <<inbox, effects, store, handed>>
         /\ Overlap \/ (model.jobs = {} /\ inbox = <<>> /\ effects = {})
<1>1. /\ model \in ModelType /\ ws \in WorkspaceType /\ world \in WorldType
      /\ world.turn \in 0..MaxTurns
  BY DEF Inv, Types, WorldType
<1>2. world.turn + 1 \in Run
  <2>1. world.turn < MaxTurns
    BY DEF StartTurn
  <2>2. QED
    BY <1>1, <2>1, Bounds DEF Run
<1>3. /\ ~world.running
      /\ world' = [world EXCEPT !.turn = @ + 1, !.running = TRUE]
      /\ model' = [model EXCEPT !.status = "awaiting-agent"]
      /\ ws' = [ws EXCEPT !.live = TRUE, !.out = NoFiles, !.in = model.notes,
                          !.manifest = model.notes]
      /\ UNCHANGED <<inbox, effects, store, handed>>
      /\ Overlap \/ (model.jobs = {} /\ inbox = <<>> /\ effects = {})
  BY DEF StartTurn
<1>4. /\ world'.running /\ world'.turn = world.turn + 1 /\ world'.ended = world.ended
      /\ world'.finishes = world.finishes /\ world'.plan = world.plan
  BY <1>1, <1>3 DEF WorldType
<1>5. /\ model'.jobs = model.jobs /\ model'.runs = model.runs
      /\ model'.requests = model.requests /\ model'.outbox = model.outbox
      /\ model'.notes = model.notes /\ model'.skills = model.skills
  BY <1>1, <1>3 DEF ModelType
<1>6. ws'.live /\ ws'.out = NoFiles /\ ws'.in = model.notes /\ ws'.manifest = model.notes
  BY <1>1, <1>3 DEF WorkspaceType
<1>7. QED
  BY <1>1, <1>2, <1>3, <1>4, <1>5, <1>6

\* A run that ends: its outcome lists the whole of out/, and its end is on the
\* channel.
LEMMA Stopping ==
  ASSUME Inv, NEW o \in world.plan.outcomes, EndTurn(o)
  PROVE  /\ world.running /\ ~world'.running /\ world.turn \in Run /\ o \in Outcome
         /\ world'.turn = world.turn
         /\ world'.ended = [world.ended EXCEPT ![world.turn] =
                              [ok |-> o.ok, has |-> Manifest(ws'.out), drops |-> o.drops]]
         /\ world'.finishes = world.finishes /\ world'.plan = world.plan
         /\ UNCHANGED <<model, effects, store, handed>>
         /\ Message("agent-run-finished", world.turn, "", 0) \in MessageType
         /\ inbox' = Append(inbox, Message("agent-run-finished", world.turn, "", 0))
         /\ ws'.live = ws.live /\ ws'.manifest = ws.manifest
         /\ ws.live =>
              /\ ws'.out = [f \in File |-> IF f \in o.has THEN world.turn ELSE ws.out[f]]
              /\ ws'.in = ws.in \ o.drops /\ o.drops \subseteq ws.in
         /\ ~ws.live => o.drops = {} /\ ws' = ws
<1>1. /\ Types /\ ws \in WorkspaceType /\ world \in WorldType /\ world.plan \in Plans
  BY DEF Inv, Types, WorldType
<1>2. world.running /\ world.turn \in Run /\ world.turn \in 0..MaxTurns
  BY <1>1 DEF EndTurn, Types, WorldType
<1>3. o \in Outcome
  BY <1>1, HarvestAssumption
<1>4. /\ world' = [world EXCEPT !.running = FALSE,
                                !.ended[world.turn] = [o EXCEPT !.has = Manifest(ws'.out)]]
      /\ inbox' = Append(inbox, Message("agent-run-finished", world.turn, "", 0))
      /\ UNCHANGED <<model, effects, store, handed>>
  BY DEF EndTurn
<1>5. PICK h : h = [ok |-> o.ok, has |-> Manifest(ws'.out), drops |-> o.drops]
  OBVIOUS
<1>6. h = [o EXCEPT !.has = Manifest(ws'.out)]
  BY <1>3, <1>5 DEF Outcome
<1>7. PICK ended : ended = [world.ended EXCEPT ![world.turn] = h]
  OBVIOUS
<1>8. world' = [world EXCEPT !.running = FALSE, !.ended = ended]
  BY <1>1, <1>4, <1>6, <1>7 DEF WorldType
<1>9. /\ ~world'.running /\ world'.turn = world.turn /\ world'.ended = ended
      /\ world'.finishes = world.finishes /\ world'.plan = world.plan
  BY <1>1, <1>8 DEF WorldType
<1>10. CASE ws.live
  <2>1. o.drops \subseteq ws.in
    BY <1>10 DEF EndTurn
  <2>2. PICK out : out = [f \in File |-> IF f \in o.has THEN world.turn ELSE ws.out[f]]
    OBVIOUS
  <2>3. ws' = [ws EXCEPT !.out = [f \in File |-> IF f \in o.has THEN world.turn ELSE @[f]],
                         !.in = @ \ o.drops, !.papers = @ \cup {world.turn}]
    BY <1>10 DEF EndTurn
  <2>4. ws' = [ws EXCEPT !.out = out, !.in = @ \ o.drops, !.papers = @ \cup {world.turn}]
    BY <1>1, <2>2, <2>3 DEF WorkspaceType
  <2>5. /\ ws'.live = ws.live /\ ws'.manifest = ws.manifest
        /\ ws'.out = out /\ ws'.in = ws.in \ o.drops
    BY <1>1, <2>4 DEF WorkspaceType
  <2>6. Message("agent-run-finished", world.turn, "", 0) \in MessageType
    BY <1>2 DEF Message, MessageType, Tag
  <2>7. QED
    BY <1>2, <1>3, <1>4, <1>5, <1>7, <1>9, <1>10, <2>1, <2>2, <2>5, <2>6
<1>11. CASE ~ws.live
  <2>1. o.drops = {} /\ ws' = ws
    BY <1>11 DEF EndTurn
  <2>2. Message("agent-run-finished", world.turn, "", 0) \in MessageType
    BY <1>2 DEF Message, MessageType, Tag
  <2>3. QED
    BY <1>2, <1>3, <1>4, <1>5, <1>7, <1>9, <1>11, <2>1, <2>2
<1>12. QED
  BY <1>10, <1>11

\* A user who finishes the task sends finish-task, once a run has started.
LEMMA UserDone ==
  ASSUME Inv, UserFinishes
  PROVE  /\ world'.finishes = world.finishes + 1 /\ world'.finishes # 0 /\ world.turn > 0
         /\ world'.turn = world.turn /\ world'.running = world.running
         /\ world'.ended = world.ended /\ world'.plan = world.plan
         /\ UNCHANGED <<model, effects, ws, store, handed>>
         /\ Message("finish-task", 0, "", 0) \in MessageType
         /\ inbox' = Append(inbox, Message("finish-task", 0, "", 0))
<1>1. world \in WorldType /\ world.finishes \in Nat
  BY DEF Inv, Types, WorldType
<1>2. /\ world' = [world EXCEPT !.finishes = @ + 1] /\ world.turn > 0
      /\ inbox' = Append(inbox, Message("finish-task", 0, "", 0))
      /\ UNCHANGED <<model, effects, ws, store, handed>>
  BY DEF UserFinishes
<1>3. /\ world'.finishes = world.finishes + 1 /\ world'.plan = world.plan
      /\ world'.turn = world.turn /\ world'.running = world.running
      /\ world'.ended = world.ended
  BY <1>1, <1>2 DEF WorldType
<1>4. world'.finishes # 0
  BY <1>1, <1>3
<1>5. Message("finish-task", 0, "", 0) \in MessageType
  BY Bounds DEF Message, MessageType, Tag
<1>6. QED
  BY <1>2, <1>3, <1>4, <1>5

-----------------------------------------------------------------------------
(***************************************************************************)
(* When a run's outcome is fixed.  A run that is not over has none yet; an *)
(* agent-run-finished is of a run that is over and not yet applied, and    *)
(* jobs are of runs whose end has been applied.                            *)
(***************************************************************************)
Over(r) == r < world.turn \/ (r = world.turn /\ ~world.running)
EndOf(r) == {m \in MessageType : m.tag = "agent-run-finished" /\ m.run = r}
Ended ==
  /\ \A r \in Run :
       /\ ~Over(r) => world.ended[r] = NotEnded
       /\ Once(inbox, EndOf(r))
       /\ Has(inbox, EndOf(r)) => Over(r) /\ r \notin Finished
       /\ r \in Finished => Over(r)
  /\ \A j \in model.jobs : j.run \in Finished

\* Appending to the list of the runs that are over adds that run.
LEMMA MoreFinished ==
  ASSUME Types, NEW r \in Run, model'.runs = Append(model.runs, r)
  PROVE  Finished' = Finished \cup {r}
<1>1. PICK s \in Seq(Run) : s = model.runs
  BY DEF Types, ModelType
<1>2. PICK n \in Nat : n = Len(s)
  OBVIOUS
<1>3. PICK t : t = Append(s, r)
  OBVIOUS
<1>4. DOMAIN s = 1..n /\ DOMAIN t = 1..(n + 1) /\ t[n + 1] = r /\ \A i \in 1..n : t[i] = s[i]
  BY <1>2, <1>3
<1>5. n + 1 \in 1..(n + 1) /\ 1..n \subseteq 1..(n + 1)
      /\ \A i \in 1..(n + 1) : i \in 1..n \/ i = n + 1
  BY <1>2
<1>6. Range(t) = Range(s) \cup {r}
  BY <1>4, <1>5 DEF Range
<1>7. QED
  BY <1>1, <1>3, <1>6 DEF Finished

\* A request that is registered is owed.
LEMMA RequestOwed ==
  ASSUME Inv, NEW m \in MessageType, 1 \in DOMAIN inbox, m = inbox[1],
         m.tag \in {"register-ui-request", "run-harvest", "mark-harvested"}, Sound(m)
  PROVE  Job(m.run, IF m.tag = "register-ui-request" THEN "request" ELSE m.name) \in model.jobs
<1>1. PICK k : k = IF m.tag = "register-ui-request" THEN "request" ELSE m.name
  OBVIOUS
<1>2. m.run \in Run /\ k \in Kind /\ model \in ModelType
  BY <1>1 DEF Sound, Kind, Inv, Types
<1>3. For(m) = SourceJob(Job(m.run, k))
  BY <1>1 DEF For
<1>4. For(m) # NoSource
  <2>1. For(m).of = "harvest"
    BY <1>3 DEF SourceJob
  <2>2. NoSource.of = "none"
    BY DEF NoSource
  <2>3. QED
    BY <2>1, <2>2
<1>5. For(m) \in Desired(model)
  <2>1. For(inbox[1]) \in started /\ started = Desired(model)
    BY <1>4 DEF Inv, Chains
  <2>2. QED
    BY <2>1
<1>6. QED
  BY <1>1, <1>2, <1>3, <1>5, SourceOwed

\* A step that leaves turns, outcomes and jobs, and sends no run's end.
LEMMA SameEnded ==
  ASSUME Ended, world'.turn = world.turn, world'.running = world.running,
         world'.ended = world.ended, model'.runs = model.runs,
         \A j \in model'.jobs : j.run \in Finished,
         \A r \in Run : (Has(inbox', EndOf(r)) => Has(inbox, EndOf(r))) /\ Once(inbox', EndOf(r))
  PROVE  Ended'
<1>1. Finished' = Finished /\ \A r : Over(r)' = Over(r)
  BY DEF Finished, Over
<1>2. QED
  BY <1>1 DEF Ended

\* Every step keeps it.
LEMMA EndedNext ==
  ASSUME Inv, Uttered, Ended, [Next]_vars
  PROVE  Ended'
<1>1. /\ Types /\ Working /\ effects \subseteq EffectType /\ world \in WorldType
      /\ world.turn \in 0..MaxTurns /\ world.ended \in [Run -> Outcome]
  BY DEF Inv, Types, WorldType
<1>2. CASE Reduce
  <2>1. PICK m \in MessageType :
          /\ m = inbox[1] /\ 1 \in DOMAIN inbox /\ inbox # <<>> /\ inbox' = Tail(inbox)
          /\ Sound(m) /\ model' = Update(model, m) /\ world' = world
    BY <1>2, Turning
  <2>2. ASSUME NEW r \in Run
        PROVE  /\ Has(inbox', EndOf(r)) => Has(inbox, EndOf(r))
               /\ Once(inbox', EndOf(r))
               /\ m \in EndOf(r) => Has(inbox, EndOf(r)) /\ ~Has(inbox', EndOf(r))
    BY <1>1, <2>1, TakenHas DEF Ended
  <2>3. CASE m.tag = "agent-run-finished"
    <3>1. m.run \in Run /\ m \in EndOf(m.run)
      BY <2>1, <2>3 DEF Sound, EndOf
    <3>2. /\ model'.runs = Append(model.runs, m.run)
          /\ model'.jobs = model.jobs \cup {Job(m.run, k) : k \in Owed(world.ended[m.run])}
      BY <1>1, <2>1, <2>3, UpdateParts
    <3>3. Finished' = Finished \cup {m.run}
      BY <1>1, <3>1, <3>2, MoreFinished
    <3>4. \A r : Over(r)' = Over(r)
      BY <2>1 DEF Over
    <3>5. Over(m.run) /\ ~Has(inbox', EndOf(m.run))
      BY <2>2, <3>1 DEF Ended
    <3>6. \A j \in model'.jobs : j.run \in Finished'
      BY <3>2, <3>3 DEF Ended, Job
    <3>7. QED
      BY <2>1, <2>2, <3>3, <3>4, <3>5, <3>6 DEF Ended
  <2>4. CASE m.tag # "agent-run-finished"
    <3>1. model'.runs = model.runs
      BY <1>1, <2>1, <2>4, UpdateParts
    <3>2. \A j \in model'.jobs : j.run \in Finished
      <4>1. CASE m.tag = "register-ui-request"
        <5>1. Job(m.run, "request") \in model.jobs
          BY <2>1, <4>1, RequestOwed
        <5>2. m.run \in Finished
          BY <5>1 DEF Ended, Job
        <5>3. model'.jobs = (model.jobs \ {Job(m.run, "request")}) \cup {Job(m.run, "reply")}
          BY <1>1, <2>1, <4>1, UpdateParts
        <5>4. QED
          BY <5>2, <5>3 DEF Ended, Job
      <4>2. CASE m.tag # "register-ui-request"
        <5>1. model'.jobs \subseteq model.jobs
          BY <1>1, <2>1, <2>4, <4>2, UpdateParts
        <5>2. QED
          BY <5>1 DEF Ended
      <4>3. QED
        BY <4>1, <4>2
    <3>3. QED
      BY <2>1, <2>2, <3>1, <3>2, SameEnded
  <2>5. QED
    BY <2>3, <2>4
<1>3. ASSUME NEW e \in effects, EffectWorks(e) PROVE Ended'
  <2>1. UNCHANGED <<model, inbox, world>>
    BY <1>1, <1>3, WorksKeep
  <2>2. QED
    BY <2>1, SameEnded DEF Ended
<1>4. ASSUME NEW e \in effects, Emit(e) PROVE Ended'
  <2>1. Fine(e) /\ e.pc = "emit"
    BY <1>1, <1>4 DEF Working, Emit
  <2>2. PICK m \in MessageType : /\ m = e.says[1] /\ 1 \in DOMAIN e.says
                                 /\ inbox' = Append(inbox, m) /\ UNCHANGED <<model, world>>
    BY <1>1, <1>4, <2>1, Emits
  <2>3. m.tag # "agent-run-finished"
    BY <2>1, <2>2, UtteredTags DEF Uttered
  <2>4. \A r : m \notin EndOf(r)
    BY <2>3 DEF EndOf
  <2>5. ASSUME NEW r \in Run
        PROVE  (Has(inbox', EndOf(r)) => Has(inbox, EndOf(r))) /\ Once(inbox', EndOf(r))
    BY <1>1, <2>2, <2>4, ComesHas DEF Ended
  <2>6. QED
    BY <2>2, <2>5, SameEnded DEF Ended
<1>5. CASE Idle
  <2>1. ASSUME NEW r \in Run
        PROVE  (Has(inbox', EndOf(r)) => Has(inbox, EndOf(r))) /\ Once(inbox', EndOf(r))
    <3>1. EndOf(r) \cap Tagged(Signals) = {}
      BY DEF EndOf, Tagged, Signals
    <3>2. QED
      BY <1>1, <1>5, <3>1, IdleHas DEF Ended
  <2>2. QED
    BY <1>5, <2>1, SameEnded DEF Ended, Idle
<1>6. CASE StartTurn
  <2>1. /\ ~world.running /\ world'.running /\ world'.turn = world.turn + 1
        /\ world'.ended = world.ended
        /\ model'.jobs = model.jobs /\ model'.runs = model.runs /\ inbox' = inbox
    BY <1>6, Starting
  <2>2. ASSUME NEW r \in Run PROVE Over(r)' <=> Over(r)
    <3>1. r \in Nat /\ world.turn \in Nat
      BY <1>1 DEF Run
    <3>2. QED
      BY <2>1, <3>1 DEF Over
  <2>3. Finished' = Finished
    BY <2>1 DEF Finished
  <2>4. QED
    BY <2>1, <2>2, <2>3 DEF Ended
<1>7. ASSUME NEW o \in world.plan.outcomes, EndTurn(o) PROVE Ended'
  <2>1. PICK m \in MessageType :
          m = Message("agent-run-finished", world.turn, "", 0) /\ inbox' = Append(inbox, m)
    BY <1>7, Stopping
  <2>2. PICK h : world'.ended = [world.ended EXCEPT ![world.turn] = h]
    BY <1>7, Stopping
  <2>3. /\ world.running /\ ~world'.running /\ world.turn \in Run
        /\ world'.turn = world.turn /\ model' = model
    BY <1>7, Stopping
  <2>4. ~Over(world.turn) /\ Over(world.turn)'
    BY <1>1, <2>3 DEF Over, Run
  <2>5. ASSUME NEW r \in Run, r # world.turn
        PROVE  (Over(r)' <=> Over(r)) /\ world'.ended[r] = world.ended[r] /\ m \notin EndOf(r)
    BY <1>1, <2>1, <2>2, <2>3, <2>5 DEF Over, EndOf, Message
  <2>6. world.turn \notin Finished /\ ~Has(inbox, EndOf(world.turn))
    BY <2>3, <2>4 DEF Ended
  <2>7. ASSUME NEW r \in Run
        PROVE  /\ Once(inbox', EndOf(r))
               /\ Has(inbox', EndOf(r)) <=> Has(inbox, EndOf(r)) \/ m \in EndOf(r)
    <3>1. m \notin EndOf(r) \/ ~Has(inbox, EndOf(r))
      BY <2>5, <2>6
    <3>2. QED
      BY <1>1, <2>1, <3>1, ComesHas DEF Ended
  <2>8. Finished' = Finished
    BY <2>3 DEF Finished
  <2>9. QED
    BY <2>3, <2>4, <2>5, <2>6, <2>7, <2>8 DEF Ended
<1>8. CASE UserFinishes
  <2>1. PICK m \in MessageType :
          m = Message("finish-task", 0, "", 0) /\ inbox' = Append(inbox, m)
    BY <1>8, UserDone
  <2>2. /\ world'.turn = world.turn /\ world'.running = world.running
        /\ world'.ended = world.ended /\ model' = model
    BY <1>8, UserDone
  <2>3. \A r : m \notin EndOf(r)
    BY <2>1 DEF EndOf, Message
  <2>4. ASSUME NEW r \in Run
        PROVE  (Has(inbox', EndOf(r)) => Has(inbox, EndOf(r))) /\ Once(inbox', EndOf(r))
    BY <1>1, <2>1, <2>3, ComesHas DEF Ended
  <2>5. QED
    BY <2>2, <2>4, SameEnded DEF Ended
<1>9. QED
  BY <1>2, <1>3, <1>4, <1>5, <1>6, <1>7, <1>8, Shapes

\* It holds in every behaviour.
LEMMA EndedInvariance == Spec => []Ended
<1>1. Init => Ended
  <2>1. ASSUME Init PROVE Ended
    <3>1. /\ inbox = <<>> /\ model.jobs = {} /\ model.runs = <<>>
          /\ \A r \in Run : world.ended[r] = NotEnded
      BY <2>1 DEF Init
    <3>2. DOMAIN inbox = {} /\ Finished = {}
      BY <3>1 DEF Finished, Range
    <3>3. QED
      BY <3>1, <3>2 DEF Ended, Has, Once
  <2>2. QED
    BY <2>1
<1>2. Inv /\ Uttered /\ Ended /\ [Next]_vars => Ended'
  BY EndedNext
<1>3. QED
  BY <1>1, <1>2, Invariance, UtteredInvariance, PTL DEF Spec

-----------------------------------------------------------------------------
(***************************************************************************)
(* The notes.  Until the task is finished nothing deletes a note but a run *)
(* that drops it, and capture-memory reports as missing what a run dropped.*)
(***************************************************************************)
Open == world.finishes = 0
Dropped == UNION {world.ended[r].drops : r \in Run}

\* Before the user marks the task done nobody archives it.
Early == Open => ~Has(inbox, Finishing) /\ Archiving = {}

\* The forgets of a note no run dropped.
Unowed == {m \in MessageType : m.tag = "forget" /\ m.name \in Notes \ Dropped}
NotesKept == Open =>
  /\ Notes \subseteq model.notes \cup Dropped
  /\ world.turn > 0 => Notes \subseteq ws.in \cup Dropped
  /\ \A e \in effects : e.kind = "capture-memory" /\ e.pc = "read" =>
                          Notes \subseteq e.kept \cup Dropped
  /\ ~Has(inbox, Unowed)
  /\ \A e \in effects : e.pc = "emit" => ~Has(e.says, Unowed)

\* An effect of a job is of a job that is owed, of a run that is over.
LEMMA EffectOwed ==
  ASSUME Inv, Ended, NEW e \in effects, e.kind \notin {"send-email", "archive-task"}
  PROVE  /\ Job(e.run, KindOf(e)) \in model.jobs /\ e.run \in Run /\ e.run \in Finished
         /\ Over(e.run) /\ world.turn > 0 /\ KindOf(e) \in Kind
<1>1. Types /\ Fine(e) /\ model \in ModelType /\ world.turn \in 0..MaxTurns
  BY DEF Inv, Working, Types, WorldType
<1>2. e.run \in Run /\ KindOf(e) \in Kind
  BY <1>1 DEF Fine, KindOf, Kind
<1>3. Of(e) = SourceJob(Job(e.run, KindOf(e)))
  BY DEF Of
<1>4. Of(e) # NoSource
  <2>1. Of(e).of = "harvest"
    BY <1>3 DEF SourceJob
  <2>2. NoSource.of = "none"
    BY DEF NoSource
  <2>3. QED
    BY <2>1, <2>2
<1>5. Of(e) \in started /\ started = Desired(model)
  BY <1>4 DEF Inv, Chains
<1>6. SourceJob(Job(e.run, KindOf(e))) \in Desired(model)
  BY <1>3, <1>5
<1>7. Job(e.run, KindOf(e)) \in model.jobs
  BY <1>1, <1>2, <1>6, SourceOwed
<1>8. e.run \in Finished
  BY <1>7 DEF Ended, Job
<1>9. Over(e.run)
  BY <1>2, <1>8 DEF Ended
<1>10. world.turn > 0
  BY <1>1, <1>2, <1>9, Bounds DEF Over, Run
<1>11. QED
  BY <1>2, <1>7, <1>8, <1>9, <1>10

\* How an effect at work moves on.
LEMMA WorksHow ==
  ASSUME Types, NEW e \in effects, EffectWorks(e)
  PROVE  \/ ReadFiles(e)
         \/ \E s : Reports(e, s)
         \/ Ends(e)
         \/ \E f : Becomes(e, f) /\ f.pc \notin {"emit", "read"}
<1>1. e \in EffectType
  BY DEF Types
<1>2. CASE Submit(e) \/ ArchiveFiles(e) \/ CheckCovered(e) \/ RemoveWorkspace(e)
  <2>1. ASSUME NEW f, Becomes(e, f), f.pc \notin {"emit", "read"}
        PROVE  \E g : Becomes(e, g) /\ g.pc \notin {"emit", "read"}
    BY <2>1
  <2>2. CASE Becomes(e, [e EXCEPT !.pc = "submitted"]) \/ Becomes(e, [e EXCEPT !.pc = "manifest"])
    <3>1. /\ [e EXCEPT !.pc = "submitted"].pc = "submitted"
          /\ [e EXCEPT !.pc = "manifest"].pc = "manifest"
      BY <1>1 DEF EffectType
    <3>2. QED
      BY <2>1, <2>2, <3>1
  <2>3. ASSUME NEW pc \in {"delete", "remove"},
               Becomes(e, [e EXCEPT !.pc = pc, !.out = ws.out, !.kept = ws.in,
                                    !.papers = ws.papers])
        PROVE  \E g : Becomes(e, g) /\ g.pc \notin {"emit", "read"}
    <3>1. PICK f : f = [e EXCEPT !.pc = pc, !.out = ws.out, !.kept = ws.in, !.papers = ws.papers]
      OBVIOUS
    <3>2. f.pc = pc /\ Becomes(e, f)
      BY <1>1, <2>3, <3>1 DEF EffectType
    <3>3. QED
      BY <2>1, <3>2
  <2>4. \/ Becomes(e, [e EXCEPT !.pc = "submitted"]) \/ Becomes(e, [e EXCEPT !.pc = "manifest"])
        \/ Ends(e)
        \/ Becomes(e, [e EXCEPT !.pc = "delete", !.out = ws.out, !.kept = ws.in,
                                !.papers = ws.papers])
        \/ Becomes(e, [e EXCEPT !.pc = "remove", !.out = ws.out, !.kept = ws.in,
                                !.papers = ws.papers])
    BY <1>2 DEF Submit, ArchiveFiles, CheckCovered, RemoveWorkspace
  <2>5. QED
    BY <2>2, <2>3, <2>4
<1>3. CASE CaptureTranscript(e) \/ CaptureMemory(e) \/ StoreSkill(e) \/ MintUIRequest(e)
           \/ AssembleReply(e) \/ MarkOutboxSent(e) \/ DeleteManifest(e)
  BY <1>3 DEF CaptureTranscript, CaptureMemory, StoreSkill, MintUIRequest, AssembleReply,
              MarkOutboxSent, DeleteManifest
<1>4. QED
  BY <1>2, <1>3 DEF EffectWorks

\* An effect that has read the workspace holds what it read.
LEMMA JustRead ==
  ASSUME Types, NEW e \in effects, EffectWorks(e), NEW g \in effects', g \notin effects,
         g.pc = "read"
  PROVE  ReadFiles(e) /\ Same(e, g) /\ g.out = ws.out /\ g.kept = ws.in
<1>1. e \in EffectType
  BY DEF Types
<1>2. CASE ReadFiles(e)
  <2>1. PICK f : f = [e EXCEPT !.pc = "read", !.out = ws.out, !.kept = ws.in]
    OBVIOUS
  <2>2. Same(e, f) /\ f.out = ws.out /\ f.kept = ws.in
    BY <1>1, <2>1 DEF EffectType, Same
  <2>3. g = f
    BY <1>2, <2>1 DEF ReadFiles, Becomes
  <2>4. QED
    BY <1>2, <2>2, <2>3
<1>3. ASSUME NEW s, Reports(e, s) PROVE FALSE
  <2>1. [e EXCEPT !.pc = "emit", !.says = s].pc = "emit"
    BY <1>1 DEF EffectType
  <2>2. QED
    BY <1>3, <2>1 DEF Reports, Becomes
<1>4. ASSUME Ends(e) PROVE FALSE
  BY <1>4 DEF Ends
<1>5. ASSUME NEW f, Becomes(e, f), f.pc \notin {"emit", "read"} PROVE FALSE
  BY <1>5 DEF Becomes
<1>6. QED
  BY <1>2, <1>3, <1>4, <1>5, WorksHow

\* Until the task is finished no effect touches the workspace or the archive.
LEMMA DiskStays ==
  ASSUME Types, Early, Open, NEW e \in effects, EffectWorks(e)
  PROVE  ws' = ws /\ store'.artifacts = store.artifacts /\ e.kind # "archive-task"
<1>1. e.kind # "archive-task"
  BY DEF Early, Archiving
<1>2. ~RemoveWorkspace(e) /\ ~DeleteManifest(e) /\ ~ArchiveFiles(e)
  BY <1>1 DEF RemoveWorkspace, DeleteManifest, ArchiveFiles, At
<1>3. QED
  BY <1>1, <1>2, WorksKeep

\* Every step keeps the task unarchived until it is finished.
LEMMA EarlyNext == ASSUME Inv, Uttered, Early, [Next]_vars PROVE Early' /\ (Open' => Open)
<1>1. /\ Types /\ Working /\ effects \subseteq EffectType /\ world \in WorldType
  BY DEF Inv, Types
<1>2. CASE Reduce
  <2>1. PICK m \in MessageType :
          /\ m = inbox[1] /\ inbox # <<>> /\ inbox' = Tail(inbox) /\ Sound(m)
          /\ effects' = effects \cup Commands(model, m) /\ world' = world
    BY <1>2, Turning
  <2>2. /\ Has(inbox', Finishing) => Has(inbox, Finishing)
        /\ m \in Finishing => Has(inbox, Finishing)
    BY <1>1, <2>1, TakenHas
  <2>3. m \notin Finishing => \A c \in Commands(model, m) : c.kind # "archive-task"
    <3>1. m \notin Finishing => m.tag # "finish-task"
      BY DEF Finishing, Tagged
    <3>2. ASSUME m \notin Finishing, NEW c \in Commands(model, m) PROVE c.kind # "archive-task"
      BY <1>1, <2>1, <3>1, <3>2, CommandsType, KindOfEffect
    <3>3. QED
      BY <3>2
  <2>4. QED
    BY <2>1, <2>2, <2>3 DEF Early, Open, Archiving
<1>3. ASSUME NEW e \in effects, EffectWorks(e) PROVE Early' /\ (Open' => Open)
  <2>1. UNCHANGED <<inbox, world>> /\ Fine(e)
    BY <1>1, <1>3, WorksKeep DEF Working
  <2>2. \A g \in effects' : g \in effects \/ g.kind = e.kind
    BY <1>1, <1>3, <2>1, WorksSucceeds DEF Succeeds, Same
  <2>3. QED
    BY <2>1, <2>2 DEF Early, Open, Archiving
<1>4. ASSUME NEW e \in effects, Emit(e) PROVE Early' /\ (Open' => Open)
  <2>1. Fine(e) /\ e.pc = "emit"
    BY <1>1, <1>4 DEF Working, Emit
  <2>2. PICK m \in MessageType :
          /\ m = e.says[1] /\ 1 \in DOMAIN e.says
          /\ inbox' = Append(inbox, m) /\ world' = world
          /\ \A f \in effects' : f \in effects \/ Same(e, f)
    BY <1>1, <1>4, <2>1, Emits
  <2>3. m \notin Finishing
    BY <2>1, <2>2, UtteredTags DEF Uttered, Finishing, Tagged
  <2>4. Has(inbox', Finishing) <=> Has(inbox, Finishing)
    BY <1>1, <2>2, <2>3, ComesHas
  <2>5. QED
    BY <2>2, <2>4 DEF Early, Open, Archiving, Same
<1>5. CASE Idle
  <2>1. Finishing \cap Tagged(Signals) = {}
    BY DEF Finishing, Tagged, Signals
  <2>2. Has(inbox', Finishing) => Has(inbox, Finishing)
    BY <1>1, <1>5, <2>1, IdleHas
  <2>3. QED
    BY <1>5, <2>2 DEF Early, Open, Archiving, Idle
<1>6. CASE StartTurn
  BY <1>6, Starting DEF Early, Open, Archiving
<1>7. ASSUME NEW o \in world.plan.outcomes, EndTurn(o) PROVE Early' /\ (Open' => Open)
  <2>1. PICK m \in MessageType :
          m = Message("agent-run-finished", world.turn, "", 0) /\ inbox' = Append(inbox, m)
    BY <1>7, Stopping
  <2>2. effects' = effects /\ world'.finishes = world.finishes
    BY <1>7, Stopping
  <2>3. m \notin Finishing
    BY <2>1 DEF Message, Finishing, Tagged
  <2>4. Has(inbox', Finishing) <=> Has(inbox, Finishing)
    BY <1>1, <2>1, <2>3, ComesHas
  <2>5. QED
    BY <2>2, <2>4 DEF Early, Open, Archiving
<1>8. CASE UserFinishes
  <2>1. world'.finishes # 0
    BY <1>8, UserDone
  <2>2. QED
    BY <2>1 DEF Early, Open
<1>9. QED
  BY <1>2, <1>3, <1>4, <1>5, <1>6, <1>7, <1>8, Shapes

\* Which kind of effect says what.
LEMMA UtteredBy ==
  ASSUME NEW e, NEW m, Utters(e, m)
  PROVE  /\ m.tag \in {"remember", "forget"} => e.kind = "capture-memory"
         /\ m.tag = "register-skill" => e.kind = "store-skill"
         /\ m.tag = "mark-harvested" => m = MarkHarvested(e.run, KindOf(e))
         /\ m.tag = "register-ui-request" => e.kind = "mint-ui-request"
<1>1. \A r, k : MarkHarvested(r, k).tag = "mark-harvested"
  BY DEF MarkHarvested, Message
<1>2. \A r : Message("register-ui-request", r, "", 0).tag = "register-ui-request"
  BY DEF Message
<1>3. QED
  BY <1>1, <1>2 DEF Utters

\* A step that leaves the outcomes leaves what was dropped.
LEMMA SameDropped ==
  ASSUME world'.ended = world.ended
  PROVE  Dropped' = Dropped /\ Unowed' = Unowed
BY DEF Dropped, Unowed

\* Every step keeps the notes.
LEMMA NotesNext ==
  ASSUME Inv, Uttered, Ended, Early, NotesKept, [Next]_vars
  PROVE  NotesKept'
<1>1. /\ Types /\ Working /\ effects \subseteq EffectType /\ world \in WorldType
      /\ world.turn \in 0..MaxTurns /\ world.ended \in [Run -> Outcome]
  BY DEF Inv, Types, WorldType
<1> SUFFICES ASSUME Open' PROVE NotesKept'
  BY DEF NotesKept
<1>2. Open
  BY EarlyNext
<1>3. CASE Reduce
  <2>1. PICK m \in MessageType :
          /\ m = inbox[1] /\ inbox # <<>> /\ inbox' = Tail(inbox) /\ Sound(m)
          /\ model' = Update(model, m)
          /\ effects' = effects \cup Commands(model, m) /\ UNCHANGED <<ws, world>>
    BY <1>3, Turning
  <2>2. ~Has(inbox', Unowed) /\ m \notin Unowed
    BY <1>1, <1>2, <2>1, TakenHas DEF NotesKept
  <2>3. \A c \in Commands(model, m) : c.pc = "start"
    BY <1>1, <2>1, CommandsType
  <2>4. Dropped' = Dropped /\ Unowed' = Unowed
    BY <2>1, SameDropped
  <2>5. Notes \subseteq model'.notes \cup Dropped
    <3>1. m.tag = "forget" => m.name \notin Notes \/ m.name \in Dropped
      BY <2>2 DEF Unowed
    <3>2. Notes \subseteq model.notes \cup Dropped
      BY <1>2 DEF NotesKept
    <3>3. \/ model.notes \subseteq model'.notes
          \/ m.tag = "forget" /\ model'.notes = model.notes \ {m.name}
      BY <1>1, <2>1, UpdateParts
    <3>4. QED
      BY <3>1, <3>2, <3>3
  <2>6. QED
    BY <1>2, <2>1, <2>2, <2>3, <2>4, <2>5 DEF NotesKept
<1>4. ASSUME NEW e \in effects, EffectWorks(e) PROVE NotesKept'
  <2>1. UNCHANGED <<model, inbox, world>> /\ Fine(e)
    BY <1>1, <1>4, WorksKeep DEF Working
  <2>2. ws' = ws /\ e.kind # "archive-task"
    BY <1>1, <1>2, <1>4, DiskStays
  <2>3. Dropped' = Dropped /\ Unowed' = Unowed
    BY <2>1, SameDropped
  <2>4. ASSUME NEW g \in effects', g \notin effects, g.kind = "capture-memory", g.pc = "read"
        PROVE  Notes \subseteq g.kept \cup Dropped
    <3>1. Same(e, g) /\ g.kept = ws.in
      BY <1>1, <1>4, <2>4, JustRead
    <3>2. world.turn > 0
      BY <2>4, <3>1, EffectOwed DEF Same
    <3>3. QED
      BY <1>2, <3>1, <3>2 DEF NotesKept
  <2>5. ASSUME NEW g \in effects', g \notin effects, g.pc = "emit"
        PROVE  ~Has(g.says, Unowed)
    <3>1. Same(e, g) /\ \A i \in DOMAIN g.says : Utters(g, g.says[i])
      BY <1>1, <1>4, <2>1, <2>5, WorksSucceeds DEF Succeeds
    <3>2. ASSUME NEW i \in DOMAIN g.says, g.says[i] \in Unowed PROVE FALSE
      <4>1. g.says[i].tag = "forget" /\ g.says[i].name \in Notes \ Dropped
        BY <3>2 DEF Unowed
      <4>2. g.kind = "capture-memory"
        BY <3>1, <4>1, UtteredBy
      <4>3. e.kind = "capture-memory"
        BY <3>1, <4>2 DEF Same
      <4>4. ReadFiles(e) \/ CaptureMemory(e)
        BY <1>4, <4>3 DEF EffectWorks, CaptureTranscript, StoreSkill, MintUIRequest,
           AssembleReply, Submit, MarkOutboxSent, ArchiveFiles, CheckCovered,
           RemoveWorkspace, DeleteManifest, At
      <4>5. ~ReadFiles(e)
        <5>1. [e EXCEPT !.pc = "read", !.out = ws.out, !.kept = ws.in].pc = "read"
          BY <1>1 DEF EffectType
        <5>2. QED
          BY <2>5, <5>1 DEF ReadFiles, Becomes
      <4>6. PICK s \in Seq(MessageType) :
              /\ Reports(e, s)
              /\ \A K : Has(s, K) <=>
                   \/ "note" \in Manifest(e.out) /\ Message("remember", 0, Lesson, 0) \in K
                   \/ \E n \in Missing(e) : Message("forget", 0, n, 0) \in K
                   \/ MarkHarvested(e.run, "memory") \in K
        BY <1>1, <2>1, <4>4, <4>5, MemorySays
      <4>7. g.says = s
        BY <1>1, <2>5, <4>6, Reported
      <4>8. Has(s, {g.says[i]})
        BY <3>2, <4>7 DEF Has
      <4>9. \/ Message("remember", 0, Lesson, 0) = g.says[i]
            \/ \E n \in Missing(e) : Message("forget", 0, n, 0) = g.says[i]
            \/ MarkHarvested(e.run, "memory") = g.says[i]
        BY <4>6, <4>8
      <4>10. Message("remember", 0, Lesson, 0).tag = "remember"
             /\ MarkHarvested(e.run, "memory").tag = "mark-harvested"
             /\ \A n : Message("forget", 0, n, 0).name = n
        BY DEF Message, MarkHarvested
      <4>11. g.says[i].name \in Missing(e)
        BY <4>1, <4>9, <4>10
      <4>12. g.says[i].name \notin e.kept
        BY <4>11 DEF Missing
      <4>13. e.pc = "read"
        BY <4>4, <4>5 DEF CaptureMemory, At
      <4>14. Notes \subseteq e.kept \cup Dropped
        BY <1>2, <4>3, <4>13 DEF NotesKept
      <4>15. QED
        BY <4>1, <4>12, <4>14
    <3>3. QED
      BY <3>2 DEF Has
  <2>6. QED
    BY <1>2, <2>1, <2>2, <2>3, <2>4, <2>5 DEF NotesKept
<1>5. ASSUME NEW e \in effects, Emit(e) PROVE NotesKept'
  <2>1. Fine(e) /\ e.pc = "emit"
    BY <1>1, <1>5 DEF Working, Emit
  <2>2. PICK m \in MessageType :
          /\ m = e.says[1] /\ 1 \in DOMAIN e.says
          /\ inbox' = Append(inbox, m) /\ UNCHANGED <<model, ws, world>>
          /\ \/ effects' = effects \ {e}
             \/ \E f : /\ effects' = (effects \ {e}) \cup {f} /\ f.pc = "emit"
                       /\ \A K : Has(e.says, K) <=> m \in K \/ Has(f.says, K)
    <3>1. PICK m \in MessageType :
            /\ m = e.says[1] /\ 1 \in DOMAIN e.says /\ Sound(m) /\ e \in EffectType
            /\ inbox' = Append(inbox, m) /\ UNCHANGED <<model, ws, store, handed, world>>
            /\ \/ /\ effects' = effects \ {e} /\ For(m) = Of(e)
                  /\ \A K : Has(e.says, K) => m \in K
               \/ /\ For(m) = NoSource
                  /\ \E f \in EffectType :
                       /\ effects' = (effects \ {e}) \cup {f} /\ Same(e, f) /\ f.pc = "emit"
                       /\ f.says # <<>> /\ f.says \in Seq(MessageType)
                       /\ \A K : Has(e.says, K) <=> m \in K \/ Has(f.says, K)
      BY <1>1, <1>5, <2>1, Emits
    <3>2. \/ effects' = effects \ {e}
          \/ \E f : /\ effects' = (effects \ {e}) \cup {f} /\ f.pc = "emit"
                    /\ \A K : Has(e.says, K) <=> m \in K \/ Has(f.says, K)
      BY <3>1
    <3>3. QED
      BY <3>1, <3>2
  <2>3. ~Has(e.says, Unowed)
    BY <1>2, <2>1 DEF NotesKept
  <2>4. m \notin Unowed
    BY <2>2, <2>3 DEF Has
  <2>5. ~Has(inbox', Unowed)
    BY <1>1, <1>2, <2>2, <2>4, ComesHas DEF NotesKept
  <2>6. Dropped' = Dropped /\ Unowed' = Unowed
    BY <2>2, SameDropped
  <2>7. \A f \in effects' : \/ f \in effects
                            \/ f.pc = "emit" /\ \A K : Has(f.says, K) => Has(e.says, K)
    BY <2>2
  <2>8. QED
    BY <1>2, <2>2, <2>3, <2>5, <2>6, <2>7 DEF NotesKept
<1>6. CASE Idle
  <2>1. Unowed \cap Tagged(Signals) = {}
    BY DEF Unowed, Tagged, Signals
  <2>2. ~Has(inbox', Unowed)
    BY <1>1, <1>2, <1>6, <2>1, IdleHas DEF NotesKept
  <2>3. Dropped' = Dropped /\ Unowed' = Unowed
    BY <1>6, SameDropped DEF Idle
  <2>4. QED
    BY <1>2, <1>6, <2>2, <2>3 DEF NotesKept, Idle
<1>7. CASE StartTurn
  <2>1. /\ world'.ended = world.ended /\ model'.notes = model.notes
        /\ ws'.in = model.notes /\ UNCHANGED <<inbox, effects>>
    BY <1>7, Starting
  <2>2. Dropped' = Dropped /\ Unowed' = Unowed
    BY <2>1, SameDropped
  <2>3. QED
    BY <1>2, <2>1, <2>2 DEF NotesKept
<1>8. ASSUME NEW o \in world.plan.outcomes, EndTurn(o) PROVE NotesKept'
  <2>1. PICK m \in MessageType :
          m = Message("agent-run-finished", world.turn, "", 0) /\ inbox' = Append(inbox, m)
    BY <1>8, Stopping
  <2>2. /\ world.running /\ world.turn \in Run /\ UNCHANGED <<model, effects>>
        /\ ws'.in = ws.in \/ ws'.in = ws.in \ o.drops
    BY <1>8, Stopping
  <2>3. PICK h : h.drops = o.drops /\ world'.ended = [world.ended EXCEPT ![world.turn] = h]
    BY <1>8, Stopping
  <2>4. world.ended[world.turn].drops = {}
    BY <1>1, <2>2 DEF Ended, Over, Run, NotEnded
  <2>5. Dropped \subseteq Dropped' /\ o.drops \subseteq Dropped'
    <3>1. \A r \in Run : world.ended[r].drops \subseteq world'.ended[r].drops
      BY <1>1, <2>3, <2>4
    <3>2. world'.ended[world.turn].drops = o.drops
      BY <1>1, <2>2, <2>3
    <3>3. QED
      BY <2>2, <3>1, <3>2 DEF Dropped
  <2>6. Unowed' \subseteq Unowed /\ m \notin Unowed
    BY <2>1, <2>5 DEF Unowed, Message
  <2>7. ~Has(inbox', Unowed)
    BY <1>1, <1>2, <2>1, <2>6, ComesHas DEF NotesKept
  <2>8. \A s : ~Has(s, Unowed) => ~Has(s, Unowed')
    BY <2>6 DEF Has
  <2>9. world.turn > 0
    BY <2>2 DEF Run
  <2>10. Notes \subseteq ws'.in \cup Dropped'
    BY <1>2, <2>2, <2>5, <2>9 DEF NotesKept
  <2>11. /\ Notes \subseteq model'.notes \cup Dropped'
         /\ \A e \in effects' : e.kind = "capture-memory" /\ e.pc = "read" =>
                                  Notes \subseteq e.kept \cup Dropped'
    BY <1>2, <2>2, <2>5 DEF NotesKept
  <2>12. \A e \in effects' : e.pc = "emit" => ~Has(e.says, Unowed')
    BY <1>2, <2>2, <2>8 DEF NotesKept
  <2>13. QED
    BY <2>7, <2>8, <2>10, <2>11, <2>12 DEF NotesKept
<1>9. CASE UserFinishes
  BY <1>9, UserDone DEF Open
<1>10. QED
  BY <1>3, <1>4, <1>5, <1>6, <1>7, <1>8, <1>9, Shapes

\* The task is not archived before it is finished, in every behaviour.
LEMMA EarlyInvariance == Spec => []Early
<1>1. Init => Early
  BY DEF Init, Early, Has, Archiving
<1>2. Inv /\ Uttered /\ Early /\ [Next]_vars => Early'
  BY EarlyNext
<1>3. QED
  BY <1>1, <1>2, Invariance, UtteredInvariance, PTL DEF Spec

\* A note is forgotten only because a run deleted its file, for any number of turns,
\* outcomes, crashes and failures, turns that overlap the harvest included.
THEOREM ForgetsOnlyDropped == Spec => []NotesOnlyDropped
<1>1. Init => NotesKept
  <2>1. ASSUME Init PROVE NotesKept
    <3>1. inbox = <<>> /\ effects = {} /\ model.notes = Notes /\ world.turn = 0
      BY <2>1 DEF Init
    <3>2. QED
      BY <3>1 DEF NotesKept, Has
  <2>2. QED
    BY <2>1
<1>2. Inv /\ Uttered /\ Ended /\ Early /\ NotesKept /\ [Next]_vars => NotesKept'
  BY NotesNext
<1>3. NotesKept => NotesOnlyDropped
  BY DEF NotesKept, NotesOnlyDropped, Open, Dropped
<1>4. QED
  BY <1>1, <1>2, <1>3, Invariance, UtteredInvariance, EndedInvariance, EarlyInvariance, PTL
     DEF Spec

-----------------------------------------------------------------------------
(***************************************************************************)
(* The requests.  A run's request is registered once, its job owed exactly *)
(* until then, and the reply that is owed carries the link of its own      *)
(* turn's request.                                                         *)
(***************************************************************************)
\* An entry queued stays queued.
LEMMA QueuedStays ==
  ASSUME Inv, ReplyInv, [Next]_vars, NEW r \in Run, Queued(r)
  PROVE  Queued(r)'
<1>1. Types
  BY DEF Inv
<1>2. CASE Reduce
  <2>1. PICK m \in MessageType :
          m = inbox[1] /\ 1 \in DOMAIN inbox /\ Sound(m) /\ model' = Update(model, m)
    BY <1>2, Turning
  <2>2. \A q \in Run : Queues(m, q) => Job(q, "reply") \in model.jobs
    BY <2>1, ReplyOwed
  <2>3. QED
    BY <2>1, <2>2, UpdateReply DEF ReplyInv
<1>3. CASE StartTurn
  BY <1>3, Starting DEF Queued
<1>4. ASSUME NEW e \in effects, EffectWorks(e) PROVE model' = model
  BY <1>1, <1>4, WorksKeep
<1>5. CASE ~Reduce /\ ~StartTurn
  <2>1. model' = model
    BY <1>4, <1>5, Shapes DEF Emit, Idle, EndTurn, UserFinishes
  <2>2. QED
    BY <2>1 DEF Queued
<1>6. QED
  BY <1>2, <1>3, <1>5

\* A step but the reducer's leaves what is owed; no step touches how a run that
\* is over ended, or the plan.
LEMMA OutcomesStay ==
  ASSUME Inv, Ended, [Next]_vars
  PROVE  /\ world'.plan = world.plan
         /\ \A r \in Run : Over(r) => Over(r)' /\ world'.ended[r] = world.ended[r]
         /\ ~Reduce => /\ model'.jobs = model.jobs /\ model'.runs = model.runs
                       /\ model'.requests = model.requests /\ model'.outbox = model.outbox
                       /\ model'.notes = model.notes /\ model'.skills = model.skills
<1>1. /\ Types /\ world.turn \in 0..MaxTurns /\ world.ended \in [Run -> Outcome]
  BY DEF Inv, Types, WorldType
<1>2. CASE Reduce
  <2>1. world' = world
    BY <1>2, Turning
  <2>2. QED
    BY <1>2, <2>1 DEF Over
<1>3. ASSUME NEW e \in effects, EffectWorks(e)
      PROVE  UNCHANGED <<model, world>>
  BY <1>1, <1>3, WorksKeep
<1>4. ASSUME NEW e \in effects, Emit(e) PROVE UNCHANGED <<model, world>>
  BY <1>4 DEF Emit, outside
<1>5. ASSUME Idle \/ UserFinishes
      PROVE  /\ model' = model /\ world'.plan = world.plan /\ world'.turn = world.turn
             /\ world'.running = world.running /\ world'.ended = world.ended
  BY <1>5, UserDone DEF Idle
<1>6. CASE StartTurn
  <2>1. /\ ~world.running /\ world'.turn = world.turn + 1 /\ world'.ended = world.ended
        /\ world'.plan = world.plan
        /\ model'.jobs = model.jobs /\ model'.runs = model.runs
        /\ model'.requests = model.requests /\ model'.outbox = model.outbox
        /\ model'.notes = model.notes /\ model'.skills = model.skills
    BY <1>6, Starting
  <2>2. \A r \in Run : Over(r) => Over(r)'
    BY <1>1, <2>1 DEF Over, Run
  <2>3. QED
    BY <2>1, <2>2
<1>7. ASSUME NEW o \in world.plan.outcomes, EndTurn(o)
      PROVE  /\ world'.plan = world.plan /\ model' = model
             /\ \A r \in Run : Over(r) => Over(r)' /\ world'.ended[r] = world.ended[r]
  <2>1. PICK h : world'.ended = [world.ended EXCEPT ![world.turn] = h]
    BY <1>7, Stopping
  <2>2. /\ world.running /\ ~world'.running /\ world'.turn = world.turn /\ model' = model
        /\ world'.plan = world.plan
    BY <1>7, Stopping
  <2>3. \A r \in Run : Over(r) => r # world.turn
    BY <1>1, <2>2 DEF Over, Run
  <2>4. QED
    BY <1>1, <2>1, <2>2, <2>3 DEF Over
<1>8. ASSUME world' = world \/ /\ world'.turn = world.turn /\ world'.running = world.running
                               /\ world'.ended = world.ended
      PROVE  \A r \in Run : Over(r) => Over(r)' /\ world'.ended[r] = world.ended[r]
  BY <1>8 DEF Over
<1>9. QED
  BY <1>2, <1>3, <1>4, <1>5, <1>6, <1>7, <1>8, Shapes

\* The job of a run that is cleared was no request's, and a reply's is queued.
LEMMA HeadHarvested ==
  ASSUME Inv, ReplyInv, 1 \in DOMAIN inbox, inbox[1].tag = "mark-harvested"
  PROVE  /\ inbox[1].name # "request"
         /\ inbox[1].name = "reply" => Queued(inbox[1].run)
<1>1. DOMAIN inbox \subseteq Nat \ {0}
  <2>1. inbox \in Seq(MessageType)
    BY DEF Inv, Types
  <2>2. DOMAIN inbox = 1..Len(inbox)
    BY <2>1
  <2>3. QED
    BY <2>2
<1>2. ~ \E i \in DOMAIN inbox : i < 1
  BY <1>1
<1>3. Sound(inbox[1])
  BY DEF Inv, Delivered
<1>4. inbox[1].run \in Run
  BY <1>3 DEF Sound
<1>5. QED
  BY <1>2, <1>4 DEF ReplyInv, Kept, Settles

Owes(r) == "request" \in world.ended[r].has
Asked(r) ==
  /\ model.requests[r] \in {0, 1}
  /\ model.requests[r] = 1 => /\ Owes(r) /\ r \in Finished
                              /\ Job(r, "request") \notin model.jobs
                              /\ Job(r, "reply") \in model.jobs \/ Queued(r)
  /\ Job(r, "request") \in model.jobs => "request" \in Owed(world.ended[r])
  /\ Job(r, "reply") \in model.jobs => (model.requests[r] = 1 <=> Owes(r))
  /\ r \in Finished /\ "request" \in Owed(world.ended[r]) =>
       Job(r, "request") \in model.jobs \/ model.requests[r] = 1
Requested == \A r \in Run : Asked(r)

\* What is owed is read off the plan and the outcome alone.
LEMMA SameOwed ==
  ASSUME world'.plan = world.plan, NEW o
  PROVE  Owed(o)' = Owed(o)
BY DEF Owed

\* A run whose jobs, requests and entries stay, and whose outcome does.
LEMMA SameAsked ==
  ASSUME Inv, ReplyInv, Ended, [Next]_vars, NEW r \in Run, Asked(r),
         \A k \in {"request", "reply"} : Job(r, k) \in model'.jobs <=> Job(r, k) \in model.jobs,
         model'.requests[r] = model.requests[r], r \in Finished' <=> r \in Finished
  PROVE  Asked(r)'
<1>1. world'.plan = world.plan /\ (Over(r) => world'.ended[r] = world.ended[r])
  BY OutcomesStay
<1>2. Queued(r) => Queued(r)'
  BY QueuedStays
<1>3. CASE r \in Finished
  <2>1. world'.ended[r] = world.ended[r]
    BY <1>1, <1>3 DEF Ended
  <2>2. Owed(world.ended[r])' = Owed(world.ended[r]) /\ (Owes(r)' <=> Owes(r))
    BY <1>1, <2>1 DEF Owed, Owes
  <2>3. QED
    BY <1>2, <2>2 DEF Asked
<1>4. CASE r \notin Finished
  <2>1. \A k : Job(r, k) \notin model.jobs
    BY <1>4 DEF Ended, Job
  <2>2. model.requests[r] = 0
    BY <1>4 DEF Asked
  <2>3. QED
    BY <1>4, <2>1, <2>2 DEF Asked
<1>5. QED
  BY <1>3, <1>4

\* Every step keeps it.
LEMMA RequestedNext ==
  ASSUME Inv, ReplyInv, Ended, Requested, [Next]_vars
  PROVE  Requested'
<1>1. Types /\ model \in ModelType /\ model.requests \in [Run -> Nat]
  BY DEF Inv, Types, ModelType
<1>2. CASE ~Reduce
  <2>1. model'.jobs = model.jobs /\ model'.runs = model.runs /\ model'.requests = model.requests
    BY <1>2, OutcomesStay
  <2>2. Finished' = Finished
    BY <2>1 DEF Finished
  <2>3. QED
    BY <2>1, <2>2, SameAsked DEF Requested
<1>3. CASE Reduce
  <2>1. PICK m \in MessageType :
          /\ m = inbox[1] /\ 1 \in DOMAIN inbox /\ Sound(m)
          /\ model' = Update(model, m) /\ world' = world
    BY <1>3, Turning
  <2>2. m.tag # "agent-run-finished" => Finished' = Finished
    BY <1>1, <2>1, UpdateParts DEF Finished
  <2>3. ASSUME NEW r \in Run PROVE (Owes(r)' <=> Owes(r)) /\ Owed(world.ended[r])' = Owed(world.ended[r])
    BY <2>1 DEF Owes, Owed
  <2>4. CASE m.tag = "agent-run-finished"
    <3>1. /\ m.run \in Run /\ m \in EndOf(m.run)
      BY <2>1, <2>4 DEF Sound, EndOf
    <3>2. m.run \notin Finished
      BY <2>1, <3>1 DEF Ended, Has
    <3>3. /\ model'.runs = Append(model.runs, m.run)
          /\ model'.jobs = model.jobs \cup {Job(m.run, k) : k \in Owed(world.ended[m.run])}
          /\ model'.requests = model.requests
      BY <1>1, <2>1, <2>4, UpdateParts
    <3>4. Finished' = Finished \cup {m.run}
      BY <1>1, <3>1, <3>3, MoreFinished
    <3>5. \A k : Job(m.run, k) \notin model.jobs
      BY <3>2 DEF Ended, Job
    <3>6. model.requests[m.run] = 0
      BY <3>1, <3>2 DEF Requested, Asked
    <3>7. \A k : Job(m.run, k) \in model'.jobs <=> k \in Owed(world.ended[m.run])
      BY <3>3, <3>5 DEF Job
    <3>8. "reply" \in Owed(world.ended[m.run]) => ~Owes(m.run)
      BY DEF Owed, Owes
    <3>9. Asked(m.run)'
      BY <2>3, <3>1, <3>3, <3>4, <3>6, <3>7, <3>8 DEF Asked
    <3>10. ASSUME NEW r \in Run, r # m.run PROVE Asked(r)'
      <4>1. \A k : Job(r, k) \in model'.jobs <=> Job(r, k) \in model.jobs
        BY <3>3, <3>10 DEF Job
      <4>2. QED
        BY <3>3, <3>4, <3>10, <4>1, SameAsked DEF Requested
    <3>11. QED
      BY <3>1, <3>9, <3>10 DEF Requested
  <2>5. CASE m.tag = "mark-harvested"
    <3>1. /\ model'.jobs = model.jobs \ {Job(m.run, m.name)} /\ model'.requests = model.requests
      BY <1>1, <2>1, <2>5, UpdateParts
    <3>2. m.run \in Run /\ m.name # "request" /\ (m.name = "reply" => Queued(m.run))
      BY <2>1, <2>5, HeadHarvested DEF Sound
    <3>3. ASSUME NEW r \in Run PROVE Asked(r)'
      <4>1. Asked(r) /\ (Queued(r) => Queued(r)')
        BY QueuedStays DEF Requested
      <4>2. Job(r, "request") \in model'.jobs <=> Job(r, "request") \in model.jobs
        BY <3>1, <3>2 DEF Job
      <4>3. Job(r, "reply") \in model'.jobs => Job(r, "reply") \in model.jobs
        BY <3>1
      <4>4. Job(r, "reply") \in model.jobs => Job(r, "reply") \in model'.jobs \/ Queued(r)
        BY <3>1, <3>2 DEF Job
      <4>5. r \in Finished' <=> r \in Finished
        BY <2>2, <2>5
      <4>6. QED
        BY <2>3, <3>1, <4>1, <4>2, <4>3, <4>4, <4>5 DEF Asked
    <3>4. QED
      BY <3>3 DEF Requested
  <2>6. CASE m.tag = "register-ui-request"
    <3>1. /\ model'.jobs = (model.jobs \ {Job(m.run, "request")}) \cup {Job(m.run, "reply")}
          /\ model'.requests = [model.requests EXCEPT ![m.run] = model.requests[m.run] + 1]
      BY <1>1, <2>1, <2>6, UpdateParts
    <3>2. m.run \in Run
      BY <2>1, <2>6 DEF Sound
    <3>3. Job(m.run, "request") \in model.jobs
      BY <2>1, <2>6, RequestOwed
    <3>4. Asked(m.run) /\ m.run \in Finished
      BY <3>2, <3>3 DEF Requested, Ended, Job
    <3>5. model.requests[m.run] = 0 /\ "request" \in Owed(world.ended[m.run])
      BY <3>3, <3>4 DEF Asked
    <3>6. Owes(m.run)
      BY <3>5 DEF Owed, Owes
    <3>7. model'.requests[m.run] = 1
      BY <1>1, <3>1, <3>2, <3>5
    <3>8. Job(m.run, "request") \notin model'.jobs /\ Job(m.run, "reply") \in model'.jobs
      BY <3>1 DEF Job
    <3>9. Asked(m.run)'
      BY <2>2, <2>3, <2>6, <3>2, <3>4, <3>6, <3>7, <3>8 DEF Asked
    <3>10. ASSUME NEW r \in Run, r # m.run PROVE Asked(r)'
      <4>1. \A k : Job(r, k) \in model'.jobs <=> Job(r, k) \in model.jobs
        BY <3>1, <3>10 DEF Job
      <4>2. model'.requests[r] = model.requests[r] /\ (r \in Finished' <=> r \in Finished)
        BY <1>1, <2>2, <2>6, <3>1, <3>10
      <4>3. QED
        BY <4>1, <4>2, SameAsked DEF Requested
    <3>11. QED
      BY <3>2, <3>9, <3>10 DEF Requested
  <2>7. CASE m.tag \notin {"agent-run-finished", "mark-harvested", "register-ui-request"}
    <3>1. model'.jobs = model.jobs /\ model'.requests = model.requests
      BY <1>1, <2>1, <2>7, UpdateParts
    <3>2. Finished' = Finished
      BY <2>2, <2>7
    <3>3. QED
      BY <3>1, <3>2, SameAsked DEF Requested
  <2>8. QED
    BY <2>4, <2>5, <2>6, <2>7
<1>4. QED
  BY <1>2, <1>3

\* It holds in every behaviour.
LEMMA RequestedInvariance == Spec => []Requested
<1>1. Init => Requested
  <2>1. ASSUME Init PROVE Requested
    <3>1. model.runs = <<>> /\ model.jobs = {} /\ \A r \in Run : model.requests[r] = 0
      BY <2>1 DEF Init
    <3>2. Finished = {}
      BY <3>1 DEF Finished, Range
    <3>3. QED
      BY <3>1, <3>2 DEF Requested, Asked
  <2>2. QED
    BY <2>1
<1>2. Inv /\ ReplyInv /\ Ended /\ Requested /\ [Next]_vars => Requested'
  BY RequestedNext
<1>3. QED
  BY <1>1, <1>2, Invariance, ReplyInvariance, EndedInvariance, PTL DEF Spec

-----------------------------------------------------------------------------
(***************************************************************************)
(* What lies in the workspace until the task is finished: a running turn's *)
(* out/ is empty, and after it what the run left, in/memory/ the manifest's*)
(* notes but for those the run dropped.                                    *)
(***************************************************************************)
Laid == Open /\ world.turn > 0 =>
  LET o == world.ended[world.turn] IN
  /\ ws.live
  /\ world.running => ws.out = NoFiles /\ ws.in = ws.manifest
  /\ ~world.running => /\ ws.out = [f \in File |-> IF f \in o.has THEN world.turn ELSE 0]
                       /\ ws.in = ws.manifest \ o.drops /\ o.drops \subseteq ws.manifest

\* Every step keeps it.
LEMMA LaidNext ==
  ASSUME Inv, Uttered, Ended, Early, Laid, [Next]_vars
  PROVE  Laid'
<1>1. /\ Types /\ world.turn \in 0..MaxTurns /\ world.ended \in [Run -> Outcome]
      /\ ws \in WorkspaceType
  BY DEF Inv, Types, WorldType
<1> SUFFICES ASSUME Open' PROVE Laid'
  BY DEF Laid
<1>2. Open
  BY EarlyNext
<1>3. ASSUME ws' = ws, world'.turn = world.turn, world'.running = world.running,
             world'.ended = world.ended
      PROVE  Laid'
  BY <1>2, <1>3 DEF Laid
<1>4. CASE Reduce
  BY <1>3, <1>4, Turning
<1>5. ASSUME NEW e \in effects, EffectWorks(e) PROVE Laid'
  <2>1. ws' = ws /\ world' = world
    BY <1>1, <1>2, <1>5, DiskStays, WorksKeep
  <2>2. QED
    BY <1>3, <2>1
<1>6. ASSUME NEW e \in effects, Emit(e) PROVE Laid'
  BY <1>3, <1>6 DEF Emit, outside
<1>7. CASE Idle
  BY <1>3, <1>7 DEF Idle
<1>8. CASE StartTurn
  BY <1>8, Starting DEF Laid
<1>9. ASSUME NEW o \in world.plan.outcomes, EndTurn(o) PROVE Laid'
  <2>1. world.running /\ ~world'.running /\ world.turn \in Run /\ o \in Outcome
        /\ world'.turn = world.turn /\ ws'.live = ws.live /\ ws'.manifest = ws.manifest
    BY <1>9, Stopping
  <2>2. world.turn > 0 /\ world.turn # 0
    BY <2>1 DEF Run
  <2>3. ws.live /\ ws.out = NoFiles /\ ws.in = ws.manifest
    BY <1>2, <2>1, <2>2 DEF Laid
  <2>4. /\ ws'.out = [f \in File |-> IF f \in o.has THEN world.turn ELSE ws.out[f]]
        /\ ws'.in = ws.in \ o.drops /\ o.drops \subseteq ws.in
    BY <1>9, <2>3, Stopping
  <2>5. ws'.out = [f \in File |-> IF f \in o.has THEN world.turn ELSE 0]
    BY <2>3, <2>4 DEF NoFiles
  <2>6. PICK h : /\ h = [ok |-> o.ok, has |-> Manifest(ws'.out), drops |-> o.drops]
                 /\ world'.ended = [world.ended EXCEPT ![world.turn] = h]
    BY <1>9, Stopping
  <2>7. world'.ended[world.turn] = h /\ h.drops = o.drops
    BY <1>1, <2>1, <2>6
  <2>8. h.has = o.has
    <3>1. o.has \subseteq File
      BY <2>1 DEF Outcome
    <3>2. Manifest(ws'.out) = o.has
      BY <2>2, <2>5, <3>1 DEF Manifest
    <3>3. QED
      BY <2>6, <3>2
  <2>9. QED
    BY <2>1, <2>3, <2>4, <2>5, <2>7, <2>8 DEF Laid
<1>10. CASE UserFinishes
  BY <1>10, UserDone DEF Open
<1>11. QED
  BY <1>4, <1>5, <1>6, <1>7, <1>8, <1>9, <1>10, Shapes

\* It holds in every behaviour.
LEMMA LaidInvariance == Spec => []Laid
<1>1. Init => Laid
  <2>1. ASSUME Init PROVE Laid
    <3>1. world.turn = 0
      BY <2>1 DEF Init
    <3>2. QED
      BY <3>1 DEF Laid
  <2>2. QED
    BY <2>1
<1>2. Inv /\ Uttered /\ Ended /\ Early /\ Laid /\ [Next]_vars => Laid'
  BY LaidNext
<1>3. QED
  BY <1>1, <1>2, Invariance, UtteredInvariance, EndedInvariance, EarlyInvariance, PTL DEF Spec

-----------------------------------------------------------------------------
(***************************************************************************)
(* The link.  A reply at work, and a reply in a row, carry a link exactly  *)
(* when their own run left a request.                                      *)
(***************************************************************************)
Rowed(e) == [mid |-> ReplyMessageID(e.run, e.domain), by |-> e.out["reply"],
             link |-> e.link, sent |-> FALSE]
Matched(row) == Over(row.mid[1]) /\ row.link = Owes(row.mid[1])
Linked ==
  /\ \A e \in effects : e.kind = "assemble-reply" => (e.link <=> Owes(e.run))
  /\ \A i \in DOMAIN store.rows : Matched(store.rows[i])

\* The rows after a step of an effect: those there were, and the reply assembled.
LEMMA RowsAfter ==
  ASSUME Types, NEW e \in effects, Fine(e), EffectWorks(e), NEW i \in DOMAIN store'.rows
  PROVE  \/ /\ i \in DOMAIN store.rows /\ store'.rows[i].mid = store.rows[i].mid
            /\ store'.rows[i].by = store.rows[i].by /\ store'.rows[i].link = store.rows[i].link
         \/ /\ e.kind = "assemble-reply" /\ e.pc = "read" /\ store'.rows[i] = Rowed(e)
<1>1. store \in StoreType /\ e \in EffectType
  BY DEF Types
<1>2. CASE AssembleReply(e)
  <2>1. PICK id : id = RowFor(ReplyMessageID(e.run, e.domain))
    OBVIOUS
  <2>2. /\ store' = IF id \in DOMAIN store.rows THEN store
                    ELSE [store EXCEPT !.rows = Append(@, Rowed(e))]
        /\ e.kind = "assemble-reply" /\ e.pc = "read" /\ e.run \in Run
    BY <1>2, <2>1 DEF AssembleReply, At, Rowed, Fine
  <2>3. CASE store' = store
    BY <2>3
  <2>4. CASE store' = [store EXCEPT !.rows = Append(@, Rowed(e))]
    <3>1. store'.rows = Append(store.rows, Rowed(e))
      BY <1>1, <2>4 DEF StoreType
    <3>2. PICK n \in Nat : n = Len(store.rows) /\ DOMAIN store.rows = 1..n
      BY <1>1 DEF StoreType
    <3>3. Rowed(e) \in RowType
      <4>1. ReplyMessageID(e.run, e.domain) \in MessageID
        BY <1>1, <2>2 DEF ReplyMessageID, MessageID, EffectType
      <4>2. e.out["reply"] \in 0..MaxTurns /\ e.link \in BOOLEAN
        BY <1>1 DEF EffectType, Box, File
      <4>3. QED
        BY <4>1, <4>2 DEF Rowed, RowType
    <3>4. /\ DOMAIN store'.rows = 1..(n + 1) /\ store'.rows[n + 1] = Rowed(e)
          /\ \A j \in 1..n : store'.rows[j] = store.rows[j]
      BY <1>1, <3>1, <3>2, <3>3 DEF StoreType
    <3>5. i \in 1..n \/ i = n + 1
      BY <3>2, <3>4
    <3>6. QED
      BY <2>2, <3>2, <3>4, <3>5
  <2>5. QED
    BY <2>2, <2>3, <2>4
<1>3. CASE MarkOutboxSent(e)
  <2>1. e.id \in DOMAIN store.rows /\ store'.rows = [store.rows EXCEPT ![e.id].sent = TRUE]
    BY <1>3, MarkOutboxSentStep
  <2>2. store.rows[e.id] \in RowType
    BY <2>1, RowTypes
  <2>3. PICK row : row = [store.rows[e.id] EXCEPT !.sent = TRUE]
    OBVIOUS
  <2>4. row.mid = store.rows[e.id].mid /\ row.by = store.rows[e.id].by
        /\ row.link = store.rows[e.id].link
    BY <2>2, <2>3 DEF RowType
  <2>5. store'.rows = [store.rows EXCEPT ![e.id] = row]
    BY <2>1, <2>3
  <2>6. store.rows \in [DOMAIN store.rows -> RowType]
    BY <1>1 DEF StoreType
  <2>7. i \in DOMAIN store.rows
        /\ store'.rows[i] = IF i = e.id THEN row ELSE store.rows[i]
    BY <2>1, <2>5, <2>6
  <2>8. QED
    BY <2>4, <2>7
<1>4. CASE ~AssembleReply(e) /\ ~MarkOutboxSent(e)
  BY <1>4, WorksKeep
<1>5. QED
  BY <1>2, <1>3, <1>4

\* Every step keeps it.
LEMMA LinkedNext ==
  ASSUME Inv, Uttered, Ended, Requested, Linked, [Next]_vars
  PROVE  Linked'
<1>1. /\ Types /\ Working /\ effects \subseteq EffectType /\ world.turn \in 0..MaxTurns
      /\ model \in ModelType
  BY DEF Inv, Types, WorldType
<1>2. \A r \in Run : Over(r) => Over(r)' /\ world'.ended[r] = world.ended[r]
  BY OutcomesStay
<1>3. \A r \in Run : Over(r) => Over(r)' /\ (Owes(r)' <=> Owes(r))
  BY <1>2 DEF Owes
<1>4. ASSUME NEW row \in RowType, Matched(row) PROVE Matched(row)'
  <2>1. row.mid[1] \in Run
    BY DEF RowType, MessageID
  <2>2. QED
    BY <1>2, <1>4, <2>1 DEF Matched, Owes
<1>5. \A e \in effects : e.kind = "assemble-reply" => /\ (e.link <=> Owes(e.run)') /\ Over(e.run)'
                                                      /\ Over(e.run) /\ (e.link <=> Owes(e.run))
  <2>1. ASSUME NEW e \in effects, e.kind = "assemble-reply" PROVE e.run \in Run /\ Over(e.run)
    BY <2>1, EffectOwed
  <2>2. QED
    BY <1>3, <2>1 DEF Linked
<1>6. ASSUME store' = store, NEW i \in DOMAIN store'.rows
      PROVE  \E row : row = store'.rows[i] /\ Matched(row)'
  <2>1. PICK row \in RowType : row = store.rows[i] /\ Matched(row)
    BY <1>1, <1>6, RowTypes DEF Linked
  <2>2. QED
    BY <1>4, <1>6, <2>1
<1> DEFINE Rest == \A i \in DOMAIN store'.rows : \E row : row = store'.rows[i] /\ Matched(row)'
           Links == \A e \in effects' : e.kind = "assemble-reply" => (e.link <=> Owes(e.run)')
<1>12. Rest /\ Links => Linked'
  BY DEF Linked, Matched, Over, Owes
<1>13. store' = store => Rest
  BY <1>6
<1> HIDE DEF Rest
<1>7. CASE Reduce
  <2>1. PICK m \in MessageType :
          /\ m = inbox[1] /\ 1 \in DOMAIN inbox /\ Sound(m)
          /\ effects' = effects \cup Commands(model, m) /\ UNCHANGED <<store, world>>
    BY <1>7, Turning
  <2>2. ASSUME NEW c \in Commands(model, m), c.kind = "assemble-reply"
        PROVE  c.link <=> Owes(c.run)'
    <3>1. m.tag = "run-harvest" /\ m.run \in Run /\ m.name \in Kind
          /\ c.kind = EffectOf(m.name) /\ c.run = m.run
      <4>1. c.kind # "send-email" /\ c.kind # "archive-task"
        BY <2>2
      <4>2. QED
        BY <1>1, <2>1, <4>1, CommandsType
    <3>2. m.name = "reply"
      BY <2>2, <3>1 DEF EffectOf, Kind
    <3>3. c = Effect("assemble-reply", m.run, 0, model.domain, model.requests[m.run] > 0)
      BY <3>1, <3>2 DEF Commands, EffectOf
    <3>4. c.link = (model.requests[m.run] > 0)
      BY <3>3 DEF Effect
    <3>5. Job(m.run, "reply") \in model.jobs
      BY <2>1, <3>1, <3>2, RequestOwed
    <3>6. Asked(m.run)
      BY <3>1 DEF Requested
    <3>7. model.requests[m.run] > 0 <=> Owes(m.run)
      BY <3>5, <3>6 DEF Asked
    <3>8. Owes(m.run)' <=> Owes(m.run)
      BY <2>1 DEF Owes
    <3>9. QED
      BY <3>1, <3>4, <3>7, <3>8
  <2>3. QED
    BY <1>5, <1>12, <1>13, <2>1, <2>2
<1>8. ASSUME NEW e \in effects, EffectWorks(e) PROVE Linked'
  <2>1. Fine(e)
    BY <1>1 DEF Working
  <2>2. \A g \in effects' : g \in effects \/ Same(e, g)
    BY <1>1, <1>8, <2>1, WorksSucceeds DEF Succeeds
  <2>3. \A g \in effects' : g.kind = "assemble-reply" => (g.link <=> Owes(g.run)')
    BY <1>5, <2>2 DEF Same
  <2>4. ASSUME NEW i \in DOMAIN store'.rows
        PROVE  \E row : row = store'.rows[i] /\ Matched(row)'
    <3>1. CASE i \in DOMAIN store.rows /\ store'.rows[i].mid = store.rows[i].mid
               /\ store'.rows[i].link = store.rows[i].link
      <4>1. PICK row \in RowType : row = store.rows[i] /\ Matched(row)
        BY <1>1, <3>1, RowTypes DEF Linked
      <4>2. Matched(row)'
        BY <1>4, <4>1
      <4>3. PICK new : new = store'.rows[i]
        OBVIOUS
      <4>4. new.mid = row.mid /\ new.link = row.link
        BY <3>1, <4>1, <4>3
      <4>5. Matched(new)'
        BY <4>2, <4>4 DEF Matched, Over, Owes
      <4>6. QED
        BY <4>3, <4>5
    <3>2. CASE e.kind = "assemble-reply" /\ store'.rows[i] = Rowed(e)
      <4>1. PICK row : row = store'.rows[i]
        OBVIOUS
      <4>2. row.mid[1] = e.run /\ row.link = e.link
        BY <3>2, <4>1 DEF Rowed, ReplyMessageID
      <4>3. e.link \in BOOLEAN
        BY <1>1 DEF EffectType
      <4>4. Matched(row)'
        BY <1>5, <3>2, <4>2, <4>3 DEF Matched, Owes
      <4>5. QED
        BY <4>1, <4>4
    <3>3. QED
      BY <1>1, <1>8, <2>1, <3>1, <3>2, RowsAfter
  <2>5. QED
    BY <1>12, <2>3, <2>4 DEF Rest
<1>9. ASSUME NEW e \in effects, Emit(e) PROVE Linked'
  <2>1. Fine(e)
    BY <1>1 DEF Working
  <2>2. store' = store /\ \A g \in effects' : g \in effects \/ Same(e, g)
    BY <1>1, <1>9, <2>1, Emits
  <2>3. QED
    BY <1>5, <1>12, <1>13, <2>2 DEF Same
<1>10. CASE Idle \/ StartTurn \/ UserFinishes \/ \E o \in world.plan.outcomes : EndTurn(o)
  <2>1. effects' \subseteq effects /\ store' = store
    BY <1>10 DEF Idle, StartTurn, UserFinishes, EndTurn
  <2>2. QED
    BY <1>5, <1>12, <1>13, <2>1
<1>11. QED
  BY <1>7, <1>8, <1>9, <1>10, Shapes

\* It holds in every behaviour: a reply's link is its own turn's.
LEMMA LinkedInvariance == Spec => []Linked
<1>1. Init => Linked
  <2>1. ASSUME Init PROVE Linked
    <3>1. effects = {} /\ DOMAIN store.rows = {}
      BY <2>1 DEF Init
    <3>2. QED
      BY <3>1 DEF Linked
  <2>2. QED
    BY <2>1
<1>2. Inv /\ Uttered /\ Ended /\ Requested /\ Linked /\ [Next]_vars => Linked'
  BY LinkedNext
<1>3. QED
  BY <1>1, <1>2, Invariance, UtteredInvariance, EndedInvariance, RequestedInvariance, PTL
     DEF Spec

-----------------------------------------------------------------------------
(***************************************************************************)
(* One turn at a time.  When a turn starts only after the last one's jobs  *)
(* are cleared, everything that is owed, read or on its way is the current *)
(* turn's.                                                                 *)
(***************************************************************************)
\* What a run leaves to be told: its end, its notes and its skill.
Late == Tagged({"remember", "forget", "register-skill", "agent-run-finished"})
Past == {m \in Tagged({"agent-run-finished"}) : m.run # world.turn}
OneTurn ==
  /\ world.running => model.jobs = {} /\ ~Has(inbox, Late)
  /\ \A j \in model.jobs : j.run = world.turn
  /\ ~Has(inbox, Past)

\* While the agent runs no effect reads the workspace.
LEMMA NobodyReads ==
  ASSUME Inv, Ended, OneTurn, world.running, NEW e \in effects
  PROVE  e.kind \in {"send-email", "archive-task"} /\ e.pc # "read"
<1>1. model.jobs = {}
  BY DEF OneTurn
<1>2. e.kind \in {"send-email", "archive-task"}
  BY <1>1, EffectOwed
<1>3. Fine(e)
  BY DEF Inv, Working
<1>4. QED
  BY <1>2, <1>3 DEF Fine

\* An effect at work on a job is of the last turn, which is over.
LEMMA EffectTurn ==
  ASSUME Inv, Ended, OneTurn, NEW e \in effects, e.kind \notin {"send-email", "archive-task"}
  PROVE  e.run = world.turn /\ ~world.running /\ world.turn \in Run /\ world.turn > 0
<1>1. /\ Job(e.run, KindOf(e)) \in model.jobs /\ e.run \in Run /\ Over(e.run)
      /\ world.turn > 0
  BY EffectOwed
<1>2. e.run = world.turn
  BY <1>1 DEF OneTurn, Job
<1>3. ~world.running
  BY <1>1, <1>2 DEF Over, Run
<1>4. QED
  BY <1>1, <1>2, <1>3

\* Every step keeps it, when turns do not overlap.
LEMMA OneTurnNext ==
  ASSUME ~Overlap, Inv, Uttered, Ended, OneTurn, [Next]_vars
  PROVE  OneTurn'
<1>1. Types /\ Working
  BY DEF Inv
<1>2. CASE Reduce
  <2>1. PICK m \in MessageType :
          /\ m = inbox[1] /\ 1 \in DOMAIN inbox /\ inbox # <<>> /\ inbox' = Tail(inbox)
          /\ Sound(m) /\ model' = Update(model, m) /\ world' = world
    BY <1>2, Turning
  <2>2. \A K : Has(inbox', K) \/ m \in K => Has(inbox, K)
    BY <1>1, <2>1, TakenHas
  <2>3. Past' = Past
    BY <2>1 DEF Past
  <2>4. m.tag = "register-ui-request" => m.run = world.turn /\ ~world.running
    <3>1. m.tag = "register-ui-request" => Job(m.run, "request") \in model.jobs
      BY <2>1, RequestOwed
    <3>2. QED
      BY <3>1 DEF OneTurn, Job
  <2>5. m.tag = "agent-run-finished" => m.run = world.turn /\ ~world.running
    BY <2>2 DEF OneTurn, Late, Past, Tagged
  <2>6. \A j \in model'.jobs : j \in model.jobs \/ (j.run = world.turn /\ ~world.running)
    <3>1. CASE m.tag = "agent-run-finished"
      <4>1. model'.jobs = model.jobs \cup {Job(m.run, k) : k \in Owed(world.ended[m.run])}
        BY <1>1, <2>1, <3>1, UpdateParts
      <4>2. QED
        BY <2>5, <3>1, <4>1 DEF Job
    <3>2. CASE m.tag = "register-ui-request"
      <4>1. model'.jobs = (model.jobs \ {Job(m.run, "request")}) \cup {Job(m.run, "reply")}
        BY <1>1, <2>1, <3>2, UpdateParts
      <4>2. QED
        BY <2>4, <3>2, <4>1 DEF Job
    <3>3. CASE m.tag \notin {"agent-run-finished", "register-ui-request"}
      BY <1>1, <2>1, <3>3, UpdateParts
    <3>4. QED
      BY <3>1, <3>2, <3>3
  <2>7. QED
    BY <2>1, <2>2, <2>3, <2>6 DEF OneTurn
<1>3. ASSUME world'.turn = world.turn, world'.running = world.running,
             model'.jobs = model.jobs,
             Has(inbox', Past) => Has(inbox, Past),
             world.running => (Has(inbox', Late) => Has(inbox, Late))
      PROVE  OneTurn'
  <2>1. Past' = Past /\ Late' = Late
    BY <1>3 DEF Past, Late
  <2>2. QED
    BY <1>3, <2>1 DEF OneTurn
<1>4. ASSUME NEW e \in effects, EffectWorks(e) PROVE OneTurn'
  <2>1. UNCHANGED <<model, inbox, world>>
    BY <1>1, <1>4, WorksKeep
  <2>2. QED
    BY <1>3, <2>1
<1>5. ASSUME NEW e \in effects, Emit(e) PROVE OneTurn'
  <2>1. Fine(e) /\ e.pc = "emit"
    BY <1>1, <1>5 DEF Working, Emit
  <2>2. PICK m \in MessageType : /\ m = e.says[1] /\ 1 \in DOMAIN e.says
                                 /\ inbox' = Append(inbox, m) /\ UNCHANGED <<model, world>>
    BY <1>1, <1>5, <2>1, Emits
  <2>3. Utters(e, m)
    BY <2>1, <2>2 DEF Uttered
  <2>4. m.tag # "agent-run-finished"
    BY <2>3, UtteredTags
  <2>5. m \notin Past
    BY <2>4 DEF Past, Tagged
  <2>6. world.running => m \notin Late
    <3>1. world.running => e.kind \in {"send-email", "archive-task"}
      BY NobodyReads
    <3>2. world.running => m.tag \notin {"remember", "forget", "register-skill"}
      BY <2>3, <3>1, UtteredBy
    <3>3. QED
      BY <2>4, <3>2 DEF Late, Tagged
  <2>7. \A K : m \notin K => (Has(inbox', K) => Has(inbox, K))
    BY <1>1, <2>2, ComesHas
  <2>8. QED
    BY <1>3, <2>2, <2>5, <2>6, <2>7
<1>6. CASE Idle
  <2>1. Past \cap Tagged(Signals) = {} /\ Late \cap Tagged(Signals) = {}
    BY DEF Past, Late, Tagged, Signals
  <2>2. (Has(inbox', Past) => Has(inbox, Past)) /\ (Has(inbox', Late) => Has(inbox, Late))
    BY <1>1, <1>6, <2>1, IdleHas
  <2>3. QED
    BY <1>3, <1>6, <2>2 DEF Idle
<1>7. CASE StartTurn
  <2>1. model'.jobs = {} /\ inbox' = <<>>
    BY <1>7, Starting
  <2>2. \A K : ~Has(inbox', K)
    BY <2>1 DEF Has
  <2>3. QED
    BY <2>1, <2>2 DEF OneTurn
<1>8. ASSUME NEW o \in world.plan.outcomes, EndTurn(o) PROVE OneTurn'
  <2>1. PICK m \in MessageType :
          m = Message("agent-run-finished", world.turn, "", 0) /\ inbox' = Append(inbox, m)
    BY <1>8, Stopping
  <2>2. ~world'.running /\ world'.turn = world.turn /\ model' = model
    BY <1>8, Stopping
  <2>3. m \notin Past /\ Past' = Past
    BY <2>1, <2>2 DEF Past, Message
  <2>4. ~Has(inbox', Past)
    BY <1>1, <2>1, <2>3, ComesHas DEF OneTurn
  <2>5. QED
    BY <2>2, <2>3, <2>4 DEF OneTurn
<1>9. CASE UserFinishes
  <2>1. PICK m \in MessageType :
          m = Message("finish-task", 0, "", 0) /\ inbox' = Append(inbox, m)
    BY <1>9, UserDone
  <2>2. m \notin Past /\ m \notin Late
    BY <2>1 DEF Past, Late, Tagged, Message
  <2>3. (Has(inbox', Past) => Has(inbox, Past)) /\ (Has(inbox', Late) => Has(inbox, Late))
    BY <1>1, <2>1, <2>2, ComesHas
  <2>4. QED
    BY <1>3, <1>9, <2>3, UserDone
<1>10. QED
  BY <1>2, <1>4, <1>5, <1>6, <1>7, <1>8, <1>9, Shapes

\* It holds in every behaviour without overlap.
LEMMA OneTurnInvariance == ASSUME ~Overlap PROVE Spec => []OneTurn
<1>1. Init => OneTurn
  <2>1. ASSUME Init PROVE OneTurn
    <3>1. model.jobs = {} /\ inbox = <<>>
      BY <2>1 DEF Init
    <3>2. QED
      BY <3>1 DEF OneTurn, Has
  <2>2. QED
    BY <2>1
<1>2. Inv /\ Uttered /\ Ended /\ OneTurn /\ [Next]_vars => OneTurn'
  BY OneTurnNext
<1>3. QED
  BY <1>1, <1>2, Invariance, UtteredInvariance, EndedInvariance, PTL DEF Spec

\* What an effect has read is still what lies in the workspace.
ReadLast == Open => \A e \in effects : e.pc = "read" => e.out = ws.out /\ e.kept = ws.in

\* Every step keeps it, when turns do not overlap.
LEMMA ReadLastNext ==
  ASSUME ~Overlap, Inv, Uttered, Ended, Early, OneTurn, ReadLast, [Next]_vars
  PROVE  ReadLast'
<1>1. Types /\ Working
  BY DEF Inv
<1> SUFFICES ASSUME Open' PROVE ReadLast'
  BY DEF ReadLast
<1>2. Open
  BY EarlyNext
<1>3. ASSUME ws' = ws, \A g \in effects' : g.pc = "read" => \/ g \in effects
                                                            \/ g.out = ws.out /\ g.kept = ws.in
      PROVE  ReadLast'
  BY <1>2, <1>3 DEF ReadLast
<1>4. CASE Reduce
  <2>1. PICK m \in MessageType :
          Sound(m) /\ effects' = effects \cup Commands(model, m) /\ ws' = ws
    BY <1>4, Turning
  <2>2. \A c \in Commands(model, m) : c.pc = "start"
    BY <1>1, <2>1, CommandsType
  <2>3. QED
    BY <1>3, <2>1, <2>2
<1>5. ASSUME NEW e \in effects, EffectWorks(e) PROVE ReadLast'
  <2>1. ws' = ws
    BY <1>1, <1>2, <1>5, DiskStays
  <2>2. \A g \in effects' : g.pc = "read" => g \in effects \/ (g.out = ws.out /\ g.kept = ws.in)
    BY <1>1, <1>5, JustRead
  <2>3. QED
    BY <1>3, <2>1, <2>2
<1>6. ASSUME NEW e \in effects, Emit(e) PROVE ReadLast'
  <2>1. Fine(e)
    BY <1>1 DEF Working
  <2>2. ws' = ws /\ \A g \in effects' : g \in effects \/ g.pc = "emit"
    BY <1>1, <1>6, <2>1, Emits
  <2>3. QED
    BY <1>3, <2>2
<1>7. CASE Idle
  BY <1>3, <1>7 DEF Idle
<1>8. CASE StartTurn
  BY <1>8, Starting DEF ReadLast
<1>9. ASSUME NEW o \in world.plan.outcomes, EndTurn(o) PROVE ReadLast'
  <2>1. world.running /\ effects' = effects
    BY <1>9, Stopping
  <2>2. \A e \in effects : e.pc # "read"
    BY <2>1, NobodyReads
  <2>3. QED
    BY <2>1, <2>2 DEF ReadLast
<1>10. CASE UserFinishes
  BY <1>10, UserDone DEF Open
<1>11. QED
  BY <1>4, <1>5, <1>6, <1>7, <1>8, <1>9, <1>10, Shapes

\* It holds in every behaviour without overlap.
LEMMA ReadLastInvariance == ASSUME ~Overlap PROVE Spec => []ReadLast
<1>1. Init => ReadLast
  BY DEF Init, ReadLast
<1>2. Inv /\ Uttered /\ Ended /\ Early /\ OneTurn /\ ReadLast /\ [Next]_vars => ReadLast'
  BY ReadLastNext
<1>3. QED
  BY <1>1, <1>2, Invariance, UtteredInvariance, EndedInvariance, EarlyInvariance,
     OneTurnInvariance, PTL DEF Spec

\* A row holds its own run's reply.txt, or none when the run left none.
Own(row) == row.by = IF "reply" \in world.ended[row.mid[1]].has THEN row.mid[1] ELSE 0
RowsOwn == Open => \A i \in DOMAIN store.rows : Own(store.rows[i])

\* What an effect of a job has read of out/: what its own run left there.
LEMMA OwnFiles ==
  ASSUME Inv, Ended, Laid, OneTurn, ReadLast, Open, NEW e \in effects, e.pc = "read"
  PROVE  /\ e.run = world.turn /\ world.turn \in Run /\ ~world.running
         /\ e.out = [f \in File |-> IF f \in world.ended[e.run].has THEN e.run ELSE 0]
         /\ e.kept = ws.manifest \ world.ended[e.run].drops
         /\ world.ended[e.run].drops \subseteq ws.manifest
<1>1. e.kind \notin {"send-email", "archive-task"}
  BY DEF Inv, Working, Fine
<1>2. e.run = world.turn /\ ~world.running /\ world.turn \in Run /\ world.turn > 0
  BY <1>1, EffectTurn
<1>3. e.out = ws.out /\ e.kept = ws.in
  BY DEF ReadLast
<1>4. QED
  BY <1>2, <1>3 DEF Laid

\* Every step keeps it, when turns do not overlap.
LEMMA RowsOwnNext ==
  ASSUME ~Overlap, Inv, Uttered, Ended, Early, Laid, Linked, OneTurn, ReadLast, RowsOwn,
         [Next]_vars
  PROVE  RowsOwn'
<1>1. Types /\ Working
  BY DEF Inv
<1> SUFFICES ASSUME Open' PROVE RowsOwn'
  BY DEF RowsOwn
<1>2. Open
  BY EarlyNext
<1>3. \A r \in Run : Over(r) => world'.ended[r] = world.ended[r]
  BY OutcomesStay
<1>4. ASSUME NEW row \in RowType, Over(row.mid[1]), Own(row) PROVE Own(row)'
  <2>1. row.mid[1] \in Run
    BY DEF RowType, MessageID
  <2>2. QED
    BY <1>3, <1>4, <2>1 DEF Own
<1> DEFINE Rest == \A i \in DOMAIN store'.rows : \E row : row = store'.rows[i] /\ Own(row)'
<1>5. Rest => RowsOwn'
  BY DEF RowsOwn, Own
<1> HIDE DEF Rest
<1>6. ASSUME NEW i \in DOMAIN store.rows
      PROVE  \E row \in RowType : row = store.rows[i] /\ Own(row) /\ Own(row)'
  <2>1. PICK row \in RowType : row = store.rows[i]
    BY <1>1, <1>6, RowTypes
  <2>2. Over(row.mid[1]) /\ Own(row)
    BY <1>2, <2>1 DEF Linked, Matched, RowsOwn
  <2>3. QED
    BY <1>4, <2>1, <2>2
<1>7. store' = store => Rest
  BY <1>6 DEF Rest
<1>8. ASSUME NEW e \in effects, EffectWorks(e) PROVE Rest
  <2>1. Fine(e)
    BY <1>1 DEF Working
  <2>2. ASSUME NEW i \in DOMAIN store'.rows PROVE \E row : row = store'.rows[i] /\ Own(row)'
    <3>1. CASE i \in DOMAIN store.rows /\ store'.rows[i].mid = store.rows[i].mid
               /\ store'.rows[i].by = store.rows[i].by
      <4>1. PICK row \in RowType : row = store.rows[i] /\ Own(row)'
        BY <1>6, <3>1
      <4>2. PICK new : new = store'.rows[i]
        OBVIOUS
      <4>3. new.mid = row.mid /\ new.by = row.by
        BY <3>1, <4>1, <4>2
      <4>4. Own(new)'
        BY <4>1, <4>3 DEF Own
      <4>5. QED
        BY <4>2, <4>4
    <3>2. CASE e.kind = "assemble-reply" /\ e.pc = "read" /\ store'.rows[i] = Rowed(e)
      <4>1. PICK row : row = store'.rows[i]
        OBVIOUS
      <4>2. row.mid[1] = e.run /\ row.by = e.out["reply"]
        BY <3>2, <4>1 DEF Rowed, ReplyMessageID
      <4>3. /\ e.run \in Run
            /\ e.out = [f \in File |-> IF f \in world.ended[e.run].has THEN e.run ELSE 0]
        BY <1>2, <3>2, OwnFiles
      <4>4. e.out["reply"] = IF "reply" \in world.ended[e.run].has THEN e.run ELSE 0
        BY <4>3 DEF File
      <4>5. Over(e.run)
        BY <3>2, EffectOwed
      <4>6. Own(row)'
        BY <1>3, <4>2, <4>3, <4>4, <4>5 DEF Own
      <4>7. QED
        BY <4>1, <4>6
    <3>3. QED
      BY <1>1, <1>8, <2>1, <3>1, <3>2, RowsAfter
  <2>3. QED
    BY <2>2 DEF Rest
<1>9. CASE Reduce \/ Idle \/ StartTurn \/ UserFinishes \/ (\E e \in effects : Emit(e))
           \/ \E o \in world.plan.outcomes : EndTurn(o)
  <2>1. store' = store
    BY <1>9 DEF Reduce, Idle, StartTurn, UserFinishes, Emit, EndTurn, outside
  <2>2. QED
    BY <1>5, <1>7, <2>1
<1>10. QED
  BY <1>5, <1>8, <1>9, Shapes

\* When a turn starts only once the last one's jobs are cleared, a reply carries its own
\* turn's reply.txt and the link of its own turn's request (decision-019).
THEOREM RepliesAreTheTurns == ASSUME ~Overlap PROVE Spec => []ReplyIsTheTurns
<1>1. Init => RowsOwn
  BY DEF Init, RowsOwn
<1>2. Inv /\ Uttered /\ Ended /\ Early /\ Laid /\ Linked /\ OneTurn /\ ReadLast /\ RowsOwn
      /\ [Next]_vars => RowsOwn'
  BY RowsOwnNext
<1>3. Linked /\ RowsOwn => ReplyIsTheTurns
  <2>1. ASSUME Linked, RowsOwn, world.finishes = 0, NEW i \in DOMAIN store.rows
        PROVE  LET row == store.rows[i]
                   o == world.ended[row.mid[1]]
               IN /\ row.by = IF "reply" \in o.has THEN row.mid[1] ELSE 0
                  /\ row.link = ("request" \in o.has)
    <3>1. PICK row : row = store.rows[i]
      OBVIOUS
    <3>2. Matched(row) /\ Own(row)
      BY <2>1, <3>1 DEF Linked, RowsOwn, Open
    <3>3. row.by = IF "reply" \in world.ended[row.mid[1]].has THEN row.mid[1] ELSE 0
      BY <3>2 DEF Own
    <3>4. row.link = ("request" \in world.ended[row.mid[1]].has)
      BY <3>2 DEF Matched, Owes
    <3>5. QED
      BY <3>1, <3>3, <3>4
  <2>2. QED
    BY <2>1 DEF ReplyIsTheTurns
<1>4. QED
  BY <1>1, <1>2, <1>3, Invariance, UtteredInvariance, EndedInvariance, EarlyInvariance,
     LaidInvariance, LinkedInvariance, OneTurnInvariance, ReadLastInvariance, PTL DEF Spec

-----------------------------------------------------------------------------
(***************************************************************************)
(* Nothing owed is lost.  What an effect says of a run is true of it, and  *)
(* everything a job was to bring about is applied, on its way ahead of the *)
(* message that clears the job, or yet to be said by the effect.           *)
(***************************************************************************)
\* Remembers and forgets that are not true of the last turn.
Mistaken ==
  LET o == world.ended[world.turn]
  IN {m \in Tagged({"remember"}) : m.name # Lesson}
     \cup {m \in Tagged({"forget"}) : m.name \notin o.drops \/ (m.name = Lesson /\ "note" \in o.has)}
Truthful == Open /\ world.turn > 0 =>
  /\ ~Has(inbox, Mistaken)
  /\ \A e \in effects : e.pc = "emit" => ~Has(e.says, Mistaken)

\* What capture-memory says is true of the turn it read.
LEMMA MemoryTrue ==
  ASSUME Inv, Ended, Laid, OneTurn, ReadLast, Open, NEW e \in effects, CaptureMemory(e)
  PROVE  \E s \in Seq(MessageType) :
           /\ Reports(e, s) /\ ~Has(s, Mistaken)
           /\ "note" \in world.ended[e.run].has => Has(s, {Message("remember", 0, Lesson, 0)})
           /\ \A n \in world.ended[e.run].drops \cap Notes : Has(s, {Message("forget", 0, n, 0)})
<1>1. Types /\ Fine(e) /\ e.kind = "capture-memory" /\ e.pc = "read"
  BY DEF Inv, Working, CaptureMemory, At
<1>2. PICK s \in Seq(MessageType) :
        /\ Reports(e, s)
        /\ \A K : Has(s, K) <=>
             \/ "note" \in Manifest(e.out) /\ Message("remember", 0, Lesson, 0) \in K
             \/ \E n \in Missing(e) : Message("forget", 0, n, 0) \in K
             \/ MarkHarvested(e.run, "memory") \in K
  BY <1>1, MemorySays
<1>3. PICK o : o = world.ended[e.run]
  OBVIOUS
<1>4. /\ e.run = world.turn /\ world.turn \in Run
      /\ e.out = [f \in File |-> IF f \in o.has THEN e.run ELSE 0]
      /\ e.kept = ws.manifest \ o.drops /\ o.drops \subseteq ws.manifest
  BY <1>1, <1>3, OwnFiles
<1>5. "note" \in Manifest(e.out) <=> "note" \in o.has
  BY <1>4 DEF Manifest, File, Run
<1>6. ASSUME NEW n \in Missing(e) PROVE n \in o.drops /\ (n = Lesson => "note" \notin o.has)
  BY <1>4, <1>5, <1>6 DEF Missing
<1>7. ASSUME NEW n \in o.drops \cap Notes PROVE n \in Missing(e)
  BY <1>4, <1>7, HarvestAssumption DEF Missing
<1>8. Message("remember", 0, Lesson, 0) \notin Mistaken
  BY DEF Mistaken, Message, Tagged
<1>9. MarkHarvested(e.run, "memory") \notin Mistaken
  BY DEF Mistaken, MarkHarvested, Message, Tagged
<1>10. ASSUME NEW n \in Missing(e) PROVE Message("forget", 0, n, 0) \notin Mistaken
  BY <1>3, <1>4, <1>6 DEF Mistaken, Message, Tagged
<1>11. ~Has(s, Mistaken)
  BY <1>2, <1>8, <1>9, <1>10
<1>12. "note" \in o.has => Has(s, {Message("remember", 0, Lesson, 0)})
  BY <1>2, <1>5
<1>13. \A n \in o.drops \cap Notes : Has(s, {Message("forget", 0, n, 0)})
  BY <1>2, <1>7
<1>14. QED
  BY <1>2, <1>3, <1>11, <1>12, <1>13

\* Only remembers and forgets are mistaken, and only capture-memory says those.
LEMMA MistakenSaid ==
  ASSUME NEW e, NEW m, Utters(e, m), m \in Mistaken
  PROVE  e.kind = "capture-memory" /\ m \in Late
<1>1. m.tag \in {"remember", "forget"} /\ m \in Late
  BY DEF Mistaken, Tagged, Late
<1>2. QED
  BY <1>1, UtteredBy

\* Every step keeps what is said true, when turns do not overlap.
LEMMA TruthfulNext ==
  ASSUME ~Overlap, Inv, Uttered, Ended, Early, Laid, OneTurn, ReadLast, Truthful, [Next]_vars
  PROVE  Truthful'
<1>1. Types /\ Working
  BY DEF Inv
<1> SUFFICES ASSUME Open', (world.turn > 0)' PROVE Truthful'
  BY DEF Truthful
<1>2. Open
  BY EarlyNext
<1>3. ASSUME world'.turn = world.turn, world'.ended = world.ended,
             ~Has(inbox', Mistaken),
             \A g \in effects' : g.pc = "emit" => g \in effects \/ ~Has(g.says, Mistaken)
      PROVE  Truthful'
  <2>1. Mistaken' = Mistaken
    BY <1>3 DEF Mistaken
  <2>2. world.turn > 0
    BY <1>3
  <2>3. \A g \in effects' : g.pc = "emit" => ~Has(g.says, Mistaken)
    BY <1>2, <1>3, <2>2 DEF Truthful
  <2>4. QED
    BY <1>3, <2>1, <2>3 DEF Truthful
<1>4. world'.turn = world.turn => ~Has(inbox, Mistaken) /\ world.turn > 0
  BY <1>2 DEF Truthful
<1>5. CASE Reduce
  <2>1. PICK m \in MessageType :
          /\ inbox # <<>> /\ inbox' = Tail(inbox) /\ Sound(m) /\ world' = world
          /\ effects' = effects \cup Commands(model, m)
    BY <1>5, Turning
  <2>2. ~Has(inbox', Mistaken)
    BY <1>1, <1>4, <2>1, TakenHas
  <2>3. \A c \in Commands(model, m) : c.pc = "start"
    BY <1>1, <2>1, CommandsType
  <2>4. QED
    BY <1>3, <2>1, <2>2, <2>3
<1>6. ASSUME NEW e \in effects, EffectWorks(e) PROVE Truthful'
  <2>1. UNCHANGED <<inbox, world>> /\ Fine(e) /\ e \in EffectType
    BY <1>1, <1>6, WorksKeep DEF Working, Types
  <2>2. ASSUME NEW g \in effects', g.pc = "emit", g \notin effects PROVE ~Has(g.says, Mistaken)
    <3>1. Same(e, g) /\ \A i \in DOMAIN g.says : Utters(g, g.says[i])
      BY <1>1, <1>6, <2>1, <2>2, WorksSucceeds DEF Succeeds
    <3>2. ASSUME NEW i \in DOMAIN g.says, g.says[i] \in Mistaken PROVE FALSE
      <4>1. e.kind = "capture-memory"
        BY <3>1, <3>2, MistakenSaid DEF Same
      <4>2. ReadFiles(e) \/ CaptureMemory(e)
        BY <1>6, <4>1 DEF EffectWorks, CaptureTranscript, StoreSkill, MintUIRequest,
           AssembleReply, Submit, MarkOutboxSent, ArchiveFiles, CheckCovered,
           RemoveWorkspace, DeleteManifest, At
      <4>3. ~ReadFiles(e)
        <5>1. [e EXCEPT !.pc = "read", !.out = ws.out, !.kept = ws.in].pc = "read"
          BY <2>1 DEF EffectType
        <5>2. QED
          BY <2>2, <5>1 DEF ReadFiles, Becomes
      <4>4. PICK s \in Seq(MessageType) : Reports(e, s) /\ ~Has(s, Mistaken)
        BY <1>2, <4>2, <4>3, MemoryTrue
      <4>5. g.says = s
        BY <2>1, <2>2, <4>4, Reported
      <4>6. QED
        BY <3>2, <4>4, <4>5 DEF Has
    <3>3. QED
      BY <3>2 DEF Has
  <2>3. QED
    BY <1>3, <1>4, <2>1, <2>2
<1>7. ASSUME NEW e \in effects, Emit(e) PROVE Truthful'
  <2>1. Fine(e) /\ e.pc = "emit"
    BY <1>1, <1>7 DEF Working, Emit
  <2>2. PICK m \in MessageType :
          /\ m = e.says[1] /\ 1 \in DOMAIN e.says
          /\ inbox' = Append(inbox, m) /\ world' = world
          /\ \A f \in effects' : \/ f \in effects
                                 \/ f.pc = "emit" /\ \A K : Has(f.says, K) => Has(e.says, K)
    BY <1>1, <1>7, <2>1, Emits
  <2>3. ~Has(e.says, Mistaken)
    BY <1>2, <1>4, <2>1, <2>2 DEF Truthful
  <2>4. m \notin Mistaken
    BY <2>2, <2>3 DEF Has
  <2>5. ~Has(inbox', Mistaken)
    BY <1>1, <1>4, <2>2, <2>4, ComesHas
  <2>6. QED
    BY <1>3, <2>2, <2>3, <2>5
<1>8. CASE Idle
  <2>1. Mistaken \cap Tagged(Signals) = {}
    BY DEF Mistaken, Tagged, Signals
  <2>2. world'.turn = world.turn
    BY <1>8 DEF Idle
  <2>3. ~Has(inbox', Mistaken)
    BY <1>1, <1>4, <1>8, <2>1, <2>2, IdleHas
  <2>4. QED
    BY <1>3, <1>8, <2>3 DEF Idle
<1>9. CASE StartTurn
  <2>1. inbox' = <<>> /\ effects' = {}
    BY <1>9, Starting
  <2>2. ~Has(inbox', Mistaken')
    BY <2>1 DEF Has
  <2>3. QED
    BY <2>1, <2>2 DEF Truthful
<1>10. ASSUME NEW o \in world.plan.outcomes, EndTurn(o) PROVE Truthful'
  <2>1. PICK m \in MessageType :
          m = Message("agent-run-finished", world.turn, "", 0) /\ inbox' = Append(inbox, m)
    BY <1>10, Stopping
  <2>2. world.running /\ effects' = effects
    BY <1>10, Stopping
  <2>3. ~Has(inbox, Late)
    BY <2>2 DEF OneTurn
  <2>4. \A l \in Mistaken' : l \in Late /\ l.tag # "agent-run-finished"
    BY DEF Mistaken, Tagged, Late
  <2>5. m \notin Mistaken'
    BY <2>1, <2>4 DEF Message
  <2>6. ~Has(inbox, Mistaken')
    BY <2>3, <2>4 DEF Has
  <2>7. ~Has(inbox', Mistaken')
    BY <1>1, <2>1, <2>5, <2>6, ComesHas
  <2>8. ASSUME NEW e \in effects, e.pc = "emit", NEW i \in DOMAIN e.says, e.says[i] \in Mistaken'
        PROVE  FALSE
    <3>1. e.says[i].tag \in {"remember", "forget"}
      BY <2>8 DEF Mistaken, Tagged
    <3>2. e.kind = "capture-memory"
      BY <2>8, <3>1, UtteredBy DEF Uttered
    <3>3. QED
      BY <2>2, <3>2, NobodyReads
  <2>9. \A e \in effects' : e.pc = "emit" => ~Has(e.says, Mistaken')
    BY <2>2, <2>8 DEF Has
  <2>10. QED
    BY <2>7, <2>9 DEF Truthful
<1>11. CASE UserFinishes
  BY <1>11, UserDone DEF Open
<1>12. QED
  BY <1>5, <1>6, <1>7, <1>8, <1>9, <1>10, <1>11, Shapes

\* It holds in every behaviour without overlap.
LEMMA TruthfulInvariance == ASSUME ~Overlap PROVE Spec => []Truthful
<1>1. Init => Truthful
  <2>1. ASSUME Init PROVE Truthful
    <3>1. world.turn = 0
      BY <2>1 DEF Init
    <3>2. QED
      BY <3>1 DEF Truthful
  <2>2. QED
    BY <2>1
<1>2. Inv /\ Uttered /\ Ended /\ Early /\ Laid /\ OneTurn /\ ReadLast /\ Truthful /\ [Next]_vars
        => Truthful'
  BY TruthfulNext
<1>3. QED
  BY <1>1, <1>2, Invariance, UtteredInvariance, EndedInvariance, EarlyInvariance,
     LaidInvariance, OneTurnInvariance, ReadLastInvariance, PTL DEF Spec

\* The messages that bring a step's work of run r to the model, and what they do.
Expected(r, k) ==
  LET o == world.ended[r]
  IN {m \in MessageType :
        \/ k = "skill" /\ "skill" \in o.has /\ m = Message("register-skill", r, "", 0)
        \/ k = "memory" /\ "note" \in o.has /\ m = Message("remember", 0, Lesson, 0)
        \/ k = "memory" /\ \E n \in o.drops \cap Notes : m = Message("forget", 0, n, 0)}
Applied(m) ==
  /\ m.tag = "register-skill" => m.run \in model.skills
  /\ m.tag = "remember" => m.name \in model.notes
  /\ m.tag = "forget" => m.name \notin model.notes

\* What a step of run r leaves in the store.
Stored(r, k) ==
  /\ k = "transcript" => r \in store.transcripts
  /\ k = "skill" /\ "skill" \in world.ended[r].has => r \in store.skills

\* The messages that clear a job.
Clearing(r, k) == {m \in MessageType : m.tag = "mark-harvested" /\ m.run = r /\ m.name = k}

\* An effect that reports has stored its work, and what is expected of it is applied, on
\* its way or yet to be said; a message that clears a job comes after what is expected.
Backs(e) ==
  /\ Stored(e.run, KindOf(e))
  /\ \A m \in Expected(e.run, KindOf(e)) : Applied(m) \/ Has(inbox, {m}) \/ Has(e.says, {m})
Covered(r, k) == Has(inbox, Clearing(r, k)) =>
  /\ Stored(r, k)
  /\ \A m \in Expected(r, k) : Applied(m) \/ Before(inbox, {m}, Clearing(r, k))
AtWork == {e \in effects : e.kind \notin {"send-email", "archive-task"} /\ e.pc = "emit"}
Backed == Open => /\ \A e \in AtWork : Backs(e)
                  /\ \A r \in Run, k \in Kind : Covered(r, k)

\* What is expected is no clearing message and no signal.
LEMMA ExpectedTags ==
  ASSUME NEW r, NEW k, NEW m \in Expected(r, k)
  PROVE  /\ m \in MessageType /\ m.tag \in {"register-skill", "remember", "forget"}
         /\ m.tag = "remember" => m.name = Lesson /\ "note" \in world.ended[r].has
         /\ m.tag = "forget" => m.name \in Notes
<1>1. \A tag, run, name : /\ Message(tag, run, name, 0).tag = tag
                          /\ Message(tag, run, name, 0).name = name
  BY DEF Message
<1>2. \/ m = Message("register-skill", r, "", 0)
      \/ "note" \in world.ended[r].has /\ m = Message("remember", 0, Lesson, 0)
      \/ \E n \in Notes : m = Message("forget", 0, n, 0)
  BY DEF Expected
<1>3. m \in MessageType
  BY DEF Expected
<1>4. CASE m = Message("register-skill", r, "", 0)
  <2>1. m.tag = "register-skill"
    BY <1>1, <1>4
  <2>2. QED
    BY <1>3, <2>1
<1>5. CASE "note" \in world.ended[r].has /\ m = Message("remember", 0, Lesson, 0)
  <2>1. m.tag = "remember" /\ m.name = Lesson
    BY <1>1, <1>5
  <2>2. QED
    BY <1>3, <1>5, <2>1
<1>6. ASSUME NEW n \in Notes, m = Message("forget", 0, n, 0)
      PROVE  m.tag = "forget" /\ m.name \in Notes
  <2>1. m.tag = "forget" /\ m.name = n
    BY <1>1, <1>6
  <2>2. QED
    BY <2>1
<1>7. QED
  BY <1>2, <1>3, <1>4, <1>5, <1>6

\* A job about to be cleared is the last turn's, which is over.
LEMMA ClearedOwed ==
  ASSUME Inv, Ended, OneTurn, NEW r \in Run, NEW k \in Kind, Has(inbox, Clearing(r, k))
  PROVE  Job(r, k) \in model.jobs /\ r = world.turn /\ ~world.running
<1>1. PICK i \in DOMAIN inbox : inbox[i] \in Clearing(r, k)
  BY DEF Has
<1>2. For(inbox[i]) = SourceJob(Job(r, k))
  BY <1>1 DEF For, Clearing
<1>3. For(inbox[i]) # NoSource
  <2>1. For(inbox[i]).of = "harvest"
    BY <1>2 DEF SourceJob
  <2>2. NoSource.of = "none"
    BY DEF NoSource
  <2>3. QED
    BY <2>1, <2>2
<1>4. SourceJob(Job(r, k)) \in Desired(model) /\ model \in ModelType
  BY <1>2, <1>3 DEF Inv, Chains, Types
<1>5. Job(r, k) \in model.jobs
  BY <1>4, SourceOwed
<1>6. r = world.turn /\ r \in Finished
  BY <1>5 DEF OneTurn, Ended, Job
<1>7. Over(r)
  BY <1>6 DEF Ended
<1>8. QED
  BY <1>5, <1>6, <1>7 DEF Over, Run

\* While an effect reports, nothing on the channel clears its job.
LEMMA ClearedOnce ==
  ASSUME Inv, NEW e \in AtWork
  PROVE  ~Has(inbox, Clearing(e.run, KindOf(e)))
<1>1. Of(e) = SourceJob(Job(e.run, KindOf(e))) /\ e \in effects
  BY DEF Of, AtWork
<1>2. ASSUME NEW i \in DOMAIN inbox, inbox[i] \in Clearing(e.run, KindOf(e)) PROVE FALSE
  <2>1. For(inbox[i]) = Of(e)
    BY <1>1, <1>2 DEF For, Clearing
  <2>2. For(inbox[i]).of = "harvest"
    BY <1>1, <2>1 DEF SourceJob
  <2>3. NoSource.of = "none"
    BY DEF NoSource
  <2>4. For(inbox[i]) # NoSource
    BY <2>2, <2>3
  <2>5. QED
    BY <1>1, <2>1, <2>4 DEF Inv, Chains
<1>3. QED
  BY <1>2 DEF Has

\* The store keeps transcripts and skills.
LEMMA StoreGrows ==
  ASSUME Inv, [Next]_vars
  PROVE  store.transcripts \subseteq store'.transcripts /\ store.skills \subseteq store'.skills
<1>1. Types
  BY DEF Inv
<1>2. ASSUME NEW e \in effects, EffectWorks(e)
      PROVE  store.transcripts \subseteq store'.transcripts /\ store.skills \subseteq store'.skills
  BY <1>1, <1>2, WorksKeep
<1>3. CASE Reduce \/ Idle \/ StartTurn \/ UserFinishes \/ (\E e \in effects : Emit(e))
           \/ \E o \in world.plan.outcomes : EndTurn(o)
  BY <1>3 DEF Reduce, Idle, StartTurn, UserFinishes, Emit, EndTurn, outside
<1>4. QED
  BY <1>2, <1>3, Shapes

\* What is stored and applied of the last turn stays so: nobody says of a turn what
\* is not true of it.
LEMMA AppliedStays ==
  ASSUME Inv, Ended, Truthful, Open, [Next]_vars, NEW r \in Run, r = world.turn, ~world.running,
         NEW k \in Kind
  PROVE  /\ Expected(r, k)' = Expected(r, k)
         /\ Stored(r, k) => Stored(r, k)'
         /\ \A m \in Expected(r, k) : Applied(m) => Applied(m)'
<1>1. Types /\ Over(r)
  BY DEF Inv, Over
<1>2. world'.ended[r] = world.ended[r]
  BY <1>1, OutcomesStay
<1>3. Expected(r, k)' = Expected(r, k)
  BY <1>2 DEF Expected
<1>4. Stored(r, k) => Stored(r, k)'
  BY <1>2, StoreGrows DEF Stored
<1>5. ASSUME NEW m \in Expected(r, k), Applied(m) PROVE Applied(m)'
  <2>1. CASE ~Reduce
    <3>1. model'.notes = model.notes /\ model'.skills = model.skills
      BY <2>1, OutcomesStay
    <3>2. QED
      BY <1>5, <3>1 DEF Applied
  <2>2. CASE Reduce
    <3>1. PICK h \in MessageType : /\ h = inbox[1] /\ 1 \in DOMAIN inbox
                                   /\ model' = Update(model, h)
      BY <2>2, Turning
    <3>2. h \notin Mistaken
      <4>1. world.turn > 0
        BY Bounds DEF Run
      <4>2. QED
        BY <3>1, <4>1 DEF Truthful, Has
    <3>3. model.skills \subseteq model'.skills
      BY <1>1, <3>1, UpdateParts
    <3>4. PICK o : o = world.ended[r]
      OBVIOUS
    <3>5. /\ m.tag = "remember" => m.name = Lesson /\ "note" \in o.has
          /\ m.tag = "forget" => m.name \in Notes
      BY <3>4, ExpectedTags
    <3>6. /\ h.tag = "remember" => h.name = Lesson
          /\ h.tag = "forget" => h.name # Lesson \/ "note" \notin o.has
      BY <3>2, <3>4 DEF Mistaken, Tagged
    <3>7. \/ model'.notes = model.notes
          \/ h.tag = "remember" /\ model'.notes = model.notes \cup {h.name}
          \/ h.tag = "forget" /\ model'.notes = model.notes \ {h.name}
      BY <1>1, <3>1, UpdateParts
    <3>8. m.tag = "remember" /\ m.name \in model.notes => m.name \in model'.notes
      BY <3>5, <3>6, <3>7
    <3>9. m.tag = "forget" /\ m.name \notin model.notes => m.name \notin model'.notes
      BY <3>5, <3>6, <3>7, HarvestAssumption
    <3>10. QED
      BY <1>5, <3>3, <3>8, <3>9 DEF Applied
  <2>3. QED
    BY <2>1, <2>2
<1>6. QED
  BY <1>3, <1>4, <1>5

\* What the reducer takes it applies.
LEMMA HeadApplied ==
  ASSUME Types, NEW m \in MessageType, model' = Update(model, m)
  PROVE  Applied(m)'
<1>1. /\ m.tag = "register-skill" => model'.skills = model.skills \cup {m.run}
      /\ m.tag = "remember" => model'.notes = model.notes \cup {m.name}
      /\ m.tag = "forget" => model'.notes = model.notes \ {m.name}
  BY UpdateParts
<1>2. QED
  BY <1>1 DEF Applied

\* What an effect of a job reports when its work is done: all that is expected.
LEMMA WorkBacks ==
  ASSUME Inv, Ended, Laid, OneTurn, ReadLast, Open, NEW e \in effects, EffectWorks(e),
         NEW g \in effects', g \notin effects, g.pc = "emit",
         e.kind \notin {"send-email", "archive-task"}
  PROVE  /\ Stored(e.run, KindOf(e))'
         /\ \A m \in Expected(e.run, KindOf(e)) : Has(g.says, {m})
<1>1. /\ Types /\ Fine(e) /\ e \in EffectType /\ e.kind \in EffectKind /\ e.run \in Run
      /\ UNCHANGED <<model, inbox, world>> /\ store \in StoreType
  BY WorksKeep DEF Inv, Working, Types, EffectType, Fine
<1>2. ASSUME ReadFiles(e) PROVE FALSE
  <2>1. [e EXCEPT !.pc = "read", !.out = ws.out, !.kept = ws.in].pc = "read"
    BY <1>1 DEF EffectType
  <2>2. QED
    BY <1>2, <2>1 DEF ReadFiles, Becomes
<1>3. CASE CaptureTranscript(e)
  <2>1. e.kind = "capture-transcript" /\ KindOf(e) = "transcript"
    BY <1>3 DEF CaptureTranscript, At, KindOf
  <2>2. ~Ends(e)
    BY DEF Ends
  <2>3. store' = [store EXCEPT !.transcripts = @ \cup {e.run}]
    BY <1>3, <2>2 DEF CaptureTranscript
  <2>4. e.run \in store'.transcripts
    BY <1>1, <2>3 DEF StoreType
  <2>5. QED
    BY <2>1, <2>4 DEF Stored, Expected
<1>4. CASE CaptureMemory(e)
  <2>1. e.kind = "capture-memory" /\ KindOf(e) = "memory"
    BY <1>4 DEF CaptureMemory, At, KindOf
  <2>2. PICK s \in Seq(MessageType) :
          /\ Reports(e, s)
          /\ "note" \in world.ended[e.run].has => Has(s, {Message("remember", 0, Lesson, 0)})
          /\ \A n \in world.ended[e.run].drops \cap Notes : Has(s, {Message("forget", 0, n, 0)})
    BY <1>4, MemoryTrue
  <2>3. g.says = s
    BY <1>1, <2>2, Reported
  <2>4. ASSUME NEW m \in Expected(e.run, "memory") PROVE Has(s, {m})
    BY <2>2 DEF Expected
  <2>5. QED
    BY <2>1, <2>3, <2>4 DEF Stored
<1>5. CASE StoreSkill(e)
  <2>1. e.kind = "store-skill" /\ KindOf(e) = "skill" /\ e.pc = "read"
    BY <1>5 DEF StoreSkill, At, KindOf
  <2>2. e.out = [f \in File |-> IF f \in world.ended[e.run].has THEN e.run ELSE 0]
    BY <2>1, OwnFiles
  <2>3. CASE "skill" \in world.ended[e.run].has
    <3>1. "skill" \in Manifest(e.out) /\ e.out["skill"] = e.run
      BY <1>1, <2>2, <2>3 DEF Manifest, File, Run
    <3>2. /\ store' = [store EXCEPT !.skills = @ \cup {e.run}]
          /\ Reports(e, <<Message("register-skill", e.run, "", 0),
                          MarkHarvested(e.run, "skill")>>)
      BY <1>5, <3>1 DEF StoreSkill
    <3>3. e.run \in store'.skills
      BY <1>1, <3>2 DEF StoreType
    <3>4. PICK l \in MessageType : l = Message("register-skill", e.run, "", 0)
      BY <1>1, ReportsSkill
    <3>5. PICK c \in MessageType : c = MarkHarvested(e.run, "skill")
      BY <1>1, ReportsHarvested DEF Kind
    <3>6. PICK s \in Seq(MessageType) : s = <<l, c>> /\ Has(s, {l})
      <4>1. <<l, c>> \in Seq(MessageType) /\ Has(<<l, c>>, {l})
        BY TwoSays, TwoHas
      <4>2. QED
        BY <4>1
    <3>7. Reports(e, s)
      BY <3>2, <3>4, <3>5, <3>6
    <3>8. Has(g.says, {l})
      <4>1. PICK f : effects' = (effects \ {e}) \cup {f} /\ f.says = s
        BY <1>1, <3>7, Reported
      <4>2. g = f
        BY <4>1
      <4>3. QED
        BY <3>6, <4>1, <4>2
    <3>9. \A m \in Expected(e.run, "skill") : m = l
      BY <3>4 DEF Expected
    <3>10. QED
      BY <2>1, <3>3, <3>8, <3>9 DEF Stored
  <2>4. CASE "skill" \notin world.ended[e.run].has
    BY <1>1, <2>1, <2>4 DEF Stored, Expected
  <2>5. QED
    BY <2>3, <2>4
<1>6. CASE MintUIRequest(e)
  <2>1. KindOf(e) = "request"
    BY <1>6 DEF MintUIRequest, At, KindOf
  <2>2. QED
    BY <2>1 DEF Stored, Expected
<1>7. CASE AssembleReply(e)
  <2>1. KindOf(e) = "reply"
    BY <1>7 DEF AssembleReply, At, KindOf
  <2>2. QED
    BY <2>1 DEF Stored, Expected
<1>8. QED
  BY <1>2, <1>3, <1>4, <1>5, <1>6, <1>7 DEF EffectWorks, Submit, MarkOutboxSent, ArchiveFiles,
     CheckCovered, RemoveWorkspace, DeleteManifest, At

\* Every step keeps what is owed backed, when turns do not overlap.
LEMMA BackedNext ==
  ASSUME ~Overlap, Inv, Uttered, Ended, Early, Laid, OneTurn, ReadLast, Truthful, Backed,
         [Next]_vars
  PROVE  Backed'
<1>1. Types /\ Working /\ inbox \in Seq(MessageType) /\ effects \subseteq EffectType
  BY DEF Inv, Types
<1> SUFFICES ASSUME Open' PROVE Backed'
  BY DEF Backed
<1>2. Open
  BY EarlyNext
<1>3. ASSUME NEW e \in AtWork
      PROVE  /\ Backs(e) /\ e \in effects /\ e.run \in Run /\ KindOf(e) \in Kind
             /\ e.run = world.turn /\ ~world.running
  <2>1. e \in effects /\ e.kind \notin {"send-email", "archive-task"}
    BY <1>3 DEF AtWork
  <2>2. e.run = world.turn /\ ~world.running /\ e.run \in Run /\ KindOf(e) \in Kind
    BY <2>1, EffectTurn, EffectOwed
  <2>3. QED
    BY <1>2, <1>3, <2>1, <2>2 DEF Backed
<1>4. ASSUME NEW r \in Run, NEW k \in Kind, Has(inbox, Clearing(r, k))
      PROVE  /\ r = world.turn /\ ~world.running /\ Stored(r, k)
             /\ \A m \in Expected(r, k) : Applied(m) \/ Before(inbox, {m}, Clearing(r, k))
  BY <1>2, <1>4, ClearedOwed DEF Backed, Covered
\* What stays: the messages not yet told, told now or applied.
<1>5. ASSUME \A e \in AtWork' : \E f \in AtWork :
               /\ Same(f, e)
               /\ \A m \in Expected(f.run, KindOf(f)) :
                    Has(inbox, {m}) \/ Has(f.says, {m}) =>
                      Applied(m)' \/ Has(inbox', {m}) \/ Has(e.says, {m})
      PROVE  \A e \in AtWork' : Backs(e)'
  <2>1. ASSUME NEW e \in AtWork' PROVE Backs(e)'
    <3>1. PICK f \in AtWork :
            /\ Same(f, e)
            /\ \A m \in Expected(f.run, KindOf(f)) :
                 Has(inbox, {m}) \/ Has(f.says, {m}) =>
                   Applied(m)' \/ Has(inbox', {m}) \/ Has(e.says, {m})
      BY <1>5, <2>1
    <3>2. /\ Backs(f) /\ f.run \in Run /\ KindOf(f) \in Kind
          /\ f.run = world.turn /\ ~world.running
      BY <1>3
    <3>3. PICK r \in Run, k \in Kind : r = f.run /\ k = KindOf(f)
      BY <3>2
    <3>4. e.run = r /\ KindOf(e) = k
      BY <3>1, <3>3 DEF Same, KindOf
    <3>5. /\ Expected(r, k)' = Expected(r, k) /\ (Stored(r, k) => Stored(r, k)')
          /\ \A m \in Expected(r, k) : Applied(m) => Applied(m)'
      BY <1>2, <3>2, <3>3, AppliedStays
    <3>6. Stored(r, k) /\ \A m \in Expected(r, k) : Applied(m) \/ Has(inbox, {m}) \/ Has(f.says, {m})
      BY <3>2, <3>3 DEF Backs
    <3>7. \A m \in Expected(r, k) : Applied(m)' \/ Has(inbox', {m}) \/ Has(e.says, {m})
      BY <3>1, <3>3, <3>5, <3>6
    <3>8. Stored(r, k)' /\ \A m \in Expected(r, k)' : Applied(m)' \/ Has(inbox', {m}) \/ Has(e.says, {m})
      BY <3>5, <3>6, <3>7
    <3>9. QED
      BY <3>4, <3>8 DEF Backs, KindOf
  <2>2. QED
    BY <2>1
<1>6. ASSUME NEW r \in Run, NEW k \in Kind, Has(inbox, Clearing(r, k)),
             \A m \in Expected(r, k) :
               Before(inbox, {m}, Clearing(r, k)) =>
                 Applied(m)' \/ Before(inbox', {m}, Clearing(r, k))
      PROVE  Covered(r, k)'
  <2>1. PICK C : C = Clearing(r, k)
    OBVIOUS
  <2>2. /\ Expected(r, k)' = Expected(r, k) /\ Stored(r, k)'
        /\ \A m \in Expected(r, k) : Applied(m) => Applied(m)'
    BY <1>2, <1>4, <1>6, AppliedStays
  <2>3. \A m \in Expected(r, k)' : Applied(m)' \/ Before(inbox', {m}, C)
    BY <1>4, <1>6, <2>1, <2>2
  <2>4. QED
    BY <2>1, <2>2, <2>3 DEF Covered, Clearing
<1>7. CASE Reduce
  <2>1. PICK h \in MessageType :
          /\ h = inbox[1] /\ 1 \in DOMAIN inbox /\ inbox # <<>> /\ inbox' = Tail(inbox)
          /\ Sound(h) /\ model' = Update(model, h)
          /\ effects' = effects \cup Commands(model, h)
    BY <1>7, Turning
  <2>2. \A c \in Commands(model, h) : c.pc = "start"
    BY <1>1, <2>1, CommandsType
  <2>3. Applied(h)'
    BY <1>1, <2>1, HeadApplied
  <2>4. ASSUME NEW m, Has(inbox, {m}) PROVE Applied(m)' \/ Has(inbox', {m})
    <3>1. PICK i \in DOMAIN inbox : inbox[i] = m
      BY <2>4 DEF Has
    <3>2. i # 1 => i - 1 \in DOMAIN inbox' /\ inbox'[i - 1] = m
      BY <1>1, <2>1, <3>1, TailPlaces
    <3>3. i = 1 => m = h
      BY <2>1, <3>1
    <3>4. QED
      BY <2>3, <3>2, <3>3 DEF Has
  <2>5. ASSUME NEW e \in AtWork' PROVE e \in AtWork
    <3>1. e \in effects'
      BY <2>5 DEF AtWork
    <3>2. e.pc = "emit" /\ e.kind \notin {"send-email", "archive-task"}
      BY <2>5 DEF AtWork
    <3>3. QED
      BY <2>1, <2>2, <3>1, <3>2 DEF AtWork
  <2>6. \A e \in AtWork' : Backs(e)'
    BY <1>5, <2>4, <2>5 DEF Same
  <2>7. ASSUME NEW r \in Run, NEW k \in Kind PROVE Covered(r, k)'
    <3>1. PICK C : C = Clearing(r, k)
      OBVIOUS
    <3>2. Has(inbox', C) => Has(inbox, C)
      BY <1>1, <2>1, TakenHas
    <3>3. ASSUME NEW m, Before(inbox, {m}, C) PROVE Applied(m)' \/ Before(inbox', {m}, C)
      <4>1. inbox[1] \notin {m} => Before(Tail(inbox), {m}, C)
        BY <1>1, <2>1, <3>3, BeforeTail
      <4>2. inbox[1] \in {m} => m = h
        BY <2>1
      <4>3. QED
        BY <2>1, <2>3, <4>1, <4>2
    <3>4. CASE Has(inbox, C)
      BY <1>6, <3>1, <3>3, <3>4
    <3>5. CASE ~Has(inbox', C)
      BY <3>1, <3>5 DEF Covered, Clearing
    <3>6. QED
      BY <3>2, <3>4, <3>5
  <2>8. QED
    BY <2>6, <2>7 DEF Backed
<1>8. ASSUME NEW e \in effects, EffectWorks(e) PROVE Backed'
  <2>1. UNCHANGED <<model, inbox, world>> /\ Fine(e)
    BY <1>1, <1>8, WorksKeep DEF Working
  <2>2. ASSUME NEW g \in AtWork', g \in effects PROVE Backs(g)'
    <3>1. g \in AtWork
      BY <2>2 DEF AtWork
    <3>2. PICK r \in Run, k \in Kind : r = g.run /\ k = KindOf(g) /\ r = world.turn
                                       /\ ~world.running
      BY <1>3, <3>1
    <3>3. Stored(r, k) /\ \A m \in Expected(r, k) : Applied(m) \/ Has(inbox, {m}) \/ Has(g.says, {m})
      BY <1>3, <3>1, <3>2 DEF Backs
    <3>4. /\ Expected(r, k)' = Expected(r, k) /\ Stored(r, k)'
          /\ \A m \in Expected(r, k) : Applied(m) => Applied(m)'
      BY <1>2, <3>2, <3>3, AppliedStays
    <3>5. Stored(r, k)' /\ \A m \in Expected(r, k)' : Applied(m)' \/ Has(inbox', {m}) \/ Has(g.says, {m})
      BY <2>1, <3>3, <3>4
    <3>6. QED
      BY <3>2, <3>5 DEF Backs, KindOf
  <2>3. ASSUME NEW g \in AtWork', g \notin effects PROVE Backs(g)'
    <3>1. g \in effects' /\ g.pc = "emit" /\ g.kind \notin {"send-email", "archive-task"}
      BY <2>3 DEF AtWork
    <3>2. Same(e, g)
      BY <1>1, <1>8, <2>1, <2>3, <3>1, WorksSucceeds DEF Succeeds
    <3>3. e.kind \notin {"send-email", "archive-task"}
      BY <3>1, <3>2 DEF Same
    <3>4. PICK r \in Run, k \in Kind : r = e.run /\ k = KindOf(e) /\ r = world.turn
                                       /\ ~world.running
      BY <3>3, EffectTurn, EffectOwed
    <3>5. Stored(e.run, KindOf(e))' /\ \A m \in Expected(e.run, KindOf(e)) : Has(g.says, {m})
      BY <1>2, <1>8, <2>3, <3>1, <3>3, WorkBacks
    <3>6. Expected(r, k)' = Expected(r, k)
      BY <1>2, <3>4, AppliedStays
    <3>7. Stored(r, k)'
      BY <3>4, <3>5 DEF KindOf
    <3>8. \A m \in Expected(r, k)' : Has(g.says, {m})
      BY <3>4, <3>5, <3>6
    <3>9. g.run = r /\ KindOf(g) = k
      BY <3>2, <3>4 DEF Same, KindOf
    <3>10. QED
      BY <3>7, <3>8, <3>9 DEF Backs, KindOf
  <2>4. ASSUME NEW r \in Run, NEW k \in Kind PROVE Covered(r, k)'
    <3>1. PICK C : C = Clearing(r, k)
      OBVIOUS
    <3>2. CASE Has(inbox, C)
      BY <1>6, <2>1, <3>1, <3>2
    <3>3. CASE ~Has(inbox', C)
      BY <3>1, <3>3 DEF Covered, Clearing
    <3>4. QED
      BY <2>1, <3>2, <3>3
  <2>5. QED
    BY <2>2, <2>3, <2>4 DEF Backed
<1>9. ASSUME NEW e \in effects, Emit(e) PROVE Backed'
  <2>1. Fine(e) /\ e.pc = "emit"
    BY <1>1, <1>9 DEF Working, Emit
  <2>2. PICK h \in MessageType :
          /\ h = e.says[1] /\ 1 \in DOMAIN e.says
          /\ inbox' = Append(inbox, h) /\ UNCHANGED <<model, world>>
          /\ \/ /\ effects' = effects \ {e} /\ For(h) = Of(e)
                /\ \A K : Has(e.says, K) => h \in K
             \/ /\ For(h) = NoSource
                /\ \E f \in EffectType :
                     /\ effects' = (effects \ {e}) \cup {f} /\ Same(e, f)
                     /\ \A K : Has(e.says, K) <=> h \in K \/ Has(f.says, K)
    BY <1>1, <1>9, <2>1, Emits
  <2>3. \A K : Has(inbox', K) <=> Has(inbox, K) \/ h \in K
    BY <1>1, <2>2, ComesHas
  <2>4. ASSUME NEW g \in AtWork'
        PROVE  \E f \in AtWork :
                 /\ Same(f, g)
                 /\ \A m \in Expected(f.run, KindOf(f)) :
                      Has(inbox, {m}) \/ Has(f.says, {m}) =>
                        Applied(m)' \/ Has(inbox', {m}) \/ Has(g.says, {m})
    <3>1. g \in effects' /\ g.pc = "emit" /\ g.kind \notin {"send-email", "archive-task"}
      BY <2>4 DEF AtWork
    <3>2. CASE g \in effects
      <4>1. g \in AtWork /\ Same(g, g)
        BY <3>1, <3>2 DEF AtWork, Same
      <4>2. QED
        BY <2>3, <4>1
    <3>3. CASE g \notin effects
      <4>1. Same(e, g) /\ \A K : Has(e.says, K) <=> h \in K \/ Has(g.says, K)
        BY <2>2, <3>1, <3>3
      <4>2. e \in AtWork
        BY <2>1, <3>1, <4>1 DEF AtWork, Same
      <4>3. \A m : Has(inbox, {m}) \/ Has(e.says, {m}) => Has(inbox', {m}) \/ Has(g.says, {m})
        BY <2>3, <4>1
      <4>4. QED
        BY <4>1, <4>2, <4>3
    <3>4. QED
      BY <3>2, <3>3
  <2>5. \A g \in AtWork' : Backs(g)'
    BY <1>5, <2>4
  <2>6. ASSUME NEW r \in Run, NEW k \in Kind PROVE Covered(r, k)'
    <3>1. PICK C : C = Clearing(r, k)
      OBVIOUS
    <3>2. CASE h \notin C
      <4>1. Has(inbox', C) => Has(inbox, C)
        BY <2>3, <3>2
      <4>2. ASSUME NEW m, Before(inbox, {m}, C) PROVE Before(inbox', {m}, C)
        BY <1>1, <2>2, <3>2, <4>2, BeforeAppend
      <4>3. CASE Has(inbox, C)
        BY <1>6, <3>1, <4>2, <4>3
      <4>4. CASE ~Has(inbox', C)
        BY <3>1, <4>4 DEF Covered, Clearing
      <4>5. QED
        BY <4>1, <4>3, <4>4
    <3>3. CASE h \in C
      <4>1. h.tag = "mark-harvested" /\ h.run = r /\ h.name = k
        BY <3>1, <3>3 DEF Clearing
      <4>2. Utters(e, h)
        BY <2>1, <2>2 DEF Uttered
      <4>3. h = MarkHarvested(e.run, KindOf(e))
        BY <4>1, <4>2, UtteredBy
      <4>4. e.run = r /\ KindOf(e) = k
        BY <4>1, <4>3 DEF MarkHarvested, Message
      <4>5. e \in AtWork
        <5>1. e.kind \notin {"send-email", "archive-task"}
          BY <4>1, <4>2 DEF Utters
        <5>2. QED
          BY <2>1, <5>1 DEF AtWork
      <4>6. For(h) # NoSource
        <5>1. For(h).of = "harvest"
          BY <4>1 DEF For, SourceJob
        <5>2. NoSource.of = "none"
          BY DEF NoSource
        <5>3. QED
          BY <5>1, <5>2
      <4>7. \A K : Has(e.says, K) => h \in K
        BY <2>2, <4>6
      <4>8. ~Has(inbox, C)
        BY <3>1, <4>4, <4>5, ClearedOnce
      <4>9. /\ Backs(e) /\ r = world.turn /\ ~world.running
        BY <1>3, <4>4, <4>5
      <4>10. Stored(r, k) /\ \A m \in Expected(r, k) : Applied(m) \/ Has(inbox, {m})
        <5>1. Stored(r, k) /\ \A m \in Expected(r, k) :
                                Applied(m) \/ Has(inbox, {m}) \/ Has(e.says, {m})
          BY <4>4, <4>9 DEF Backs
        <5>2. \A m \in Expected(r, k) : m # h
          BY <4>1, ExpectedTags
        <5>3. QED
          BY <4>7, <5>1, <5>2
      <4>11. /\ Expected(r, k)' = Expected(r, k) /\ Stored(r, k)'
             /\ \A m \in Expected(r, k) : Applied(m) => Applied(m)'
        BY <1>2, <4>9, <4>10, AppliedStays
      <4>12. ASSUME NEW m \in Expected(r, k), Has(inbox, {m}) PROVE Before(inbox', {m}, C)
        <5>1. Before(inbox, {m}, C)
          BY <4>8, BeforeNone
        <5>2. QED
          BY <1>1, <2>2, <4>12, <5>1, BeforeAppend
      <4>13. \A m \in Expected(r, k)' : Applied(m)' \/ Before(inbox', {m}, C)
        BY <4>10, <4>11, <4>12
      <4>14. QED
        BY <3>1, <4>11, <4>13 DEF Covered, Clearing
    <3>4. QED
      BY <3>2, <3>3
  <2>7. QED
    BY <2>5, <2>6 DEF Backed
<1>10. CASE Idle
  <2>1. ASSUME NEW g \in AtWork' PROVE g \in AtWork /\ \A m : Has(inbox, {m}) => Has(inbox', {m})
    <3>1. g \in effects /\ effects' # {}
      BY <1>10, <2>1 DEF AtWork, Idle
    <3>2. g \in AtWork
      BY <2>1, <3>1 DEF AtWork
    <3>3. inbox' = inbox \/ \E s \in MessageType : inbox' = Append(inbox, s)
      BY <1>10, <3>1 DEF Idle, Tagged
    <3>4. \A m : Has(inbox, {m}) => Has(inbox', {m})
      BY <1>1, <3>3, ComesHas
    <3>5. QED
      BY <3>2, <3>4
  <2>2. \A g \in AtWork' : Backs(g)'
    BY <1>5, <2>1 DEF Same
  <2>3. ASSUME NEW r \in Run, NEW k \in Kind PROVE Covered(r, k)'
    <3>1. PICK C : C = Clearing(r, k)
      OBVIOUS
    <3>2. C \cap Tagged(Signals) = {}
      BY <3>1 DEF Clearing, Tagged, Signals
    <3>3. Has(inbox', C) => Has(inbox, C)
      BY <1>1, <1>10, <3>2, IdleHas
    <3>4. \A m : Before(inbox, {m}, C) => Before(inbox', {m}, C)
      BY <1>1, <1>10, <3>2, IdleHas
    <3>5. CASE Has(inbox, C)
      BY <1>6, <3>1, <3>4, <3>5
    <3>6. CASE ~Has(inbox', C)
      BY <3>1, <3>6 DEF Covered, Clearing
    <3>7. QED
      BY <3>3, <3>5, <3>6
  <2>4. QED
    BY <2>2, <2>3 DEF Backed
<1>11. CASE StartTurn
  <2>1. inbox' = <<>> /\ effects' = {}
    BY <1>11, Starting
  <2>2. \A K : ~Has(inbox', K)
    BY <2>1 DEF Has
  <2>3. AtWork' = {}
    BY <2>1 DEF AtWork
  <2>4. \A r \in Run, k \in Kind : Covered(r, k)'
    BY <2>2 DEF Covered, Clearing
  <2>5. QED
    BY <2>3, <2>4 DEF Backed
<1>12. ASSUME NEW o \in world.plan.outcomes, EndTurn(o) PROVE Backed'
  <2>1. PICK h \in MessageType :
          h = Message("agent-run-finished", world.turn, "", 0) /\ inbox' = Append(inbox, h)
    BY <1>12, Stopping
  <2>2. world.running /\ effects' = effects
    BY <1>12, Stopping
  <2>3. AtWork' = {}
    BY <2>2, NobodyReads DEF AtWork
  <2>4. ASSUME NEW r \in Run, NEW k \in Kind PROVE Covered(r, k)'
    <3>1. PICK C : C = Clearing(r, k)
      OBVIOUS
    <3>2. h \notin C
      BY <2>1, <3>1 DEF Clearing, Message
    <3>3. ~Has(inbox, C)
      BY <2>2, <3>1, ClearedOwed
    <3>4. ~Has(inbox', C)
      BY <1>1, <2>1, <3>2, <3>3, ComesHas
    <3>5. QED
      BY <3>1, <3>4 DEF Covered, Clearing
  <2>5. QED
    BY <2>3, <2>4 DEF Backed
<1>13. CASE UserFinishes
  BY <1>13, UserDone DEF Open
<1>14. QED
  BY <1>7, <1>8, <1>9, <1>10, <1>11, <1>12, <1>13, Shapes

\* It holds in every behaviour without overlap.
LEMMA BackedInvariance == ASSUME ~Overlap PROVE Spec => []Backed
<1>1. Init => Backed
  <2>1. ASSUME Init PROVE Backed
    <3>1. inbox = <<>> /\ effects = {}
      BY <2>1 DEF Init
    <3>2. AtWork = {} /\ \A K : ~Has(inbox, K)
      BY <3>1 DEF AtWork, Has
    <3>3. QED
      BY <3>2 DEF Backed, Covered
  <2>2. QED
    BY <2>1
<1>2. Inv /\ Uttered /\ Ended /\ Early /\ Laid /\ OneTurn /\ ReadLast /\ Truthful /\ Backed
      /\ [Next]_vars => Backed'
  BY BackedNext
<1>3. QED
  BY <1>1, <1>2, Invariance, UtteredInvariance, EndedInvariance, EarlyInvariance,
     LaidInvariance, OneTurnInvariance, ReadLastInvariance, TruthfulInvariance, PTL DEF Spec

\* A transcript, a skill and the memory of a run are owed or done.
Settled(r, k) == k \in Owed(world.ended[r]) => Job(r, k) \in model.jobs \/ Done(r, k)
Harvested == Open => \A r \in Finished : \A k \in {"transcript", "skill", "memory"} : Settled(r, k)

\* What is expected of a run, each message by its content.
LEMMA ExpectedIs ==
  ASSUME Inv, NEW r \in Run
  PROVE  /\ "skill" \in world.ended[r].has =>
              Message("register-skill", r, "", 0) \in Expected(r, "skill")
         /\ "note" \in world.ended[r].has =>
              Message("remember", 0, Lesson, 0) \in Expected(r, "memory")
         /\ \A n \in world.ended[r].drops \cap Notes :
              Message("forget", 0, n, 0) \in Expected(r, "memory")
<1>1. Message("register-skill", r, "", 0) \in MessageType
  BY ReportsSkill
<1>2. \A n \in Note : /\ Message("forget", 0, n, 0) \in MessageType
                      /\ Message("remember", 0, n, 0) \in MessageType
  BY ReportsNote
<1>3. Lesson \in Note /\ Notes \subseteq Note
  BY DEF Note
<1>4. QED
  BY <1>1, <1>2, <1>3 DEF Expected

\* When all that is expected is applied and the store has its part, the work is done.
LEMMA AppliedIsDone ==
  ASSUME Inv, NEW r \in Run, NEW k \in {"transcript", "skill", "memory"},
         k \in Owed(world.ended[r]), Stored(r, k), \A m \in Expected(r, k) : Applied(m)
  PROVE  Done(r, k)
<1>1. \A tag, run, name : /\ Message(tag, run, name, 0).tag = tag
                          /\ Message(tag, run, name, 0).run = run
                          /\ Message(tag, run, name, 0).name = name
  BY DEF Message
<1>2. CASE k = "transcript"
  BY <1>2 DEF Done, Stored
<1>3. CASE k = "skill"
  <2>1. "skill" \in world.ended[r].has
    BY <1>3 DEF Owed
  <2>2. PICK m : m = Message("register-skill", r, "", 0)
    OBVIOUS
  <2>3. Applied(m) /\ m.tag = "register-skill" /\ m.run = r
    BY <1>1, <1>3, <2>1, <2>2, ExpectedIs
  <2>4. r \in store.skills
    BY <1>3, <2>1 DEF Stored
  <2>5. QED
    BY <1>3, <2>3, <2>4 DEF Done, Applied
<1>4. CASE k = "memory"
  <2>1. "note" \in world.ended[r].has => Lesson \in model.notes
    <3>1. ASSUME "note" \in world.ended[r].has PROVE Lesson \in model.notes
      <4>1. PICK m : m = Message("remember", 0, Lesson, 0)
        OBVIOUS
      <4>2. m \in Expected(r, k)
        BY <1>4, <3>1, <4>1, ExpectedIs
      <4>3. m.tag = "remember" /\ m.name = Lesson
        BY <1>1, <4>1
      <4>4. QED
        BY <4>2, <4>3 DEF Applied
    <3>2. QED
      BY <3>1
  <2>2. ASSUME NEW n \in world.ended[r].drops \cap Notes PROVE n \notin model.notes
    <3>1. PICK m : m = Message("forget", 0, n, 0)
      OBVIOUS
    <3>2. m \in Expected(r, k)
      BY <1>4, <3>1, ExpectedIs
    <3>3. m.tag = "forget" /\ m.name = n
      BY <1>1, <3>1
    <3>4. QED
      BY <3>2, <3>3 DEF Applied
  <2>3. QED
    BY <1>4, <2>1, <2>2 DEF Done
<1>5. QED
  BY <1>2, <1>3, <1>4

\* A job cleared is done.
LEMMA ClearedIsDone ==
  ASSUME Inv, Ended, OneTurn, Backed, Open, 1 \in DOMAIN inbox,
         NEW r \in Run, NEW k \in {"transcript", "skill", "memory"},
         k \in Owed(world.ended[r]), inbox[1] \in Clearing(r, k)
  PROVE  Done(r, k)
<1>1. k \in Kind /\ inbox \in Seq(MessageType) /\ inbox # <<>>
  BY DEF Kind, Inv, Types
<1>2. Has(inbox, Clearing(r, k))
  BY DEF Has
<1>3. /\ Stored(r, k)
      /\ \A m \in Expected(r, k) : Applied(m) \/ Before(inbox, {m}, Clearing(r, k))
  BY <1>1, <1>2 DEF Backed, Covered
<1>4. ASSUME NEW m, Before(inbox, {m}, Clearing(r, k)) PROVE FALSE
  BY <1>1, <1>4, BeforeTail
<1>5. QED
  BY <1>3, <1>4, AppliedIsDone

\* What is done stays done: a note of a run is forgotten only because a later run dropped
\* it, and only the run's own kind of note is remembered.
LEMMA DoneStays ==
  ASSUME Inv, Ended, Truthful, Open, [Next]_vars, NEW r \in Finished,
         NEW k \in {"transcript", "skill", "memory"}, Done(r, k)
  PROVE  Done(r, k)'
<1>1. /\ Types /\ r \in Run /\ Over(r) /\ world.turn \in 0..MaxTurns
      /\ world.ended \in [Run -> Outcome]
  <2>1. Types /\ model.runs \in Seq(Run) /\ world \in WorldType
    BY DEF Inv, Types, ModelType
  <2>2. r \in Run
    BY <2>1 DEF Finished, Range
  <2>3. QED
    BY <2>1, <2>2 DEF Ended, WorldType
<1>2. world'.ended[r] = world.ended[r]
  BY <1>1, OutcomesStay
<1>3. CASE k = "transcript"
  BY <1>3, StoreGrows DEF Done
<1>4. model.skills \subseteq model'.skills
  <2>1. CASE ~Reduce
    BY <2>1, OutcomesStay
  <2>2. CASE Reduce
    <3>1. PICK h \in MessageType : model' = Update(model, h)
      BY <2>2, Turning
    <3>2. QED
      BY <1>1, <3>1, UpdateParts
  <2>3. QED
    BY <2>1, <2>2
<1>5. CASE k = "skill"
  BY <1>4, <1>5, StoreGrows DEF Done
<1>6. CASE k = "memory"
  <2>1. /\ "note" \in world.ended[r].has =>
             Lesson \in model.notes \/ \E q \in Run : q > r /\ Lesson \in world.ended[q].drops
        /\ world.ended[r].drops \cap Notes \cap model.notes = {}
    BY <1>6 DEF Done
  <2>2. ASSUME NEW q \in Run, Lesson \in world.ended[q].drops
        PROVE  Lesson \in world'.ended[q].drops
    <3>1. Over(q)
      BY <2>2 DEF Ended, NotEnded
    <3>2. QED
      BY <2>2, <3>1, OutcomesStay
  <2>3. /\ model'.notes \cap Notes \subseteq model.notes
        /\ Lesson \in model.notes /\ "note" \in world.ended[r].has =>
             Lesson \in model'.notes \/ \E q \in Run : q > r /\ Lesson \in world.ended[q].drops
    <3>1. CASE ~Reduce
      BY <3>1, OutcomesStay
    <3>2. CASE Reduce
      <4>1. PICK h \in MessageType : /\ h = inbox[1] /\ 1 \in DOMAIN inbox
                                     /\ model' = Update(model, h)
        BY <3>2, Turning
      <4>2. PICK o : o = world.ended[world.turn]
        OBVIOUS
      <4>3. world.turn > 0 /\ world.turn \in Run
        BY <1>1, Bounds DEF Over, Run
      <4>4. h \notin Mistaken
        BY <4>1, <4>3 DEF Truthful, Has
      <4>5. /\ h.tag = "remember" => h.name = Lesson
            /\ h.tag = "forget" => h.name \in o.drops /\ (h.name # Lesson \/ "note" \notin o.has)
        BY <4>2, <4>4 DEF Mistaken, Tagged
      <4>6. \/ model'.notes = model.notes
            \/ h.tag = "remember" /\ model'.notes = model.notes \cup {h.name}
            \/ h.tag = "forget" /\ model'.notes = model.notes \ {h.name}
        BY <1>1, <4>1, UpdateParts
      <4>7. model'.notes \cap Notes \subseteq model.notes
        BY <4>5, <4>6, HarvestAssumption
      <4>8. ASSUME Lesson \in model.notes, "note" \in world.ended[r].has, Lesson \notin model'.notes
            PROVE  \E q \in Run : q > r /\ Lesson \in world.ended[q].drops
        <5>1. Lesson \in o.drops /\ "note" \notin o.has
          BY <4>5, <4>6, <4>8
        <5>2. r # world.turn
          BY <4>2, <4>8, <5>1
        <5>3. world.turn > r
          BY <1>1, <5>2 DEF Over, Run
        <5>4. QED
          BY <4>2, <4>3, <5>1, <5>3
      <4>9. QED
        BY <4>7, <4>8
    <3>3. QED
      BY <3>1, <3>2
  <2>4. world'.ended[r].drops \cap Notes \cap model'.notes = {}
    BY <1>2, <2>1, <2>3
  <2>5. "note" \in world'.ended[r].has =>
          Lesson \in model'.notes \/ \E q \in Run : q > r /\ Lesson \in world'.ended[q].drops
    BY <1>2, <2>1, <2>2, <2>3
  <2>6. QED
    BY <1>6, <2>4, <2>5 DEF Done
<1>7. QED
  BY <1>3, <1>5, <1>6

\* Every step keeps it, when turns do not overlap.
LEMMA HarvestedNext ==
  ASSUME Inv, Uttered, Ended, Early, OneTurn, Truthful, Backed, Harvested, [Next]_vars
  PROVE  Harvested'
<1>1. Types /\ model.runs \in Seq(Run)
  BY DEF Inv, Types, ModelType
<1> SUFFICES ASSUME Open' PROVE Harvested'
  BY DEF Harvested
<1>2. Open
  BY EarlyNext
\* A run whose outcome is applied, and a job that stays or is done.
<1>3. ASSUME NEW r \in Finished, NEW k \in {"transcript", "skill", "memory"},
             Job(r, k) \in model.jobs =>
               \/ Job(r, k) \in model'.jobs
               \/ k \in Owed(world.ended[r]) => Done(r, k)
      PROVE  Settled(r, k)'
  <2>1. r \in Run
    BY <1>1 DEF Finished, Range
  <2>2. PICK p : p = Job(r, k)
    OBVIOUS
  <2>3. Over(r)
    BY <2>1 DEF Ended
  <2>4. world'.plan = world.plan /\ world'.ended[r] = world.ended[r]
    BY <2>1, <2>3, OutcomesStay
  <2>5. Owed(world.ended[r])' = Owed(world.ended[r])
    BY <2>4 DEF Owed
  <2>6. Done(r, k) => Done(r, k)'
    BY <1>2, DoneStays
  <2>7. k \in Owed(world.ended[r]) => p \in model.jobs \/ Done(r, k)
    BY <1>2, <2>2 DEF Harvested, Settled
  <2>8. k \in Owed(world.ended[r])' => p \in model'.jobs \/ Done(r, k)'
    BY <1>3, <2>2, <2>5, <2>6, <2>7
  <2>9. QED
    BY <2>2, <2>8 DEF Settled, Job
<1>4. CASE ~Reduce
  <2>1. model'.jobs = model.jobs /\ model'.runs = model.runs
    BY <1>4, OutcomesStay
  <2>2. Finished' = Finished
    BY <2>1 DEF Finished
  <2>3. QED
    BY <1>3, <2>1, <2>2 DEF Harvested
<1>5. CASE Reduce
  <2>1. PICK m \in MessageType :
          /\ m = inbox[1] /\ 1 \in DOMAIN inbox /\ inbox # <<>> /\ inbox' = Tail(inbox)
          /\ Sound(m) /\ model' = Update(model, m) /\ world' = world
    BY <1>5, Turning
  <2>2. ASSUME NEW r \in Finished, NEW k \in {"transcript", "skill", "memory"}
        PROVE  Settled(r, k)'
    <3>1. r \in Run
      BY <1>1, <2>2 DEF Finished, Range
    <3>2. CASE m.tag = "mark-harvested"
      <4>1. model'.jobs = model.jobs \ {Job(m.run, m.name)}
        BY <1>1, <2>1, <3>2, UpdateParts
      <4>2. CASE Job(r, k) = Job(m.run, m.name)
        <5>1. r = m.run /\ k = m.name
          BY <4>2 DEF Job
        <5>2. inbox[1] \in Clearing(r, k)
          BY <2>1, <3>2, <5>1 DEF Clearing
        <5>3. k \in Owed(world.ended[r]) => Done(r, k)
          BY <1>2, <2>1, <3>1, <5>2, ClearedIsDone
        <5>4. QED
          BY <1>3, <5>3
      <4>3. CASE Job(r, k) # Job(m.run, m.name)
        BY <1>3, <4>1, <4>3
      <4>4. QED
        BY <4>2, <4>3
    <3>3. CASE m.tag # "mark-harvested"
      <4>1. Job(r, k) \in model.jobs => Job(r, k) \in model'.jobs
        <5>1. CASE m.tag = "agent-run-finished"
          BY <1>1, <2>1, <5>1, UpdateParts
        <5>2. CASE m.tag = "register-ui-request"
          <6>1. model'.jobs = (model.jobs \ {Job(m.run, "request")}) \cup {Job(m.run, "reply")}
            BY <1>1, <2>1, <5>2, UpdateParts
          <6>2. Job(r, k) # Job(m.run, "request")
            BY DEF Job
          <6>3. QED
            BY <6>1, <6>2
        <5>3. CASE m.tag \notin {"agent-run-finished", "register-ui-request"}
          BY <1>1, <2>1, <3>3, <5>3, UpdateParts
        <5>4. QED
          BY <5>1, <5>2, <5>3
      <4>2. QED
        BY <1>3, <4>1
    <3>4. QED
      BY <3>2, <3>3
  <2>3. CASE m.tag = "agent-run-finished"
    <3>1. m.run \in Run
      BY <2>1, <2>3 DEF Sound
    <3>2. /\ model'.runs = Append(model.runs, m.run)
          /\ model'.jobs = model.jobs \cup {Job(m.run, k) : k \in Owed(world.ended[m.run])}
      BY <1>1, <2>1, <2>3, UpdateParts
    <3>3. Finished' = Finished \cup {m.run}
      BY <1>1, <3>1, <3>2, MoreFinished
    <3>4. PICK r \in Run : r = m.run
      BY <3>1
    <3>5. Owed(world.ended[r])' = Owed(world.ended[r])
      BY <2>1 DEF Owed
    <3>6. ASSUME NEW k \in {"transcript", "skill", "memory"} PROVE Settled(r, k)'
      <4>1. PICK p : p = Job(r, k)
        OBVIOUS
      <4>2. k \in Owed(world.ended[r]) => p \in model'.jobs
        BY <3>2, <3>4, <4>1
      <4>3. QED
        BY <3>5, <4>1, <4>2 DEF Settled, Job
    <3>7. QED
      BY <2>2, <3>3, <3>4, <3>6 DEF Harvested
  <2>4. CASE m.tag # "agent-run-finished"
    <3>1. model'.runs = model.runs
      BY <1>1, <2>1, <2>4, UpdateParts
    <3>2. Finished' = Finished
      BY <3>1 DEF Finished
    <3>3. QED
      BY <2>2, <3>2 DEF Harvested
  <2>5. QED
    BY <2>3, <2>4
<1>6. QED
  BY <1>4, <1>5

\* A reply that a run owes is owed or queued.
Replying == \A r \in Finished :
  "reply" \in Owed(world.ended[r]) => Job(r, "reply") \in model.jobs \/ Queued(r)

\* Every step keeps it.
LEMMA ReplyingNext ==
  ASSUME Inv, ReplyInv, Ended, Replying, [Next]_vars
  PROVE  Replying'
<1>1. Types /\ model.runs \in Seq(Run)
  BY DEF Inv, Types, ModelType
<1>2. ASSUME NEW r \in Finished,
             Job(r, "reply") \in model.jobs => Job(r, "reply") \in model'.jobs \/ Queued(r)
      PROVE  "reply" \in Owed(world.ended[r])' => Job(r, "reply") \in model'.jobs \/ Queued(r)'
  <2>1. r \in Run
    BY <1>1 DEF Finished, Range
  <2>2. Over(r)
    BY <2>1 DEF Ended
  <2>3. world'.plan = world.plan /\ world'.ended[r] = world.ended[r]
    BY <2>1, <2>2, OutcomesStay
  <2>4. Owed(world.ended[r])' = Owed(world.ended[r])
    BY <2>3 DEF Owed
  <2>5. Queued(r) => Queued(r)'
    BY <2>1, QueuedStays
  <2>6. QED
    BY <1>2, <2>4, <2>5 DEF Replying
<1>3. CASE ~Reduce
  <2>1. model'.jobs = model.jobs /\ model'.runs = model.runs
    BY <1>3, OutcomesStay
  <2>2. Finished' = Finished
    BY <2>1 DEF Finished
  <2>3. QED
    BY <1>2, <2>1, <2>2 DEF Replying, Job
<1>4. CASE Reduce
  <2>1. PICK m \in MessageType :
          /\ m = inbox[1] /\ 1 \in DOMAIN inbox /\ Sound(m)
          /\ model' = Update(model, m) /\ world' = world
    BY <1>4, Turning
  <2>2. ASSUME NEW r \in Finished
        PROVE  Job(r, "reply") \in model.jobs => Job(r, "reply") \in model'.jobs \/ Queued(r)
    <3>1. CASE m.tag = "mark-harvested"
      <4>1. model'.jobs = model.jobs \ {Job(m.run, m.name)}
        BY <1>1, <2>1, <3>1, UpdateParts
      <4>2. m.name = "reply" => Queued(m.run)
        BY <2>1, <3>1, HeadHarvested
      <4>3. Job(r, "reply") = Job(m.run, m.name) => r = m.run /\ m.name = "reply"
        BY DEF Job
      <4>4. QED
        BY <4>1, <4>2, <4>3
    <3>2. CASE m.tag = "agent-run-finished"
      BY <1>1, <2>1, <3>2, UpdateParts
    <3>3. CASE m.tag = "register-ui-request"
      <4>1. model'.jobs = (model.jobs \ {Job(m.run, "request")}) \cup {Job(m.run, "reply")}
        BY <1>1, <2>1, <3>3, UpdateParts
      <4>2. Job(r, "reply") # Job(m.run, "request")
        BY DEF Job
      <4>3. QED
        BY <4>1, <4>2
    <3>4. CASE m.tag \notin {"agent-run-finished", "mark-harvested", "register-ui-request"}
      BY <1>1, <2>1, <3>4, UpdateParts
    <3>5. QED
      BY <3>1, <3>2, <3>3, <3>4
  <2>3. CASE m.tag = "agent-run-finished"
    <3>1. PICK r \in Run : r = m.run
      BY <2>1, <2>3 DEF Sound
    <3>2. /\ model'.runs = Append(model.runs, m.run)
          /\ model'.jobs = model.jobs \cup {Job(m.run, k) : k \in Owed(world.ended[m.run])}
      BY <1>1, <2>1, <2>3, UpdateParts
    <3>3. Finished' = Finished \cup {r}
      BY <1>1, <3>1, <3>2, MoreFinished
    <3>4. Owed(world.ended[r])' = Owed(world.ended[r])
      BY <2>1 DEF Owed
    <3>5. "reply" \in Owed(world.ended[r])' => Job(r, "reply") \in model'.jobs
      BY <3>1, <3>2, <3>4
    <3>6. QED
      BY <1>2, <2>2, <3>3, <3>5 DEF Replying, Job
  <2>4. CASE m.tag # "agent-run-finished"
    <3>1. model'.runs = model.runs
      BY <1>1, <2>1, <2>4, UpdateParts
    <3>2. Finished' = Finished
      BY <3>1 DEF Finished
    <3>3. QED
      BY <1>2, <2>2, <3>2 DEF Replying, Job
  <2>5. QED
    BY <2>3, <2>4
<1>5. QED
  BY <1>3, <1>4

\* When a turn starts only once the last one's jobs are cleared, no restart drops durable
\* work nor registers a request twice (decision-013): whatever an applied
\* agent-run-finished owes is a pending job or has had its whole effect, for any number
\* of turns, outcomes, crashes and failures.
THEOREM NoWorkIsLost == ASSUME ~Overlap PROVE Spec => []NothingOwedIsLost
<1>1. Init => Harvested /\ Replying
  <2>1. ASSUME Init PROVE Harvested /\ Replying
    <3>1. model.runs = <<>>
      BY <2>1 DEF Init
    <3>2. Finished = {}
      BY <3>1 DEF Finished, Range
    <3>3. QED
      BY <3>2 DEF Harvested, Replying
  <2>2. QED
    BY <2>1
<1>2. Inv /\ Uttered /\ Ended /\ Early /\ OneTurn /\ Truthful /\ Backed /\ Harvested
      /\ [Next]_vars => Harvested'
  BY HarvestedNext
<1>3. Inv /\ ReplyInv /\ Ended /\ Replying /\ [Next]_vars => Replying'
  BY ReplyingNext
<1>4. ASSUME Inv, Requested, Harvested, Replying PROVE NothingOwedIsLost
  <2>1. ASSUME Open, NEW r \in Finished, NEW k \in Owed(world.ended[r])
        PROVE  /\ Job(r, k) \in model.jobs \/ Done(r, k)
               /\ k = "request" => RequestMarker(r)
    <3>1. r \in Run /\ Asked(r)
      <4>1. model.runs \in Seq(Run)
        BY <1>4 DEF Inv, Types, ModelType
      <4>2. r \in Run
        BY <2>1, <4>1 DEF Finished, Range
      <4>3. QED
        BY <1>4, <4>2 DEF Requested
    <3>2. k \in Kind
      BY OwedIsWork
    <3>3. CASE k \in {"transcript", "skill", "memory"}
      BY <1>4, <2>1, <3>3 DEF Harvested, Settled
    <3>4. CASE k = "request"
      <4>1. model.requests[r] \in {0, 1}
            /\ (Job(r, "request") \in model.jobs \/ model.requests[r] = 1)
            /\ (model.requests[r] = 1 => /\ Job(r, "request") \notin model.jobs
                                         /\ Job(r, "reply") \in model.jobs \/ Queued(r))
        BY <2>1, <3>1, <3>4 DEF Asked
      <4>2. Job(r, k) \in model.jobs \/ Done(r, k)
        BY <3>4, <4>1 DEF Done
      <4>3. RequestMarker(r)
        BY <4>1 DEF RequestMarker
      <4>4. QED
        BY <4>2, <4>3
    <3>5. CASE k = "reply"
      BY <1>4, <2>1, <3>5 DEF Replying, Done
    <3>6. QED
      BY <3>2, <3>3, <3>4, <3>5 DEF Kind
  <2>2. QED
    BY <2>1 DEF NothingOwedIsLost, Open
<1>5. QED
  BY <1>1, <1>2, <1>3, <1>4, Invariance, ReplyInvariance, UtteredInvariance, EndedInvariance,
     EarlyInvariance, OneTurnInvariance, TruthfulInvariance, BackedInvariance,
     RequestedInvariance, PTL DEF Spec
=============================================================================
