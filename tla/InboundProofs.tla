---------------------------- MODULE InboundProofs ----------------------------
(***************************************************************************)
(* What is proved about Inbound for every mechanism, sender, allowlist and *)
(* guard, and any number of mails, answers, deaths and failures: the types *)
(* and the bound on a task's runs first, then the way of a mail into a     *)
(* task.                                                                   *)
(***************************************************************************)
EXTENDS Inbound, SequenceLemmas

Arrived == Len(mails)
Stored == Len(rows)
Opened == Len(model.tasks)
Begun == Len(model.runs)

-----------------------------------------------------------------------------
(***************************************************************************)
(* Types, with a mails, n rows, t tasks and k runs.                        *)
(***************************************************************************)
Somebody == UNION {{e.from} \cup e.cc : e \in Envelopes}
Mailed == [from : Somebody, cc : SUBSET Somebody, answers : Int]

\* The messages about a row, about a run, to a task and from a poller.
OfRow == {"route-email", "create-task", "append-to-task"}
OfRun == {"finish-agent-run", "agent-run-finished", "register-ui-request", "answer-ui-request"}
OfTask == OfRun \cup {"append-to-task", "spawn-agent-run", "finish-task"}
OfPoller == {"route-email", "record-poll-state"}

AnyMessage == [tag : OfRow \cup OfTask \cup OfPoller, about : Int, task : Nat,
               how : Outcome \cup {""}, by : Mechanisms \cup {""}]
MessageType(n, k, t) ==
  {m \in AnyMessage :
     /\ m.tag \in OfRow => m.about \in 1..n
     /\ m.tag \in OfRun => m.about \in 1..k
     /\ m.tag \in OfTask => m.task \in 1..t
     /\ m.tag \in OfPoller <=> m.by \in Mechanisms}

Refs(a, k) == (1..a) \cup {-r : r \in 1..k}
TaskType(a, n, k) == [status : Status, people : SUBSET Somebody, refs : SUBSET Refs(a, k),
                      rows : Seq(1..n), turns : Nat]
RunType(t) == [task : 1..t, over : BOOLEAN]
ModelType(a, n, k, t) ==
  [tasks : Seq(TaskType(a, n, k)), runs : Seq(RunType(t)), owed : SUBSET (1..k),
   asked : SUBSET (1..k), answered : SUBSET (1..k), cursor : [Mechanisms -> Int]]
PollerType(a) == [at : {"fetch", "route", "routing", "record", "recording"}, state : Int,
                  batch : Seq(1..a), next : Int]

Types ==
  /\ mails \in Seq(Mailed)
  /\ boxes \in [Mechanisms -> Seq(1..Arrived)]
  /\ rows \in Seq(1..Arrived)
  /\ model \in ModelType(Arrived, Stored, Begun, Opened)
  /\ inbox \in Seq(MessageType(Stored, Begun, Opened))
  /\ pollers \in [Mechanisms -> PollerType(Arrived)]
  /\ anchor \in [Mechanisms -> Int]
  /\ dropped \subseteq 1..Arrived
  /\ answers \in Seq(1..Opened)

\* More mails, rows, runs and tasks widen every type.
Wider(a, n, k, t, b, o, l, u) ==
  /\ Seq(MessageType(n, k, t)) \subseteq Seq(MessageType(o, l, u))
  /\ MessageType(n, k, t) \subseteq MessageType(o, l, u)
  /\ ModelType(a, n, k, t) \subseteq ModelType(b, o, l, u)
  /\ Seq(TaskType(a, n, k)) \subseteq Seq(TaskType(b, o, l))
  /\ Seq(RunType(t)) \subseteq Seq(RunType(u))
  /\ SUBSET (1..k) \subseteq SUBSET (1..l)
  /\ Seq(1..a) \subseteq Seq(1..b) /\ Seq(1..n) \subseteq Seq(1..o)
  /\ Seq(1..t) \subseteq Seq(1..u)
  /\ PollerType(a) \subseteq PollerType(b)

\* Numbers only grow, so what was typed stays typed.
LEMMA MoreIsWider ==
  ASSUME NEW a \in Nat, NEW n \in Nat, NEW k \in Nat, NEW t \in Nat,
         NEW b \in Nat, NEW o \in Nat, NEW l \in Nat, NEW u \in Nat,
         a <= b, n <= o, k <= l, t <= u
  PROVE  Wider(a, n, k, t, b, o, l, u)
<1>1. 1..a \subseteq 1..b /\ 1..n \subseteq 1..o /\ 1..k \subseteq 1..l /\ 1..t \subseteq 1..u
  OBVIOUS
<1>2. /\ Seq(1..a) \subseteq Seq(1..b) /\ Seq(1..n) \subseteq Seq(1..o)
      /\ Seq(1..t) \subseteq Seq(1..u) /\ SUBSET (1..k) \subseteq SUBSET (1..l)
  BY <1>1, SeqWider
<1>3. MessageType(n, k, t) \subseteq MessageType(o, l, u)
  BY <1>1 DEF MessageType
<1>4. Refs(a, k) \subseteq Refs(b, l)
  BY <1>1 DEF Refs
<1>5. SUBSET Refs(a, k) \subseteq SUBSET Refs(b, l)
  BY <1>4
<1>6. TaskType(a, n, k) \subseteq TaskType(b, o, l)
  BY <1>2, <1>5 DEF TaskType
<1>7. RunType(t) \subseteq RunType(u)
  BY <1>1 DEF RunType
<1>8. PollerType(a) \subseteq PollerType(b)
  BY <1>2 DEF PollerType
<1>9. /\ Seq(MessageType(n, k, t)) \subseteq Seq(MessageType(o, l, u))
      /\ Seq(TaskType(a, n, k)) \subseteq Seq(TaskType(b, o, l))
      /\ Seq(RunType(t)) \subseteq Seq(RunType(u))
  BY <1>3, <1>6, <1>7, SeqWider
<1>10. ModelType(a, n, k, t) \subseteq ModelType(b, o, l, u)
  BY <1>2, <1>9 DEF ModelType
<1>11. QED
  BY <1>2, <1>3, <1>8, <1>9, <1>10 DEF Wider

\* What the types say of the counts and the model.
LEMMA ModelFacts ==
  ASSUME Types
  PROVE  /\ Arrived \in Nat /\ Stored \in Nat /\ Begun \in Nat /\ Opened \in Nat
         /\ DOMAIN mails = 1..Arrived /\ DOMAIN rows = 1..Stored
         /\ DOMAIN model.tasks = 1..Opened /\ DOMAIN model.runs = 1..Begun
         /\ model.tasks \in Seq(TaskType(Arrived, Stored, Begun))
         /\ model.runs \in Seq(RunType(Opened))
         /\ model.owed \subseteq 1..Begun /\ model.asked \subseteq 1..Begun
         /\ model.answered \subseteq 1..Begun
         /\ model.cursor \in [Mechanisms -> Int]
         /\ \A r \in 1..Stored : rows[r] \in 1..Arrived /\ Mail(r) \in Mailed
<1>1. /\ mails \in Seq(Mailed) /\ rows \in Seq(1..Arrived)
      /\ model \in ModelType(Arrived, Stored, Begun, Opened)
  BY DEF Types
<1>2. /\ Arrived \in Nat /\ Stored \in Nat
      /\ DOMAIN mails = 1..Arrived /\ DOMAIN rows = 1..Stored
  BY <1>1 DEF Arrived, Stored
<1>3. /\ model.tasks \in Seq(TaskType(Arrived, Stored, Begun))
      /\ model.runs \in Seq(RunType(Opened))
      /\ model.owed \subseteq 1..Begun /\ model.asked \subseteq 1..Begun
      /\ model.answered \subseteq 1..Begun
      /\ model.cursor \in [Mechanisms -> Int]
  BY <1>1 DEF ModelType
<1>4. /\ Begun \in Nat /\ Opened \in Nat
      /\ DOMAIN model.tasks = 1..Opened /\ DOMAIN model.runs = 1..Begun
  BY <1>3 DEF Begun, Opened
<1>5. ASSUME NEW r \in 1..Stored PROVE rows[r] \in 1..Arrived /\ Mail(r) \in Mailed
  <2>1. rows[r] \in 1..Arrived
    BY <1>1, <1>2
  <2>2. mails[rows[r]] \in Mailed
    BY <1>1, <1>2, <2>1
  <2>3. QED
    BY <2>1, <2>2 DEF Mail
<1>6. QED
  BY <1>2, <1>3, <1>4, <1>5

\* What a message says of itself, by its tag.
LEMMA MessageFacts ==
  ASSUME NEW n \in Nat, NEW k \in Nat, NEW t \in Nat, NEW m \in MessageType(n, k, t)
  PROVE  /\ m.tag \in OfRow => m.about \in 1..n
         /\ m.tag \in OfRun => m.about \in 1..k
         /\ m.tag \in OfTask => m.task \in 1..t
         /\ m.tag \in OfPoller <=> m.by \in Mechanisms
         /\ m.tag \in OfRow \cup OfTask \cup OfPoller
         /\ m.about \in Int /\ m.how \in Outcome \cup {""} /\ m.by \in Mechanisms \cup {""}
BY DEF MessageType, AnyMessage

\* The messages the actions send have their type.
LEMMA MessagesTyped ==
  ASSUME NEW n \in Nat, NEW k \in Nat, NEW t \in Nat
  PROVE  /\ \A r \in 1..n :
              /\ \A j \in Mechanisms :
                   Message("route-email", r, 0, "", j) \in MessageType(n, k, t)
              /\ Message("create-task", r, 0, "", "") \in MessageType(n, k, t)
              /\ \A u \in 1..t : Message("append-to-task", r, u, "", "") \in MessageType(n, k, t)
         /\ \A i \in Int, j \in Mechanisms :
              Message("record-poll-state", i, 0, "", j) \in MessageType(n, k, t)
         /\ \A r \in 1..k, u \in 1..t :
              /\ \A h \in Outcome \cup {""} :
                   /\ Message("finish-agent-run", r, u, h, "") \in MessageType(n, k, t)
                   /\ Message("agent-run-finished", r, u, h, "") \in MessageType(n, k, t)
              /\ Message("register-ui-request", r, u, "", "") \in MessageType(n, k, t)
              /\ Message("answer-ui-request", r, u, "", "") \in MessageType(n, k, t)
         /\ \A u \in 1..t : /\ Message("spawn-agent-run", 0, u, "", "") \in MessageType(n, k, t)
                            /\ Message("finish-task", 0, u, "", "") \in MessageType(n, k, t)
<1>1. "" \notin Mechanisms
  BY InboundAssumption
<1>2. 1..n \subseteq Int /\ 1..k \subseteq Int /\ 1..t \subseteq Nat
  OBVIOUS
<1>3. ASSUME NEW r \in 1..n
      PROVE  /\ \A j \in Mechanisms :
                   Message("route-email", r, 0, "", j) \in MessageType(n, k, t)
             /\ Message("create-task", r, 0, "", "") \in MessageType(n, k, t)
             /\ \A u \in 1..t : Message("append-to-task", r, u, "", "") \in MessageType(n, k, t)
  BY <1>1, <1>2 DEF Message, MessageType, AnyMessage, OfRow, OfRun, OfTask, OfPoller
<1>4. ASSUME NEW i \in Int, NEW j \in Mechanisms
      PROVE  Message("record-poll-state", i, 0, "", j) \in MessageType(n, k, t)
  BY <1>1, <1>2 DEF Message, MessageType, AnyMessage, OfRow, OfRun, OfTask, OfPoller
<1>5. ASSUME NEW r \in 1..k, NEW u \in 1..t
      PROVE  /\ \A h \in Outcome \cup {""} :
                  /\ Message("finish-agent-run", r, u, h, "") \in MessageType(n, k, t)
                  /\ Message("agent-run-finished", r, u, h, "") \in MessageType(n, k, t)
             /\ Message("register-ui-request", r, u, "", "") \in MessageType(n, k, t)
             /\ Message("answer-ui-request", r, u, "", "") \in MessageType(n, k, t)
  BY <1>1, <1>2 DEF Message, MessageType, AnyMessage, OfRow, OfRun, OfTask, OfPoller
<1>6. ASSUME NEW u \in 1..t
      PROVE  /\ Message("spawn-agent-run", 0, u, "", "") \in MessageType(n, k, t)
             /\ Message("finish-task", 0, u, "", "") \in MessageType(n, k, t)
  <2>1. u \in Nat /\ u \in 1..t
    BY <1>2
  <2>2. /\ Message("spawn-agent-run", 0, u, "", "") \in AnyMessage
        /\ Message("finish-task", 0, u, "", "") \in AnyMessage
    BY <2>1 DEF Message, AnyMessage, OfRow, OfRun, OfTask, OfPoller
  <2>3. QED
    BY <1>1, <2>1, <2>2 DEF Message, MessageType, OfRow, OfRun, OfTask, OfPoller
<1>7. QED
  BY <1>3, <1>4, <1>5, <1>6

\* What a handler makes of the model has the type of the model, with a run or a
\* task more.
Typed(u, m) ==
  /\ u \in ModelType(Arrived, Stored, Len(u.runs), Len(u.tasks))
  /\ Len(u.runs) = IF m.tag = "spawn-agent-run" THEN Begun + 1 ELSE Begun
  /\ Len(u.tasks) = IF m.tag = "create-task" THEN Opened + 1 ELSE Opened

\* The people on a mail, and a mail's task, have their type.
LEMMA TasksTyped ==
  ASSUME Types, NEW r \in 1..Stored
  PROVE  /\ People(Mail(r)) \in SUBSET Somebody
         /\ rows[r] \in Refs(Arrived, Begun)
         /\ \A t \in 1..Opened :
              /\ model.tasks[t] \in TaskType(Arrived, Stored, Begun)
              /\ Threaded(model.tasks[t], r) \in TaskType(Arrived, Stored, Begun)
<1>1. rows[r] \in 1..Arrived /\ Mail(r) \in Mailed
  BY ModelFacts
<1>2. People(Mail(r)) \in SUBSET Somebody
  <2>1. PICK x : x = Mail(r)
    OBVIOUS
  <2>2. x.from \in Somebody /\ x.cc \subseteq Somebody
    BY <1>1, <2>1 DEF Mailed
  <2>3. People(x) \in SUBSET Somebody
    BY <2>2 DEF People
  <2>4. QED
    BY <2>1, <2>3
<1>3. rows[r] \in Refs(Arrived, Begun)
  BY <1>1 DEF Refs
<1>4. ASSUME NEW t \in 1..Opened
      PROVE  /\ model.tasks[t] \in TaskType(Arrived, Stored, Begun)
             /\ Threaded(model.tasks[t], r) \in TaskType(Arrived, Stored, Begun)
  <2>1. PICK x : x = model.tasks[t]
    OBVIOUS
  <2>2. x \in TaskType(Arrived, Stored, Begun)
    BY <2>1, ModelFacts
  <2>3. x.rows \in Seq(1..Stored) /\ x.refs \subseteq Refs(Arrived, Begun)
    BY <2>2 DEF TaskType
  <2>4. Append(x.rows, r) \in Seq(1..Stored) /\ x.refs \cup {rows[r]} \subseteq Refs(Arrived, Begun)
    BY <1>3, <2>3
  <2>5. Threaded(x, r) \in TaskType(Arrived, Stored, Begun)
    BY <2>2, <2>4 DEF Threaded, TaskType
  <2>6. QED
    BY <2>1, <2>2, <2>5
<1>5. QED
  BY <1>2, <1>3, <1>4

\* One task changed, and the requests: the model keeps its type.
Retasked(u, t, T, owed, asked, answered) ==
  u = [model EXCEPT !.tasks[t] = T, !.owed = owed, !.asked = asked, !.answered = answered]

\* A model that differs in one task, and in the sets of runs, is a model.
LEMMA RetaskTyped ==
  ASSUME Types, NEW t \in 1..Opened, NEW T \in TaskType(Arrived, Stored, Begun),
         NEW owed \in SUBSET (1..Begun), NEW asked \in SUBSET (1..Begun),
         NEW answered \in SUBSET (1..Begun), NEW u, Retasked(u, t, T, owed, asked, answered)
  PROVE  /\ u \in ModelType(Arrived, Stored, Len(u.runs), Len(u.tasks))
         /\ Len(u.runs) = Begun /\ Len(u.tasks) = Opened
<1>1. /\ model.tasks \in Seq(TaskType(Arrived, Stored, Begun)) /\ Opened = Len(model.tasks)
      /\ DOMAIN model.tasks = 1..Opened /\ Begun = Len(model.runs)
      /\ model \in ModelType(Arrived, Stored, Begun, Opened)
  BY ModelFacts DEF Types, Opened, Begun
<1>2. PICK ts : ts = [model.tasks EXCEPT ![t] = T]
  OBVIOUS
<1>3. ts \in Seq(TaskType(Arrived, Stored, Begun)) /\ Len(ts) = Opened
  BY <1>1, <1>2, Replaced
<1>4. u = [model EXCEPT !.tasks = ts, !.owed = owed, !.asked = asked, !.answered = answered]
  BY <1>1, <1>2 DEF ModelType, Retasked
<1>5. u \in ModelType(Arrived, Stored, Begun, Opened) /\ u.tasks = ts /\ u.runs = model.runs
  BY <1>1, <1>3, <1>4 DEF ModelType
<1>6. QED
  BY <1>1, <1>3, <1>5

\* The update half of every message gives a model, with at most one run and one task more.
LEMMA UpdateTyped ==
  ASSUME Types, NEW m \in MessageType(Stored, Begun, Opened)
  PROVE  Typed(Update(model, m), m)
<1> DEFINE TT == TaskType(Arrived, Stored, Begun)
           u == Update(model, m)
<1>1. /\ Arrived \in Nat /\ Stored \in Nat /\ Begun \in Nat /\ Opened \in Nat
      /\ model.tasks \in Seq(TT) /\ model.runs \in Seq(RunType(Opened))
      /\ Opened = Len(model.tasks) /\ Begun = Len(model.runs)
      /\ DOMAIN model.tasks = 1..Opened /\ DOMAIN model.runs = 1..Begun
      /\ model \in ModelType(Arrived, Stored, Begun, Opened)
      /\ model.owed \in SUBSET (1..Begun) /\ model.asked \in SUBSET (1..Begun)
      /\ model.answered \in SUBSET (1..Begun) /\ model.cursor \in [Mechanisms -> Int]
  BY ModelFacts DEF Types, Opened, Begun
<1>2. /\ m.tag \in OfRow => m.about \in 1..Stored
      /\ m.tag \in OfRun => m.about \in 1..Begun
      /\ m.tag \in OfTask => m.task \in 1..Opened
      /\ m.tag \in OfPoller <=> m.by \in Mechanisms
      /\ m.tag \in OfRow \cup OfTask \cup OfPoller
      /\ m.about \in Int
  BY <1>1, MessageFacts
<1>3. \A t \in 1..Opened : model.tasks[t] \in TT
  BY <1>1
<1>4. CASE m.tag = "create-task"
  <2> DEFINE T == [status |-> "awaiting-agent", people |-> People(Mail(m.about)),
                   refs |-> {rows[m.about]}, rows |-> <<m.about>>, turns |-> 1]
  <2>1. m.about \in 1..Stored
    BY <1>2, <1>4 DEF OfRow
  <2>2. People(Mail(m.about)) \in SUBSET Somebody /\ {rows[m.about]} \subseteq Refs(Arrived, Begun)
    BY <2>1, TasksTyped
  <2>3. <<m.about>> \in Seq(1..Stored)
    BY <2>1
  <2>4. T \in TT
    BY <2>2, <2>3 DEF TaskType, Status
  <2>5. u = [model EXCEPT !.tasks = Append(model.tasks, T)]
    BY <1>4 DEF Update, CreateTask
  <2> HIDE DEF T, u
  <2>6. PICK ts : ts = Append(model.tasks, T)
    OBVIOUS
  <2>7. ts \in Seq(TT) /\ Len(ts) = Opened + 1
    BY <1>1, <2>4, <2>6
  <2>8. Wider(Arrived, Stored, Begun, Opened, Arrived, Stored, Begun, Opened + 1)
    <3>1. /\ Opened + 1 \in Nat /\ Opened <= Opened + 1 /\ Arrived <= Arrived
          /\ Stored <= Stored /\ Begun <= Begun
      BY <1>1
    <3>2. QED
      BY <1>1, <3>1, MoreIsWider
  <2>9. model.runs \in Seq(RunType(Opened + 1))
    BY <1>1, <2>8 DEF Wider
  <2>10. /\ u \in ModelType(Arrived, Stored, Begun, Opened + 1)
         /\ u.tasks = ts /\ u.runs = model.runs
    BY <1>1, <2>5, <2>6, <2>7, <2>9 DEF ModelType
  <2>11. QED
    BY <1>1, <1>4, <2>7, <2>10 DEF Typed, u
<1>5. CASE m.tag \in {"append-to-task", "agent-run-finished", "register-ui-request",
                      "answer-ui-request", "finish-task"}
  <2> DEFINE t == m.task
  <2>1. t \in 1..Opened /\ model.tasks[t] \in TT
    BY <1>2, <1>3, <1>5 DEF OfTask, OfRun
  <2>2. /\ m.tag \in OfRun => m.about \in 1..Begun /\ -m.about \in Refs(Arrived, Begun)
        /\ m.tag \in {"agent-run-finished", "register-ui-request", "answer-ui-request"}
             => m.tag \in OfRun
    BY <1>2 DEF OfRun, Refs
  <2>3. \E T \in TT, owed \in SUBSET (1..Begun), asked \in SUBSET (1..Begun),
           answered \in SUBSET (1..Begun) :
          Retasked(u, t, T, owed, asked, answered)
    <3>1. CASE m.tag = "append-to-task"
      <4>1. m.about \in 1..Stored
        BY <1>2, <3>1 DEF OfRow
      <4>2. PICK x : x = model.tasks[t]
        OBVIOUS
      <4>3. PICK y : y = Threaded(x, m.about)
        OBVIOUS
      <4>4. PICK z : z = People(Mail(m.about))
        OBVIOUS
      <4>5. x \in TT /\ y \in TT /\ z \in SUBSET Somebody
        BY <2>1, <4>1, <4>2, <4>3, <4>4, TasksTyped
      <4> DEFINE T == CASE x.status = "paused" -> x
                        [] x.status # "paused" /\ Trips(x) -> [y EXCEPT !.status = "paused"]
                        [] ~Refuses(x) -> [y EXCEPT !.people = @ \cup z,
                                             !.status = "awaiting-agent", !.turns = @ + 1]
      <4>6. [y EXCEPT !.status = "paused"] \in TT
        BY <4>5 DEF TaskType, Status
      <4>7. [y EXCEPT !.people = @ \cup z, !.status = "awaiting-agent", !.turns = @ + 1] \in TT
        <5>1. y.people \cup z \in SUBSET Somebody /\ y.turns + 1 \in Nat
          BY <4>5 DEF TaskType
        <5>2. QED
          BY <4>5, <5>1 DEF TaskType, Status
      <4>8. T \in TT
        <5>1. x.status = "paused" \/ (x.status # "paused" /\ Trips(x)) \/ ~Refuses(x)
          BY DEF Refuses
        <5>2. x.status = "paused" => ~(x.status # "paused" /\ Trips(x)) /\ Refuses(x)
          BY DEF Refuses
        <5>3. x.status # "paused" /\ Trips(x) => Refuses(x)
          BY DEF Refuses
        <5>4. QED
          BY <4>5, <4>6, <4>7, <5>1, <5>2, <5>3
      <4>9. u = [model EXCEPT !.tasks[t] = T]
        BY <3>1, <4>2, <4>3, <4>4 DEF Update, AppendToTask
      <4> HIDE DEF T, u
      <4>10. u = [model EXCEPT !.tasks[t] = T, !.owed = model.owed, !.asked = model.asked,
                               !.answered = model.answered]
        BY <1>1, <4>9 DEF ModelType
      <4>11. QED
        BY <1>1, <4>8, <4>10 DEF Retasked
    <3>2. CASE m.tag = "agent-run-finished"
      <4>1. PICK x : x = model.tasks[t]
        OBVIOUS
      <4> DEFINE T == [x EXCEPT !.status = "awaiting-user",
                                !.refs = IF m.how = "reply" THEN @ \cup {-m.about} ELSE @]
                 owed == IF m.how = "request" THEN model.owed \cup {m.about} ELSE model.owed
      <4>2. T \in TT
        BY <2>1, <2>2, <3>2, <4>1 DEF TaskType, Status
      <4>3. owed \in SUBSET (1..Begun)
        BY <1>1, <2>2, <3>2
      <4>4. u = [model EXCEPT !.tasks[t] = T, !.owed = owed]
        <5>1. u = [model EXCEPT !.tasks[t].status = "awaiting-user",
                                !.tasks[t].refs = IF m.how = "reply" THEN @ \cup {-m.about} ELSE @,
                                !.owed = IF m.how = "request" THEN @ \cup {m.about} ELSE @]
          BY <3>2 DEF Update, AgentRunFinished
        <5> HIDE DEF u
        <5>2. QED
          BY <1>1, <2>1, <4>1, <5>1 DEF ModelType, TaskType
      <4> HIDE DEF T, owed, u
      <4>5. u = [model EXCEPT !.tasks[t] = T, !.owed = owed, !.asked = model.asked,
                              !.answered = model.answered]
        BY <1>1, <4>4 DEF ModelType
      <4>6. QED
        BY <1>1, <4>2, <4>3, <4>5 DEF Retasked
    <3>3. CASE m.tag = "register-ui-request"
      <4>1. PICK x : x = model.tasks[t]
        OBVIOUS
      <4> DEFINE T == [x EXCEPT !.status = "awaiting-user", !.refs = @ \cup {-m.about}]
                 asked == model.asked \cup {m.about}
                 owed == model.owed \ {m.about}
      <4>2. T \in TT
        BY <2>1, <2>2, <3>3, <4>1 DEF TaskType, Status
      <4>3. owed \in SUBSET (1..Begun) /\ asked \in SUBSET (1..Begun)
        BY <1>1, <2>2, <3>3
      <4>4. u = [model EXCEPT !.tasks[t] = T, !.owed = owed, !.asked = asked]
        BY <1>1, <2>1, <3>3, <4>1 DEF Update, RegisterUIRequest, ModelType, TaskType
      <4> HIDE DEF T, owed, asked, u
      <4>5. u = [model EXCEPT !.tasks[t] = T, !.owed = owed, !.asked = asked,
                              !.answered = model.answered]
        BY <1>1, <4>4 DEF ModelType
      <4>6. QED
        BY <1>1, <4>2, <4>3, <4>5 DEF Retasked
    <3>4. CASE m.tag = "answer-ui-request"
      <4>1. PICK x : x = model.tasks[t]
        OBVIOUS
      <4> DEFINE T == [x EXCEPT !.status = "awaiting-agent"]
                 answered == model.answered \cup {m.about}
      <4>2. T \in TT
        BY <2>1, <4>1 DEF TaskType, Status
      <4>3. answered \in SUBSET (1..Begun)
        BY <1>1, <2>2, <3>4
      <4>4. u = [model EXCEPT !.tasks[t] = T, !.answered = answered]
        BY <1>1, <2>1, <3>4, <4>1 DEF Update, AnswerUIRequest, ModelType, TaskType
      <4> HIDE DEF T, answered, u
      <4>5. u = [model EXCEPT !.tasks[t] = T, !.owed = model.owed, !.asked = model.asked,
                              !.answered = answered]
        BY <1>1, <4>4 DEF ModelType
      <4>6. QED
        BY <1>1, <4>2, <4>3, <4>5 DEF Retasked
    <3>5. CASE m.tag = "finish-task"
      <4>1. PICK x : x = model.tasks[t]
        OBVIOUS
      <4> DEFINE T == [x EXCEPT !.status = "done"]
      <4>2. T \in TT
        BY <2>1, <4>1 DEF TaskType, Status
      <4>3. u = [model EXCEPT !.tasks[t] = T]
        BY <1>1, <2>1, <3>5, <4>1 DEF Update, ModelType, TaskType
      <4> HIDE DEF T, u
      <4>4. u = [model EXCEPT !.tasks[t] = T, !.owed = model.owed, !.asked = model.asked,
                              !.answered = model.answered]
        BY <1>1, <4>3 DEF ModelType
      <4>5. QED
        BY <1>1, <4>2, <4>4 DEF Retasked
    <3>6. QED
      BY <1>5, <3>1, <3>2, <3>3, <3>4, <3>5
  <2> HIDE DEF TT, u, t
  <2>4. /\ u \in ModelType(Arrived, Stored, Len(u.runs), Len(u.tasks))
        /\ Len(u.runs) = Begun /\ Len(u.tasks) = Opened
    <3>1. PICK T \in TT, owed \in SUBSET (1..Begun), asked \in SUBSET (1..Begun),
               answered \in SUBSET (1..Begun) : Retasked(u, t, T, owed, asked, answered)
      BY <2>3
    <3>2. QED
      BY <2>1, <3>1, RetaskTyped DEF TT
  <2>5. Typed(u, m)
    <3>1. m.tag # "spawn-agent-run" /\ m.tag # "create-task"
      BY <1>5
    <3>2. QED
      BY <2>4, <3>1, Zenon DEF Typed
  <2>6. QED
    BY <2>5 DEF u
<1>6. CASE m.tag = "spawn-agent-run"
  <2> DEFINE x == [task |-> m.task, over |-> FALSE]
  <2>1. m.task \in 1..Opened
    BY <1>2, <1>6 DEF OfTask
  <2>2. x \in RunType(Opened)
    BY <2>1 DEF RunType
  <2>3. u = [model EXCEPT !.runs = Append(model.runs, x)]
    BY <1>6 DEF Update
  <2> HIDE DEF x, u
  <2>4. PICK rs : rs = Append(model.runs, x)
    OBVIOUS
  <2>5. rs \in Seq(RunType(Opened)) /\ Len(rs) = Begun + 1
    BY <1>1, <2>2, <2>4
  <2>6. Wider(Arrived, Stored, Begun, Opened, Arrived, Stored, Begun + 1, Opened)
    <3>1. /\ Begun + 1 \in Nat /\ Begun <= Begun + 1 /\ Arrived <= Arrived
          /\ Stored <= Stored /\ Opened <= Opened
      BY <1>1
    <3>2. QED
      BY <1>1, <3>1, MoreIsWider
  <2>7. model \in ModelType(Arrived, Stored, Begun + 1, Opened)
    BY <1>1, <2>6 DEF Wider
  <2>8. /\ u \in ModelType(Arrived, Stored, Begun + 1, Opened)
        /\ u.tasks = model.tasks /\ u.runs = rs
    BY <2>3, <2>4, <2>5, <2>7 DEF ModelType
  <2>9. QED
    BY <1>1, <1>6, <2>5, <2>8 DEF Typed, u
<1>7. CASE m.tag = "finish-agent-run"
  <2> DEFINE x == [model.runs[m.about] EXCEPT !.over = TRUE]
  <2>1. m.about \in 1..Begun
    BY <1>2, <1>7 DEF OfRun
  <2>2. model.runs[m.about] \in RunType(Opened)
    BY <1>1, <2>1
  <2>3. x \in RunType(Opened)
    BY <2>2 DEF RunType
  <2>4. u = [model EXCEPT !.runs = [model.runs EXCEPT ![m.about] = x]]
    BY <1>1, <1>7, <2>1, <2>2 DEF Update, ModelType, RunType
  <2> HIDE DEF x, u
  <2>5. PICK rs : rs = [model.runs EXCEPT ![m.about] = x]
    OBVIOUS
  <2>6. rs \in Seq(RunType(Opened)) /\ Len(rs) = Begun
    BY <1>1, <2>1, <2>3, <2>5, Replaced
  <2>7. /\ u \in ModelType(Arrived, Stored, Begun, Opened)
        /\ u.tasks = model.tasks /\ u.runs = rs
    BY <1>1, <2>4, <2>5, <2>6 DEF ModelType
  <2>8. QED
    BY <1>1, <1>7, <2>6, <2>7 DEF Typed, u
<1>8. CASE m.tag = "record-poll-state"
  <2>1. m.by \in Mechanisms
    BY <1>2, <1>8 DEF OfPoller
  <2>2. u = [model EXCEPT !.cursor[m.by] = m.about]
    BY <1>8 DEF Update
  <2> HIDE DEF u
  <2>3. /\ u \in ModelType(Arrived, Stored, Begun, Opened)
        /\ u.tasks = model.tasks /\ u.runs = model.runs
    BY <1>1, <1>2, <2>1, <2>2 DEF ModelType
  <2>4. QED
    BY <1>1, <1>8, <2>3 DEF Typed, u
<1>9. CASE m.tag = "route-email"
  <2>1. u = model
    BY <1>9 DEF Update
  <2>2. QED
    BY <1>1, <1>9, <2>1 DEF Typed
<1>10. QED
  BY <1>2, <1>4, <1>5, <1>6, <1>7, <1>8, <1>9 DEF OfRow, OfTask, OfRun, OfPoller

\* What a handler sends on: a message at most, of a row no task has, to a task
\* that takes it, for the task's next run, or of the end of a run.
Follows(x, m) ==
  \/ /\ m.tag = "route-email" /\ ~HasIngestedInbox(model, m.about)
     /\ \/ x = Message("create-task", m.about, 0, "", "")
        \/ \E t \in 1..Opened : x = Message("append-to-task", m.about, t, "", "")
  \/ m.tag = "create-task" /\ x = Message("spawn-agent-run", 0, Opened + 1, "", "")
  \/ /\ m.tag = "append-to-task" /\ ~Refuses(model.tasks[m.task])
     /\ x = Message("spawn-agent-run", 0, m.task, "", "")
  \/ m.tag = "answer-ui-request" /\ x = Message("spawn-agent-run", 0, m.task, "", "")
  \/ m.tag = "finish-agent-run" /\ x = Message("agent-run-finished", m.about, m.task, m.how, "")

\* The effect half of a message is one message, or none.
LEMMA SendsFacts ==
  ASSUME Types, NEW m
  PROVE  Sends(model, m) = <<>> \/ \E x : Follows(x, m) /\ Sends(model, m) = <<x>>
<1> DEFINE ss == Sends(model, m)
<1>1. CASE m.tag = "route-email"
  <2> DEFINE threads == ByThreadKey(model, Mail(m.about))
  <2>1. Opened \in Nat /\ DOMAIN model.tasks = 1..Opened
    BY ModelFacts
  <2>2. threads \in SUBSET (1..Opened)
    BY <2>1 DEF ByThreadKey
  <2>3. ss = RouteEmail(model, m)
    BY <1>1 DEF Sends
  <2>4. CASE Mail(m.about).from = Self \/ HasIngestedInbox(model, m.about)
    BY <2>3, <2>4 DEF RouteEmail
  <2>5. CASE ~(Mail(m.about).from = Self \/ HasIngestedInbox(model, m.about)) /\ threads # {}
    <3>1. Min(threads) \in 1..Opened
      <4> HIDE DEF threads
      <4>1. QED
        BY <2>1, <2>2, <2>5, MinProperties
    <3>2. ss = <<>> \/ ss = <<Message("append-to-task", m.about, Min(threads), "", "")>>
      BY <2>3, <2>5 DEF RouteEmail
    <3> HIDE DEF threads, ss
    <3>3. \/ ss = <<>>
          \/ /\ Follows(Message("append-to-task", m.about, Min(threads), "", ""), m)
             /\ ss = <<Message("append-to-task", m.about, Min(threads), "", "")>>
      BY <1>1, <2>5, <3>1, <3>2 DEF Follows
    <3>4. QED
      BY <3>3 DEF ss
  <2>6. CASE ~(Mail(m.about).from = Self \/ HasIngestedInbox(model, m.about)) /\ threads = {}
    <3>1. ss = <<>> \/ ss = <<Message("create-task", m.about, 0, "", "")>>
      BY <2>3, <2>6 DEF RouteEmail
    <3> HIDE DEF threads, ss
    <3>2. \/ ss = <<>>
          \/ /\ Follows(Message("create-task", m.about, 0, "", ""), m)
             /\ ss = <<Message("create-task", m.about, 0, "", "")>>
      BY <1>1, <2>6, <3>1 DEF Follows
    <3>3. QED
      BY <3>2 DEF ss
  <2>7. QED
    BY <2>4, <2>5, <2>6
<1>2. CASE m.tag = "create-task"
  <2>1. ss = <<Message("spawn-agent-run", 0, Opened + 1, "", "")>>
    BY <1>2 DEF Sends, SpawnFor, Opened
  <2>2. QED
    BY <1>2, <2>1 DEF Follows
<1>3. CASE m.tag = "append-to-task"
  <2>1. \/ ss = <<>>
        \/ /\ ~Refuses(model.tasks[m.task])
           /\ ss = <<Message("spawn-agent-run", 0, m.task, "", "")>>
    BY <1>3 DEF Sends, SpawnFor
  <2>2. QED
    BY <1>3, <2>1 DEF Follows
<1>4. CASE m.tag = "answer-ui-request"
  <2>1. ss = <<Message("spawn-agent-run", 0, m.task, "", "")>>
    BY <1>4 DEF Sends, SpawnFor
  <2>2. QED
    BY <1>4, <2>1 DEF Follows
<1>5. CASE m.tag = "finish-agent-run"
  <2>1. ss = <<Message("agent-run-finished", m.about, m.task, m.how, "")>>
    BY <1>5 DEF Sends
  <2>2. QED
    BY <1>5, <2>1 DEF Follows
<1>6. CASE m.tag \notin {"route-email", "create-task", "append-to-task", "answer-ui-request",
                         "finish-agent-run"}
  <2>1. ss = <<>>
    BY <1>6 DEF Sends
  <2>2. QED
    BY <2>1
<1>7. QED
  BY <1>1, <1>2, <1>3, <1>4, <1>5, <1>6

\* It has its type when the handler is through.
LEMMA FollowsTyped ==
  ASSUME Types, NEW m \in MessageType(Stored, Begun, Opened), NEW x, Follows(x, m)
  PROVE  /\ x \in MessageType(Stored, Begun, IF m.tag = "create-task" THEN Opened + 1 ELSE Opened)
         /\ x.by = "" /\ x.tag \notin OfPoller
<1>1. Stored \in Nat /\ Begun \in Nat /\ Opened \in Nat
  BY ModelFacts
<1>2. /\ m.tag \in OfRow => m.about \in 1..Stored
      /\ m.tag \in OfRun => m.about \in 1..Begun
      /\ m.tag \in OfTask => m.task \in 1..Opened
      /\ m.how \in Outcome \cup {""}
  BY <1>1, MessageFacts
<1>3. CASE m.tag = "route-email"
  <2>1. m.about \in 1..Stored
    BY <1>2, <1>3 DEF OfRow
  <2>2. \/ x = Message("create-task", m.about, 0, "", "")
        \/ \E t \in 1..Opened : x = Message("append-to-task", m.about, t, "", "")
    BY <1>3 DEF Follows
  <2>3. x \in MessageType(Stored, Begun, Opened)
    BY <1>1, <2>1, <2>2, MessagesTyped
  <2>4. x.by = "" /\ x.tag \notin OfPoller
    <3>1. CASE x = Message("create-task", m.about, 0, "", "")
      BY <3>1 DEF Message, OfPoller
    <3>2. CASE \E t \in 1..Opened : x = Message("append-to-task", m.about, t, "", "")
      <4>1. PICK t : x = Message("append-to-task", m.about, t, "", "")
        BY <3>2
      <4>2. QED
        BY <4>1 DEF Message, OfPoller
    <3>3. QED
      BY <2>2, <3>1, <3>2
  <2>5. QED
    BY <1>3, <2>3, <2>4
<1>4. CASE m.tag = "create-task"
  <2>1. x = Message("spawn-agent-run", 0, Opened + 1, "", "")
    BY <1>4 DEF Follows
  <2>2. Opened + 1 \in 1..(Opened + 1) /\ Opened + 1 \in Nat
    BY <1>1
  <2>3. x \in MessageType(Stored, Begun, Opened + 1)
    BY <1>1, <2>1, <2>2, MessagesTyped
  <2>4. QED
    BY <1>4, <2>1, <2>3 DEF Message, OfPoller
<1>5. CASE m.tag \in {"append-to-task", "answer-ui-request"}
  <2>1. x = Message("spawn-agent-run", 0, m.task, "", "") /\ m.task \in 1..Opened
    BY <1>2, <1>5 DEF Follows, OfTask, OfRun
  <2>2. x \in MessageType(Stored, Begun, Opened)
    BY <1>1, <2>1, MessagesTyped
  <2>3. QED
    BY <1>5, <2>1, <2>2 DEF Message, OfPoller
<1>6. CASE m.tag = "finish-agent-run"
  <2>1. /\ x = Message("agent-run-finished", m.about, m.task, m.how, "")
        /\ m.task \in 1..Opened /\ m.about \in 1..Begun
    BY <1>2, <1>6 DEF Follows, OfTask, OfRun
  <2>2. x \in MessageType(Stored, Begun, Opened)
    BY <1>1, <1>2, <2>1, MessagesTyped
  <2>3. QED
    BY <1>6, <2>1, <2>2 DEF Message, OfPoller
<1>7. QED
  BY <1>3, <1>4, <1>5, <1>6 DEF Follows

\* What the loop's turn leaves on the channel.
LEMMA ReduceInbox ==
  ASSUME Types, inbox # <<>>, NEW m, m = Head(inbox), inbox' = Tail(inbox) \o Sends(model, m)
  PROVE  /\ m \in MessageType(Stored, Begun, Opened) /\ m = inbox[1] /\ 1 \in DOMAIN inbox
         /\ Tail(inbox) \in Seq(MessageType(Stored, Begun, Opened))
         /\ Less(Tail(inbox), inbox, 1)
         /\ inbox' = Tail(inbox) \/ \E x : Follows(x, m) /\ inbox' = Append(Tail(inbox), x)
<1> DEFINE S == MessageType(Stored, Begun, Opened)
<1>1. inbox \in Seq(S)
  BY DEF Types
<1> HIDE DEF S
<1>2. /\ m \in S /\ m = inbox[1] /\ Tail(inbox) \in Seq(S) /\ Less(Tail(inbox), inbox, 1)
      /\ 1 \in DOMAIN inbox
  BY <1>1, TailLess
<1>3. CASE Sends(model, m) = <<>>
  <2>1. inbox' = Tail(inbox)
    BY <1>2, <1>3
  <2>2. QED
    BY <1>2, <2>1 DEF S
<1>4. CASE \E x : Follows(x, m) /\ Sends(model, m) = <<x>>
  <2>1. PICK x : Follows(x, m) /\ Sends(model, m) = <<x>>
    BY <1>4
  <2>2. Tail(inbox) \o <<x>> = Append(Tail(inbox), x)
    <3>1. /\ Tail(inbox) \in Seq(S \cup {x}) /\ x \in S \cup {x}
      BY <1>2, SeqWider
    <3>2. QED
      BY <3>1
  <2>3. QED
    BY <1>2, <2>1, <2>2 DEF S
<1>5. QED
  BY <1>3, <1>4, SendsFacts

\* A mail is stored in a row of its own unless it has one; the other rows stay.
Stores(rs, mail) ==
  /\ rs \in Seq(1..Arrived) /\ Stored <= Len(rs)
  /\ \A i \in 1..Stored : rs[i] = rows[i]
  /\ \A i \in DOMAIN rs : i \in 1..Stored \/ rs[i] = mail
  /\ \E i \in DOMAIN rs : rs[i] = mail
  /\ (\A i, j \in 1..Stored : rows[i] = rows[j] => i = j) =>
       \A i, j \in DOMAIN rs : rs[i] = rs[j] => i = j

\* The inbox row of a mail is the one it has, or a new one at the end.
LEMMA AddInboxFacts ==
  ASSUME Types, NEW mail \in 1..Arrived
  PROVE  Stores(AddInbox(mail), mail)
<1>1. rows \in Seq(1..Arrived) /\ Stored \in Nat /\ DOMAIN rows = 1..Stored /\ Len(rows) = Stored
  BY ModelFacts DEF Types, Stored
<1>2. CASE mail \in Range(rows)
  <2>1. AddInbox(mail) = rows /\ \E i \in DOMAIN rows : rows[i] = mail
    BY <1>2 DEF AddInbox, Range
  <2>2. Stored <= Len(rows)
    BY <1>1
  <2>3. QED
    BY <1>1, <2>1, <2>2 DEF Stores
<1>3. CASE mail \notin Range(rows)
  <2>1. PICK rs : rs = Append(rows, mail)
    OBVIOUS
  <2>2. AddInbox(mail) = rs /\ \A i \in 1..Stored : rows[i] # mail
    BY <1>1, <1>3, <2>1 DEF AddInbox, Range
  <2>3. /\ rs \in Seq(1..Arrived) /\ Len(rs) = Stored + 1 /\ DOMAIN rs = 1..(Stored + 1)
        /\ rs[Stored + 1] = mail /\ \A i \in 1..Stored : rs[i] = rows[i]
    BY <1>1, <2>1
  <2>4. /\ Stored + 1 \in 1..(Stored + 1) /\ Stored <= Stored + 1
        /\ \A i \in 1..(Stored + 1) : i \in 1..Stored \/ i = Stored + 1
    BY <1>1
  <2>5. ASSUME \A i, j \in 1..Stored : rows[i] = rows[j] => i = j,
               NEW i \in 1..(Stored + 1), NEW j \in 1..(Stored + 1), rs[i] = rs[j]
        PROVE  i = j
    BY <2>2, <2>3, <2>4, <2>5
  <2>6. Stores(rs, mail)
    BY <2>3, <2>4, <2>5 DEF Stores
  <2>7. QED
    BY <2>2, <2>6
<1>4. QED
  BY <1>2, <1>3

\* Where a poller is after a step of its own.
LEMMA PollerFacts ==
  ASSUME NEW a, NEW p \in PollerType(a)
  PROVE  /\ Onward(p) \in PollerType(a) /\ Returned(p) \in PollerType(a)
         /\ p.batch \in Seq(1..a) /\ p.state \in Int /\ p.next \in Int
         /\ Onward(p).batch = p.batch /\ Onward(p).state = p.state /\ Onward(p).next = p.next
         /\ Onward(p).at = IF p.batch # <<>> THEN "route" ELSE "record"
<1>1. p.batch \in Seq(1..a) /\ p.state \in Int /\ p.next \in Int
  BY DEF PollerType
<1>2. /\ Onward(p) \in PollerType(a)
      /\ Onward(p).batch = p.batch /\ Onward(p).state = p.state /\ Onward(p).next = p.next
      /\ Onward(p).at = IF p.batch # <<>> THEN "route" ELSE "record"
  BY DEF PollerType, Onward
<1>3. [p EXCEPT !.at = "fetch", !.state = p.next] \in PollerType(a)
  BY <1>1 DEF PollerType
<1>4. QED
  BY <1>1, <1>2, <1>3 DEF Returned

\* A poller's batch has a first mail, and the others come after it.
LEMMA BatchFacts ==
  ASSUME Types, NEW k \in Mechanisms, pollers[k].batch # <<>>
  PROVE  /\ Head(pollers[k].batch) \in 1..Arrived
         /\ Tail(pollers[k].batch) \in Seq(1..Arrived)
         /\ Head(pollers[k].batch) = pollers[k].batch[1] /\ 1 \in DOMAIN pollers[k].batch
         /\ \A x : x \in Range(pollers[k].batch) <=>
                     x = Head(pollers[k].batch) \/ x \in Range(Tail(pollers[k].batch))
         /\ (\A i, j \in DOMAIN pollers[k].batch :
               pollers[k].batch[i] = pollers[k].batch[j] => i = j) =>
              /\ Head(pollers[k].batch) \notin Range(Tail(pollers[k].batch))
              /\ \A i, j \in DOMAIN Tail(pollers[k].batch) :
                   Tail(pollers[k].batch)[i] = Tail(pollers[k].batch)[j] => i = j
<1>1. PICK b \in Seq(1..Arrived) : b = pollers[k].batch
  BY PollerFacts DEF Types
<1>2. b # <<>>
  BY <1>1
<1>3. QED
  BY <1>1, <1>2, HeadTail

\* The types hold, of the parts that change, under new counts.
LEMMA TypesReduce ==
  ASSUME Types, Reduce
  PROVE  Types'
<1>1. PICK m : m = Head(inbox)
  OBVIOUS
<1>2. PICK u : u = model'
  OBVIOUS
<1>3. /\ inbox # <<>> /\ u = Update(model, m) /\ inbox' = Tail(inbox) \o Sends(model, m)
      /\ pollers' = [k \in Mechanisms |-> IF k = m.by THEN Returned(pollers[k]) ELSE pollers[k]]
      /\ anchor' = [k \in Mechanisms |-> IF m.tag = "record-poll-state" /\ k = m.by /\ anchor[k] = -1
                                         THEN m.about ELSE anchor[k]]
      /\ dropped' = IF TurnsAway(model, m) THEN dropped \cup {rows[m.about]} ELSE dropped
      /\ mails' = mails /\ boxes' = boxes /\ rows' = rows /\ answers' = answers
  BY <1>1, <1>2 DEF Reduce
<1>4. /\ m \in MessageType(Stored, Begun, Opened)
      /\ Tail(inbox) \in Seq(MessageType(Stored, Begun, Opened))
      /\ inbox' = Tail(inbox) \/ \E x : Follows(x, m) /\ inbox' = Append(Tail(inbox), x)
  BY <1>1, <1>3, ReduceInbox
<1>5. PICK a \in Nat, n \in Nat, k \in Nat, t \in Nat :
        a = Arrived /\ n = Stored /\ k = Begun /\ t = Opened
  BY ModelFacts
<1>6. PICK l, v : l = Len(u.runs) /\ v = Len(u.tasks)
  OBVIOUS
<1>7. Typed(u, m)
  BY <1>3, <1>4, UpdateTyped
<1>8. /\ u \in ModelType(a, n, l, v)
      /\ l = IF m.tag = "spawn-agent-run" THEN k + 1 ELSE k
      /\ v = IF m.tag = "create-task" THEN t + 1 ELSE t
  BY <1>5, <1>6, <1>7 DEF Typed
<1>9. l \in Nat /\ v \in Nat /\ k <= l /\ t <= v /\ a <= a /\ n <= n
  BY <1>5, <1>8
<1>10. Wider(a, n, k, t, a, n, l, v)
  BY <1>5, <1>9, MoreIsWider
<1>11. Arrived' = a /\ Stored' = n /\ Begun' = l /\ Opened' = v
  BY <1>2, <1>3, <1>5, <1>6 DEF Arrived, Stored, Begun, Opened
<1>12. inbox' \in Seq(MessageType(n, l, v))
  <2>1. PICK s : s = Tail(inbox)
    OBVIOUS
  <2>2. s \in Seq(MessageType(n, l, v))
    BY <1>4, <1>5, <1>10, <2>1 DEF Wider
  <2>3. CASE inbox' = Tail(inbox)
    BY <2>1, <2>2, <2>3
  <2>4. CASE \E x : Follows(x, m) /\ inbox' = Append(Tail(inbox), x)
    <3>1. PICK x : Follows(x, m) /\ inbox' = Append(s, x)
      BY <2>1, <2>4
    <3>2. x \in MessageType(n, k, v)
      BY <1>4, <1>5, <1>8, <3>1, FollowsTyped
    <3>3. v <= v
      BY <1>9
    <3>4. Wider(a, n, k, v, a, n, l, v)
      BY <1>5, <1>9, <3>3, MoreIsWider
    <3>5. x \in MessageType(n, l, v)
      BY <3>2, <3>4 DEF Wider
    <3>6. QED
      BY <2>2, <3>1, <3>5, AppendTyped
  <2>5. QED
    BY <1>4, <2>3, <2>4
<1>13. /\ mails' \in Seq(Mailed) /\ boxes' \in [Mechanisms -> Seq(1..a)]
       /\ rows' \in Seq(1..a)
  BY <1>3, <1>5 DEF Types
<1>14. pollers' \in [Mechanisms -> PollerType(a)]
  <2>1. ASSUME NEW j \in Mechanisms
        PROVE  (IF j = m.by THEN Returned(pollers[j]) ELSE pollers[j]) \in PollerType(a)
    <3>1. pollers[j] \in PollerType(a)
      BY <1>5 DEF Types
    <3>2. QED
      BY <3>1, PollerFacts
  <2>2. QED
    BY <1>3, <2>1
<1>15. anchor' \in [Mechanisms -> Int]
  <2>1. m.about \in Int
    BY <1>4, <1>5, MessageFacts
  <2>2. QED
    BY <1>3, <2>1 DEF Types
<1>16. dropped' \subseteq 1..a
  <2>1. ASSUME TurnsAway(model, m) PROVE rows[m.about] \in 1..a
    <3>1. m.about \in 1..n
      BY <1>4, <1>5, <2>1, MessageFacts DEF TurnsAway, OfRow
    <3>2. QED
      BY <1>5, <3>1, ModelFacts
  <2>2. dropped \subseteq 1..a
    BY <1>5 DEF Types
  <2>3. QED
    BY <1>3, <2>1, <2>2
<1>17. answers' \in Seq(1..v)
  <2>1. answers \in Seq(1..t)
    BY <1>5 DEF Types
  <2>2. QED
    BY <1>3, <1>10, <2>1 DEF Wider
<1>18. QED
  BY <1>2, <1>8, <1>11, <1>12, <1>13, <1>14, <1>15, <1>16, <1>17 DEF Types

\* A mail that arrives keeps the types.
LEMMA TypesArrive ==
  ASSUME Types, NEW ks \in SUBSET Mechanisms, Arrive(ks)
  PROVE  Types'
<1>1. PICK a \in Nat, n \in Nat, k \in Nat, t \in Nat :
        a = Arrived /\ n = Stored /\ k = Begun /\ t = Opened
  BY ModelFacts
<1>2. a + 1 \in Nat /\ a <= a + 1 /\ n <= n /\ k <= k /\ t <= t /\ a + 1 \in 1..(a + 1)
  OBVIOUS
<1>3. Wider(a, n, k, t, a + 1, n, k, t)
  BY <1>2, MoreIsWider
<1>4. PICK e \in Envelopes, i \in Known :
        mails' = Append(mails, [from |-> e.from, cc |-> e.cc, answers |-> i])
  BY DEF Arrive
<1>5. /\ boxes' = [j \in Mechanisms |-> IF j \in ks THEN Append(boxes[j], Len(mails')) ELSE boxes[j]]
      /\ UNCHANGED <<rows, model, inbox, pollers, anchor, dropped, answers>>
  BY DEF Arrive
<1>6. i \in Int
  <2>1. /\ DOMAIN mails = 1..a
        /\ \A r \in DOMAIN model.tasks : model.tasks[r].refs \subseteq Int
    <3>1. ASSUME NEW r \in DOMAIN model.tasks PROVE model.tasks[r].refs \subseteq Int
      <4>1. model.tasks[r] \in TaskType(a, n, k)
        BY <1>1, ModelFacts
      <4>2. model.tasks[r].refs \in SUBSET Refs(a, k)
        BY <4>1 DEF TaskType
      <4>3. Refs(a, k) \subseteq Int
        <5>1. \A q \in 1..k : -q \in Int
          OBVIOUS
        <5>2. QED
          BY <5>1 DEF Refs
      <4>4. QED
        BY <4>2, <4>3
    <3>2. QED
      BY <1>1, <3>1, ModelFacts
  <2>2. QED
    BY <2>1 DEF Known, Range
<1>7. mails' \in Seq(Mailed) /\ Len(mails') = a + 1
  <2>1. PICK x : x = [from |-> e.from, cc |-> e.cc, answers |-> i]
    OBVIOUS
  <2>2. e.from \in Somebody /\ e.cc \subseteq Somebody
    BY DEF Somebody
  <2>3. x \in Mailed
    BY <1>6, <2>1, <2>2 DEF Mailed
  <2>4. mails \in Seq(Mailed) /\ Len(mails) = a
    BY <1>1 DEF Types, Arrived
  <2>5. QED
    BY <1>4, <2>1, <2>3, <2>4
<1>8. Arrived' = a + 1 /\ Stored' = n /\ Begun' = k /\ Opened' = t
  BY <1>1, <1>5, <1>7 DEF Arrived, Stored, Begun, Opened
<1>9. boxes' \in [Mechanisms -> Seq(1..(a + 1))]
  <2>1. ASSUME NEW j \in Mechanisms
        PROVE  (IF j \in ks THEN Append(boxes[j], a + 1) ELSE boxes[j]) \in Seq(1..(a + 1))
    <3>1. boxes[j] \in Seq(1..a)
      BY <1>1 DEF Types
    <3>2. boxes[j] \in Seq(1..(a + 1))
      BY <1>3, <3>1 DEF Wider
    <3>3. Append(boxes[j], a + 1) \in Seq(1..(a + 1))
      BY <1>2, <3>2, AppendTyped
    <3>4. QED
      BY <3>2, <3>3
  <2>2. QED
    BY <1>5, <1>7, <2>1
<1>10. /\ rows \in Seq(1..a) /\ model \in ModelType(a, n, k, t)
       /\ inbox \in Seq(MessageType(n, k, t)) /\ dropped \subseteq 1..a /\ answers \in Seq(1..t)
       /\ \A j \in Mechanisms : pollers[j] \in PollerType(a)
       /\ pollers = [j \in Mechanisms |-> pollers[j]] /\ anchor \in [Mechanisms -> Int]
  BY <1>1 DEF Types
<1>11. /\ rows' \in Seq(1..(a + 1)) /\ model' \in ModelType(a + 1, n, k, t)
       /\ dropped' \subseteq 1..(a + 1)
       /\ \A j \in Mechanisms : pollers[j] \in PollerType(a + 1)
  BY <1>3, <1>5, <1>10 DEF Wider
<1>12. pollers' \in [Mechanisms -> PollerType(a + 1)]
  BY <1>5, <1>10, <1>11
<1>13. inbox' \in Seq(MessageType(n, k, t)) /\ answers' \in Seq(1..t) /\ anchor' \in [Mechanisms -> Int]
  BY <1>5, <1>10
<1>14. QED
  BY <1>7, <1>8, <1>9, <1>11, <1>12, <1>13 DEF Types

-----------------------------------------------------------------------------
(***************************************************************************)
(* Pollers.                                                                *)
(***************************************************************************)
\* A poller p resumes from the cursor c, which moves on once it is anchored at h;
\* its batch is of mails in its box b from there to the cursor it records next.
Placed(p, c, h, b) ==
  /\ p.state = c /\ -1 <= p.state /\ p.state <= p.next /\ p.next <= Len(b)
  /\ 0 <= h => 0 <= c
  /\ p.at = "fetch" => p.next = p.state
  /\ p.at = "route" => p.batch # <<>>
  /\ p.at \in {"record", "recording"} => p.batch = <<>>
  /\ \A i, j \in DOMAIN p.batch : p.batch[i] = p.batch[j] => i = j
  /\ \A x \in Range(p.batch) : \E q \in DOMAIN b : p.state < q /\ q <= p.next /\ x = b[q]

\* It waits for the one message of its own on the channel s.
By(tag, k) == {m \in AnyMessage : m.tag = tag /\ m.by = k}
Waited(p, k, s) ==
  /\ Has(s, By("route-email", k)) => p.at = "routing"
  /\ Has(s, By("record-poll-state", k)) => p.at = "recording"
  /\ \A i \in DOMAIN s : s[i] \in By("record-poll-state", k) => s[i].about = p.next
  /\ \A i, j \in DOMAIN s : s[i].by = k /\ s[j].by = k => i = j

Polls(k) ==
  /\ Placed(pollers[k], model.cursor[k], anchor[k], boxes[k])
  /\ Waited(pollers[k], k, inbox)
AllPoll == \A k \in Mechanisms : Polls(k)

\* A poller that does not wait has nothing on the channel.
LEMMA Unwaited ==
  ASSUME Types, NEW k \in Mechanisms, Polls(k), pollers[k].at \notin {"routing", "recording"}
  PROVE  \A i \in DOMAIN inbox : inbox[i].by # k
<1>1. ASSUME NEW i \in DOMAIN inbox, inbox[i].by = k PROVE FALSE
  <2>1. inbox[i] \in MessageType(Stored, Begun, Opened)
    BY DEF Types
  <2>2. inbox[i] \in AnyMessage /\ inbox[i].tag \in OfPoller
    BY <1>1, <2>1 DEF MessageType
  <2>3. inbox[i] \in By("route-email", k) \/ inbox[i] \in By("record-poll-state", k)
    BY <1>1, <2>2 DEF By, OfPoller
  <2>4. Has(inbox, By("route-email", k)) \/ Has(inbox, By("record-poll-state", k))
    BY <2>3 DEF Has
  <2>5. QED
    BY <2>4 DEF Polls, Waited
<1>2. QED
  BY <1>1

\* Adding a message that is not of the poller, and taking any away, keeps it waiting.
LEMMA WaitedKept ==
  ASSUME NEW S, NEW s \in Seq(S), NEW k, NEW p, Waited(p, k, s)
  PROVE  /\ \A t, i : Less(t, s, i) => Waited(p, k, t)
         /\ \A x \in S : x.by # k => Waited(p, k, Append(s, x))
<1>1. ASSUME NEW t, NEW i, Less(t, s, i) PROVE Waited(p, k, t)
  <2>1. PICK g \in [DOMAIN t -> DOMAIN s] :
          /\ \A j, l \in DOMAIN t : g[j] = g[l] => j = l
          /\ \A j \in DOMAIN t : t[j] = s[g[j]] /\ g[j] # i
    BY <1>1 DEF Less
  <2>2. \A K : Has(t, K) => Has(s, K)
    BY <1>1, LessHas
  <2>3. \A j \in DOMAIN t : t[j] \in By("record-poll-state", k) => t[j].about = p.next
    BY <2>1 DEF Waited
  <2>4. ASSUME NEW j \in DOMAIN t, NEW l \in DOMAIN t, t[j].by = k, t[l].by = k PROVE j = l
    <3>1. g[j] = g[l]
      BY <2>1, <2>4 DEF Waited
    <3>2. QED
      BY <2>1, <3>1
  <2>5. QED
    BY <2>2, <2>3, <2>4 DEF Waited
<1>2. ASSUME NEW x \in S, x.by # k PROVE Waited(p, k, Append(s, x))
  <2>1. PICK t : t = Append(s, x)
    OBVIOUS
  <2>2. PICK n \in Nat : n = Len(s)
    OBVIOUS
  <2>3. /\ DOMAIN s = 1..n /\ DOMAIN t = 1..(n + 1) /\ t[n + 1] = x
        /\ \A i \in 1..n : t[i] = s[i]
        /\ \A i \in 1..(n + 1) : i \in 1..n \/ i = n + 1
    BY <2>1, <2>2
  <2>4. \A tag : x \notin By(tag, k)
    BY <1>2 DEF By
  <2>5. \A tag : Has(t, By(tag, k)) <=> Has(s, By(tag, k))
    BY <2>1, <2>4, AppendHas
  <2>6. \A i \in DOMAIN t : t[i] \in By("record-poll-state", k) => t[i].about = p.next
    BY <2>3, <2>4 DEF Waited
  <2>7. \A i, j \in DOMAIN t : t[i].by = k /\ t[j].by = k => i = j
    BY <1>2, <2>3 DEF Waited
  <2>8. QED
    BY <2>1, <2>5, <2>6, <2>7 DEF Waited
<1>3. QED
  BY <1>1, <1>2

\* One message of its own when there was none.
LEMMA WaitedSends ==
  ASSUME NEW S, NEW s \in Seq(S), NEW k, NEW p, NEW x \in S,
         \A i \in DOMAIN s : s[i].by # k,
         x \in By("route-email", k) => p.at = "routing",
         x \in By("record-poll-state", k) => p.at = "recording" /\ x.about = p.next
  PROVE  Waited(p, k, Append(s, x))
<1>1. PICK t : t = Append(s, x)
  OBVIOUS
<1>2. PICK n \in Nat : n = Len(s)
  OBVIOUS
<1>3. /\ DOMAIN s = 1..n /\ DOMAIN t = 1..(n + 1) /\ t[n + 1] = x
      /\ \A i \in 1..n : t[i] = s[i]
      /\ \A i \in 1..(n + 1) : i \in 1..n \/ i = n + 1
  BY <1>1, <1>2
<1>4. \A tag, i : i \in DOMAIN t /\ t[i] \in By(tag, k) => i = n + 1
  BY <1>3 DEF By
<1>5. \A tag : Has(t, By(tag, k)) => x \in By(tag, k)
  BY <1>3, <1>4 DEF Has
<1>6. \A i, j \in DOMAIN t : t[i].by = k /\ t[j].by = k => i = j
  BY <1>3
<1>7. \A i \in DOMAIN t : t[i] \in By("record-poll-state", k) => t[i].about = p.next
  BY <1>3, <1>4
<1>8. QED
  BY <1>1, <1>5, <1>6, <1>7 DEF Waited

\* A fetch: the mails after the cursor, each once, or none before it is anchored.
Fetched(batch, state, b) ==
  /\ batch \in Seq(1..Arrived)
  /\ \A i, j \in DOMAIN batch : batch[i] = batch[j] => i = j
  /\ state = -1 => batch = <<>>
  /\ \A x : x \in Range(batch) => \E q \in DOMAIN b : state < q /\ x = b[q]
  /\ state # -1 => \A q \in DOMAIN b : state < q => b[q] \in Range(batch)

\* A poll that fetches takes the mails after its cursor, or none before it is anchored.
LEMMA FetchFacts ==
  ASSUME Types, NEW k \in Mechanisms, Polls(k), Fetch(k)
  PROVE  \E batch :
           /\ Fetched(batch, pollers[k].state, boxes[k])
           /\ pollers' = [pollers EXCEPT ![k] =
                            [at |-> IF batch # <<>> THEN "route" ELSE "record",
                             state |-> pollers[k].state, batch |-> batch, next |-> Len(boxes[k])]]
<1>1. PICK p : p = pollers[k]
  OBVIOUS
<1>2. PICK b : b = boxes[k]
  OBVIOUS
<1>3. /\ p \in PollerType(Arrived) /\ b \in Seq(1..Arrived) /\ pollers \in [Mechanisms -> PollerType(Arrived)]
  BY <1>1, <1>2 DEF Types
<1>4. p.state \in Int /\ -1 <= p.state /\ p.state <= Len(b)
  <2>1. p.next \in Int /\ p.state \in Int /\ Len(b) \in Nat
    BY <1>3 DEF PollerType
  <2>2. -1 <= p.state /\ p.state <= p.next /\ p.next <= Len(b)
    BY <1>1, <1>2 DEF Polls, Placed
  <2>3. QED
    BY <2>1, <2>2
<1>5. PICK fresh : fresh = IF p.state = -1 THEN <<>> ELSE SubSeq(b, p.state + 1, Len(b))
  OBVIOUS
<1>6. PICK batch \in SetToSeqs(Range(fresh)) :
        pollers' = [pollers EXCEPT ![k] =
                      Onward([p EXCEPT !.batch = batch, !.next = Len(b)])]
  BY <1>1, <1>2, <1>3, <1>5 DEF Fetch
<1>7. /\ fresh \in Seq(1..Arrived)
      /\ p.state = -1 => Range(fresh) = {}
      /\ p.state # -1 => \A x : x \in Range(fresh) <=> \E q \in DOMAIN b : p.state < q /\ b[q] = x
  <2>1. CASE p.state = -1
    BY <1>5, <2>1 DEF Range
  <2>2. CASE p.state # -1
    <3>1. p.state \in 0..Len(b)
      BY <1>4, <2>2
    <3>2. PICK z \in 0..Len(b) : z = p.state
      BY <3>1
    <3>3. /\ SubSeq(b, z + 1, Len(b)) \in Seq(1..Arrived)
          /\ \A x : x \in Range(SubSeq(b, z + 1, Len(b)))
                      <=> \E q \in DOMAIN b : z < q /\ b[q] = x
      <4>1. PICK A : A = 1..Arrived
        OBVIOUS
      <4>2. b \in Seq(A)
        BY <1>3, <4>1
      <4>3. /\ SubSeq(b, z + 1, Len(b)) \in Seq(A)
            /\ \A x : x \in Range(SubSeq(b, z + 1, Len(b)))
                        <=> \E q \in DOMAIN b : z < q /\ b[q] = x
        BY <4>2, SuffixFacts
      <4>4. QED
        BY <4>1, <4>3
    <3>4. fresh = SubSeq(b, z + 1, Len(b))
      BY <1>5, <2>2, <3>2
    <3>5. QED
      BY <2>2, <3>2, <3>3, <3>4
  <2>3. QED
    BY <2>1, <2>2
<1>8. IsFiniteSet(Range(fresh)) /\ Range(fresh) \subseteq 1..Arrived
  BY <1>7, RangeFacts
<1>9. /\ batch \in Seq(Range(fresh)) /\ (\A x \in Range(fresh) : \E i \in DOMAIN batch : batch[i] = x)
      /\ \A i, j \in DOMAIN batch : batch[i] = batch[j] => i = j
  BY <1>8, SetToSeqsProperties
<1>10. batch \in Seq(1..Arrived)
  BY <1>8, <1>9, SeqWider
<1>11. \A x : x \in Range(batch) <=> x \in Range(fresh)
  <2>1. \A x \in Range(batch) : x \in Range(fresh)
    BY <1>9, RangeFacts
  <2>2. \A x \in Range(fresh) : x \in Range(batch)
    BY <1>9 DEF Range
  <2>3. QED
    BY <2>1, <2>2
<1>12. p.state = -1 => batch = <<>>
  <2>1. ASSUME p.state = -1 PROVE batch = <<>>
    <3>1. DOMAIN batch = {}
      BY <1>7, <1>11, <2>1 DEF Range
    <3>2. QED
      BY <1>10, <3>1
  <2>2. QED
    BY <2>1
<1>13. Fetched(batch, p.state, b)
  BY <1>7, <1>9, <1>10, <1>11, <1>12 DEF Fetched
<1>14. Onward([p EXCEPT !.batch = batch, !.next = Len(b)])
         = [at |-> IF batch # <<>> THEN "route" ELSE "record",
            state |-> p.state, batch |-> batch, next |-> Len(b)]
  <2>1. PICK y : y = [p EXCEPT !.batch = batch, !.next = Len(b)]
    OBVIOUS
  <2>2. y = [at |-> p.at, state |-> p.state, batch |-> batch, next |-> Len(b)]
    BY <1>3, <2>1 DEF PollerType
  <2>3. Onward(y) = [at |-> IF batch # <<>> THEN "route" ELSE "record",
                     state |-> p.state, batch |-> batch, next |-> Len(b)]
    BY <2>2 DEF Onward
  <2>4. QED
    BY <2>1, <2>3
<1>15. QED
  BY <1>1, <1>2, <1>6, <1>13, <1>14

\* The poller at, before and after the mails it has in hand.
At(at, p, batch) == [at |-> at, state |-> p.state, batch |-> batch, next |-> p.next]
Pending(batch) == IF batch # <<>> THEN "route" ELSE "record"

\* The first mail of a batch stored, and its row routed.
LEMMA RouteFacts ==
  ASSUME Types, NEW k \in Mechanisms, Polls(k), Route(k)
  PROVE  /\ pollers[k].batch # <<>>
         /\ Stores(rows', Head(pollers[k].batch))
         /\ \E r \in DOMAIN rows' :
              /\ rows'[r] = Head(pollers[k].batch)
              /\ inbox' = Append(inbox, Message("route-email", r, 0, "", k))
         /\ pollers' = [pollers EXCEPT ![k] = At("routing", pollers[k], Tail(pollers[k].batch))]
<1>1. PICK p : p = pollers[k]
  OBVIOUS
<1>2. p \in PollerType(Arrived) /\ pollers \in [Mechanisms -> PollerType(Arrived)]
  BY <1>1 DEF Types
<1>3. p.batch # <<>>
  BY <1>1 DEF Route, Poller, Polls, Placed
<1>4. PICK mail \in 1..Arrived : mail = Head(p.batch)
  BY <1>1, <1>3, BatchFacts
<1>5. PICK rs : rs = rows'
  OBVIOUS
<1>6. rs = AddInbox(mail)
  BY <1>1, <1>4, <1>5 DEF Route
<1>7. Stores(rs, mail)
  BY <1>6, AddInboxFacts
<1>8. PICK r : r = CHOOSE i \in DOMAIN rs : rs[i] = mail
  OBVIOUS
<1>9. r \in DOMAIN rs /\ rs[r] = mail
  BY <1>7, <1>8 DEF Stores
<1>10. inbox' = Append(inbox, Message("route-email", r, 0, "", k))
  BY <1>1, <1>4, <1>5, <1>8 DEF Route
<1>11. pollers' = [pollers EXCEPT ![k] = At("routing", p, Tail(p.batch))]
  <2>1. pollers' = [pollers EXCEPT ![k].at = "routing", ![k].batch = Tail(@)]
    BY DEF Route
  <2>2. PICK t : t = Tail(p.batch)
    OBVIOUS
  <2>3. [p EXCEPT !.at = "routing", !.batch = t] = At("routing", p, t)
    <3>1. PICK y : y = [p EXCEPT !.at = "routing", !.batch = t]
      OBVIOUS
    <3>2. y = [at |-> "routing", state |-> p.state, batch |-> t, next |-> p.next]
      BY <1>2, <3>1 DEF PollerType
    <3>3. QED
      BY <3>1, <3>2 DEF At
  <2>4. pollers' = [pollers EXCEPT ![k] = [p EXCEPT !.at = "routing", !.batch = t]]
    BY <1>1, <1>2, <2>1, <2>2
  <2>5. QED
    BY <2>2, <2>3, <2>4
<1>12. QED
  BY <1>1, <1>3, <1>4, <1>5, <1>7, <1>9, <1>10, <1>11

\* A mail whose routing fails is dropped, stored or not, and the poll goes on.
LEMMA RouteFailsFacts ==
  ASSUME Types, NEW k \in Mechanisms, Polls(k), RouteFails(k)
  PROVE  /\ pollers[k].batch # <<>>
         /\ rows' = rows \/ Stores(rows', Head(pollers[k].batch))
         /\ dropped' = dropped \cup {Head(pollers[k].batch)}
         /\ pollers' = [pollers EXCEPT ![k] =
                          At(Pending(Tail(pollers[k].batch)), pollers[k], Tail(pollers[k].batch))]
<1>1. PICK p : p = pollers[k]
  OBVIOUS
<1>2. p \in PollerType(Arrived) /\ pollers \in [Mechanisms -> PollerType(Arrived)]
  BY <1>1 DEF Types
<1>3. p.batch # <<>>
  BY <1>1 DEF RouteFails, Poller, Polls, Placed
<1>4. PICK mail \in 1..Arrived : mail = Head(p.batch)
  BY <1>1, <1>3, BatchFacts
<1>5. rows' = rows \/ rows' = AddInbox(mail)
  BY <1>1, <1>4 DEF RouteFails
<1>6. rows' = rows \/ Stores(rows', mail)
  <2>1. Stores(AddInbox(mail), mail)
    BY AddInboxFacts
  <2>2. QED
    BY <1>5, <2>1
<1>7. dropped' = dropped \cup {mail}
  BY <1>1, <1>4 DEF RouteFails
<1>8. pollers' = [pollers EXCEPT ![k] = At(Pending(Tail(p.batch)), p, Tail(p.batch))]
  <2>1. PICK t : t = Tail(p.batch)
    OBVIOUS
  <2>2. pollers' = [pollers EXCEPT ![k] = Onward([p EXCEPT !.batch = t])]
    BY <1>1, <1>2, <2>1 DEF RouteFails
  <2>3. PICK y : y = [p EXCEPT !.batch = t]
    OBVIOUS
  <2>4. pollers' = [pollers EXCEPT ![k] = Onward(y)]
    BY <2>2, <2>3
  <2>5. y = [at |-> p.at, state |-> p.state, batch |-> t, next |-> p.next]
    BY <1>2, <2>3 DEF PollerType
  <2>6. Onward(y) = At(Pending(t), p, t)
    BY <2>5 DEF Onward, At, Pending
  <2>7. QED
    BY <2>1, <2>4, <2>6
<1>9. QED
  BY <1>1, <1>3, <1>4, <1>6, <1>7, <1>8

\* A poll that ends reports how far it came.
LEMMA RecordFacts ==
  ASSUME Types, NEW k \in Mechanisms, Record(k)
  PROVE  /\ inbox' = Append(inbox, Message("record-poll-state", pollers[k].next, 0, "", k))
         /\ pollers' = [pollers EXCEPT ![k] = At("recording", pollers[k], pollers[k].batch)]
<1>1. PICK p : p = pollers[k]
  OBVIOUS
<1>2. p \in PollerType(Arrived) /\ pollers \in [Mechanisms -> PollerType(Arrived)]
  BY <1>1 DEF Types
<1>3. pollers' = [pollers EXCEPT ![k] = At("recording", p, p.batch)]
  <2>1. pollers' = [pollers EXCEPT ![k].at = "recording"]
    BY DEF Record, Waits
  <2>3. [p EXCEPT !.at = "recording"] = At("recording", p, p.batch)
    <3>1. p \in PollerType(Arrived)
      BY <1>2
    <3>2. QED
      BY <3>1 DEF At, PollerType
  <2>4. QED
    BY <1>1, <1>2, <2>1, <2>3
<1>4. QED
  BY <1>1, <1>3 DEF Record

\* A poller that moves has its type, and the others stay where they are.
LEMMA MoveTyped ==
  ASSUME Types, NEW k \in Mechanisms, NEW batch \in Seq(1..Arrived), NEW n \in Int,
         NEW at \in {"fetch", "route", "routing", "record", "recording"}, NEW q,
         q = [at |-> at, state |-> pollers[k].state, batch |-> batch, next |-> n],
         pollers' = [pollers EXCEPT ![k] = q]
  PROVE  /\ pollers' \in [Mechanisms -> PollerType(Arrived)]
         /\ pollers'[k] = q /\ \A j \in Mechanisms : j # k => pollers'[j] = pollers[j]
<1>1. pollers \in [Mechanisms -> PollerType(Arrived)]
  BY DEF Types
<1>2. pollers[k].state \in Int
  BY <1>1 DEF PollerType
<1>3. q \in PollerType(Arrived)
  BY <1>2 DEF PollerType
<1>4. QED
  BY <1>1, <1>3

\* More rows widen the types of what refers to them.
LEMMA TypesRows ==
  ASSUME Types, NEW rs, rs = rows', rs \in Seq(1..Arrived), Stored <= Len(rs),
         mails' = mails, boxes' = boxes, model' = model, anchor' = anchor, answers' = answers,
         pollers' \in [Mechanisms -> PollerType(Arrived)], dropped' \subseteq 1..Arrived,
         inbox' = inbox \/ \E x \in MessageType(Len(rs), Begun, Opened) : inbox' = Append(inbox, x)
  PROVE  Types'
<1>1. PICK a \in Nat, n \in Nat, k \in Nat, t \in Nat :
        a = Arrived /\ n = Stored /\ k = Begun /\ t = Opened
  BY ModelFacts
<1>2. PICK o \in Nat : o = Len(rs)
  OBVIOUS
<1>3. n <= o /\ a <= a /\ k <= k /\ t <= t
  BY <1>1, <1>2
<1>4. Wider(a, n, k, t, a, o, k, t)
  BY <1>3, MoreIsWider
<1>5. Arrived' = a /\ Stored' = o /\ Begun' = k /\ Opened' = t
  BY <1>1, <1>2 DEF Arrived, Stored, Begun, Opened
<1>6. inbox' \in Seq(MessageType(o, k, t))
  <2>1. inbox \in Seq(MessageType(o, k, t))
    BY <1>1, <1>4 DEF Types, Wider
  <2>2. CASE \E x \in MessageType(Len(rs), Begun, Opened) : inbox' = Append(inbox, x)
    BY <1>1, <1>2, <2>1, <2>2, AppendTyped
  <2>3. QED
    BY <2>1, <2>2
<1>7. /\ mails' \in Seq(Mailed) /\ boxes' \in [Mechanisms -> Seq(1..a)] /\ rows' \in Seq(1..a)
      /\ anchor' \in [Mechanisms -> Int] /\ answers' \in Seq(1..t)
      /\ pollers' \in [Mechanisms -> PollerType(a)] /\ dropped' \subseteq 1..a
  BY <1>1 DEF Types
<1>8. model' \in ModelType(a, o, k, t)
  BY <1>1, <1>4 DEF Types, Wider
<1>9. QED
  BY <1>5, <1>6, <1>7, <1>8 DEF Types

\* What comes from outside is one message, not a poller's.
Posted(x) ==
  /\ inbox' = Append(inbox, x)
  /\ x \in MessageType(Stored, Begun, Opened) /\ x.by = ""
  /\ UNCHANGED outside

\* A run that ends posts its end, about its own task.
LEMMA EndRunFacts ==
  ASSUME Types, NEW r \in DOMAIN model.runs, NEW how \in Outcomes, EndRun(r, how)
  PROVE  /\ Posted(Message("finish-agent-run", r, TaskOf(r), how, ""))
         /\ TaskOf(r) \in 1..Opened /\ answers' = answers
<1>1. r \in 1..Begun /\ model.runs[r] \in RunType(Opened) /\ how \in Outcome \cup {""}
      /\ Stored \in Nat /\ Begun \in Nat /\ Opened \in Nat
  <2>1. how \in Outcome \cup {""}
    BY InboundAssumption
  <2>2. /\ model.runs \in Seq(RunType(Opened)) /\ DOMAIN model.runs = 1..Begun
        /\ Stored \in Nat /\ Begun \in Nat /\ Opened \in Nat
    BY ModelFacts
  <2>3. model.runs[r] \in RunType(Opened)
    BY <2>2
  <2>4. QED
    BY <2>1, <2>2, <2>3
<1>2. TaskOf(r) \in 1..Opened
  BY <1>1 DEF RunType, TaskOf
<1>3. Message("finish-agent-run", r, TaskOf(r), how, "") \in MessageType(Stored, Begun, Opened)
  BY <1>1, <1>2, MessagesTyped
<1>4. Message("finish-agent-run", r, TaskOf(r), how, "").by = ""
  BY DEF Message
<1>5. QED
  BY <1>2, <1>3, <1>4 DEF EndRun, Posted

\* A request that is minted posts its registration.
LEMMA MintFacts ==
  ASSUME Types, NEW r \in model.owed, Mint(r)
  PROVE  /\ Posted(Message("register-ui-request", r, TaskOf(r), "", ""))
         /\ r \in 1..Begun /\ answers' = answers
<1>1. r \in 1..Begun /\ model.runs[r] \in RunType(Opened)
      /\ Stored \in Nat /\ Begun \in Nat /\ Opened \in Nat
  BY ModelFacts
<1>2. TaskOf(r) \in 1..Opened
  BY <1>1 DEF RunType, TaskOf
<1>3. Message("register-ui-request", r, TaskOf(r), "", "") \in MessageType(Stored, Begun, Opened)
  BY <1>1, <1>2, MessagesTyped
<1>4. Message("register-ui-request", r, TaskOf(r), "", "").by = ""
  BY DEF Message
<1>5. QED
  BY <1>1, <1>3, <1>4 DEF Mint, Posted

\* An answered request posts its answer, about its own task.
LEMMA AnswerFacts ==
  ASSUME Types, NEW r \in model.asked, Answer(r)
  PROVE  /\ Posted(Message("answer-ui-request", r, TaskOf(r), "", ""))
         /\ r \in 1..Begun /\ TaskOf(r) \in 1..Opened /\ answers' = Append(answers, TaskOf(r))
<1>1. r \in 1..Begun /\ model.runs[r] \in RunType(Opened)
      /\ Stored \in Nat /\ Begun \in Nat /\ Opened \in Nat
  BY ModelFacts
<1>2. TaskOf(r) \in 1..Opened
  BY <1>1 DEF RunType, TaskOf
<1>3. Message("answer-ui-request", r, TaskOf(r), "", "") \in MessageType(Stored, Begun, Opened)
  BY <1>1, <1>2, MessagesTyped
<1>4. Message("answer-ui-request", r, TaskOf(r), "", "").by = ""
  BY DEF Message
<1>5. QED
  BY <1>1, <1>2, <1>3, <1>4 DEF Answer, Posted, Human

\* A task the user finishes posts its end.
LEMMA FinishFacts ==
  ASSUME Types, NEW t \in DOMAIN model.tasks, FinishTask(t)
  PROVE  /\ Posted(Message("finish-task", 0, t, "", ""))
         /\ t \in 1..Opened /\ answers' = Append(answers, t)
<1>1. t \in 1..Opened /\ Stored \in Nat /\ Begun \in Nat /\ Opened \in Nat
  BY ModelFacts
<1>2. Message("finish-task", 0, t, "", "") \in MessageType(Stored, Begun, Opened)
  BY <1>1, MessagesTyped
<1>3. Message("finish-task", 0, t, "", "").by = ""
  BY DEF Message
<1>4. QED
  BY <1>1, <1>2, <1>3 DEF FinishTask, Posted, Human

\* What is only posted keeps the types.
LEMMA TypesPosted ==
  ASSUME Types, NEW x, Posted(x),
         answers' = answers \/ \E t \in 1..Opened : answers' = Append(answers, t)
  PROVE  Types'
<1>1. /\ Arrived' = Arrived /\ Stored' = Stored /\ Begun' = Begun /\ Opened' = Opened
      /\ mails' = mails /\ boxes' = boxes /\ rows' = rows /\ model' = model
      /\ pollers' = pollers /\ anchor' = anchor /\ dropped' = dropped
  BY DEF Posted, outside, Arrived, Stored, Begun, Opened
<1>2. /\ inbox' = Append(inbox, x) /\ x \in MessageType(Stored, Begun, Opened)
      /\ inbox \in Seq(MessageType(Stored, Begun, Opened))
  BY DEF Posted, Types
<1>3. inbox' \in Seq(MessageType(Stored, Begun, Opened))
  BY <1>2, AppendTyped
<1>4. answers' \in Seq(1..Opened)
  <2>1. answers \in Seq(1..Opened)
    BY DEF Types
  <2>2. QED
    BY <2>1, AppendTyped
<1>5. QED
  BY <1>1, <1>3, <1>4 DEF Types

\* A restart of the server keeps the types.
LEMMA TypesRestart ==
  ASSUME Types, Restart
  PROVE  Types'
<1>1. /\ Arrived' = Arrived /\ Stored' = Stored /\ Begun' = Begun /\ Opened' = Opened
      /\ mails' = mails /\ boxes' = boxes /\ rows' = rows /\ model' = model
      /\ anchor' = anchor /\ dropped' = dropped /\ answers' = answers
  BY DEF Restart, Arrived, Stored, Begun, Opened
<1>2. inbox' = <<>> /\ pollers' = [k \in Mechanisms |-> Idle(model.cursor[k])]
  BY DEF Restart
<1>3. pollers' \in [Mechanisms -> PollerType(Arrived)]
  <2>1. ASSUME NEW k \in Mechanisms PROVE Idle(model.cursor[k]) \in PollerType(Arrived)
    <3>1. model.cursor[k] \in Int
      BY ModelFacts
    <3>2. QED
      BY <3>1 DEF Idle, PollerType
  <2>2. QED
    BY <1>2, <2>1
<1>4. inbox' \in Seq(MessageType(Stored, Begun, Opened))
  BY <1>2
<1>5. QED
  BY <1>1, <1>3, <1>4 DEF Types

\* Every step of a poll keeps the types.
LEMMA TypesPoll ==
  ASSUME Types, AllPoll, NEW k \in Mechanisms, Poll(k) \/ RouteFails(k)
  PROVE  Types'
<1>1. /\ pollers[k] \in PollerType(Arrived) /\ Stored \in Nat /\ Begun \in Nat /\ Opened \in Nat
      /\ rows \in Seq(1..Arrived) /\ Len(rows) = Stored /\ dropped \subseteq 1..Arrived
  BY ModelFacts DEF Types, Stored
<1>2. pollers[k].batch \in Seq(1..Arrived) /\ pollers[k].next \in Int /\ Len(boxes[k]) \in Int
  <2>1. boxes[k] \in Seq(1..Arrived)
    BY DEF Types
  <2>2. Len(boxes[k]) \in Int
    BY <2>1
  <2>3. QED
    BY <1>1, <2>2, PollerFacts
<1>3. mails' = mails /\ boxes' = boxes /\ model' = model /\ anchor' = anchor /\ answers' = answers
  BY DEF Poll, Fetch, Route, Record, RouteFails, rest
<1>4. Polls(k)
  BY DEF AllPoll
<1>5. CASE Fetch(k)
  <2>1. rows' = rows /\ inbox' = inbox /\ dropped' = dropped
    BY <1>5 DEF Fetch
  <2>2. PICK batch :
          /\ Fetched(batch, pollers[k].state, boxes[k])
          /\ pollers' = [pollers EXCEPT ![k] =
                           [at |-> Pending(batch),
                            state |-> pollers[k].state, batch |-> batch, next |-> Len(boxes[k])]]
    BY <1>4, <1>5, FetchFacts DEF Pending
  <2>3. batch \in Seq(1..Arrived)
    BY <2>2 DEF Fetched
  <2>4. Pending(batch) \in {"fetch", "route", "routing", "record", "recording"}
    BY DEF Pending
  <2>5. pollers' \in [Mechanisms -> PollerType(Arrived)]
    BY <1>2, <2>2, <2>3, <2>4, MoveTyped
  <2>6. QED
    BY <1>1, <1>3, <2>1, <2>5, TypesRows
<1>6. CASE Route(k)
  <2>1. dropped' = dropped
    BY <1>6 DEF Route
  <2>2. /\ pollers[k].batch # <<>>
        /\ Stores(rows', Head(pollers[k].batch))
        /\ \E r \in DOMAIN rows' :
             /\ rows'[r] = Head(pollers[k].batch)
             /\ inbox' = Append(inbox, Message("route-email", r, 0, "", k))
        /\ pollers' = [pollers EXCEPT ![k] = At("routing", pollers[k], Tail(pollers[k].batch))]
    BY <1>4, <1>6, RouteFacts
  <2>3. Tail(pollers[k].batch) \in Seq(1..Arrived)
    BY <2>2, BatchFacts
  <2>4. pollers' \in [Mechanisms -> PollerType(Arrived)]
    <3>1. PICK q : q = At("routing", pollers[k], Tail(pollers[k].batch))
      OBVIOUS
    <3>2. q = [at |-> "routing", state |-> pollers[k].state,
               batch |-> Tail(pollers[k].batch), next |-> pollers[k].next]
      BY <3>1 DEF At
    <3>3. QED
      BY <1>2, <2>2, <2>3, <3>1, <3>2, MoveTyped
  <2>5. PICK rs : rs = rows'
    OBVIOUS
  <2>6. rs \in Seq(1..Arrived) /\ Stored <= Len(rs)
    BY <2>2, <2>5 DEF Stores
  <2>7. \E x \in MessageType(Len(rs), Begun, Opened) : inbox' = Append(inbox, x)
    <3>1. PICK r \in DOMAIN rs : inbox' = Append(inbox, Message("route-email", r, 0, "", k))
      BY <2>2, <2>5
    <3>2. r \in 1..Len(rs) /\ Len(rs) \in Nat
      BY <2>6
    <3>3. Message("route-email", r, 0, "", k) \in MessageType(Len(rs), Begun, Opened)
      BY <1>1, <3>2, MessagesTyped
    <3>4. QED
      BY <3>1, <3>3
  <2>8. dropped' \subseteq 1..Arrived
    BY <1>1, <2>1
  <2>9. QED
    BY <1>3, <2>4, <2>5, <2>6, <2>7, <2>8, TypesRows
<1>7. CASE RouteFails(k)
  <2>1. inbox' = inbox
    BY <1>7 DEF RouteFails
  <2>2. /\ pollers[k].batch # <<>>
        /\ rows' = rows \/ Stores(rows', Head(pollers[k].batch))
        /\ dropped' = dropped \cup {Head(pollers[k].batch)}
        /\ pollers' = [pollers EXCEPT ![k] =
                         At(Pending(Tail(pollers[k].batch)), pollers[k], Tail(pollers[k].batch))]
    BY <1>4, <1>7, RouteFailsFacts
  <2>3. Tail(pollers[k].batch) \in Seq(1..Arrived) /\ Head(pollers[k].batch) \in 1..Arrived
    BY <2>2, BatchFacts
  <2>4. pollers' \in [Mechanisms -> PollerType(Arrived)]
    <3>1. PICK at : at = Pending(Tail(pollers[k].batch))
      OBVIOUS
    <3>2. at \in {"fetch", "route", "routing", "record", "recording"}
      BY <3>1 DEF Pending
    <3>3. PICK q : q = At(at, pollers[k], Tail(pollers[k].batch))
      OBVIOUS
    <3>4. q = [at |-> at, state |-> pollers[k].state,
               batch |-> Tail(pollers[k].batch), next |-> pollers[k].next]
      BY <3>3 DEF At
    <3>5. QED
      BY <1>2, <2>2, <2>3, <3>1, <3>2, <3>3, <3>4, MoveTyped
  <2>5. PICK rs : rs = rows'
    OBVIOUS
  <2>6. rs \in Seq(1..Arrived) /\ Stored <= Len(rs)
    BY <1>1, <2>2, <2>5 DEF Stores
  <2>7. dropped' \subseteq 1..Arrived
    BY <1>1, <2>2, <2>3
  <2>8. QED
    BY <1>3, <2>1, <2>4, <2>5, <2>6, <2>7, TypesRows
<1>8. CASE Record(k)
  <2>1. rows' = rows /\ dropped' = dropped
    BY <1>8 DEF Record
  <2>2. /\ inbox' = Append(inbox, Message("record-poll-state", pollers[k].next, 0, "", k))
        /\ pollers' = [pollers EXCEPT ![k] = At("recording", pollers[k], pollers[k].batch)]
    BY <1>8, RecordFacts
  <2>3. pollers' \in [Mechanisms -> PollerType(Arrived)]
    <3>1. PICK q : q = At("recording", pollers[k], pollers[k].batch)
      OBVIOUS
    <3>2. q = [at |-> "recording", state |-> pollers[k].state,
               batch |-> pollers[k].batch, next |-> pollers[k].next]
      BY <3>1 DEF At
    <3>3. QED
      BY <1>2, <2>2, <3>1, <3>2, MoveTyped
  <2>4. Message("record-poll-state", pollers[k].next, 0, "", k)
          \in MessageType(Stored, Begun, Opened)
    BY <1>1, <1>2, MessagesTyped
  <2>5. PICK rs : rs = rows'
    OBVIOUS
  <2>6. rs \in Seq(1..Arrived) /\ Len(rs) = Stored /\ Stored <= Len(rs)
    BY <1>1, <2>1, <2>5
  <2>7. \E x \in MessageType(Len(rs), Begun, Opened) : inbox' = Append(inbox, x)
    BY <2>2, <2>4, <2>6
  <2>8. dropped' \subseteq 1..Arrived
    BY <1>1, <2>1
  <2>9. QED
    BY <1>3, <2>3, <2>5, <2>6, <2>7, <2>8, TypesRows
<1>9. QED
  BY <1>5, <1>6, <1>7, <1>8 DEF Poll

\* A cursor moves only to what its poller records.
LEMMA CursorFacts ==
  ASSUME Types, NEW m, NEW k \in Mechanisms
  PROVE  Update(model, m).cursor[k]
           = IF m.tag = "record-poll-state" /\ m.by = k THEN m.about ELSE model.cursor[k]
<1>1. model \in ModelType(Arrived, Stored, Begun, Opened) /\ model.cursor \in [Mechanisms -> Int]
  BY ModelFacts DEF Types
<1>2. CASE m.tag = "record-poll-state"
  <2>1. Update(model, m) = [model EXCEPT !.cursor[m.by] = m.about]
    BY <1>2 DEF Update
  <2>2. QED
    BY <1>1, <1>2, <2>1 DEF ModelType
<1>3. CASE m.tag \in {"append-to-task", "finish-task", "answer-ui-request"}
  BY <1>1, <1>3 DEF Update, AppendToTask, AnswerUIRequest, ModelType
<1>4. CASE m.tag \in {"agent-run-finished", "register-ui-request"}
  BY <1>1, <1>4 DEF Update, AgentRunFinished, RegisterUIRequest, ModelType
<1>5. CASE m.tag \in {"create-task", "spawn-agent-run", "finish-agent-run"}
  BY <1>1, <1>5 DEF Update, CreateTask, ModelType
<1>6. CASE m.tag \notin {"record-poll-state", "append-to-task", "finish-task", "answer-ui-request",
                         "agent-run-finished", "register-ui-request", "create-task",
                         "spawn-agent-run", "finish-agent-run"}
  BY <1>6 DEF Update
<1>7. QED
  BY <1>2, <1>3, <1>4, <1>5, <1>6

\* Nothing of its own on the channel, nothing to wait for.
LEMMA WaitedNone ==
  ASSUME NEW s, NEW k, NEW p, \A i \in DOMAIN s : s[i].by # k
  PROVE  Waited(p, k, s)
BY DEF Waited, Has, By

\* The one message of a poller taken from the channel.
LEMMA WaitedTaken ==
  ASSUME NEW s, NEW t, NEW k, NEW p, Waited(p, k, s), Less(t, s, 1), 1 \in DOMAIN s, s[1].by = k
  PROVE  \A i \in DOMAIN t : t[i].by # k
<1>1. PICK g \in [DOMAIN t -> DOMAIN s] :
        /\ \A j, l \in DOMAIN t : g[j] = g[l] => j = l
        /\ \A j \in DOMAIN t : t[j] = s[g[j]] /\ g[j] # 1
  BY DEF Less
<1>2. \A i, j \in DOMAIN s : s[i].by = k /\ s[j].by = k => i = j
  BY DEF Waited
<1>3. QED
  BY <1>1, <1>2

\* A reduce turn keeps every poller's place and what it waits for.
LEMMA PollsReduce ==
  ASSUME Types, AllPoll, Reduce, NEW k \in Mechanisms
  PROVE  Polls(k)'
<1>1. PICK m : m = Head(inbox)
  OBVIOUS
<1>2. /\ inbox # <<>> /\ model' = Update(model, m) /\ inbox' = Tail(inbox) \o Sends(model, m)
      /\ pollers' = [j \in Mechanisms |-> IF j = m.by THEN Returned(pollers[j]) ELSE pollers[j]]
      /\ anchor' = [j \in Mechanisms |-> IF m.tag = "record-poll-state" /\ j = m.by /\ anchor[j] = -1
                                         THEN m.about ELSE anchor[j]]
      /\ boxes' = boxes
  BY <1>1 DEF Reduce
<1>3. /\ m \in MessageType(Stored, Begun, Opened) /\ m = inbox[1] /\ 1 \in DOMAIN inbox
      /\ Tail(inbox) \in Seq(MessageType(Stored, Begun, Opened))
      /\ Less(Tail(inbox), inbox, 1)
      /\ inbox' = Tail(inbox) \/ \E x : Follows(x, m) /\ inbox' = Append(Tail(inbox), x)
  BY <1>1, <1>2, ReduceInbox
<1>4. PICK p \in PollerType(Arrived) : p = pollers[k]
  BY DEF Types
<1>5. PICK b, c, h, t : b = boxes[k] /\ c = model.cursor[k] /\ h = anchor[k] /\ t = Tail(inbox)
  OBVIOUS
<1>6. Placed(p, c, h, b) /\ Waited(p, k, inbox)
  BY <1>4, <1>5 DEF AllPoll, Polls
<1>7. k # ""
  BY InboundAssumption
<1>8. /\ inbox \in Seq(MessageType(Stored, Begun, Opened)) /\ c \in Int /\ h \in Int
      /\ b \in Seq(1..Arrived) /\ p.state \in Int /\ p.next \in Int
  BY <1>4, <1>5, ModelFacts DEF Types, PollerType
<1>9. model'.cursor[k] = IF m.tag = "record-poll-state" /\ m.by = k THEN m.about ELSE c
  BY <1>2, <1>5, CursorFacts
<1>10. anchor'[k] = IF m.tag = "record-poll-state" /\ k = m.by /\ h = -1 THEN m.about ELSE h
  BY <1>2, <1>5
<1>11. pollers'[k] = IF k = m.by THEN Returned(p) ELSE p
  BY <1>2, <1>4
<1>12. \A x : Follows(x, m) => x.by = ""
  BY <1>3, FollowsTyped
<1>13. CASE m.by # k
  <2>1. Placed(pollers'[k], model'.cursor[k], anchor'[k], boxes'[k])
    BY <1>2, <1>5, <1>6, <1>9, <1>10, <1>11, <1>13
  <2>2. Waited(p, k, t)
    BY <1>3, <1>5, <1>6, <1>8, WaitedKept
  <2>3. Waited(p, k, inbox')
    <3>1. CASE inbox' = t
      BY <2>2, <3>1
    <3>2. CASE \E x : Follows(x, m) /\ inbox' = Append(t, x)
      <4>1. PICK x : Follows(x, m) /\ inbox' = Append(t, x)
        BY <3>2
      <4>2. x.by # k
        BY <1>7, <1>12, <4>1
      <4>3. PICK S : S = MessageType(Stored, Begun, Opened) \cup {x}
        OBVIOUS
      <4>4. t \in Seq(S) /\ x \in S
        BY <1>3, <1>5, <4>3, SeqWider
      <4>5. QED
        BY <2>2, <4>1, <4>2, <4>4, WaitedKept
    <3>3. QED
      BY <1>3, <1>5, <3>1, <3>2
  <2>4. QED
    BY <1>11, <1>13, <2>1, <2>3 DEF Polls
<1>14. CASE m.by = k
  <2>1. \A i \in DOMAIN t : t[i].by # k
    BY <1>3, <1>5, <1>6, <1>14, WaitedTaken
  <2>2. PICK s : s = inbox'
    OBVIOUS
  <2>3. \A i \in DOMAIN s : s[i].by # k
    <3>1. CASE s = t
      BY <2>1, <3>1
    <3>2. CASE \E x : Follows(x, m) /\ s = Append(t, x)
      <4>1. PICK x : Follows(x, m) /\ s = Append(t, x)
        BY <3>2
      <4>2. x.by # k
        BY <1>7, <1>12, <4>1
      <4>3. PICK S : S = MessageType(Stored, Begun, Opened) \cup {x}
        OBVIOUS
      <4>4. t \in Seq(S) /\ x \in S
        BY <1>3, <1>5, <4>3, SeqWider
      <4>5. From(s, t, {x})
        BY <4>1, <4>4, FromFacts
      <4>6. QED
        BY <2>1, <4>2, <4>5 DEF From
    <3>3. QED
      BY <1>3, <1>5, <2>2, <3>1, <3>2
  <2>4. Waited(pollers'[k], k, inbox')
    <3>1. PICK q : q = pollers'[k]
      OBVIOUS
    <3>2. Waited(q, k, s)
      BY <2>3, WaitedNone
    <3>3. QED
      BY <2>2, <3>1, <3>2
  <2>5. m \in AnyMessage /\ m.tag \in {"route-email", "record-poll-state"}
    BY <1>3, <1>14 DEF MessageType, OfPoller
  <2>6. Placed(pollers'[k], model'.cursor[k], anchor'[k], boxes'[k])
    <3>1. CASE m.tag = "route-email"
      <4>1. m \in By("route-email", k)
        BY <1>14, <2>5, <3>1 DEF By
      <4>2. p.at = "routing"
        BY <1>3, <1>6, <4>1 DEF Waited, Has
      <4>3. pollers'[k] = Onward(p) /\ model'.cursor[k] = c /\ anchor'[k] = h /\ boxes'[k] = b
        BY <1>2, <1>5, <1>9, <1>10, <1>11, <1>14, <3>1, <4>2 DEF Returned
      <4>4. Placed(Onward(p), c, h, b)
        <5>1. PICK q : q = Onward(p)
          OBVIOUS
        <5>2. /\ q.batch = p.batch /\ q.state = p.state /\ q.next = p.next
              /\ q.at = IF p.batch # <<>> THEN "route" ELSE "record"
          BY <1>4, <5>1, PollerFacts
        <5>3. Placed(q, c, h, b)
          BY <1>6, <5>2 DEF Placed
        <5>4. QED
          BY <5>1, <5>3
      <4>5. QED
        BY <4>3, <4>4
    <3>2. CASE m.tag = "record-poll-state"
      <4>1. m \in By("record-poll-state", k)
        BY <1>14, <2>5, <3>2 DEF By
      <4>2. p.at = "recording" /\ m.about = p.next
        BY <1>3, <1>6, <4>1 DEF Waited, Has
      <4>3. PICK q : q = [p EXCEPT !.at = "fetch", !.state = p.next]
        OBVIOUS
      <4>4. /\ q.at = "fetch" /\ q.state = p.next /\ q.next = p.next /\ q.batch = p.batch
        BY <1>4, <4>3 DEF PollerType
      <4>5. /\ pollers'[k] = q /\ model'.cursor[k] = p.next /\ boxes'[k] = b
            /\ anchor'[k] = IF h = -1 THEN p.next ELSE h
        BY <1>2, <1>5, <1>9, <1>10, <1>11, <1>14, <3>2, <4>2, <4>3 DEF Returned
      <4>6. /\ p.batch = <<>> /\ -1 <= p.state /\ p.state <= p.next /\ p.next <= Len(b)
            /\ p.state = c /\ (0 <= h => 0 <= c)
        BY <1>6, <4>2 DEF Placed
      <4>7. -1 <= p.next /\ (0 <= h => 0 <= p.next)
        BY <1>8, <4>6
      <4>8. PICK g : g = IF h = -1 THEN p.next ELSE h
        OBVIOUS
      <4>9. 0 <= g => 0 <= p.next
        BY <1>8, <4>7, <4>8
      <4>10. Range(p.batch) = {} /\ DOMAIN p.batch = {}
        BY <4>6 DEF Range
      <4>11. p.next <= p.next
        BY <1>8
      <4>12. Placed(q, p.next, g, b)
        BY <4>4, <4>6, <4>7, <4>9, <4>10, <4>11 DEF Placed
      <4>13. QED
        BY <4>5, <4>8, <4>12
    <3>3. QED
      BY <2>5, <3>1, <3>2
  <2>7. QED
    BY <2>4, <2>6 DEF Polls
<1>15. QED
  BY <1>13, <1>14

\* A longer box holds the same mails at the same places.
LEMMA PlacedMore ==
  ASSUME NEW S, NEW b \in Seq(S), NEW x \in S, NEW p, NEW c, NEW h, Placed(p, c, h, b),
         p.next \in Int
  PROVE  Placed(p, c, h, Append(b, x))
<1>1. PICK d : d = Append(b, x)
  OBVIOUS
<1>2. PICK n \in Nat : n = Len(b)
  OBVIOUS
<1>3. /\ DOMAIN b = 1..n /\ DOMAIN d = 1..(n + 1) /\ Len(d) = n + 1
      /\ \A i \in 1..n : d[i] = b[i]
  BY <1>1, <1>2
<1>4. p.next <= n
  BY <1>2 DEF Placed
<1>5. p.next <= n + 1
  BY <1>4
<1>6. \A i \in 1..n : i \in 1..(n + 1)
  OBVIOUS
<1>7. ASSUME NEW y \in Range(p.batch)
      PROVE  \E q \in DOMAIN d : p.state < q /\ q <= p.next /\ y = d[q]
  <2>1. PICK q \in 1..n : p.state < q /\ q <= p.next /\ y = b[q]
    BY <1>3 DEF Placed
  <2>2. QED
    BY <1>3, <1>6, <2>1
<1>8. Placed(p, c, h, d)
  BY <1>3, <1>5, <1>7 DEF Placed
<1>9. QED
  BY <1>1, <1>8

\* A mail that arrives keeps every poller's place and what it waits for.
LEMMA PollsArrive ==
  ASSUME Types, AllPoll, NEW ks \in SUBSET Mechanisms, Arrive(ks), NEW k \in Mechanisms
  PROVE  Polls(k)'
<1>1. /\ boxes' = [j \in Mechanisms |-> IF j \in ks THEN Append(boxes[j], Len(mails')) ELSE boxes[j]]
      /\ model' = model /\ inbox' = inbox /\ pollers' = pollers /\ anchor' = anchor
  BY DEF Arrive
<1>2. PICK p, c, h, b, y : p = pollers[k] /\ c = model.cursor[k] /\ h = anchor[k] /\ b = boxes[k]
                            /\ y = Len(mails')
  OBVIOUS
<1>3. Placed(p, c, h, b) /\ Waited(p, k, inbox)
  BY <1>2 DEF AllPoll, Polls
<1>4. b \in Seq((1..Arrived) \cup {y}) /\ p.next \in Int
  <2>1. b \in Seq(1..Arrived) /\ p \in PollerType(Arrived)
    BY <1>2 DEF Types
  <2>2. QED
    BY <2>1, SeqWider DEF PollerType
<1>5. PICK S : S = (1..Arrived) \cup {y}
  OBVIOUS
<1>6. Placed(p, c, h, Append(b, y))
  BY <1>3, <1>4, <1>5, PlacedMore
<1>7. PICK d : d = boxes'[k]
  OBVIOUS
<1>8. d = b \/ d = Append(b, y)
  BY <1>1, <1>2, <1>7
<1>9. Placed(p, c, h, d)
  BY <1>3, <1>6, <1>8
<1>10. QED
  BY <1>1, <1>2, <1>3, <1>7, <1>9 DEF Polls

\* What is only posted keeps every poller's place and what it waits for.
LEMMA PollsPosted ==
  ASSUME Types, AllPoll, NEW x, Posted(x), NEW k \in Mechanisms
  PROVE  Polls(k)'
<1>1. /\ boxes' = boxes /\ model' = model /\ pollers' = pollers /\ anchor' = anchor
      /\ inbox' = Append(inbox, x) /\ x \in MessageType(Stored, Begun, Opened) /\ x.by # k
      /\ inbox \in Seq(MessageType(Stored, Begun, Opened))
  BY InboundAssumption DEF Posted, outside, Types
<1>2. PICK p : p = pollers[k]
  OBVIOUS
<1>3. Waited(p, k, inbox) /\ Placed(p, model.cursor[k], anchor[k], boxes[k])
  BY <1>2 DEF AllPoll, Polls
<1>4. Waited(p, k, inbox')
  BY <1>1, <1>3, WaitedKept
<1>5. QED
  BY <1>1, <1>2, <1>3, <1>4 DEF Polls

\* A restart keeps every poller's place and what it waits for.
LEMMA PollsRestart ==
  ASSUME Types, AllPoll, Restart, NEW k \in Mechanisms
  PROVE  Polls(k)'
<1>1. /\ boxes' = boxes /\ model' = model /\ anchor' = anchor /\ inbox' = <<>>
      /\ pollers'[k] = Idle(model.cursor[k])
  BY DEF Restart
<1>2. PICK p, c, h, b : p = pollers[k] /\ c = model.cursor[k] /\ h = anchor[k] /\ b = boxes[k]
  OBVIOUS
<1>3. /\ p.state = c /\ -1 <= p.state /\ p.state <= p.next /\ p.next <= Len(b)
      /\ (0 <= h => 0 <= c)
  BY <1>2 DEF AllPoll, Polls, Placed
<1>4. c \in Int /\ p.next \in Int /\ Len(b) \in Nat
  <2>1. b \in Seq(1..Arrived) /\ p \in PollerType(Arrived) /\ c \in Int
    BY <1>2, ModelFacts DEF Types
  <2>2. QED
    BY <2>1 DEF PollerType
<1>5. -1 <= c /\ c <= Len(b) /\ c <= c
  BY <1>3, <1>4
<1>6. PICK q : q = Idle(c)
  OBVIOUS
<1>7. q.at = "fetch" /\ q.state = c /\ q.batch = <<>> /\ q.next = c
  BY <1>6 DEF Idle
<1>8. Range(q.batch) = {} /\ DOMAIN q.batch = {}
  BY <1>7 DEF Range
<1>9. Placed(q, c, h, b)
  BY <1>3, <1>5, <1>7, <1>8 DEF Placed
<1>10. Waited(q, k, <<>>)
  BY WaitedNone
<1>11. QED
  BY <1>1, <1>2, <1>6, <1>9, <1>10 DEF Polls

\* The types, and every poller's place, hold at first.
LEMMA PollsInit ==
  ASSUME Init
  PROVE  Types /\ AllPoll
<1>1. /\ mails = <<>> /\ boxes = [k \in Mechanisms |-> <<>>] /\ rows = <<>>
      /\ model = [tasks |-> <<>>, runs |-> <<>>, owed |-> {}, asked |-> {}, answered |-> {},
                  cursor |-> [k \in Mechanisms |-> -1]]
      /\ inbox = <<>> /\ pollers = [k \in Mechanisms |-> Idle(-1)]
      /\ anchor = [k \in Mechanisms |-> -1] /\ dropped = {} /\ answers = <<>>
  BY DEF Init
<1>2. Idle(-1) \in PollerType(Arrived)
  BY DEF Idle, PollerType
<1>3. model \in ModelType(Arrived, Stored, Begun, Opened)
  BY <1>1 DEF ModelType
<1>4. Types
  BY <1>1, <1>2, <1>3 DEF Types
<1>5. ASSUME NEW k \in Mechanisms PROVE Polls(k)
  <2>1. PICK q : q = Idle(-1)
    OBVIOUS
  <2>2. q.at = "fetch" /\ q.state = -1 /\ q.batch = <<>> /\ q.next = -1
    BY <2>1 DEF Idle
  <2>3. Range(q.batch) = {} /\ DOMAIN q.batch = {}
    BY <2>2 DEF Range
  <2>4. Placed(q, -1, -1, <<>>)
    BY <2>2, <2>3 DEF Placed
  <2>5. Waited(q, k, <<>>)
    BY WaitedNone
  <2>6. pollers[k] = q /\ model.cursor[k] = -1 /\ anchor[k] = -1 /\ boxes[k] = <<>> /\ inbox = <<>>
    BY <1>1, <2>1
  <2>7. QED
    BY <2>4, <2>5, <2>6 DEF Polls
<1>6. QED
  BY <1>4, <1>5 DEF AllPoll

\* A poller's own step leaves the others waiting for what they waited for.
LEMMA PollsOthers ==
  ASSUME Types, AllPoll, NEW j \in Mechanisms, Poll(j) \/ RouteFails(j),
         NEW k \in Mechanisms, k # j
  PROVE  Polls(k)'
<1>1. boxes' = boxes /\ model' = model /\ anchor' = anchor
  BY DEF Poll, Fetch, Route, Record, RouteFails, rest
<1>2. \/ inbox' = inbox
      \/ \E r : inbox' = Append(inbox, Message("route-email", r, 0, "", j))
      \/ \E i : inbox' = Append(inbox, Message("record-poll-state", i, 0, "", j))
  BY DEF Poll, Fetch, Route, Record, RouteFails
<1>3. pollers' = [pollers EXCEPT ![j] = pollers'[j]] /\ pollers \in [Mechanisms -> PollerType(Arrived)]
  BY DEF Poll, Fetch, Route, Record, RouteFails, Waits, Types
<1>4. PICK p : p = pollers[k]
  OBVIOUS
<1>5. pollers'[k] = p
  BY <1>3, <1>4
<1>6. Waited(p, k, inbox) /\ Placed(p, model.cursor[k], anchor[k], boxes[k])
  BY <1>4 DEF AllPoll, Polls
<1>7. Waited(p, k, inbox')
  <2>1. CASE inbox' = inbox
    BY <1>6, <2>1
  <2>2. ASSUME NEW x, x.by = j, inbox' = Append(inbox, x) PROVE Waited(p, k, inbox')
    <3>1. PICK S : S = MessageType(Stored, Begun, Opened) \cup {x}
      OBVIOUS
    <3>2. inbox \in Seq(S) /\ x \in S
      BY <3>1, SeqWider DEF Types
    <3>3. QED
      BY <1>6, <2>2, <3>2, WaitedKept
  <2>3. CASE \E r : inbox' = Append(inbox, Message("route-email", r, 0, "", j))
    <3>1. PICK r : inbox' = Append(inbox, Message("route-email", r, 0, "", j))
      BY <2>3
    <3>2. Message("route-email", r, 0, "", j).by = j
      BY DEF Message
    <3>3. QED
      BY <2>2, <3>1, <3>2
  <2>4. CASE \E i : inbox' = Append(inbox, Message("record-poll-state", i, 0, "", j))
    <3>1. PICK i : inbox' = Append(inbox, Message("record-poll-state", i, 0, "", j))
      BY <2>4
    <3>2. Message("record-poll-state", i, 0, "", j).by = j
      BY DEF Message
    <3>3. QED
      BY <2>2, <3>1, <3>2
  <2>5. QED
    BY <1>2, <2>1, <2>3, <2>4
<1>8. QED
  BY <1>1, <1>4, <1>5, <1>6, <1>7 DEF Polls

\* A poller's own step: what it fetches is in its box, and it sends only when it
\* does not wait.
LEMMA PollsPoll ==
  ASSUME Types, AllPoll, NEW k \in Mechanisms, Poll(k) \/ RouteFails(k)
  PROVE  Polls(k)'
<1>1. boxes' = boxes /\ model' = model /\ anchor' = anchor
  BY DEF Poll, Fetch, Route, Record, RouteFails, rest
<1>2. Polls(k)
  BY DEF AllPoll
<1>3. PICK p, c, h, b : p = pollers[k] /\ c = model.cursor[k] /\ h = anchor[k] /\ b = boxes[k]
  OBVIOUS
<1>4. Placed(p, c, h, b) /\ Waited(p, k, inbox)
  BY <1>2, <1>3 DEF Polls
<1>5. /\ pollers \in [Mechanisms -> PollerType(Arrived)]
      /\ p.state \in Int /\ p.next \in Int /\ b \in Seq(1..Arrived) /\ Len(b) \in Nat /\ c \in Int
      /\ DOMAIN b = 1..Len(b) /\ inbox \in Seq(MessageType(Stored, Begun, Opened))
  <2>1. p \in PollerType(Arrived) /\ b \in Seq(1..Arrived)
    BY <1>3 DEF Types
  <2>2. p.state \in Int /\ p.next \in Int
    BY <2>1 DEF PollerType
  <2>3. Len(b) \in Nat /\ DOMAIN b = 1..Len(b)
    BY <2>1
  <2>4. QED
    BY <1>3, <2>1, <2>2, <2>3, ModelFacts DEF Types
<1>6. p.at \notin {"routing", "recording"} => \A i \in DOMAIN inbox : inbox[i].by # k
  BY <1>2, <1>3, Unwaited
<1>7. ASSUME NEW q, pollers' = [pollers EXCEPT ![k] = q], Placed(q, c, h, b), Waited(q, k, inbox')
      PROVE  Polls(k)'
  <2>1. pollers'[k] = q
    BY <1>5, <1>7
  <2>2. QED
    BY <1>1, <1>3, <1>7, <2>1 DEF Polls
<1>8. /\ p.state = c /\ -1 <= p.state /\ p.state <= p.next /\ p.next <= Len(b)
      /\ (0 <= h => 0 <= c)
      /\ \A i, j \in DOMAIN p.batch : p.batch[i] = p.batch[j] => i = j
      /\ \A x \in Range(p.batch) : \E q \in DOMAIN b : p.state < q /\ q <= p.next /\ x = b[q]
  BY <1>4 DEF Placed
<1>9. CASE Fetch(k)
  <2>1. inbox' = inbox /\ p.at = "fetch"
    BY <1>3, <1>9 DEF Fetch, Poller
  <2>2. PICK batch :
          /\ Fetched(batch, p.state, b)
          /\ pollers' = [pollers EXCEPT ![k] =
                           [at |-> Pending(batch), state |-> p.state, batch |-> batch,
                            next |-> Len(b)]]
    BY <1>2, <1>3, <1>9, FetchFacts DEF Pending
  <2>3. PICK q : q = [at |-> Pending(batch), state |-> p.state, batch |-> batch, next |-> Len(b)]
    OBVIOUS
  <2>4. q.at = Pending(batch) /\ q.state = p.state /\ q.batch = batch /\ q.next = Len(b)
    BY <2>3
  <2>5. /\ Pending(batch) = "route" => batch # <<>>
        /\ Pending(batch) = "record" => batch = <<>>
        /\ Pending(batch) \in {"route", "record"}
    BY DEF Pending
  <2>6. p.state <= Len(b) /\ Len(b) <= Len(b) /\ \A i \in DOMAIN b : i <= Len(b)
    BY <1>5, <1>8
  <2>7. \A x \in Range(batch) : \E i \in DOMAIN b : p.state < i /\ i <= Len(b) /\ x = b[i]
    BY <2>2, <2>6 DEF Fetched
  <2>8. \A i, j \in DOMAIN batch : batch[i] = batch[j] => i = j
    BY <2>2 DEF Fetched
  <2>9. Placed(q, c, h, b)
    BY <1>8, <2>4, <2>5, <2>6, <2>7, <2>8 DEF Placed
  <2>10. Waited(q, k, inbox')
    BY <1>6, <2>1, WaitedNone
  <2>11. QED
    BY <1>7, <2>2, <2>3, <2>9, <2>10
<1>10. CASE Route(k)
  <2>1. p.at = "route"
    BY <1>3, <1>10 DEF Route, Poller
  <2>2. /\ p.batch # <<>>
        /\ \E r \in DOMAIN rows' : inbox' = Append(inbox, Message("route-email", r, 0, "", k))
        /\ pollers' = [pollers EXCEPT ![k] = At("routing", p, Tail(p.batch))]
    BY <1>2, <1>3, <1>10, RouteFacts
  <2>3. PICK r : inbox' = Append(inbox, Message("route-email", r, 0, "", k))
    BY <2>2
  <2>4. PICK q : q = At("routing", p, Tail(p.batch))
    OBVIOUS
  <2>5. q.at = "routing" /\ q.state = p.state /\ q.batch = Tail(p.batch) /\ q.next = p.next
    BY <2>4 DEF At
  <2>6. /\ \A x \in Range(Tail(p.batch)) : x \in Range(p.batch)
        /\ \A i, j \in DOMAIN Tail(p.batch) : Tail(p.batch)[i] = Tail(p.batch)[j] => i = j
    BY <1>3, <1>8, <2>2, BatchFacts
  <2>7. Placed(q, c, h, b)
    BY <1>8, <2>5, <2>6 DEF Placed
  <2>8. Waited(q, k, inbox')
    <3>1. PICK x : x = Message("route-email", r, 0, "", k)
      OBVIOUS
    <3>2. x.tag = "route-email" /\ x.by = k /\ x \notin By("record-poll-state", k)
      BY <3>1 DEF Message, By
    <3>3. PICK S : S = MessageType(Stored, Begun, Opened) \cup {x}
      OBVIOUS
    <3>4. inbox \in Seq(S) /\ x \in S
      BY <1>5, <3>3, SeqWider
    <3>5. \A i \in DOMAIN inbox : inbox[i].by # k
      BY <1>6, <2>1
    <3>6. Waited(q, k, Append(inbox, x))
      BY <2>5, <3>2, <3>4, <3>5, WaitedSends
    <3>7. QED
      BY <2>3, <3>1, <3>6
  <2>9. QED
    BY <1>7, <2>2, <2>4, <2>7, <2>8
<1>11. CASE RouteFails(k)
  <2>1. p.at = "route" /\ inbox' = inbox
    BY <1>3, <1>11 DEF RouteFails, Poller
  <2>2. /\ p.batch # <<>>
        /\ pollers' = [pollers EXCEPT ![k] = At(Pending(Tail(p.batch)), p, Tail(p.batch))]
    BY <1>2, <1>3, <1>11, RouteFailsFacts
  <2>3. PICK t : t = Tail(p.batch)
    OBVIOUS
  <2>4. PICK q : q = At(Pending(t), p, t)
    OBVIOUS
  <2>5. q.at = Pending(t) /\ q.state = p.state /\ q.batch = t /\ q.next = p.next
    BY <2>4 DEF At
  <2>6. /\ Pending(t) = "route" => t # <<>>
        /\ Pending(t) = "record" => t = <<>>
        /\ Pending(t) \in {"route", "record"}
    BY DEF Pending
  <2>7. /\ \A x \in Range(t) : x \in Range(p.batch)
        /\ \A i, j \in DOMAIN t : t[i] = t[j] => i = j
    BY <1>3, <1>8, <2>2, <2>3, BatchFacts
  <2>8. Placed(q, c, h, b)
    BY <1>8, <2>5, <2>6, <2>7 DEF Placed
  <2>9. Waited(q, k, inbox')
    BY <1>6, <2>1, WaitedNone
  <2>10. QED
    BY <1>7, <2>2, <2>3, <2>4, <2>8, <2>9
<1>12. CASE Record(k)
  <2>1. p.at = "record"
    BY <1>3, <1>12 DEF Record, Poller
  <2>2. /\ inbox' = Append(inbox, Message("record-poll-state", p.next, 0, "", k))
        /\ pollers' = [pollers EXCEPT ![k] = At("recording", p, p.batch)]
    BY <1>3, <1>12, RecordFacts
  <2>3. PICK q : q = At("recording", p, p.batch)
    OBVIOUS
  <2>4. q.at = "recording" /\ q.state = p.state /\ q.batch = p.batch /\ q.next = p.next
    BY <2>3 DEF At
  <2>5. p.batch = <<>>
    BY <1>4, <2>1 DEF Placed
  <2>6. Placed(q, c, h, b)
    BY <1>8, <2>4, <2>5 DEF Placed
  <2>7. Waited(q, k, inbox')
    <3>1. PICK x : x = Message("record-poll-state", p.next, 0, "", k)
      OBVIOUS
    <3>2. /\ x.tag = "record-poll-state" /\ x.by = k /\ x.about = p.next
          /\ x \notin By("route-email", k)
      BY <3>1 DEF Message, By
    <3>3. PICK S : S = MessageType(Stored, Begun, Opened) \cup {x}
      OBVIOUS
    <3>4. inbox \in Seq(S) /\ x \in S
      BY <1>5, <3>3, SeqWider
    <3>5. \A i \in DOMAIN inbox : inbox[i].by # k
      BY <1>6, <2>1
    <3>6. Waited(q, k, Append(inbox, x))
      BY <2>4, <3>2, <3>4, <3>5, WaitedSends
    <3>7. QED
      BY <2>2, <3>1, <3>6
  <2>8. QED
    BY <1>7, <2>2, <2>3, <2>6, <2>7
<1>13. QED
  BY <1>9, <1>10, <1>11, <1>12 DEF Poll

\* Every step keeps the types and leaves every poller where it may be.
LEMMA StepTyped ==
  ASSUME Types, AllPoll, [Next]_vars
  PROVE  Types' /\ AllPoll'
<1>1. CASE Reduce
  <2>1. Types' /\ \A k \in Mechanisms : Polls(k)'
    BY <1>1, TypesReduce, PollsReduce
  <2>2. QED
    BY <2>1 DEF AllPoll
<1>2. ASSUME NEW ks \in SUBSET Mechanisms, Arrive(ks) PROVE Types' /\ AllPoll'
  <2>1. Types' /\ \A k \in Mechanisms : Polls(k)'
    BY <1>2, TypesArrive, PollsArrive
  <2>2. QED
    BY <2>1 DEF AllPoll
<1>3. ASSUME NEW j \in Mechanisms, Poll(j) \/ RouteFails(j) PROVE Types' /\ AllPoll'
  <2>1. Types'
    BY <1>3, TypesPoll
  <2>2. ASSUME NEW k \in Mechanisms PROVE Polls(k)'
    <3>1. CASE k = j
      BY <1>3, <3>1, PollsPoll
    <3>2. CASE k # j
      BY <1>3, <3>2, PollsOthers
    <3>3. QED
      BY <3>1, <3>2
  <2>3. QED
    BY <2>1, <2>2 DEF AllPoll
<1>4. ASSUME NEW x, Posted(x), answers' = answers \/ \E t \in 1..Opened : answers' = Append(answers, t)
      PROVE  Types' /\ AllPoll'
  <2>1. Types' /\ \A k \in Mechanisms : Polls(k)'
    BY <1>4, TypesPosted, PollsPosted
  <2>2. QED
    BY <2>1 DEF AllPoll
<1>5. ASSUME NEW r \in DOMAIN model.runs, NEW how \in Outcomes, EndRun(r, how)
      PROVE  Types' /\ AllPoll'
  BY <1>4, <1>5, EndRunFacts
<1>6. ASSUME NEW r \in model.owed, Mint(r) PROVE Types' /\ AllPoll'
  BY <1>4, <1>6, MintFacts
<1>7. ASSUME NEW r \in model.asked, Answer(r) PROVE Types' /\ AllPoll'
  BY <1>4, <1>7, AnswerFacts
<1>8. ASSUME NEW t \in DOMAIN model.tasks, FinishTask(t) PROVE Types' /\ AllPoll'
  BY <1>4, <1>8, FinishFacts
<1>9. CASE Restart
  <2>1. Types' /\ \A k \in Mechanisms : Polls(k)'
    BY <1>9, TypesRestart, PollsRestart
  <2>2. QED
    BY <2>1 DEF AllPoll
<1>10. CASE UNCHANGED vars
  <2>1. Types' <=> Types
    BY <1>10 DEF vars, Types, Arrived, Stored, Begun, Opened
  <2>2. AllPoll' <=> AllPoll
    BY <1>10 DEF vars, AllPoll, Polls
  <2>3. QED
    BY <2>1, <2>2
<1>11. QED
  BY <1>1, <1>2, <1>3, <1>5, <1>6, <1>7, <1>8, <1>9, <1>10 DEF Next, Ends

-----------------------------------------------------------------------------
(***************************************************************************)
(* Runs and their forms.                                                   *)
(***************************************************************************)
\* On the channel about run r: its end, what tasks hears of it, its form and the
\* form's answer.
About(tags, r) == {m \in AnyMessage : m.tag \in tags /\ m.about = r}
Finishing(r) == About({"finish-agent-run"}, r)
Telling(r) == About({"agent-run-finished"}, r)
Registering(r) == About({"register-ui-request"}, r)
Answering(r) == About({"answer-ui-request"}, r)

\* A run ends once, tasks hears of it once, and only then is a form owed for it,
\* until it is registered; only a registered form is answered.  The runs over, the
\* forms owed, asked and answered are E, O, A and D.
RunEnds(s, r, E, O, A, D) ==
  /\ Once(s, Finishing(r)) /\ Once(s, Telling(r))
  /\ Has(s, Finishing(r)) => r \notin E
  /\ Has(s, Telling(r)) => r \in E /\ r \notin O /\ r \notin A
  /\ Has(s, Registering(r)) => r \in O \/ r \in A
  /\ Has(s, Answering(r)) => r \in A
  /\ r \in O \/ r \in A => r \in E
  /\ ~(r \in O /\ r \in A)
  /\ r \in D => r \in A

Over(u) == {r \in DOMAIN u.runs : u.runs[r].over}
Forms == \A r \in Nat :
           RunEnds(inbox, r, Over(model), model.owed, model.asked, model.answered)

\* What a handler does to the runs and the forms.
Changes(u, m) ==
  /\ u.owed = IF m.tag = "agent-run-finished" /\ m.how = "request" THEN model.owed \cup {m.about}
              ELSE IF m.tag = "register-ui-request" THEN model.owed \ {m.about} ELSE model.owed
  /\ u.asked = IF m.tag = "register-ui-request" THEN model.asked \cup {m.about} ELSE model.asked
  /\ u.answered = IF m.tag = "answer-ui-request" THEN model.answered \cup {m.about}
                  ELSE model.answered
  /\ u.runs = IF m.tag = "spawn-agent-run"
              THEN Append(model.runs, [task |-> m.task, over |-> FALSE])
              ELSE IF m.tag = "finish-agent-run"
              THEN [model.runs EXCEPT ![m.about].over = TRUE] ELSE model.runs

\* What the update half of every message does to the runs and the forms.
LEMMA ChangesFacts ==
  ASSUME Types, NEW m
  PROVE  Changes(Update(model, m), m)
<1>1. model \in ModelType(Arrived, Stored, Begun, Opened)
  BY DEF Types
<1>2. CASE m.tag = "create-task"
  BY <1>1, <1>2 DEF Update, CreateTask, ModelType, Changes
<1>3. CASE m.tag = "append-to-task"
  BY <1>1, <1>3 DEF Update, AppendToTask, ModelType, Changes
<1>4. CASE m.tag = "agent-run-finished"
  BY <1>1, <1>4 DEF Update, AgentRunFinished, ModelType, Changes
<1>5. CASE m.tag = "register-ui-request"
  BY <1>1, <1>5 DEF Update, RegisterUIRequest, ModelType, Changes
<1>6. CASE m.tag = "answer-ui-request"
  BY <1>1, <1>6 DEF Update, AnswerUIRequest, ModelType, Changes
<1>7. CASE m.tag = "finish-task"
  BY <1>1, <1>7 DEF Update, ModelType, Changes
<1>8. CASE m.tag = "spawn-agent-run"
  BY <1>1, <1>8 DEF Update, ModelType, Changes
<1>9. CASE m.tag = "finish-agent-run"
  BY <1>1, <1>9 DEF Update, ModelType, Changes
<1>10. CASE m.tag = "record-poll-state"
  BY <1>1, <1>10 DEF Update, ModelType, Changes
<1>11. CASE m.tag \notin {"create-task", "append-to-task", "agent-run-finished",
                          "register-ui-request", "answer-ui-request", "finish-task",
                          "spawn-agent-run", "finish-agent-run", "record-poll-state"}
  BY <1>1, <1>11 DEF Update, Changes
<1>12. QED
  BY <1>2, <1>3, <1>4, <1>5, <1>6, <1>7, <1>8, <1>9, <1>10, <1>11

\* A run is over only when its end is applied.
LEMMA OverFacts ==
  ASSUME Types, NEW m \in MessageType(Stored, Begun, Opened), NEW u, Changes(u, m)
  PROVE  \A r : r \in Over(u) <=> r \in Over(model) \/ (m.tag = "finish-agent-run" /\ r = m.about)
<1>1. PICK rs \in Seq(RunType(Opened)) : rs = model.runs
  BY ModelFacts
<1>2. PICK n \in Nat : n = Len(rs)
  OBVIOUS
<1>3. DOMAIN rs = 1..n /\ n = Begun
  BY <1>1, <1>2 DEF Begun
<1>4. CASE m.tag = "spawn-agent-run"
  <2>1. PICK x : x = [task |-> m.task, over |-> FALSE]
    OBVIOUS
  <2>2. PICK t : t = Append(rs, x)
    OBVIOUS
  <2>3. ~x.over /\ u.runs = t
    BY <1>1, <1>4, <2>1, <2>2 DEF Changes
  <2>4. /\ DOMAIN t = 1..(n + 1) /\ t[n + 1] = x
        /\ \A i \in 1..n : t[i] = rs[i] /\ i \in 1..(n + 1)
        /\ \A i \in 1..(n + 1) : i \in 1..n \/ i = n + 1
    <3>1. rs \in Seq(RunType(Opened) \cup {x}) /\ x \in RunType(Opened) \cup {x}
      BY <1>1, SeqWider
    <3>2. PICK S : S = RunType(Opened) \cup {x}
      OBVIOUS
    <3>3. QED
      BY <1>2, <1>3, <2>2, <3>1, <3>2
  <2>5. QED
    BY <1>1, <1>3, <1>4, <2>3, <2>4 DEF Over
<1>5. CASE m.tag = "finish-agent-run"
  <2>1. m.about \in 1..n
    BY <1>3, <1>5, MessageFacts, ModelFacts DEF OfRun
  <2>2. rs[m.about] \in RunType(Opened)
    BY <1>3, <2>1
  <2>3. PICK x : x = [rs[m.about] EXCEPT !.over = TRUE]
    OBVIOUS
  <2>4. x \in RunType(Opened) /\ x.over
    BY <2>2, <2>3 DEF RunType
  <2>5. PICK t : t = [rs EXCEPT ![m.about] = x]
    OBVIOUS
  <2>6. u.runs = t
    BY <1>1, <1>5, <2>3, <2>5 DEF Changes
  <2>7. DOMAIN t = DOMAIN rs /\ \A j \in DOMAIN rs : t[j] = IF j = m.about THEN x ELSE rs[j]
    BY <1>3, <2>1, <2>5
  <2>8. QED
    BY <1>1, <1>3, <1>5, <2>1, <2>4, <2>6, <2>7 DEF Over
<1>6. CASE m.tag \notin {"spawn-agent-run", "finish-agent-run"}
  BY <1>6 DEF Changes, Over
<1>7. QED
  BY <1>4, <1>5, <1>6

\* Taking messages away keeps the runs and the forms in order, and so does one
\* that is not about the run.
LEMMA EndsKept ==
  ASSUME NEW S, NEW s \in Seq(S), NEW r, NEW E, NEW O, NEW A, NEW D, RunEnds(s, r, E, O, A, D)
  PROVE  /\ \A t, i : Less(t, s, i) => RunEnds(t, r, E, O, A, D)
         /\ \A x \in S : x \notin About(OfRun, r) => RunEnds(Append(s, x), r, E, O, A, D)
<1>1. ASSUME NEW t, NEW i, Less(t, s, i) PROVE RunEnds(t, r, E, O, A, D)
  BY <1>1, LessHas DEF RunEnds
<1>2. ASSUME NEW x \in S, x \notin About(OfRun, r) PROVE RunEnds(Append(s, x), r, E, O, A, D)
  <2>1. x \notin Finishing(r) /\ x \notin Telling(r) /\ x \notin Registering(r) /\ x \notin Answering(r)
    BY <1>2 DEF About, Finishing, Telling, Registering, Answering, OfRun
  <2>2. QED
    BY <2>1, AppendHas DEF RunEnds
<1>3. QED
  BY <1>1, <1>2

\* A reduce turn keeps the ends and the forms of every run in step.
LEMMA FormsReduce ==
  ASSUME Types, Forms, Reduce
  PROVE  Forms'
<1>1. PICK m : m = Head(inbox)
  OBVIOUS
<1>2. PICK t : t = Tail(inbox)
  OBVIOUS
<1>3. PICK E, O, A, D : E = Over(model) /\ O = model.owed /\ A = model.asked /\ D = model.answered
  OBVIOUS
<1>4. PICK u : u = model'
  OBVIOUS
<1>5. PICK F, P, B, C : F = Over(u) /\ P = u.owed /\ B = u.asked /\ C = u.answered
  OBVIOUS
<1>6. u = Update(model, m) /\ inbox # <<>> /\ inbox' = Tail(inbox) \o Sends(model, m)
  BY <1>1, <1>4 DEF Reduce
<1>7. /\ m \in MessageType(Stored, Begun, Opened) /\ m = inbox[1] /\ 1 \in DOMAIN inbox
      /\ t \in Seq(MessageType(Stored, Begun, Opened))
      /\ Less(t, inbox, 1)
      /\ inbox' = t \/ \E x : Follows(x, m) /\ inbox' = Append(t, x)
  BY <1>1, <1>2, <1>6, ReduceInbox
<1>8. Changes(u, m)
  BY <1>6, ChangesFacts
<1>9. /\ \A r : r \in F <=> r \in E \/ (m.tag = "finish-agent-run" /\ r = m.about)
      /\ P = IF m.tag = "agent-run-finished" /\ m.how = "request" THEN O \cup {m.about}
             ELSE IF m.tag = "register-ui-request" THEN O \ {m.about} ELSE O
      /\ B = IF m.tag = "register-ui-request" THEN A \cup {m.about} ELSE A
      /\ C = IF m.tag = "answer-ui-request" THEN D \cup {m.about} ELSE D
  <2>1. \A r : r \in F <=> r \in E \/ (m.tag = "finish-agent-run" /\ r = m.about)
    BY <1>3, <1>5, <1>7, <1>8, OverFacts
  <2>2. QED
    BY <1>3, <1>5, <1>8, <2>1 DEF Changes
<1>10. inbox \in Seq(MessageType(Stored, Begun, Opened)) /\ m \in AnyMessage
  BY <1>7 DEF Types, MessageType
<1>11. ASSUME NEW r \in Nat PROVE RunEnds(inbox', r, F, P, B, C)
  <2>1. RunEnds(inbox, r, E, O, A, D)
    BY <1>3 DEF Forms
  <2>2. RunEnds(t, r, E, O, A, D)
    BY <1>7, <1>10, <2>1, EndsKept
  <2>3. \A x : Follows(x, m) => x \notin About(OfRun, r) \/ (m.tag = "finish-agent-run" /\ m.about = r)
    <3>1. ASSUME NEW x, Follows(x, m), x \in About(OfRun, r)
          PROVE  m.tag = "finish-agent-run" /\ m.about = r
      <4>1. x.tag \in OfRun /\ x.about = r
        BY <3>1 DEF About
      <4>2. CASE m.tag = "route-email"
        <5>1. \/ x = Message("create-task", m.about, 0, "", "")
              \/ \E v \in 1..Opened : x = Message("append-to-task", m.about, v, "", "")
          BY <3>1, <4>2 DEF Follows
        <5>2. x.tag \in {"create-task", "append-to-task"}
          <6>1. CASE x = Message("create-task", m.about, 0, "", "")
            BY <6>1 DEF Message
          <6>2. CASE \E v \in 1..Opened : x = Message("append-to-task", m.about, v, "", "")
            <7>1. PICK v : x = Message("append-to-task", m.about, v, "", "")
              BY <6>2
            <7>2. QED
              BY <7>1 DEF Message
          <6>3. QED
            BY <5>1, <6>1, <6>2
        <5>3. QED
          BY <4>1, <5>2 DEF OfRun
      <4>3. CASE m.tag = "finish-agent-run"
        <5>1. x = Message("agent-run-finished", m.about, m.task, m.how, "")
          BY <3>1, <4>3 DEF Follows
        <5>2. QED
          BY <4>1, <4>3, <5>1 DEF Message
      <4>4. CASE m.tag \notin {"route-email", "finish-agent-run"}
        <5>1. \/ x = Message("spawn-agent-run", 0, Opened + 1, "", "")
              \/ x = Message("spawn-agent-run", 0, m.task, "", "")
          <6>1. Follows(x, m) /\ m.tag # "route-email" /\ m.tag # "finish-agent-run"
            BY <3>1, <4>4
          <6>2. QED
            BY <6>1, Zenon DEF Follows
        <5>2. \A v : Message("spawn-agent-run", 0, v, "", "").tag = "spawn-agent-run"
          BY DEF Message
        <5>3. x.tag = "spawn-agent-run"
          BY <5>1, <5>2
        <5>4. QED
          BY <4>1, <5>3 DEF OfRun
      <4>5. QED
        BY <4>2, <4>3, <4>4
    <3>2. QED
      BY <3>1
  <2>4. CASE m.tag = "finish-agent-run" /\ m.about = r
    <3>1. m \in Finishing(r)
      BY <1>10, <2>4 DEF Finishing, About
    <3>2. Has(inbox, Finishing(r)) /\ ~Has(t, Finishing(r))
      BY <1>7, <2>1, <3>1, LessHas DEF RunEnds, Has
    <3>3. r \notin E /\ ~Has(t, Telling(r)) /\ r \notin O /\ r \notin A
      BY <2>1, <2>2, <3>2 DEF RunEnds
    <3>4. r \in F /\ P = O /\ B = A /\ C = D
      BY <1>9, <2>4
    <3>5. RunEnds(t, r, F, P, B, C)
      BY <2>2, <3>2, <3>3, <3>4 DEF RunEnds
    <3>6. CASE inbox' = t
      BY <3>5, <3>6
    <3>7. CASE \E x : Follows(x, m) /\ inbox' = Append(t, x)
      <4>1. PICK x : Follows(x, m) /\ inbox' = Append(t, x)
        BY <3>7
      <4>2. x = Message("agent-run-finished", m.about, m.task, m.how, "")
        BY <2>4, <4>1 DEF Follows
      <4>3. x \notin Finishing(r) /\ x \notin Registering(r) /\ x \notin Answering(r)
        BY <4>2 DEF Message, Finishing, Registering, Answering, About
      <4>4. PICK S : S = MessageType(Stored, Begun, Opened) \cup {x}
        OBVIOUS
      <4>5. t \in Seq(S) /\ x \in S
        BY <1>7, <4>4, SeqWider
      <4>6. PICK y : y = Append(t, x)
        OBVIOUS
      <4>7. /\ Once(y, Telling(r)) /\ ~Has(y, Finishing(r)) /\ Once(y, Finishing(r))
            /\ Has(y, Registering(r)) <=> Has(t, Registering(r))
            /\ Has(y, Answering(r)) <=> Has(t, Answering(r))
        BY <2>2, <3>2, <3>3, <4>3, <4>5, <4>6, AppendHas DEF RunEnds
      <4>8. RunEnds(y, r, F, P, B, C)
        BY <3>3, <3>4, <3>5, <4>7 DEF RunEnds
      <4>9. QED
        BY <4>1, <4>6, <4>8
    <3>8. QED
      BY <1>7, <3>6, <3>7
  <2>5. CASE ~(m.tag = "finish-agent-run" /\ m.about = r)
    <3>1. r \in F <=> r \in E
      BY <1>9, <2>5
    <3>2. RunEnds(t, r, F, P, B, C)
      <4>1. CASE m.tag = "agent-run-finished" /\ m.about = r
        <5>1. m \in Telling(r)
          BY <1>10, <4>1 DEF Telling, About
        <5>2. Has(inbox, Telling(r)) /\ ~Has(t, Telling(r))
          BY <1>7, <2>1, <5>1, LessHas DEF RunEnds, Has
        <5>3. r \in E /\ r \notin A
          BY <2>1, <5>2 DEF RunEnds
        <5>4. B = A /\ C = D /\ (r \in O => r \in P)
          BY <1>9, <4>1
        <5>5. ~Has(t, Finishing(r)) /\ r \in F
          BY <2>2, <3>1, <5>3 DEF RunEnds
        <5>6. QED
          BY <2>2, <5>2, <5>3, <5>4, <5>5 DEF RunEnds
      <4>2. CASE m.tag = "register-ui-request" /\ m.about = r
        <5>1. m \in Registering(r)
          BY <1>10, <4>2 DEF Registering, About
        <5>2. Has(inbox, Registering(r))
          BY <1>7, <5>1 DEF Has
        <5>3. r \in E
          BY <2>1, <5>2 DEF RunEnds
        <5>4. ~Has(t, Telling(r))
          BY <1>7, <2>1, <5>2, LessHas DEF RunEnds
        <5>5. r \in B /\ r \notin P /\ C = D
          BY <1>9, <4>2
        <5>6. r \in F
          BY <3>1, <5>3
        <5>7. QED
          BY <2>2, <5>3, <5>4, <5>5, <5>6 DEF RunEnds
      <4>3. CASE m.tag = "answer-ui-request" /\ m.about = r
        <5>1. m \in Answering(r)
          BY <1>10, <4>3 DEF Answering, About
        <5>2. Has(inbox, Answering(r))
          BY <1>7, <5>1 DEF Has
        <5>3. r \in A
          BY <2>1, <5>2 DEF RunEnds
        <5>4. B = A /\ P = O
          BY <1>9, <4>3
        <5>5. QED
          BY <2>2, <3>1, <5>3, <5>4 DEF RunEnds
      <4>4. CASE ~(m.about = r /\ m.tag \in {"agent-run-finished", "register-ui-request",
                                              "answer-ui-request"})
        <5>1. (r \in P <=> r \in O) /\ (r \in B <=> r \in A) /\ (r \in C <=> r \in D)
          BY <1>9, <4>4
        <5>2. QED
          BY <2>2, <3>1, <5>1 DEF RunEnds
      <4>5. QED
        BY <4>1, <4>2, <4>3, <4>4
    <3>3. CASE inbox' = t
      BY <3>2, <3>3
    <3>4. CASE \E x : Follows(x, m) /\ inbox' = Append(t, x)
      <4>1. PICK x : Follows(x, m) /\ inbox' = Append(t, x)
        BY <3>4
      <4>2. x \notin About(OfRun, r)
        BY <2>3, <2>5, <4>1
      <4>3. PICK S : S = MessageType(Stored, Begun, Opened) \cup {x}
        OBVIOUS
      <4>4. t \in Seq(S) /\ x \in S
        BY <1>7, <4>3, SeqWider
      <4>5. QED
        BY <3>2, <4>1, <4>2, <4>4, EndsKept
    <3>5. QED
      BY <1>7, <3>3, <3>4
  <2>6. QED
    BY <2>4, <2>5
<1>12. QED
  BY <1>4, <1>5, <1>11 DEF Forms

\* A message from outside: a run that goes on ends, an owed form is registered, a
\* registered one answered.
LEMMA FormsPosted ==
  ASSUME Types, Forms, NEW x, Posted(x), \A r \in Nat :
           /\ x \in Finishing(r) => r \notin Over(model) /\ ~Has(inbox, Finishing(r))
           /\ x \notin Telling(r)
           /\ x \in Registering(r) => r \in model.owed
           /\ x \in Answering(r) => r \in model.asked
  PROVE  Forms'
<1>1. model' = model /\ inbox' = Append(inbox, x) /\ x \in MessageType(Stored, Begun, Opened)
      /\ inbox \in Seq(MessageType(Stored, Begun, Opened))
  BY DEF Posted, outside, Types
<1>2. PICK E, O, A, D : E = Over(model) /\ O = model.owed /\ A = model.asked /\ D = model.answered
  OBVIOUS
<1>3. PICK y : y = Append(inbox, x)
  OBVIOUS
<1>4. ASSUME NEW r \in Nat PROVE RunEnds(y, r, E, O, A, D)
  <2>1. RunEnds(inbox, r, E, O, A, D)
    BY <1>2 DEF Forms
  <2>2. /\ Once(y, Finishing(r)) /\ Once(y, Telling(r))
        /\ Has(y, Finishing(r)) => Has(inbox, Finishing(r)) \/ x \in Finishing(r)
        /\ Has(y, Telling(r)) => Has(inbox, Telling(r))
        /\ Has(y, Registering(r)) => Has(inbox, Registering(r)) \/ x \in Registering(r)
        /\ Has(y, Answering(r)) => Has(inbox, Answering(r)) \/ x \in Answering(r)
    <3>1. /\ Once(inbox, Finishing(r)) /\ Once(inbox, Telling(r))
          /\ x \notin Telling(r) /\ (x \in Finishing(r) => ~Has(inbox, Finishing(r)))
      BY <2>1 DEF RunEnds
    <3>2. PICK S : S = MessageType(Stored, Begun, Opened)
      OBVIOUS
    <3>3. inbox \in Seq(S) /\ x \in S
      BY <1>1, <3>2
    <3>4. \A K : /\ Has(y, K) <=> Has(inbox, K) \/ x \in K
                 /\ Once(inbox, K) /\ (x \notin K \/ ~Has(inbox, K)) => Once(y, K)
      BY <1>3, <3>3, AppendHas
    <3>5. QED
      BY <3>1, <3>4
  <2>3. QED
    BY <1>2, <2>1, <2>2 DEF RunEnds
<1>5. QED
  BY <1>1, <1>2, <1>3, <1>4 DEF Forms, Over

\* Every step keeps the runs and the forms in order.
LEMMA FormsStep ==
  ASSUME Types, AllPoll, Forms, [Next]_vars
  PROVE  Forms'
<1>1. ASSUME NEW x, Posted(x), NEW g, x.about = g, x \in AnyMessage,
             /\ x.tag = "finish-agent-run" => g \notin Over(model) /\ ~Has(inbox, Finishing(g))
             /\ x.tag # "agent-run-finished"
             /\ x.tag = "register-ui-request" => g \in model.owed
             /\ x.tag = "answer-ui-request" => g \in model.asked
      PROVE  Forms'
  <2>1. ASSUME NEW r \in Nat
        PROVE  /\ x \in Finishing(r) => r \notin Over(model) /\ ~Has(inbox, Finishing(r))
               /\ x \notin Telling(r)
               /\ x \in Registering(r) => r \in model.owed
               /\ x \in Answering(r) => r \in model.asked
    BY <1>1 DEF Finishing, Telling, Registering, Answering, About
  <2>2. QED
    BY <1>1, <2>1, FormsPosted
<1>2. ASSUME NEW x, Posted(x) PROVE x \in AnyMessage
  BY <1>2 DEF Posted, MessageType
<1>3. CASE Reduce
  BY <1>3, FormsReduce
<1>4. ASSUME NEW ks \in SUBSET Mechanisms, Arrive(ks) PROVE Forms'
  <2>1. inbox' = inbox /\ model' = model
    BY <1>4 DEF Arrive
  <2>2. QED
    BY <2>1 DEF Forms, Over
<1>5. ASSUME NEW j \in Mechanisms, Poll(j) \/ RouteFails(j) PROVE Forms'
  <2>1. model' = model
    BY <1>5 DEF Poll, Fetch, Route, Record, RouteFails, rest
  <2>2. \/ inbox' = inbox
        \/ \E x : inbox' = Append(inbox, x) /\ x.tag \in OfPoller
    <3>1. \A r : Message("route-email", r, 0, "", j).tag \in OfPoller
      BY DEF Message, OfPoller
    <3>2. \A i : Message("record-poll-state", i, 0, "", j).tag \in OfPoller
      BY DEF Message, OfPoller
    <3>3. \/ inbox' = inbox
          \/ \E r : inbox' = Append(inbox, Message("route-email", r, 0, "", j))
          \/ \E i : inbox' = Append(inbox, Message("record-poll-state", i, 0, "", j))
      BY <1>5 DEF Poll, Fetch, Route, Record, RouteFails
    <3>4. QED
      BY <3>1, <3>2, <3>3
  <2>3. PICK E, O, A, D : E = Over(model) /\ O = model.owed /\ A = model.asked /\ D = model.answered
    OBVIOUS
  <2>4. ASSUME NEW r \in Nat PROVE RunEnds(inbox', r, E, O, A, D)
    <3>1. RunEnds(inbox, r, E, O, A, D)
      BY <2>3 DEF Forms
    <3>2. CASE \E x : inbox' = Append(inbox, x) /\ x.tag \in OfPoller
      <4>1. PICK x : inbox' = Append(inbox, x) /\ x.tag \in OfPoller
        BY <3>2
      <4>2. x \notin About(OfRun, r)
        BY <4>1 DEF About, OfPoller, OfRun
      <4>3. PICK S : S = MessageType(Stored, Begun, Opened) \cup {x}
        OBVIOUS
      <4>4. inbox \in Seq(S) /\ x \in S
        BY <4>3, SeqWider DEF Types
      <4>5. QED
        BY <3>1, <4>1, <4>2, <4>4, EndsKept
    <3>3. QED
      BY <2>2, <3>1, <3>2
  <2>5. QED
    BY <2>1, <2>3, <2>4 DEF Forms, Over
<1>6. ASSUME NEW r \in DOMAIN model.runs, NEW how \in Outcomes, EndRun(r, how) PROVE Forms'
  <2>1. PICK x : x = Message("finish-agent-run", r, TaskOf(r), how, "")
    OBVIOUS
  <2>2. Posted(x) /\ x.tag = "finish-agent-run" /\ x.about = r
    BY <1>6, <2>1, EndRunFacts DEF Message
  <2>3. r \notin Over(model) /\ ~Has(inbox, Finishing(r))
    BY <1>6 DEF EndRun, Over, OnChannel, Has, Finishing, About
  <2>4. QED
    BY <1>1, <1>2, <2>2, <2>3
<1>7. ASSUME NEW r \in model.owed, Mint(r) PROVE Forms'
  <2>1. PICK x : x = Message("register-ui-request", r, TaskOf(r), "", "")
    OBVIOUS
  <2>2. Posted(x) /\ x.tag = "register-ui-request" /\ x.about = r
    BY <1>7, <2>1, MintFacts DEF Message
  <2>3. QED
    BY <1>1, <1>2, <2>2
<1>8. ASSUME NEW r \in model.asked, Answer(r) PROVE Forms'
  <2>1. PICK x : x = Message("answer-ui-request", r, TaskOf(r), "", "")
    OBVIOUS
  <2>2. Posted(x) /\ x.tag = "answer-ui-request" /\ x.about = r
    BY <1>8, <2>1, AnswerFacts DEF Message
  <2>3. QED
    BY <1>1, <1>2, <2>2
<1>9. ASSUME NEW t \in DOMAIN model.tasks, FinishTask(t) PROVE Forms'
  <2>1. PICK x : x = Message("finish-task", 0, t, "", "")
    OBVIOUS
  <2>2. Posted(x) /\ x.tag = "finish-task" /\ x.about = 0
    BY <1>9, <2>1, FinishFacts DEF Message
  <2>3. QED
    BY <1>1, <1>2, <2>2
<1>10. CASE Restart
  <2>1. inbox' = <<>> /\ model' = model
    BY <1>10 DEF Restart
  <2>2. \A K : ~Has(<<>>, K) /\ Once(<<>>, K)
    BY DEF Has, Once
  <2>3. QED
    BY <2>1, <2>2 DEF Forms, RunEnds, Over
<1>11. CASE UNCHANGED vars
  BY <1>11 DEF vars, Forms, Over
<1>12. QED
  BY <1>3, <1>4, <1>5, <1>6, <1>7, <1>8, <1>9, <1>10, <1>11 DEF Next, Ends

\* At first there are no runs.
LEMMA FormsInit ==
  ASSUME Init
  PROVE  Forms
<1>1. inbox = <<>> /\ model.runs = <<>> /\ model.owed = {} /\ model.asked = {} /\ model.answered = {}
  BY DEF Init
<1>2. \A K : ~Has(<<>>, K) /\ Once(<<>>, K)
  BY DEF Has, Once
<1>3. QED
  BY <1>1, <1>2 DEF Forms, RunEnds

\* What the types, the pollers and the forms together say of the model.
LEMMA AllTyped ==
  ASSUME Types, AllPoll, Forms
  PROVE  TypeOK
<1>1. ASSUME NEW k \in Mechanisms
      PROVE  /\ pollers[k].at \in {"fetch", "route", "routing", "record", "recording"}
             /\ model.cursor[k] \in -1..Len(boxes[k]) /\ pollers[k].next \in -1..Len(boxes[k])
  <2>1. pollers[k] \in PollerType(Arrived) /\ boxes[k] \in Seq(1..Arrived)
    BY DEF Types
  <2>2. PICK p, b : p = pollers[k] /\ b = boxes[k]
    OBVIOUS
  <2>3. /\ p.at \in {"fetch", "route", "routing", "record", "recording"}
        /\ p.state \in Int /\ p.next \in Int /\ Len(b) \in Nat
    BY <2>1, <2>2 DEF PollerType
  <2>4. p.state = model.cursor[k] /\ -1 <= p.state /\ p.state <= p.next /\ p.next <= Len(b)
    BY <2>2 DEF AllPoll, Polls, Placed
  <2>5. p.state \in -1..Len(b) /\ p.next \in -1..Len(b)
    BY <2>3, <2>4
  <2>6. QED
    BY <2>2, <2>3, <2>4, <2>5
<1>2. ASSUME NEW t \in Tasks
      PROVE  /\ model.tasks[t].status \in Status
             /\ Range(model.tasks[t].rows) \subseteq DOMAIN rows
             /\ model.tasks[t].refs \subseteq (DOMAIN mails) \cup {-r : r \in DOMAIN model.runs}
  <2>1. PICK x : x = model.tasks[t]
    OBVIOUS
  <2>2. x \in TaskType(Arrived, Stored, Begun)
    BY <2>1, ModelFacts DEF Tasks
  <2>3. x.status \in Status /\ x.rows \in Seq(1..Stored) /\ x.refs \subseteq Refs(Arrived, Begun)
    BY <2>2 DEF TaskType
  <2>4. Range(x.rows) \subseteq 1..Stored
    BY <2>3, RangeFacts
  <2>5. DOMAIN rows = 1..Stored /\ DOMAIN mails = 1..Arrived /\ DOMAIN model.runs = 1..Begun
    BY ModelFacts
  <2>6. QED
    BY <2>1, <2>3, <2>4, <2>5 DEF Refs
<1>3. model.owed \cup model.asked \subseteq DOMAIN model.runs /\ model.answered \subseteq 1..Begun
      /\ model.asked \subseteq 1..Begun /\ 1..Begun \subseteq Nat
  BY ModelFacts
<1>4. model.owed \cap model.asked = {} /\ model.answered \subseteq model.asked
  BY <1>3 DEF Forms, RunEnds
<1>5. QED
  BY <1>1, <1>2, <1>3, <1>4 DEF TypeOK

\* The types, the pollers' places and the runs' forms hold throughout.
LEMMA Kept ==
  Spec => [](Types /\ AllPoll /\ Forms)
<1>1. Init => Types /\ AllPoll /\ Forms
  BY PollsInit, FormsInit
<1>2. Types /\ AllPoll /\ Forms /\ [Next]_vars => (Types /\ AllPoll /\ Forms)'
  BY StepTyped, FormsStep
<1>3. QED
  BY <1>1, <1>2, PTL DEF Spec

\* Whatever is sent, applied, lost or repeated, every part of the state is what it
\* may be: a cursor stays within its mailbox, a task's thread holds mails that
\* arrived and replies to runs that were, and a form is owed until it is
\* registered, not after, and answered only then.
THEOREM TypeCorrect ==
  Spec => []TypeOK
<1>1. Types /\ AllPoll /\ Forms => TypeOK
  BY AllTyped
<1>2. QED
  BY <1>1, Kept, PTL

-----------------------------------------------------------------------------
(***************************************************************************)
(* Turns.                                                                  *)
(***************************************************************************)
\* What a handler does to the tasks: a mail taken in counts a turn, unless the
\* guard trips.
Tasked(u, m) ==
  /\ \A t \in 1..Opened :
       /\ u.tasks[t].turns = IF m.tag = "append-to-task" /\ m.task = t /\ ~Refuses(model.tasks[t])
                             THEN model.tasks[t].turns + 1 ELSE model.tasks[t].turns
       /\ u.tasks[t].rows = IF /\ m.tag = "append-to-task" /\ m.task = t
                               /\ model.tasks[t].status # "paused"
                            THEN Append(model.tasks[t].rows, m.about) ELSE model.tasks[t].rows
  /\ m.tag = "create-task" =>
       u.tasks[Opened + 1].turns = 1 /\ u.tasks[Opened + 1].rows = <<m.about>>

\* What the update half of every message does to the tasks.
LEMMA TaskedFacts ==
  ASSUME Types, NEW m \in MessageType(Stored, Begun, Opened)
  PROVE  Tasked(Update(model, m), m)
<1>1. /\ model \in ModelType(Arrived, Stored, Begun, Opened) /\ Opened \in Nat /\ Stored \in Nat
      /\ Begun \in Nat /\ Opened = Len(model.tasks)
      /\ model.tasks \in Seq(TaskType(Arrived, Stored, Begun)) /\ DOMAIN model.tasks = 1..Opened
  BY ModelFacts DEF Types, Opened
<1>2. PICK T : T = TaskType(Arrived, Stored, Begun)
  OBVIOUS
<1>3. PICK ts \in Seq(T) : ts = model.tasks
  BY <1>1, <1>2
<1>4. PICK u : u = Update(model, m)
  OBVIOUS
<1>5. Opened + 1 \notin 1..Opened /\ Opened + 1 \in 1..(Opened + 1) /\ \A i \in 1..Opened : i # Opened + 1
  BY <1>1
<1>6. CASE m.tag = "create-task"
  <2>1. PICK x : x = [status |-> "awaiting-agent", people |-> People(Mail(m.about)),
                      refs |-> {rows[m.about]}, rows |-> <<m.about>>, turns |-> 1]
    OBVIOUS
  <2>2. x.turns = 1 /\ x.rows = <<m.about>>
    BY <2>1
  <2>3. u.tasks = Append(ts, x)
    BY <1>1, <1>3, <1>4, <1>6, <2>1 DEF Update, CreateTask, ModelType
  <2>4. /\ Append(ts, x)[Opened + 1] = x /\ \A i \in 1..Opened : Append(ts, x)[i] = ts[i]
    <3>1. PICK S : S = T \cup {x}
      OBVIOUS
    <3>2. ts \in Seq(S) /\ x \in S /\ Len(ts) = Opened
      BY <1>1, <1>3, <3>1, SeqWider
    <3>3. QED
      BY <1>1, <3>2
  <2>5. QED
    BY <1>3, <1>4, <1>6, <2>2, <2>3, <2>4 DEF Tasked
<1>7. CASE m.tag \in {"append-to-task", "agent-run-finished", "register-ui-request",
                      "answer-ui-request", "finish-task"}
  <2>1. m.task \in 1..Opened
    BY <1>1, <1>7, MessageFacts DEF OfTask, OfRun
  <2>2. PICK x \in T : x = ts[m.task]
    BY <1>1, <1>3, <2>1
  <2>3. \E y : /\ u.tasks = [ts EXCEPT ![m.task] = y]
               /\ y.turns = IF m.tag = "append-to-task" /\ ~Refuses(x) THEN x.turns + 1 ELSE x.turns
               /\ y.rows = IF m.tag = "append-to-task" /\ x.status # "paused"
                           THEN Append(x.rows, m.about) ELSE x.rows
    <3>1. CASE m.tag = "append-to-task"
      <4> DEFINE y == CASE x.status = "paused" -> x
                        [] x.status # "paused" /\ Trips(x) ->
                             [Threaded(x, m.about) EXCEPT !.status = "paused"]
                        [] ~Refuses(x) ->
                             [Threaded(x, m.about) EXCEPT
                                !.people = @ \cup People(Mail(m.about)),
                                !.status = "awaiting-agent", !.turns = @ + 1]
      <4>1. u.tasks = [ts EXCEPT ![m.task] = y]
        BY <1>1, <1>3, <1>4, <2>2, <3>1 DEF Update, AppendToTask, ModelType
      <4>2. PICK z : z = Threaded(x, m.about)
        OBVIOUS
      <4>3. /\ z = [status |-> x.status, people |-> x.people, refs |-> x.refs \cup {rows[m.about]},
                    rows |-> Append(x.rows, m.about), turns |-> x.turns]
        BY <1>2, <2>2, <4>2 DEF Threaded, TaskType
      <4>4. CASE x.status = "paused"
        <5>1. y = x /\ Refuses(x)
          BY <4>4 DEF Refuses
        <5> HIDE DEF y
        <5>2. QED
          BY <3>1, <4>1, <4>4, <5>1
      <4>5. CASE x.status # "paused" /\ Trips(x)
        <5>1. y = [z EXCEPT !.status = "paused"] /\ Refuses(x)
          BY <4>2, <4>5 DEF Refuses
        <5> HIDE DEF y
        <5>2. y.turns = x.turns /\ y.rows = Append(x.rows, m.about)
          BY <4>3, <5>1
        <5>3. QED
          BY <3>1, <4>1, <4>5, <5>1, <5>2
      <4>6. CASE ~Refuses(x)
        <5>1. y = [z EXCEPT !.people = @ \cup People(Mail(m.about)),
                            !.status = "awaiting-agent", !.turns = @ + 1] /\ x.status # "paused"
          BY <4>2, <4>6 DEF Refuses
        <5> HIDE DEF y
        <5>2. y.turns = x.turns + 1 /\ y.rows = Append(x.rows, m.about)
          BY <4>3, <5>1
        <5>3. QED
          BY <3>1, <4>1, <4>6, <5>1, <5>2
      <4>7. QED
        BY <4>4, <4>5, <4>6 DEF Refuses
    <3>2. CASE m.tag = "agent-run-finished"
      <4> DEFINE y == [x EXCEPT !.status = "awaiting-user",
                                !.refs = IF m.how = "reply" THEN @ \cup {-m.about} ELSE @]
      <4>1. u = [model EXCEPT !.tasks[m.task].status = "awaiting-user",
                              !.tasks[m.task].refs = IF m.how = "reply" THEN @ \cup {-m.about} ELSE @,
                              !.owed = IF m.how = "request" THEN @ \cup {m.about} ELSE @]
        BY <1>4, <3>2 DEF Update, AgentRunFinished
      <4>2. u.tasks = [ts EXCEPT ![m.task] = y]
        BY <1>1, <1>2, <1>3, <2>1, <2>2, <4>1 DEF ModelType, TaskType
      <4>3. y.turns = x.turns /\ y.rows = x.rows
        BY <1>2, <2>2 DEF TaskType
      <4> HIDE DEF y
      <4>4. QED
        BY <3>2, <4>2, <4>3
    <3>3. CASE m.tag = "register-ui-request"
      <4> DEFINE y == [x EXCEPT !.status = "awaiting-user", !.refs = @ \cup {-m.about}]
      <4>1. u.tasks = [ts EXCEPT ![m.task] = y]
        BY <1>1, <1>2, <1>3, <1>4, <2>1, <2>2, <3>3 DEF Update, RegisterUIRequest, ModelType, TaskType
      <4>2. y.turns = x.turns /\ y.rows = x.rows
        BY <1>2, <2>2 DEF TaskType
      <4> HIDE DEF y
      <4>3. QED
        BY <3>3, <4>1, <4>2
    <3>4. CASE m.tag = "answer-ui-request"
      <4> DEFINE y == [x EXCEPT !.status = "awaiting-agent"]
      <4>1. u.tasks = [ts EXCEPT ![m.task] = y]
        BY <1>1, <1>2, <1>3, <1>4, <2>1, <2>2, <3>4 DEF Update, AnswerUIRequest, ModelType, TaskType
      <4>2. y.turns = x.turns /\ y.rows = x.rows
        BY <1>2, <2>2 DEF TaskType
      <4> HIDE DEF y
      <4>3. QED
        BY <3>4, <4>1, <4>2
    <3>5. CASE m.tag = "finish-task"
      <4> DEFINE y == [x EXCEPT !.status = "done"]
      <4>1. u.tasks = [ts EXCEPT ![m.task] = y]
        BY <1>1, <1>2, <1>3, <1>4, <2>1, <2>2, <3>5 DEF Update, ModelType, TaskType
      <4>2. y.turns = x.turns /\ y.rows = x.rows
        BY <1>2, <2>2 DEF TaskType
      <4> HIDE DEF y
      <4>3. QED
        BY <3>5, <4>1, <4>2
    <3>6. QED
      BY <1>7, <3>1, <3>2, <3>3, <3>4, <3>5
  <2>4. PICK y : /\ u.tasks = [ts EXCEPT ![m.task] = y]
                 /\ y.turns = IF m.tag = "append-to-task" /\ ~Refuses(x) THEN x.turns + 1 ELSE x.turns
                 /\ y.rows = IF m.tag = "append-to-task" /\ x.status # "paused"
                             THEN Append(x.rows, m.about) ELSE x.rows
    BY <2>3
  <2>5. \A t \in 1..Opened : u.tasks[t] = IF t = m.task THEN y ELSE ts[t]
    BY <1>1, <1>3, <2>1, <2>4
  <2>6. m.tag # "create-task"
    BY <1>7
  <2>7. Tasked(u, m)
    BY <1>3, <2>2, <2>4, <2>5, <2>6 DEF Tasked
  <2>8. QED
    BY <1>4, <2>7
<1>8. CASE m.tag \in {"route-email", "spawn-agent-run", "finish-agent-run", "record-poll-state"}
  <2>1. u.tasks = model.tasks
    BY <1>1, <1>4, <1>8 DEF Update, ModelType
  <2>2. m.tag # "append-to-task" /\ m.tag # "create-task"
    BY <1>8
  <2>3. QED
    BY <1>4, <2>1, <2>2 DEF Tasked
<1>9. m.tag \in OfRow \cup OfTask \cup OfPoller
  BY <1>1, MessageFacts
<1>10. QED
  BY <1>6, <1>7, <1>8, <1>9 DEF OfRow, OfTask, OfRun, OfPoller

\* A task's runs and the messages that ask for more; they are never more than its
\* turns and the humans' answers together, and its turns no more than the guard.
RunOf(t) == [task : {t}, over : BOOLEAN]
Calls(t) == {m \in AnyMessage : m.tag \in {"spawn-agent-run", "answer-ui-request"} /\ m.task = t}
TaskCalls(t) ==
  /\ Number(model.runs, RunOf(t)) + Number(inbox, Calls(t))
       <= model.tasks[t].turns + Number(answers, {t})
  /\ LoopGuard > 0 => model.tasks[t].turns <= LoopGuard
Called == \A t \in 1..Opened : TaskCalls(t)

\* What a handler sends asks for a run where it took a turn, opened a task or
\* applied an answer.
LEMMA FollowsCalls ==
  ASSUME Types, NEW m \in MessageType(Stored, Begun, Opened), NEW x, Follows(x, m), NEW t \in Nat,
         x \in Calls(t)
  PROVE  \/ m.tag = "create-task" /\ t = Opened + 1
         \/ m.tag = "append-to-task" /\ m.task = t /\ ~Refuses(model.tasks[t])
         \/ m.tag = "answer-ui-request" /\ m.task = t
<1>1. x.tag \in {"spawn-agent-run", "answer-ui-request"} /\ x.task = t
  BY DEF Calls
<1>2. CASE m.tag = "route-email"
  <2>1. x = Message("create-task", m.about, 0, "", "")
          \/ \E v \in 1..Opened : x = Message("append-to-task", m.about, v, "", "")
    BY <1>2 DEF Follows
  <2>2. /\ \A r : Message("create-task", r, 0, "", "").tag = "create-task"
        /\ \A r, v : Message("append-to-task", r, v, "", "").tag = "append-to-task"
    BY DEF Message
  <2>3. x.tag \in {"create-task", "append-to-task"}
    BY <2>1, <2>2
  <2>4. QED
    BY <1>1, <2>3
<1>3. CASE m.tag = "create-task"
  <2>1. x = Message("spawn-agent-run", 0, Opened + 1, "", "")
    BY <1>3 DEF Follows
  <2>2. QED
    BY <1>1, <1>3, <2>1 DEF Message
<1>4. CASE m.tag \in {"append-to-task", "answer-ui-request"}
  <2>1. x = Message("spawn-agent-run", 0, m.task, "", "")
    BY <1>4 DEF Follows
  <2>2. m.task = t
    BY <1>1, <2>1 DEF Message
  <2>3. m.tag = "append-to-task" => ~Refuses(model.tasks[t])
    BY <2>2 DEF Follows
  <2>4. QED
    BY <1>4, <2>2, <2>3
<1>5. CASE m.tag = "finish-agent-run"
  <2>1. x = Message("agent-run-finished", m.about, m.task, m.how, "")
    BY <1>5 DEF Follows
  <2>2. QED
    BY <1>1, <2>1 DEF Message
<1>6. QED
  BY <1>2, <1>3, <1>4, <1>5 DEF Follows

\* A run more of its task, a run that is over: the runs of a task are one more or
\* as many as before.
LEMMA RunsCounted ==
  ASSUME Types, NEW m \in MessageType(Stored, Begun, Opened), NEW u, Changes(u, m), NEW t \in Nat
  PROVE  Number(u.runs, RunOf(t))
           = IF m.tag = "spawn-agent-run" /\ m.task = t THEN Number(model.runs, RunOf(t)) + 1
             ELSE Number(model.runs, RunOf(t))
<1>1. PICK rs \in Seq(RunType(Opened)) : rs = model.runs
  BY ModelFacts
<1>2. DOMAIN rs = 1..Begun
  BY <1>1, ModelFacts
<1>3. CASE m.tag = "spawn-agent-run"
  <2>1. PICK x : x = [task |-> m.task, over |-> FALSE]
    OBVIOUS
  <2>2. m.task \in 1..Opened
    BY <1>3, MessageFacts, ModelFacts DEF OfTask
  <2>3. x \in RunType(Opened) /\ (x \in RunOf(t) <=> m.task = t)
    BY <2>1, <2>2 DEF RunType, RunOf
  <2>4. u.runs = Append(rs, x)
    BY <1>1, <1>3, <2>1 DEF Changes
  <2>5. Number(u.runs, RunOf(t)) = IF x \in RunOf(t) THEN Number(rs, RunOf(t)) + 1
                                   ELSE Number(rs, RunOf(t))
    BY <1>1, <2>3, <2>4, NumberAppend
  <2>6. QED
    BY <1>1, <1>3, <2>3, <2>5
<1>4. CASE m.tag = "finish-agent-run"
  <2>1. m.about \in 1..Begun
    BY <1>4, MessageFacts, ModelFacts DEF OfRun
  <2>2. rs[m.about] \in RunType(Opened)
    <3>1. PICK S : S = RunType(Opened)
      OBVIOUS
    <3>2. rs \in Seq(S) /\ m.about \in DOMAIN rs
      BY <1>2, <2>1, <3>1
    <3>3. QED
      BY <3>1, <3>2
  <2>3. PICK x : x = [rs[m.about] EXCEPT !.over = TRUE]
    OBVIOUS
  <2>4. x \in RunOf(t) <=> rs[m.about] \in RunOf(t)
    <3>1. PICK y \in RunType(Opened) : y = rs[m.about]
      BY <2>2
    <3>2. x = [task |-> y.task, over |-> TRUE] /\ y.over \in BOOLEAN
      BY <2>3, <3>1 DEF RunType
    <3>3. x \in RunOf(t) <=> y.task = t
      BY <3>2 DEF RunOf
    <3>4. y \in RunOf(t) <=> y.task = t
      BY <3>1 DEF RunOf, RunType
    <3>5. QED
      BY <3>1, <3>3, <3>4
  <2>5. PICK v : v = [rs EXCEPT ![m.about] = x]
    OBVIOUS
  <2>6. u.runs = v
    BY <1>1, <1>4, <2>3, <2>5 DEF Changes
  <2>7. DOMAIN v = DOMAIN rs /\ \A i \in DOMAIN rs : v[i] \in RunOf(t) <=> rs[i] \in RunOf(t)
    BY <1>2, <2>1, <2>4, <2>5
  <2>8. Number(v, RunOf(t)) = Number(rs, RunOf(t))
    BY <2>7, NumberSame
  <2>9. QED
    BY <1>1, <1>4, <2>6, <2>8
<1>5. CASE m.tag \notin {"spawn-agent-run", "finish-agent-run"}
  BY <1>5 DEF Changes
<1>6. QED
  BY <1>3, <1>4, <1>5

\* A reduce turn keeps a task's runs and calls within its turns and answers.
LEMMA CalledReduce ==
  ASSUME Types, Called, Reduce
  PROVE  Called'
<1>1. PICK m : m = Head(inbox)
  OBVIOUS
<1>2. PICK s, y : s = Tail(inbox) /\ y = inbox'
  OBVIOUS
<1>3. PICK u : u = model'
  OBVIOUS
<1>4. /\ u = Update(model, m) /\ inbox # <<>> /\ inbox' = Tail(inbox) \o Sends(model, m)
      /\ answers' = answers
  BY <1>1, <1>3 DEF Reduce
<1>5. /\ m \in MessageType(Stored, Begun, Opened) /\ m = inbox[1]
      /\ s \in Seq(MessageType(Stored, Begun, Opened))
      /\ y = s \/ \E x : Follows(x, m) /\ y = Append(s, x)
  BY <1>1, <1>2, <1>4, ReduceInbox
<1>6. Changes(u, m) /\ Tasked(u, m) /\ Typed(u, m)
  BY <1>4, <1>5, ChangesFacts, TaskedFacts, UpdateTyped
<1>7. PICK n \in Nat : n = Opened
  BY ModelFacts
<1>8. Opened' = IF m.tag = "create-task" THEN n + 1 ELSE n
  BY <1>3, <1>6, <1>7 DEF Typed, Opened
<1>9. inbox \in Seq(MessageType(Stored, Begun, Opened)) /\ m \in AnyMessage
      /\ model.runs \in Seq(RunType(Opened)) /\ answers \in Seq(1..Opened)
  BY <1>5, ModelFacts DEF Types, MessageType
<1>10. ASSUME NEW t \in Nat
       PROVE  /\ Number(y, Calls(t)) \in Nat
              /\ \/ Number(y, Calls(t)) = Number(s, Calls(t))
                 \/ /\ Number(y, Calls(t)) = Number(s, Calls(t)) + 1
                    /\ \/ m.tag = "create-task" /\ t = n + 1
                       \/ m.tag = "append-to-task" /\ m.task = t /\ ~Refuses(model.tasks[t])
                       \/ m.tag = "answer-ui-request" /\ m.task = t
  <2>1. Number(s, Calls(t)) \in Nat
    BY <1>5, NumberTyped
  <2>2. CASE y = s
    BY <2>1, <2>2
  <2>3. CASE \E x : Follows(x, m) /\ y = Append(s, x)
    <3>1. PICK x : Follows(x, m) /\ y = Append(s, x)
      BY <2>3
    <3>2. PICK S : S = MessageType(Stored, Begun, Opened) \cup {x}
      OBVIOUS
    <3>3. s \in Seq(S) /\ x \in S
      BY <1>5, <3>2, SeqWider
    <3>4. Number(y, Calls(t)) = IF x \in Calls(t) THEN Number(s, Calls(t)) + 1 ELSE Number(s, Calls(t))
      BY <3>1, <3>3, NumberAppend
    <3>5. x \in Calls(t) => \/ m.tag = "create-task" /\ t = n + 1
                            \/ m.tag = "append-to-task" /\ m.task = t /\ ~Refuses(model.tasks[t])
                            \/ m.tag = "answer-ui-request" /\ m.task = t
      BY <1>5, <1>7, <3>1, FollowsCalls
    <3>6. QED
      BY <2>1, <3>4, <3>5
  <2>4. QED
    BY <1>5, <2>2, <2>3
<1>11. ASSUME NEW t \in Nat
       PROVE  Number(inbox, Calls(t))
                = IF m.tag \in {"spawn-agent-run", "answer-ui-request"} /\ m.task = t
                  THEN Number(s, Calls(t)) + 1 ELSE Number(s, Calls(t))
  <2>1. m \in Calls(t) <=> m.tag \in {"spawn-agent-run", "answer-ui-request"} /\ m.task = t
    BY <1>9 DEF Calls
  <2>2. PICK S : S = MessageType(Stored, Begun, Opened)
    OBVIOUS
  <2>3. inbox \in Seq(S) /\ inbox # <<>>
    BY <1>4, <1>9, <2>2
  <2>4. Number(inbox, Calls(t)) = IF inbox[1] \in Calls(t) THEN Number(Tail(inbox), Calls(t)) + 1
                                  ELSE Number(Tail(inbox), Calls(t))
    BY <2>3, NumberTail
  <2>5. QED
    BY <1>2, <1>5, <2>1, <2>4
<1>12. ASSUME NEW t \in 1..n
       PROVE  /\ Number(u.runs, RunOf(t)) + Number(y, Calls(t)) <= u.tasks[t].turns + Number(answers, {t})
              /\ LoopGuard > 0 => u.tasks[t].turns <= LoopGuard
  <2>1. PICK R \in Nat, I \in Nat, T \in Nat, N \in Nat, J \in Nat :
          /\ R = Number(model.runs, RunOf(t)) /\ I = Number(s, Calls(t)) /\ T = model.tasks[t].turns
          /\ N = Number(answers, {t}) /\ J = Number(y, Calls(t))
    <3>1. Number(model.runs, RunOf(t)) \in Nat /\ Number(s, Calls(t)) \in Nat /\ Number(answers, {t}) \in Nat
      BY <1>5, <1>9, NumberTyped
    <3>2. model.tasks[t] \in TaskType(Arrived, Stored, Begun)
      BY <1>7, ModelFacts
    <3>3. model.tasks[t].turns \in Nat
      BY <3>2 DEF TaskType
    <3>4. t \in Nat
      OBVIOUS
    <3>5. Number(y, Calls(t)) \in Nat
      BY <1>10, <3>4
    <3>6. QED
      BY <3>1, <3>3, <3>5
  <2>2. t \in Nat /\ t # n + 1
    OBVIOUS
  <2>3. Number(u.runs, RunOf(t)) = IF m.tag = "spawn-agent-run" /\ m.task = t THEN R + 1 ELSE R
    BY <1>5, <1>6, <2>1, <2>2, RunsCounted
  <2>4. u.tasks[t].turns = IF m.tag = "append-to-task" /\ m.task = t /\ ~Refuses(model.tasks[t])
                           THEN T + 1 ELSE T
    BY <1>6, <1>7, <2>1 DEF Tasked
  <2>5. \/ J = I
        \/ /\ J = I + 1
           /\ \/ m.tag = "append-to-task" /\ m.task = t /\ ~Refuses(model.tasks[t])
              \/ m.tag = "answer-ui-request" /\ m.task = t
    BY <1>10, <2>1, <2>2
  <2>6. /\ R + (IF m.tag \in {"spawn-agent-run", "answer-ui-request"} /\ m.task = t THEN I + 1 ELSE I)
             <= T + N
        /\ LoopGuard > 0 => T <= LoopGuard
    <3>1. TaskCalls(t)
      BY <1>7 DEF Called
    <3>2. Number(inbox, Calls(t))
            = IF m.tag \in {"spawn-agent-run", "answer-ui-request"} /\ m.task = t THEN I + 1 ELSE I
      BY <1>11, <2>1, <2>2
    <3>3. QED
      BY <2>1, <3>1, <3>2 DEF TaskCalls
  <2>7. ~Refuses(model.tasks[t]) /\ LoopGuard > 0 => T < LoopGuard
    <3>1. ~Refuses(model.tasks[t]) => ~(LoopGuard > 0 /\ T >= LoopGuard)
      BY <2>1 DEF Refuses, Trips
    <3>2. LoopGuard \in Nat
      BY InboundAssumption
    <3>3. QED
      BY <3>1, <3>2
  <2>8. CASE m.tag = "spawn-agent-run" /\ m.task = t
    <3>1. /\ Number(u.runs, RunOf(t)) = R + 1 /\ u.tasks[t].turns = T /\ J = I
          /\ R + (I + 1) <= T + N
      BY <2>3, <2>4, <2>5, <2>6, <2>8
    <3>2. (R + 1) + I <= T + N
      BY <3>1
    <3>3. QED
      BY <2>1, <2>6, <3>1, <3>2
  <2>9. CASE m.tag = "answer-ui-request" /\ m.task = t
    <3>1. /\ Number(u.runs, RunOf(t)) = R /\ u.tasks[t].turns = T /\ (J = I \/ J = I + 1)
          /\ R + (I + 1) <= T + N
      BY <2>3, <2>4, <2>5, <2>6, <2>9
    <3>2. R + J <= T + N
      BY <3>1
    <3>3. QED
      BY <2>1, <2>6, <3>1, <3>2
  <2>10. CASE m.tag = "append-to-task" /\ m.task = t /\ ~Refuses(model.tasks[t])
    <3>1. /\ Number(u.runs, RunOf(t)) = R /\ u.tasks[t].turns = T + 1 /\ (J = I \/ J = I + 1)
          /\ R + I <= T + N
      BY <2>3, <2>4, <2>5, <2>6, <2>10
    <3>2. R + J <= (T + 1) + N
      BY <3>1
    <3>3. LoopGuard > 0 => T + 1 <= LoopGuard
      <4>1. LoopGuard > 0 => T < LoopGuard
        BY <2>7, <2>10
      <4>2. LoopGuard \in Nat
        BY InboundAssumption
      <4>3. QED
        BY <4>1, <4>2
    <3>4. QED
      BY <2>1, <3>1, <3>2, <3>3
  <2>11. CASE /\ ~(m.tag = "spawn-agent-run" /\ m.task = t)
              /\ ~(m.tag = "answer-ui-request" /\ m.task = t)
              /\ ~(m.tag = "append-to-task" /\ m.task = t /\ ~Refuses(model.tasks[t]))
    <3>1. /\ Number(u.runs, RunOf(t)) = R /\ u.tasks[t].turns = T /\ J = I /\ R + I <= T + N
      BY <2>3, <2>4, <2>5, <2>6, <2>11
    <3>2. QED
      BY <2>1, <2>6, <3>1
  <2>12. QED
    BY <2>8, <2>9, <2>10, <2>11
<1>13. ASSUME m.tag = "create-task"
       PROVE  /\ Number(u.runs, RunOf(n + 1)) + Number(y, Calls(n + 1))
                   <= u.tasks[n + 1].turns + Number(answers, {n + 1})
              /\ LoopGuard > 0 => u.tasks[n + 1].turns <= LoopGuard
  <2>1. n + 1 \in Nat /\ n + 1 \notin 1..n
    OBVIOUS
  <2>2. Number(model.runs, RunOf(n + 1)) = 0
    <3>1. \A i \in DOMAIN model.runs : model.runs[i] \in RunType(n)
      BY <1>7, <1>9
    <3>2. ~Has(model.runs, RunOf(n + 1))
      BY <2>1, <3>1 DEF Has, RunOf, RunType
    <3>3. QED
      BY <3>2, NumberNone
  <2>3. Number(s, Calls(n + 1)) = 0
    <3>1. \A i \in DOMAIN s : s[i] \in MessageType(Stored, Begun, n)
      BY <1>5, <1>7
    <3>2. ~Has(s, Calls(n + 1))
      BY <2>1, <3>1 DEF Has, Calls, MessageType, OfTask, OfRun
    <3>3. QED
      BY <3>2, NumberNone
  <2>4. Number(u.runs, RunOf(n + 1)) = 0
    BY <1>5, <1>6, <1>13, <2>1, <2>2, RunsCounted
  <2>5. Number(y, Calls(n + 1)) = 0 \/ Number(y, Calls(n + 1)) = 1
    BY <1>10, <2>1, <2>3
  <2>6. u.tasks[n + 1].turns = 1
    BY <1>6, <1>7, <1>13 DEF Tasked
  <2>7. Number(answers, {n + 1}) \in Nat /\ LoopGuard \in Nat
    BY <1>9, NumberTyped, InboundAssumption
  <2>8. PICK N \in Nat, J \in Nat : N = Number(answers, {n + 1}) /\ J = Number(y, Calls(n + 1))
    BY <2>5, <2>7
  <2>9. 0 + J <= 1 + N /\ (LoopGuard > 0 => 1 <= LoopGuard)
    BY <2>5, <2>7, <2>8
  <2>10. QED
    BY <2>4, <2>6, <2>8, <2>9
<1>14. ASSUME NEW t \in 1..(Opened') PROVE TaskCalls(t)'
  <2>1. t \in 1..n \/ (m.tag = "create-task" /\ t = n + 1)
    BY <1>8
  <2>2. /\ Number(u.runs, RunOf(t)) + Number(y, Calls(t)) <= u.tasks[t].turns + Number(answers, {t})
        /\ LoopGuard > 0 => u.tasks[t].turns <= LoopGuard
    BY <1>12, <1>13, <2>1
  <2>3. QED
    BY <1>2, <1>3, <1>4, <2>2 DEF TaskCalls
<1>15. QED
  BY <1>14 DEF Called

\* A message from outside asks for a run only with a human's answer.
LEMMA CalledPosted ==
  ASSUME Types, Called, NEW x, Posted(x),
         \/ answers' = answers /\ \A t \in 1..Opened : x \notin Calls(t)
         \/ \E v \in 1..Opened : /\ answers' = Append(answers, v)
                                 /\ \A t \in 1..Opened : x \in Calls(t) => t = v
  PROVE  Called'
<1>1. model' = model /\ inbox' = Append(inbox, x) /\ x \in MessageType(Stored, Begun, Opened)
      /\ inbox \in Seq(MessageType(Stored, Begun, Opened)) /\ answers \in Seq(1..Opened)
      /\ model.runs \in Seq(RunType(Opened))
  BY ModelFacts DEF Posted, outside, Types
<1>2. ASSUME NEW t \in 1..Opened
      PROVE  Number(model.runs, RunOf(t)) + Number(inbox', Calls(t))
               <= model.tasks[t].turns + Number(answers', {t})
  <2>1. PICK R \in Nat, I \in Nat, T \in Nat, N \in Nat :
          /\ R = Number(model.runs, RunOf(t)) /\ I = Number(inbox, Calls(t))
          /\ T = model.tasks[t].turns /\ N = Number(answers, {t})
    <3>1. /\ Number(model.runs, RunOf(t)) \in Nat /\ Number(inbox, Calls(t)) \in Nat
          /\ Number(answers, {t}) \in Nat
      BY <1>1, NumberTyped
    <3>2. model.tasks[t] \in TaskType(Arrived, Stored, Begun)
      BY ModelFacts
    <3>3. model.tasks[t].turns \in Nat
      BY <3>2 DEF TaskType
    <3>4. QED
      BY <3>1, <3>3
  <2>2. R + I <= T + N
    BY <2>1 DEF Called, TaskCalls
  <2>3. Number(inbox', Calls(t)) = IF x \in Calls(t) THEN I + 1 ELSE I
    <3>1. PICK S : S = MessageType(Stored, Begun, Opened)
      OBVIOUS
    <3>2. inbox \in Seq(S) /\ x \in S
      BY <1>1, <3>1
    <3>3. QED
      BY <1>1, <2>1, <3>2, NumberAppend
  <2>4. CASE x \notin Calls(t)
    <3>1. Number(answers', {t}) = N \/ Number(answers', {t}) = N + 1
      <4>1. CASE answers' = answers
        BY <2>1, <4>1
      <4>2. CASE \E v \in 1..Opened : answers' = Append(answers, v)
        <5>1. PICK v \in 1..Opened : answers' = Append(answers, v)
          BY <4>2
        <5>2. Number(answers', {t}) = IF v \in {t} THEN N + 1 ELSE N
          <6>1. PICK S : S = 1..Opened
            OBVIOUS
          <6>2. answers \in Seq(S) /\ v \in S
            BY <1>1, <6>1
          <6>3. Number(Append(answers, v), {t})
                  = IF v \in {t} THEN Number(answers, {t}) + 1 ELSE Number(answers, {t})
            BY <6>2, NumberAppend
          <6>4. QED
            BY <2>1, <5>1, <6>3
        <5>3. QED
          BY <5>2
      <4>3. QED
        BY <4>1, <4>2
    <3>2. R + I <= T + (N + 1)
      BY <2>2
    <3>3. QED
      BY <2>1, <2>2, <2>3, <2>4, <3>1, <3>2
  <2>5. CASE x \in Calls(t)
    <3>1. PICK v \in 1..Opened : answers' = Append(answers, v) /\ t = v
      BY <2>5
    <3>2. Number(answers', {t}) = IF v \in {t} THEN N + 1 ELSE N
      <4>1. PICK S : S = 1..Opened
        OBVIOUS
      <4>2. answers \in Seq(S) /\ v \in S
        BY <1>1, <4>1
      <4>3. Number(Append(answers, v), {t})
              = IF v \in {t} THEN Number(answers, {t}) + 1 ELSE Number(answers, {t})
        BY <4>2, NumberAppend
      <4>4. QED
        BY <2>1, <3>1, <4>3
    <3>3. Number(answers', {t}) = N + 1
      BY <3>1, <3>2
    <3>4. R + (I + 1) <= T + (N + 1)
      BY <2>2
    <3>5. QED
      BY <2>1, <2>3, <2>5, <3>3, <3>4
  <2>6. QED
    BY <2>4, <2>5
<1>3. ASSUME NEW t \in 1..Opened PROVE TaskCalls(t)'
  BY <1>1, <1>2, <1>3 DEF TaskCalls, Called
<1>4. Opened' = Opened
  BY <1>1 DEF Opened
<1>5. QED
  BY <1>3, <1>4 DEF Called

\* Every step keeps the runs of a task within its turns and the answers.
LEMMA CalledStep ==
  ASSUME Types, Called, [Next]_vars
  PROVE  Called'
<1>1. CASE Reduce
  BY <1>1, CalledReduce
<1>2. ASSUME inbox' = inbox, model' = model, answers' = answers PROVE Called'
  BY <1>2 DEF Called, TaskCalls, Opened
<1>3. ASSUME NEW ks \in SUBSET Mechanisms, Arrive(ks) PROVE Called'
  BY <1>2, <1>3 DEF Arrive
<1>4. ASSUME NEW j \in Mechanisms, Poll(j) \/ RouteFails(j) PROVE Called'
  <2>1. model' = model /\ answers' = answers
    BY <1>4 DEF Poll, Fetch, Route, Record, RouteFails, rest
  <2>2. \/ inbox' = inbox
        \/ \E x : inbox' = Append(inbox, x) /\ x.tag \in OfPoller
    <3>1. \A r : Message("route-email", r, 0, "", j).tag \in OfPoller
      BY DEF Message, OfPoller
    <3>2. \A i : Message("record-poll-state", i, 0, "", j).tag \in OfPoller
      BY DEF Message, OfPoller
    <3>3. \/ inbox' = inbox
          \/ \E r : inbox' = Append(inbox, Message("route-email", r, 0, "", j))
          \/ \E i : inbox' = Append(inbox, Message("record-poll-state", i, 0, "", j))
      BY <1>4 DEF Poll, Fetch, Route, Record, RouteFails
    <3>4. QED
      BY <3>1, <3>2, <3>3
  <2>3. CASE \E x : inbox' = Append(inbox, x) /\ x.tag \in OfPoller
    <3>1. PICK x : inbox' = Append(inbox, x) /\ x.tag \in OfPoller
      BY <2>3
    <3>2. PICK S : S = MessageType(Stored, Begun, Opened) \cup {x}
      OBVIOUS
    <3>3. inbox \in Seq(S) /\ x \in S
      BY <3>2, SeqWider DEF Types
    <3>4. \A t : x \notin Calls(t)
      BY <3>1 DEF Calls, OfPoller
    <3>5. \A t : Number(inbox', Calls(t)) = Number(inbox, Calls(t))
      BY <3>1, <3>3, <3>4, NumberAppend
    <3>6. QED
      BY <2>1, <3>5 DEF Called, TaskCalls, Opened
  <2>4. QED
    BY <1>2, <2>1, <2>2, <2>3
<1>5. ASSUME NEW r \in DOMAIN model.runs, NEW how \in Outcomes, EndRun(r, how) PROVE Called'
  <2>1. PICK x : x = Message("finish-agent-run", r, TaskOf(r), how, "")
    OBVIOUS
  <2>2. Posted(x) /\ answers' = answers
    BY <1>5, <2>1, EndRunFacts
  <2>3. \A t : x \notin Calls(t)
    BY <2>1 DEF Message, Calls
  <2>4. QED
    BY <2>2, <2>3, CalledPosted
<1>6. ASSUME NEW r \in model.owed, Mint(r) PROVE Called'
  <2>1. PICK x : x = Message("register-ui-request", r, TaskOf(r), "", "")
    OBVIOUS
  <2>2. Posted(x) /\ answers' = answers
    BY <1>6, <2>1, MintFacts
  <2>3. \A t : x \notin Calls(t)
    BY <2>1 DEF Message, Calls
  <2>4. QED
    BY <2>2, <2>3, CalledPosted
<1>7. ASSUME NEW r \in model.asked, Answer(r) PROVE Called'
  <2>1. PICK v : v = TaskOf(r)
    OBVIOUS
  <2>2. PICK x : x = Message("answer-ui-request", r, v, "", "")
    OBVIOUS
  <2>3. Posted(x) /\ v \in 1..Opened /\ answers' = Append(answers, v)
    BY <1>7, <2>1, <2>2, AnswerFacts
  <2>4. \A t : x \in Calls(t) => t = v
    BY <2>2 DEF Message, Calls
  <2>5. QED
    BY <2>3, <2>4, CalledPosted
<1>8. ASSUME NEW v \in DOMAIN model.tasks, FinishTask(v) PROVE Called'
  <2>1. PICK x : x = Message("finish-task", 0, v, "", "")
    OBVIOUS
  <2>2. Posted(x) /\ v \in 1..Opened /\ answers' = Append(answers, v)
    BY <1>8, <2>1, FinishFacts
  <2>3. \A t : x \notin Calls(t)
    BY <2>1 DEF Message, Calls
  <2>4. QED
    BY <2>2, <2>3, CalledPosted
<1>9. CASE Restart
  <2>1. inbox' = <<>> /\ model' = model /\ answers' = answers
    BY <1>9 DEF Restart
  <2>2. \A t : Number(<<>>, Calls(t)) = 0
    <3>1. \A K : ~Has(<<>>, K)
      BY DEF Has
    <3>2. QED
      BY <3>1, NumberNone
  <2>3. ASSUME NEW t \in 1..Opened PROVE TaskCalls(t)'
    <3>1. /\ Number(model.runs, RunOf(t)) \in Nat /\ Number(inbox, Calls(t)) \in Nat
          /\ Number(answers, {t}) \in Nat /\ model.tasks[t].turns \in Nat
      <4>1. /\ model.runs \in Seq(RunType(Opened)) /\ answers \in Seq(1..Opened)
            /\ inbox \in Seq(MessageType(Stored, Begun, Opened))
        BY ModelFacts DEF Types
      <4>2. model.tasks[t] \in TaskType(Arrived, Stored, Begun)
        BY ModelFacts
      <4>3. model.tasks[t].turns \in Nat
        BY <4>2 DEF TaskType
      <4>4. QED
        BY <4>1, <4>3, NumberTyped
    <3>2. PICK R \in Nat, I \in Nat, T \in Nat, N \in Nat :
            /\ R = Number(model.runs, RunOf(t)) /\ I = Number(inbox, Calls(t))
            /\ T = model.tasks[t].turns /\ N = Number(answers, {t})
      BY <3>1
    <3>3. R + I <= T + N /\ (LoopGuard > 0 => T <= LoopGuard)
      BY <3>2 DEF Called, TaskCalls
    <3>4. R + 0 <= T + N
      BY <3>3
    <3>5. QED
      BY <2>1, <2>2, <3>2, <3>3, <3>4 DEF TaskCalls
  <2>4. QED
    BY <2>1, <2>3 DEF Called, Opened
<1>10. CASE UNCHANGED vars
  BY <1>2, <1>10 DEF vars
<1>11. QED
  BY <1>1, <1>3, <1>4, <1>5, <1>6, <1>7, <1>8, <1>9, <1>10 DEF Next, Ends

\* The runs of a task that the breaker counts are the ones of that task.
LEMMA GuardHeld ==
  ASSUME Types, Called
  PROVE  GuardHolds
<1>1. ASSUME LoopGuard > 0, NEW t \in Tasks
      PROVE  Cardinality({r \in DOMAIN model.runs : TaskOf(r) = t})
               <= LoopGuard + Cardinality({i \in DOMAIN answers : answers[i] = t})
  <2>1. t \in 1..Opened
    BY <1>1, ModelFacts DEF Tasks
  <2>2. /\ model.runs \in Seq(RunType(Opened)) /\ answers \in Seq(1..Opened)
        /\ inbox \in Seq(MessageType(Stored, Begun, Opened))
    BY ModelFacts DEF Types
  <2>3. {r \in DOMAIN model.runs : TaskOf(r) = t} = Spots(model.runs, RunOf(t))
    <3>1. \A r \in DOMAIN model.runs : model.runs[r] \in RunType(Opened)
      BY <2>2
    <3>2. \A r \in DOMAIN model.runs : TaskOf(r) = t <=> model.runs[r] \in RunOf(t)
      BY <3>1 DEF TaskOf, RunOf, RunType
    <3>3. QED
      BY <3>2 DEF Spots
  <2>4. {i \in DOMAIN answers : answers[i] = t} = Spots(answers, {t})
    BY DEF Spots
  <2>5. PICK R \in Nat, I \in Nat, N \in Nat :
          /\ R = Number(model.runs, RunOf(t)) /\ I = Number(inbox, Calls(t))
          /\ N = Number(answers, {t})
    BY <2>2, NumberTyped
  <2>6. model.tasks[t].turns \in Nat /\ LoopGuard \in Nat
    <3>1. model.tasks[t] \in TaskType(Arrived, Stored, Begun)
      BY <2>1, ModelFacts
    <3>2. QED
      BY <3>1, InboundAssumption DEF TaskType
  <2>7. PICK T \in Nat : T = model.tasks[t].turns
    BY <2>6
  <2>8. R + I <= T + N /\ T <= LoopGuard
    BY <1>1, <2>1, <2>5, <2>7 DEF Called, TaskCalls
  <2>9. R <= LoopGuard + N
    BY <2>6, <2>8
  <2>10. QED
    BY <2>3, <2>4, <2>5, <2>9 DEF Number
<1>2. QED
  BY <1>1 DEF GuardHolds

\* The loop breaker (decision-016) holds for any mails, forms, deaths and restarts:
\* a task has no more runs than the guard allows, those a human's answer or
\* completion link asked for aside.
THEOREM GuardIsKept ==
  Spec => []GuardHolds
<1>1. Init => Called
  <2>1. ASSUME Init PROVE Opened = 0
    BY <2>1 DEF Init, Opened
  <2>2. QED
    BY <2>1 DEF Called
<1>2. Types /\ Called /\ [Next]_vars => Called'
  BY CalledStep
<1>3. Types /\ Called => GuardHolds
  BY GuardHeld
<1>4. QED
  BY <1>1, <1>2, <1>3, Kept, PTL DEF Spec

(***************************************************************************)
(* Every mail is taken up once at most, and none that is fetched is        *)
(* skipped, wherever kasi dies: the way of a mail from a mailbox into a    *)
(* task, over the types and pollers above.                                 *)
(***************************************************************************)
\* A mail is in one mailbox, once, and has one row.
Apart(bs) ==
  \A j, k \in Mechanisms : \A p \in DOMAIN bs[j], q \in DOMAIN bs[k] :
    bs[j][p] = bs[k][q] => j = k /\ p = q
Distinct(rs) == \A q, r \in DOMAIN rs : rs[q] = rs[r] => q = r

\* A row is in one task, once.
Filed(u, r) == HasIngestedInbox(u, r)
Single(u) ==
  \A t, v \in DOMAIN u.tasks : \A p \in DOMAIN u.tasks[t].rows, q \in DOMAIN u.tasks[v].rows :
    u.tasks[t].rows[p] = u.tasks[v].rows[q] => t = v /\ p = q

\* One message at most is under way for a row on the channel s, and to take it up
\* only if no task has it; a poller routes the rows of its own mailbox.
Takes(r) == About({"create-task", "append-to-task"}, r)
UnderWay(r) == About(OfRow, r)
RowOnce(s, u, r) ==
  /\ Once(s, UnderWay(r))
  /\ Has(s, Takes(r)) => ~Filed(u, r)
Owned(s, rs, bs) ==
  \A i \in DOMAIN s : s[i].tag = "route-email" => rs[s[i].about] \in Range(bs[s[i].by])

\* What a poller has in its batch, or has not fetched, is not under way.
Ahead(s, rs, b, batch, n) ==
  \A q \in DOMAIN b, r \in DOMAIN rs :
    Has(s, UnderWay(r)) /\ rs[r] = b[q] => q <= n /\ b[q] \notin Range(batch)

\* A mail is done with when it is turned away or its row is in a task; it is in hand
\* as long as its row is under way, ahead of the cursor's message.
Done(u, rs, d, x) == x \in d \/ \E r \in DOMAIN rs : rs[r] = x /\ Filed(u, r)
Held(s, k, r) == Has(s, UnderWay(r)) /\ Before(s, Takes(r), By("record-poll-state", k))
InHand(s, rs, k, x) == \E r \in DOMAIN rs : rs[r] = x /\ Held(s, k, r)

\* From the first recorded cursor h to the one recorded next, n, every mail is done
\* with, or is beyond the one recorded last, c, and in the batch or in hand.
NoneSkipped(k, s, u, rs, d, b, h, c, batch, n) ==
  \A q \in DOMAIN b : 0 <= h /\ h < q /\ q <= n =>
    Done(u, rs, d, b[q]) \/ (c < q /\ (b[q] \in Range(batch) \/ InHand(s, rs, k, b[q])))

Rows == Apart(boxes) /\ Distinct(rows)
Taken == /\ Single(model) /\ (\A r \in Nat : RowOnce(inbox, model, r))
         /\ Owned(inbox, rows, boxes)
Polled(k) ==
  /\ Ahead(inbox, rows, boxes[k], pollers[k].batch, pollers[k].next)
  /\ NoneSkipped(k, inbox, model, rows, dropped, boxes[k], anchor[k], model.cursor[k],
                 pollers[k].batch, pollers[k].next)
TakenUp == Rows /\ Taken /\ \A k \in Mechanisms : Polled(k)

\* A mail that arrives in one mailbox is in no other, and a row is stored once.
LEMMA RowsStep ==
  ASSUME Types, AllPoll, Rows, Twice = FALSE, [Next]_vars
  PROVE  Rows'
<1>1. ASSUME boxes' = boxes, rows' = rows PROVE Rows'
  BY <1>1 DEF Rows
<1>2. CASE Reduce
  BY <1>1, <1>2 DEF Reduce
<1>3. ASSUME NEW k \in Mechanisms, Arrive({k}) PROVE Rows'
  <2>1. PICK n \in Nat : n = Arrived
    BY ModelFacts
  <2>2. /\ Len(mails') = n + 1 /\ rows' = rows
        /\ boxes' = [j \in Mechanisms |-> IF j \in {k} THEN Append(boxes[j], Len(mails')) ELSE boxes[j]]
    <3>1. PICK x : mails' = Append(mails, x)
      BY <1>3 DEF Arrive
    <3>2. mails \in Seq(Mailed \cup {x}) /\ x \in Mailed \cup {x} /\ Len(mails) = n
      BY <2>1, SeqWider DEF Types, Arrived
    <3>3. Len(mails') = n + 1
      <4>1. PICK S : S = Mailed \cup {x}
        OBVIOUS
      <4>2. QED
        BY <3>1, <3>2, <4>1
    <3>4. QED
      BY <1>3, <3>3 DEF Arrive
  <2>3. PICK b \in Seq(1..n) : b = boxes[k]
    BY <2>1 DEF Types
  <2>4. PICK l \in Nat : l = Len(b)
    OBVIOUS
  <2>5. PICK d : d = Append(b, n + 1)
    OBVIOUS
  <2>6. /\ DOMAIN b = 1..l /\ DOMAIN d = 1..(l + 1) /\ d[l + 1] = n + 1
        /\ \A i \in 1..l : d[i] = b[i] /\ b[i] \in 1..n
        /\ \A i \in 1..(l + 1) : i \in 1..l \/ i = l + 1
    <3>1. PICK S : S = (1..n) \cup {n + 1}
      OBVIOUS
    <3>2. b \in Seq(S) /\ n + 1 \in S
      BY <3>1, SeqWider
    <3>3. DOMAIN d = 1..(l + 1) /\ d[l + 1] = n + 1 /\ \A i \in 1..l : d[i] = b[i]
      BY <2>4, <2>5, <3>2
    <3>4. DOMAIN b = 1..l /\ \A i \in 1..l : b[i] \in 1..n
      BY <2>4
    <3>5. QED
      BY <3>3, <3>4
  <2>7. n + 1 \notin 1..n
    OBVIOUS
  <2>8. boxes'[k] = d /\ \A j \in Mechanisms : j # k => boxes'[j] = boxes[j]
    BY <2>2, <2>3, <2>5
  <2>9. \A j \in Mechanisms : \A i \in DOMAIN boxes[j] : boxes[j][i] \in 1..n
    BY <2>1 DEF Types
  <2>10. ASSUME NEW i \in Mechanisms, NEW j \in Mechanisms,
                NEW p \in DOMAIN boxes'[i], NEW q \in DOMAIN boxes'[j],
                boxes'[i][p] = boxes'[j][q]
         PROVE  i = j /\ p = q
    <3>1. CASE i = k /\ j = k
      <4>1. p \in 1..(l + 1) /\ q \in 1..(l + 1) /\ d[p] = d[q]
        BY <2>6, <2>8, <2>10, <3>1
      <4>2. p = l + 1 <=> q = l + 1
        BY <2>6, <2>7, <4>1
      <4>3. p \in 1..l /\ q \in 1..l => p = q
        <5>1. ASSUME p \in 1..l, q \in 1..l PROVE p = q
          <6>1. b[p] = b[q] /\ p \in DOMAIN b /\ q \in DOMAIN b
            BY <2>6, <4>1, <5>1
          <6>2. boxes[k][p] = boxes[k][q] /\ p \in DOMAIN boxes[k] /\ q \in DOMAIN boxes[k]
            BY <2>3, <6>1
          <6>3. QED
            BY <6>2 DEF Rows, Apart
        <5>2. QED
          BY <5>1
      <4>4. QED
        BY <2>6, <3>1, <4>1, <4>2, <4>3
    <3>2. CASE i = k /\ j # k
      <4>1. boxes'[j] = boxes[j] /\ boxes[j][q] \in 1..n /\ q \in DOMAIN boxes[j]
            /\ p \in 1..(l + 1) /\ d[p] = boxes[j][q]
        BY <2>6, <2>8, <2>9, <2>10, <3>2
      <4>2. p \in 1..l
        BY <2>6, <2>7, <4>1
      <4>3. b[p] = boxes[j][q]
        BY <2>6, <4>1, <4>2
      <4>4. i = j
        BY <2>3, <2>6, <3>2, <4>1, <4>2, <4>3 DEF Rows, Apart
      <4>5. QED
        BY <3>2, <4>4
    <3>3. CASE i # k /\ j = k
      <4>1. boxes'[i] = boxes[i] /\ boxes[i][p] \in 1..n /\ p \in DOMAIN boxes[i]
            /\ q \in 1..(l + 1) /\ d[q] = boxes[i][p]
        BY <2>6, <2>8, <2>9, <2>10, <3>3
      <4>2. q \in 1..l
        BY <2>6, <2>7, <4>1
      <4>3. b[q] = boxes[i][p]
        BY <2>6, <4>1, <4>2
      <4>4. i = j
        BY <2>3, <2>6, <3>3, <4>1, <4>2, <4>3 DEF Rows, Apart
      <4>5. QED
        BY <3>3, <4>4
    <3>4. CASE i # k /\ j # k
      BY <2>8, <2>10, <3>4 DEF Rows, Apart
    <3>5. QED
      BY <3>1, <3>2, <3>3, <3>4
  <2>11. QED
    BY <2>2, <2>10 DEF Rows, Apart
<1>4. ASSUME NEW k \in Mechanisms, Poll(k) \/ RouteFails(k) PROVE Rows'
  <2>1. boxes' = boxes
    BY <1>4 DEF Poll, Fetch, Route, Record, RouteFails, rest
  <2>2. Distinct(rows')
    <3>1. PICK rs : rs = rows'
      OBVIOUS
    <3>2. rs = rows \/ Stores(rs, Head(pollers[k].batch))
      <4>1. CASE Route(k)
        BY <3>1, <4>1, RouteFacts DEF AllPoll
      <4>2. CASE RouteFails(k)
        BY <3>1, <4>2, RouteFailsFacts DEF AllPoll
      <4>3. CASE Fetch(k) \/ Record(k)
        BY <3>1, <4>3 DEF Fetch, Record
      <4>4. QED
        BY <1>4, <4>1, <4>2, <4>3 DEF Poll
    <3>3. DOMAIN rows = 1..Stored
      BY ModelFacts
    <3>4. CASE Stores(rs, Head(pollers[k].batch))
      BY <3>1, <3>3, <3>4 DEF Rows, Distinct, Stores
    <3>5. CASE rs = rows
      BY <3>1, <3>5 DEF Rows
    <3>6. QED
      BY <3>2, <3>4, <3>5
  <2>3. QED
    BY <2>1, <2>2 DEF Rows
<1>5. ASSUME NEW r, NEW how, EndRun(r, how) PROVE Rows'
  BY <1>1, <1>5 DEF EndRun, outside
<1>6. ASSUME NEW r, Mint(r) \/ Answer(r) \/ FinishTask(r) PROVE Rows'
  BY <1>1, <1>6 DEF Mint, Answer, FinishTask, outside
<1>7. CASE Restart \/ UNCHANGED vars
  BY <1>1, <1>7 DEF Restart, vars
<1>8. QED
  BY <1>2, <1>3, <1>4, <1>5, <1>6, <1>7 DEF Next, Ends

\* The tasks and their rows: a row is filed when its mail is taken in.
Files(m) == \/ m.tag = "create-task"
            \/ m.tag = "append-to-task" /\ model.tasks[m.task].status # "paused"

\* A task more, or a row more in a task: the rows of the tasks, by task and place.
LEMMA FiledFacts ==
  ASSUME Types, NEW m \in MessageType(Stored, Begun, Opened), NEW u, Tasked(u, m), Typed(u, m)
  PROVE  /\ \A r : Filed(u, r) <=> Filed(model, r) \/ (Files(m) /\ r = m.about)
         /\ Single(model) /\ (Files(m) => ~Filed(model, m.about)) => Single(u)
<1>1. PICK n \in Nat : n = Opened
  BY ModelFacts
<1>2. DOMAIN model.tasks = 1..n
  BY <1>1, ModelFacts
<1>3. u.tasks \in Seq(TaskType(Arrived, Stored, Len(u.runs)))
  BY DEF Typed, ModelType
<1>4. Len(u.tasks) = IF m.tag = "create-task" THEN n + 1 ELSE n
  BY <1>1 DEF Typed
<1>5. DOMAIN u.tasks = IF m.tag = "create-task" THEN 1..(n + 1) ELSE 1..n
  BY <1>3, <1>4
<1>6. m.tag = "append-to-task" => m.task \in 1..n
  BY <1>1, MessageFacts, ModelFacts DEF OfTask
<1>7. ASSUME NEW t \in 1..n
      PROVE  /\ model.tasks[t].rows \in Seq(1..Stored)
             /\ DOMAIN model.tasks[t].rows = 1..Len(model.tasks[t].rows)
             /\ Len(model.tasks[t].rows) \in Nat
  <2>1. model.tasks[t] \in TaskType(Arrived, Stored, Begun)
    BY <1>1, ModelFacts
  <2>2. PICK s \in Seq(1..Stored) : s = model.tasks[t].rows
    BY <2>1 DEF TaskType
  <2>3. QED
    BY <2>2
<1>8. CASE ~Files(m)
  <2>1. \A t \in 1..n : u.tasks[t].rows = model.tasks[t].rows
    BY <1>1, <1>8 DEF Tasked, Files
  <2>2. DOMAIN u.tasks = 1..n
    BY <1>5, <1>8 DEF Files
  <2>3. QED
    BY <1>2, <1>8, <2>1, <2>2 DEF Filed, HasIngestedInbox, Single
<1>9. CASE m.tag = "create-task"
  <2>1. /\ \A t \in 1..n : u.tasks[t].rows = model.tasks[t].rows
        /\ u.tasks[n + 1].rows = <<m.about>>
    BY <1>1, <1>9 DEF Tasked
  <2>2. /\ DOMAIN u.tasks = 1..(n + 1) /\ n + 1 \in 1..(n + 1)
        /\ \A t \in 1..n : t \in 1..(n + 1)
        /\ \A t \in 1..(n + 1) : t \in 1..n \/ t = n + 1
    BY <1>5, <1>9
  <2>3. /\ Range(<<m.about>>) = {m.about}
        /\ \A p \in DOMAIN <<m.about>> : <<m.about>>[p] = m.about /\ p = 1
    BY DEF Range
  <2>4. ASSUME NEW r PROVE Filed(u, r) <=> Filed(model, r) \/ (Files(m) /\ r = m.about)
    <3>1. Files(m)
      BY <1>9 DEF Files
    <3>2. Filed(u, r) <=> \/ \E t \in 1..n : r \in Range(model.tasks[t].rows)
                          \/ r = m.about
      BY <2>1, <2>2, <2>3 DEF Filed, HasIngestedInbox
    <3>3. Filed(model, r) <=> \E t \in 1..n : r \in Range(model.tasks[t].rows)
      BY <1>2 DEF Filed, HasIngestedInbox
    <3>4. QED
      BY <3>1, <3>2, <3>3
  <2>5. ASSUME Single(model), ~Filed(model, m.about) PROVE Single(u)
    <3>1. \A t \in 1..n : \A p \in DOMAIN model.tasks[t].rows : model.tasks[t].rows[p] # m.about
      BY <1>2, <2>5 DEF Filed, HasIngestedInbox, Range
    <3>2. ASSUME NEW t \in 1..(n + 1), NEW v \in 1..(n + 1),
                 NEW p \in DOMAIN u.tasks[t].rows, NEW q \in DOMAIN u.tasks[v].rows,
                 u.tasks[t].rows[p] = u.tasks[v].rows[q]
          PROVE  t = v /\ p = q
      <4>1. CASE t \in 1..n /\ v \in 1..n
        <5>1. u.tasks[t].rows = model.tasks[t].rows /\ u.tasks[v].rows = model.tasks[v].rows
          BY <2>1, <4>1
        <5>2. /\ p \in DOMAIN model.tasks[t].rows /\ q \in DOMAIN model.tasks[v].rows
              /\ model.tasks[t].rows[p] = model.tasks[v].rows[q]
          BY <3>2, <5>1
        <5>3. t \in DOMAIN model.tasks /\ v \in DOMAIN model.tasks
          BY <1>2, <4>1
        <5>4. QED
          BY <2>5, <5>2, <5>3 DEF Single
      <4>2. CASE t = n + 1 /\ v = n + 1
        BY <2>1, <2>3, <3>2, <4>2
      <4>3. CASE t = n + 1 /\ v \in 1..n
        BY <2>1, <2>3, <3>1, <3>2, <4>3
      <4>4. CASE t \in 1..n /\ v = n + 1
        BY <2>1, <2>3, <3>1, <3>2, <4>4
      <4>5. QED
        BY <2>2, <3>2, <4>1, <4>2, <4>3, <4>4
    <3>3. QED
      BY <2>2, <3>2 DEF Single
  <2>6. Files(m)
    BY <1>9 DEF Files
  <2>7. QED
    BY <2>4, <2>5, <2>6
<1>10. CASE m.tag = "append-to-task" /\ model.tasks[m.task].status # "paused"
  <2>1. PICK k \in 1..n : k = m.task
    BY <1>6, <1>10
  <2>2. PICK s, a : s = model.tasks[k].rows /\ a = m.about
    OBVIOUS
  <2>3. PICK l \in Nat : l = Len(s)
    BY <1>7, <2>2
  <2>4. PICK d : d = Append(s, a)
    OBVIOUS
  <2>5. /\ DOMAIN s = 1..l /\ DOMAIN d = 1..(l + 1) /\ d[l + 1] = a
        /\ \A i \in 1..l : d[i] = s[i] /\ i \in 1..(l + 1)
        /\ \A i \in 1..(l + 1) : i \in 1..l \/ i = l + 1
        /\ l + 1 \in 1..(l + 1)
    <3>1. PICK S, R : S = (1..Stored) \cup {a} /\ R = 1..Stored
      OBVIOUS
    <3>2. s \in Seq(S) /\ a \in S
      <4>1. s \in Seq(R) /\ R \subseteq S /\ a \in S
        BY <1>7, <2>2, <3>1
      <4>2. QED
        BY <4>1, SeqWider
    <3>3. DOMAIN s = 1..l /\ DOMAIN d = 1..(l + 1) /\ d[l + 1] = a /\ \A i \in 1..l : d[i] = s[i]
      BY <2>3, <2>4, <3>2
    <3>4. QED
      BY <3>3
  <2>6. /\ u.tasks[k].rows = d
        /\ \A t \in 1..n : t # k => u.tasks[t].rows = model.tasks[t].rows
        /\ DOMAIN u.tasks = 1..n
    BY <1>1, <1>5, <1>10, <2>1, <2>2, <2>4 DEF Tasked
  <2>7. \A x : x \in Range(d) <=> x \in Range(s) \/ x = a
    <3>1. \A x : x \in Range(d) <=> \E i \in 1..(l + 1) : d[i] = x
      BY <2>5 DEF Range
    <3>2. \A x : x \in Range(s) <=> \E i \in 1..l : s[i] = x
      BY <2>5 DEF Range
    <3>3. ASSUME NEW x PROVE (\E i \in 1..(l + 1) : d[i] = x) <=> (\E i \in 1..l : s[i] = x) \/ x = a
      BY <2>5
    <3>4. QED
      BY <3>1, <3>2, <3>3
  <2>8. Files(m)
    BY <1>10 DEF Files
  <2>9. ASSUME NEW r PROVE Filed(u, r) <=> Filed(model, r) \/ r = a
    <3>1. Filed(u, r) <=> \E t \in 1..n : r \in Range(u.tasks[t].rows)
      BY <2>6 DEF Filed, HasIngestedInbox
    <3>2. Filed(model, r) <=> \E t \in 1..n : r \in Range(model.tasks[t].rows)
      BY <1>2 DEF Filed, HasIngestedInbox
    <3>3. \A t \in 1..n : r \in Range(u.tasks[t].rows)
                            <=> r \in Range(model.tasks[t].rows) \/ (t = k /\ r = a)
      BY <2>2, <2>6, <2>7
    <3>4. QED
      BY <3>1, <3>2, <3>3
  <2>10. ASSUME Single(model), ~Filed(model, a) PROVE Single(u)
    <3>1. \A t \in 1..n : \A p \in DOMAIN model.tasks[t].rows : model.tasks[t].rows[p] # a
      BY <1>2, <2>10 DEF Filed, HasIngestedInbox, Range
    <3>2. ASSUME NEW t \in 1..n, NEW p \in DOMAIN u.tasks[t].rows
          PROVE  \/ p \in DOMAIN model.tasks[t].rows /\ u.tasks[t].rows[p] = model.tasks[t].rows[p]
                 \/ t = k /\ p = l + 1 /\ u.tasks[t].rows[p] = a
      <4>1. CASE t = k
        BY <2>2, <2>5, <2>6, <3>2, <4>1
      <4>2. CASE t # k
        BY <2>6, <3>2, <4>2
      <4>3. QED
        BY <4>1, <4>2
    <3>3. ASSUME NEW t \in 1..n, NEW v \in 1..n,
                 NEW p \in DOMAIN u.tasks[t].rows, NEW q \in DOMAIN u.tasks[v].rows,
                 u.tasks[t].rows[p] = u.tasks[v].rows[q]
          PROVE  t = v /\ p = q
      <4>1. CASE /\ p \in DOMAIN model.tasks[t].rows /\ u.tasks[t].rows[p] = model.tasks[t].rows[p]
                 /\ q \in DOMAIN model.tasks[v].rows /\ u.tasks[v].rows[q] = model.tasks[v].rows[q]
        <5>1. model.tasks[t].rows[p] = model.tasks[v].rows[q]
          BY <3>3, <4>1
        <5>2. \A p1 \in DOMAIN model.tasks[t].rows, q1 \in DOMAIN model.tasks[v].rows :
                model.tasks[t].rows[p1] = model.tasks[v].rows[q1] => t = v /\ p1 = q1
          BY <1>2, <2>10 DEF Single
        <5>3. QED
          BY <4>1, <5>1, <5>2
      <4>2. CASE u.tasks[t].rows[p] = a
        <5>1. u.tasks[v].rows[q] = a
          BY <3>3, <4>2
        <5>2. t = k /\ p = l + 1
          BY <3>1, <3>2, <4>2
        <5>3. v = k /\ q = l + 1
          BY <3>1, <3>2, <5>1
        <5>4. QED
          BY <5>2, <5>3
      <4>3. CASE u.tasks[v].rows[q] = a
        BY <3>3, <4>2, <4>3
      <4>4. QED
        BY <3>2, <4>1, <4>2, <4>3
    <3>4. QED
      BY <2>6, <3>3 DEF Single
  <2>11. QED
    BY <2>2, <2>8, <2>9, <2>10
<1>11. QED
  BY <1>8, <1>9, <1>10 DEF Files

\* What a handler sends about a row is to take up the row it routed, which no task
\* has.
LEMMA FollowsRows ==
  ASSUME Types, NEW m \in MessageType(Stored, Begun, Opened), NEW x, Follows(x, m), NEW r,
         x \in UnderWay(r)
  PROVE  /\ m.tag = "route-email" /\ m.about = r /\ m \in UnderWay(r)
         /\ x \in Takes(r) /\ ~Filed(model, r)
<1>1. x.tag \in OfRow /\ x.about = r /\ x \in AnyMessage
  BY DEF UnderWay, About
<1>2. \A a, v, h : /\ Message("spawn-agent-run", a, v, h, "").tag = "spawn-agent-run"
                   /\ Message("agent-run-finished", a, v, h, "").tag = "agent-run-finished"
  BY DEF Message
<1>3. m.tag = "route-email"
  <2>1. \/ m.tag = "route-email" \/ x = Message("spawn-agent-run", 0, Opened + 1, "", "")
        \/ x = Message("spawn-agent-run", 0, m.task, "", "")
        \/ x = Message("agent-run-finished", m.about, m.task, m.how, "")
    BY Zenon DEF Follows
  <2>2. x.tag \notin {"spawn-agent-run", "agent-run-finished"}
    BY <1>1 DEF OfRow
  <2>3. QED
    BY <1>2, <2>1, <2>2
<1>4. /\ ~HasIngestedInbox(model, m.about)
      /\ \/ x = Message("create-task", m.about, 0, "", "")
         \/ \E v \in 1..Opened : x = Message("append-to-task", m.about, v, "", "")
  BY <1>3 DEF Follows
<1>5. \A a, v : /\ Message("create-task", a, 0, "", "").tag = "create-task"
                /\ Message("create-task", a, 0, "", "").about = a
                /\ Message("append-to-task", a, v, "", "").tag = "append-to-task"
                /\ Message("append-to-task", a, v, "", "").about = a
  BY DEF Message
<1>6. x.tag \in {"create-task", "append-to-task"} /\ x.about = m.about
  <2>1. CASE x = Message("create-task", m.about, 0, "", "")
    BY <1>5, <2>1
  <2>2. CASE \E v \in 1..Opened : x = Message("append-to-task", m.about, v, "", "")
    <3>1. PICK v : x = Message("append-to-task", m.about, v, "", "")
      BY <2>2
    <3>2. QED
      BY <1>5, <3>1
  <2>3. QED
    BY <1>4, <2>1, <2>2
<1>7. m \in AnyMessage
  BY Zenon DEF MessageType
<1>8. QED
  BY <1>1, <1>3, <1>4, <1>6, <1>7 DEF UnderWay, Takes, About, OfRow, Filed

\* A row's message is one of those that take it up or the one that routes it.
LEMMA RowKinds ==
  ASSUME NEW r
  PROVE  /\ Takes(r) \subseteq UnderWay(r)
         /\ \A m \in AnyMessage : m \in UnderWay(r) <=> m.tag \in OfRow /\ m.about = r
         /\ \A m \in AnyMessage : m \in Takes(r) <=> m.tag \in {"create-task", "append-to-task"} /\ m.about = r
BY DEF Takes, UnderWay, About, OfRow

\* The loop's turn, for one row.
LEMMA ReduceRow ==
  ASSUME Types, NEW r \in Nat, RowOnce(inbox, model, r), NEW m, NEW t, NEW y, NEW u,
         inbox # <<>>, m = Head(inbox), t = Tail(inbox), y = inbox',
         y = Tail(inbox) \o Sends(model, m), u = Update(model, m)
  PROVE  /\ RowOnce(y, u, r)
         /\ Has(y, UnderWay(r)) => Has(inbox, UnderWay(r))
         /\ m \notin UnderWay(r) => (Has(y, UnderWay(r)) <=> Has(inbox, UnderWay(r)))
<1>1. /\ m \in MessageType(Stored, Begun, Opened) /\ m = inbox[1] /\ 1 \in DOMAIN inbox
      /\ t \in Seq(MessageType(Stored, Begun, Opened)) /\ Less(t, inbox, 1)
      /\ y = t \/ \E x : Follows(x, m) /\ y = Append(t, x)
  BY ReduceInbox
<1>2. Tasked(u, m) /\ Typed(u, m)
  BY <1>1, TaskedFacts, UpdateTyped
<1>3. Filed(u, r) <=> Filed(model, r) \/ (Files(m) /\ r = m.about)
  BY <1>1, <1>2, FiledFacts
<1>4. m \in AnyMessage
  BY <1>1 DEF MessageType
<1>5. /\ Once(t, UnderWay(r))
      /\ Has(t, UnderWay(r)) => Has(inbox, UnderWay(r))
      /\ Has(t, Takes(r)) => Has(inbox, Takes(r))
      /\ m \in UnderWay(r) => ~Has(t, UnderWay(r))
  <2>1. Once(inbox, UnderWay(r))
    BY DEF RowOnce
  <2>2. \A K : Has(t, K) => Has(inbox, K)
    BY <1>1, LessHas
  <2>3. Once(t, UnderWay(r)) /\ (m \in UnderWay(r) => ~Has(t, UnderWay(r)))
    BY <1>1, <2>1, LessHas
  <2>4. QED
    BY <2>2, <2>3
<1>6. /\ Has(t, UnderWay(r)) => Has(inbox, UnderWay(r))
      /\ Has(t, Takes(r)) => Has(inbox, Takes(r)) /\ Has(t, UnderWay(r))
  <2>1. \A K : Has(t, K) => Has(inbox, K)
    BY <1>1, LessHas
  <2>2. Has(t, Takes(r)) => Has(t, UnderWay(r))
    BY RowKinds DEF Has
  <2>3. QED
    BY <2>1, <2>2
<1>7. Files(m) /\ r = m.about => m \in UnderWay(r)
  BY <1>4, RowKinds DEF Files, OfRow
<1>8. CASE m \in UnderWay(r)
  <2>1. ~Has(t, UnderWay(r)) /\ ~Has(t, Takes(r))
    BY <1>5, <1>6, <1>8
  <2>2. Has(inbox, UnderWay(r))
    BY <1>1, <1>8 DEF Has
  <2>3. CASE y = t
    BY <1>5, <1>8, <2>1, <2>2, <2>3 DEF RowOnce
  <2>4. CASE \E x : Follows(x, m) /\ y = Append(t, x)
    <3>1. PICK x : Follows(x, m) /\ y = Append(t, x)
      BY <2>4
    <3>2. PICK S : S = MessageType(Stored, Begun, Opened) \cup {x}
      OBVIOUS
    <3>3. t \in Seq(S) /\ x \in S
      BY <1>1, <3>2, SeqWider
    <3>4. ASSUME NEW K
          PROVE  /\ Has(y, K) <=> Has(t, K) \/ x \in K
                 /\ Once(t, K) /\ (x \notin K \/ ~Has(t, K)) => Once(y, K)
      <4>1. /\ Has(Append(t, x), K) <=> Has(t, K) \/ x \in K
            /\ Once(t, K) /\ (x \notin K \/ ~Has(t, K)) => Once(Append(t, x), K)
        BY <3>3, AppendHas
      <4>2. QED
        BY <3>1, <4>1
    <3>5. Once(y, UnderWay(r)) /\ (Has(y, Takes(r)) => x \in Takes(r))
      BY <1>5, <2>1, <3>4
    <3>6. x \in Takes(r) => m.tag = "route-email" /\ ~Filed(model, r)
      BY <1>1, <3>1, FollowsRows, RowKinds
    <3>7. m.tag = "route-email" => ~Files(m)
      BY DEF Files
    <3>8. RowOnce(y, u, r)
      BY <1>3, <3>5, <3>6, <3>7 DEF RowOnce
    <3>9. QED
      BY <1>8, <2>2, <3>8
  <2>5. QED
    BY <1>1, <2>3, <2>4
<1>9. CASE m \notin UnderWay(r)
  <2>1. Filed(u, r) <=> Filed(model, r)
    BY <1>3, <1>7, <1>9
  <2>2. Has(inbox, Takes(r)) => ~Filed(u, r)
    BY <2>1 DEF RowOnce
  <2>3. Has(inbox, UnderWay(r)) => Has(t, UnderWay(r))
    <3>1. inbox \in Seq(MessageType(Stored, Begun, Opened))
      BY DEF Types
    <3>2. PICK S : S = MessageType(Stored, Begun, Opened)
      OBVIOUS
    <3>3. \A i \in DOMAIN inbox : i = 1 \/ (i - 1 \in DOMAIN t /\ t[i - 1] = inbox[i])
      <4>1. inbox \in Seq(S) /\ inbox # <<>>
        BY <3>1, <3>2
      <4>2. QED
        BY <4>1
    <3>4. QED
      BY <1>1, <1>9, <3>3 DEF Has
  <2>4. CASE y = t
    BY <1>5, <1>6, <2>2, <2>3, <2>4 DEF RowOnce
  <2>5. CASE \E x : Follows(x, m) /\ y = Append(t, x)
    <3>1. PICK x : Follows(x, m) /\ y = Append(t, x)
      BY <2>5
    <3>2. PICK S : S = MessageType(Stored, Begun, Opened) \cup {x}
      OBVIOUS
    <3>3. t \in Seq(S) /\ x \in S
      BY <1>1, <3>2, SeqWider
    <3>4. ASSUME NEW K
          PROVE  /\ Has(y, K) <=> Has(t, K) \/ x \in K
                 /\ Once(t, K) /\ (x \notin K \/ ~Has(t, K)) => Once(y, K)
      <4>1. /\ Has(Append(t, x), K) <=> Has(t, K) \/ x \in K
            /\ Once(t, K) /\ (x \notin K \/ ~Has(t, K)) => Once(Append(t, x), K)
        BY <3>3, AppendHas
      <4>2. QED
        BY <3>1, <4>1
    <3>5. x \notin UnderWay(r) /\ x \notin Takes(r)
      BY <1>1, <1>9, <3>1, FollowsRows, RowKinds
    <3>6. RowOnce(y, u, r)
      BY <1>5, <1>6, <2>2, <3>4, <3>5 DEF RowOnce
    <3>7. QED
      BY <1>6, <2>3, <3>4, <3>5, <3>6
  <2>6. QED
    BY <1>1, <2>4, <2>5
<1>10. QED
  BY <1>8, <1>9

\* What is returned to a poller leaves its batch and its next cursor alone.
LEMMA ReturnedFacts ==
  ASSUME NEW a, NEW p \in PollerType(a)
  PROVE  Returned(p).batch = p.batch /\ Returned(p).next = p.next
<1>1. CASE p.at = "routing"
  <2>1. Returned(p) = Onward(p)
    BY <1>1 DEF Returned
  <2>2. QED
    BY <2>1, PollerFacts
<1>2. CASE p.at # "routing"
  BY <1>2 DEF Returned, PollerType
<1>3. QED
  BY <1>1, <1>2

\* A row under way stays ahead of the cursor's message as long as its own message
\* is not applied.
LEMMA HeldKept ==
  ASSUME NEW S, NEW s \in Seq(S), s # <<>>, NEW k, NEW r, Held(s, k, r), NEW t, t = Tail(s), NEW y,
         s[1] \notin UnderWay(r), Has(y, UnderWay(r)),
         y = t \/ \E x \in S : y = Append(t, x) /\ x \notin By("record-poll-state", k)
  PROVE  Held(y, k, r)
<1>1. PICK L : L = By("record-poll-state", k)
  OBVIOUS
<1>2. t \in Seq(S)
  BY TailLess
<1>3. Before(s, Takes(r), L) /\ s[1] \notin Takes(r)
  BY <1>1, RowKinds DEF Held
<1>4. Before(t, Takes(r), L)
  BY <1>3, BeforeTail
<1>5. Before(y, Takes(r), L)
  <2>1. ASSUME NEW x \in S, y = Append(t, x), x \notin L PROVE Before(y, Takes(r), L)
    <3>1. Before(Append(t, x), Takes(r), L)
      BY <1>2, <1>4, <2>1, BeforeAppend
    <3>2. QED
      BY <2>1, <3>1
  <2>2. QED
    BY <1>1, <1>4, <2>1
<1>6. QED
  BY <1>1, <1>5 DEF Held

\* What was done with stays so.
LEMMA DoneKept ==
  ASSUME NEW u, NEW v, NEW rs, NEW d, NEW e, NEW x, Done(u, rs, d, x), d \subseteq e,
         \A r : Filed(u, r) => Filed(v, r)
  PROVE  Done(v, rs, e, x)
BY DEF Done

\* The loop's turn, seen from the mails.
Turn(m, t, y, u, d) ==
  /\ m \in MessageType(Stored, Begun, Opened) /\ m = inbox[1] /\ 1 \in DOMAIN inbox
  /\ inbox # <<>> /\ m = Head(inbox) /\ t = Tail(inbox)
  /\ t \in Seq(MessageType(Stored, Begun, Opened)) /\ Less(t, inbox, 1)
  /\ u = Update(model, m) /\ y = t \o Sends(model, m)
  /\ y = t \/ \E x : Follows(x, m) /\ y = Append(t, x)
  /\ d = IF TurnsAway(model, m) THEN dropped \cup {rows[m.about]} ELSE dropped

\* A reduce turn, seen from the rows, the pollers and the anchors.
LEMMA TurnFacts ==
  ASSUME Types, Reduce
  PROVE  \E m, t : /\ Turn(m, t, inbox', model', dropped')
                   /\ \A k \in Mechanisms :
                        /\ pollers'[k] = IF k = m.by THEN Returned(pollers[k]) ELSE pollers[k]
                        /\ anchor'[k] = IF m.tag = "record-poll-state" /\ k = m.by /\ anchor[k] = -1
                                        THEN m.about ELSE anchor[k]
                   /\ rows' = rows /\ boxes' = boxes
<1>1. PICK m, t : m = Head(inbox) /\ t = Tail(inbox)
  OBVIOUS
<1>2. /\ inbox # <<>> /\ inbox' = t \o Sends(model, m) /\ model' = Update(model, m)
      /\ dropped' = IF TurnsAway(model, m) THEN dropped \cup {rows[m.about]} ELSE dropped
      /\ pollers' = [k \in Mechanisms |-> IF k = m.by THEN Returned(pollers[k]) ELSE pollers[k]]
      /\ anchor' = [k \in Mechanisms |-> IF m.tag = "record-poll-state" /\ k = m.by /\ anchor[k] = -1
                                         THEN m.about ELSE anchor[k]]
      /\ rows' = rows /\ boxes' = boxes
  BY <1>1 DEF Reduce
<1>3. PICK y : y = inbox'
  OBVIOUS
<1>4. /\ m \in MessageType(Stored, Begun, Opened) /\ m = inbox[1] /\ 1 \in DOMAIN inbox
      /\ t \in Seq(MessageType(Stored, Begun, Opened)) /\ Less(t, inbox, 1)
      /\ inbox' = t \/ \E x : Follows(x, m) /\ inbox' = Append(t, x)
  BY <1>1, <1>2, ReduceInbox
<1>5. Turn(m, t, inbox', model', dropped')
  BY <1>1, <1>2, <1>4 DEF Turn
<1>6. QED
  BY <1>2, <1>5

\* The rows and their tasks, after the loop's turn.
LEMMA TakenReduce ==
  ASSUME Types, Taken, NEW m, NEW t, NEW y, NEW u, NEW d, Turn(m, t, y, u, d), y = inbox'
  PROVE  /\ Single(u) /\ (\A r \in Nat : RowOnce(y, u, r)) /\ Owned(y, rows, boxes)
         /\ \A r : Filed(u, r) <=> Filed(model, r) \/ (Files(m) /\ r = m.about)
         /\ \A r \in Nat : Has(y, UnderWay(r)) => Has(inbox, UnderWay(r))
<1>1. m \in MessageType(Stored, Begun, Opened) /\ m = inbox[1] /\ 1 \in DOMAIN inbox
  BY DEF Turn
<1>2. u = Update(model, m) /\ Tasked(u, m) /\ Typed(u, m)
  <2>1. u = Update(model, m)
    BY DEF Turn
  <2>2. QED
    BY <1>1, <2>1, TaskedFacts, UpdateTyped
<1>3. Files(m) => ~Filed(model, m.about)
  <2>1. ASSUME Files(m) PROVE ~Filed(model, m.about)
    <3>1. m.tag \in {"create-task", "append-to-task"}
      BY <2>1 DEF Files
    <3>2. m \in AnyMessage
      BY <1>1 DEF MessageType
    <3>3. m.about \in 1..Stored
      <4>1. m.tag \in OfRow
        BY <3>1 DEF OfRow
      <4>2. QED
        BY <1>1, <4>1, ModelFacts, MessageFacts
    <3>4. m.about \in Nat
      BY <3>3, ModelFacts
    <3>5. Has(inbox, Takes(m.about))
      <4>1. m \in Takes(m.about)
        BY <3>1, <3>2, RowKinds
      <4>2. QED
        BY <1>1, <4>1 DEF Has
    <3>6. QED
      BY <3>4, <3>5 DEF Taken, RowOnce
  <2>2. QED
    BY <2>1
<1>4. /\ \A r : Filed(u, r) <=> Filed(model, r) \/ (Files(m) /\ r = m.about)
      /\ Single(u)
  BY <1>1, <1>2, <1>3, FiledFacts DEF Taken
<1>5. ASSUME NEW r \in Nat
      PROVE  RowOnce(y, u, r) /\ (Has(y, UnderWay(r)) => Has(inbox, UnderWay(r)))
  <2>1. RowOnce(inbox, model, r)
    BY DEF Taken
  <2>2. /\ inbox # <<>> /\ m = Head(inbox) /\ t = Tail(inbox) /\ u = Update(model, m)
        /\ y = Tail(inbox) \o Sends(model, m)
    BY DEF Turn
  <2>3. QED
    BY <2>1, <2>2, ReduceRow
<1>6. Owned(y, rows, boxes)
  <2>1. Owned(t, rows, boxes)
    <3>1. Less(t, inbox, 1) /\ Owned(inbox, rows, boxes)
      BY DEF Turn, Taken
    <3>2. QED
      BY <3>1 DEF Less, Owned
  <2>2. CASE y = t
    BY <2>1, <2>2
  <2>3. ASSUME NEW x, Follows(x, m), y = Append(t, x) PROVE Owned(y, rows, boxes)
    <3>1. x.tag # "route-email"
      BY <1>1, <2>3, FollowsTyped DEF OfPoller
    <3>2. PICK R, S : R = MessageType(Stored, Begun, Opened) /\ S = R \cup {x}
      OBVIOUS
    <3>3. t \in Seq(R) /\ R \subseteq S /\ x \in S
      BY <3>2 DEF Turn
    <3>4. t \in Seq(S)
      BY <3>3, SeqWider
    <3>5. \A i \in DOMAIN Append(t, x) : Append(t, x)[i] = x \/ (i \in DOMAIN t /\ Append(t, x)[i] = t[i])
      BY <3>3, <3>4
    <3>6. QED
      BY <2>1, <2>3, <3>1, <3>5 DEF Owned
  <2>4. QED
    BY <2>2, <2>3 DEF Turn
<1>7. QED
  BY <1>4, <1>5, <1>6

\* A poller that waits for a mail to be routed has no cursor on the channel.
LEMMA RoutingOnly ==
  ASSUME Types, NEW k \in Mechanisms, Polls(k), NEW i \in DOMAIN inbox,
         inbox[i] \in By("route-email", k)
  PROVE  ~Has(inbox, By("record-poll-state", k))
<1>1. Waited(pollers[k], k, inbox)
  BY DEF Polls
<1>2. pollers[k].at = "routing"
  BY <1>1 DEF Waited, Has
<1>3. QED
  BY <1>1, <1>2 DEF Waited

\* The message of a row is applied: the row is filed or turned away, or the one
\* that takes it up is sent.
LEMMA RowApplied ==
  ASSUME Types, AllPoll, Rows, Taken, NEW k \in Mechanisms,
         NEW m, NEW t, NEW y, NEW u, NEW d, Turn(m, t, y, u, d), y = inbox',
         NEW r \in DOMAIN rows, m \in UnderWay(r), rows[r] \in Range(boxes[k])
  PROVE  Done(u, rows, d, rows[r]) \/ Held(y, k, r)
<1>1. m \in MessageType(Stored, Begun, Opened) /\ m = inbox[1] /\ 1 \in DOMAIN inbox
  BY DEF Turn
<1>2. m \in AnyMessage /\ m.tag \in OfRow /\ m.about = r
  BY <1>1, RowKinds DEF MessageType
<1>3. \A z : Filed(u, z) <=> Filed(model, z) \/ (Files(m) /\ z = m.about)
  BY TakenReduce
<1>4. TurnsAway(model, m) => Done(u, rows, d, rows[r])
  BY <1>2 DEF Turn, Done
<1>5. Filed(model, r) \/ Files(m) => Done(u, rows, d, rows[r])
  BY <1>2, <1>3 DEF Done
<1>6. CASE m.tag # "route-email"
  <2>1. Files(m) \/ TurnsAway(model, m)
    BY <1>2, <1>6 DEF Files, TurnsAway, OfRow
  <2>2. QED
    BY <1>4, <1>5, <2>1
<1>7. CASE m.tag = "route-email" /\ RouteEmail(model, m) = <<>>
  <2>1. TurnsAway(model, m) \/ Filed(model, r)
    BY <1>2, <1>7 DEF TurnsAway, Filed
  <2>2. QED
    BY <1>4, <1>5, <2>1
<1>8. CASE m.tag = "route-email" /\ RouteEmail(model, m) # <<>>
  <2>1. m.by = k /\ m \in By("route-email", k)
    <3>1. m.by \in Mechanisms
      BY <1>1, <1>8, MessageFacts, ModelFacts DEF OfPoller
    <3>2. rows[r] \in Range(boxes[m.by])
      BY <1>1, <1>2, <1>8 DEF Taken, Owned
    <3>3. m.by = k
      BY <3>1, <3>2 DEF Rows, Apart, Range
    <3>4. QED
      BY <1>2, <1>8, <3>3 DEF By
  <2>2. ~Has(inbox, By("record-poll-state", k))
    <3>1. Polls(k)
      BY DEF AllPoll
    <3>2. QED
      BY <1>1, <2>1, <3>1, RoutingOnly
  <2>3. ~Has(t, By("record-poll-state", k))
    BY <2>2, LessHas DEF Turn
  <2>4. Sends(model, m) = RouteEmail(model, m)
    BY <1>8 DEF Sends
  <2>5. PICK x : Follows(x, m) /\ Sends(model, m) = <<x>>
    BY <1>8, <2>4, SendsFacts
  <2>6. y = Append(t, x)
    <3>1. y = t \o <<x>> /\ t \in Seq(MessageType(Stored, Begun, Opened))
      BY <2>5 DEF Turn
    <3>2. PICK R, S : R = MessageType(Stored, Begun, Opened) /\ S = R \cup {x}
      OBVIOUS
    <3>3. t \in Seq(R) /\ R \subseteq S /\ x \in S
      BY <3>1, <3>2
    <3>4. t \in Seq(S)
      BY <3>3, SeqWider
    <3>5. QED
      BY <3>1, <3>3, <3>4
  <2>7. x \in Takes(r) /\ x \notin By("record-poll-state", k)
    <3>1. \A a, v : /\ Message("create-task", a, 0, "", "").tag = "create-task"
                    /\ Message("create-task", a, 0, "", "").about = a
                    /\ Message("append-to-task", a, v, "", "").tag = "append-to-task"
                    /\ Message("append-to-task", a, v, "", "").about = a
      BY DEF Message
    <3>2. \/ x = Message("create-task", m.about, 0, "", "")
          \/ \E v \in 1..Opened : x = Message("append-to-task", m.about, v, "", "")
      BY <1>8, <2>5 DEF Follows
    <3>3. x.tag \in {"create-task", "append-to-task"} /\ x.about = r
      <4>1. CASE x = Message("create-task", m.about, 0, "", "")
        BY <1>2, <3>1, <4>1
      <4>2. ASSUME NEW v, x = Message("append-to-task", m.about, v, "", "")
            PROVE  x.tag \in {"create-task", "append-to-task"} /\ x.about = r
        BY <1>2, <3>1, <4>2
      <4>3. QED
        BY <3>2, <4>1, <4>2
    <3>4. x \in AnyMessage
      <4>1. x \in MessageType(Stored, Begun, IF m.tag = "create-task" THEN Opened + 1 ELSE Opened)
        BY <1>1, <2>5, FollowsTyped
      <4>2. QED
        BY <4>1 DEF MessageType
    <3>5. QED
      BY <3>3, <3>4, RowKinds DEF By
  <2>8. Has(y, UnderWay(r)) /\ ~Has(y, By("record-poll-state", k))
    <3>1. PICK R, S : R = MessageType(Stored, Begun, Opened) /\ S = R \cup {x}
      OBVIOUS
    <3>2. t \in Seq(R) /\ R \subseteq S /\ x \in S
      BY <3>1 DEF Turn
    <3>3. t \in Seq(S)
      BY <3>2, SeqWider
    <3>4. ASSUME NEW K PROVE Has(y, K) <=> Has(t, K) \/ x \in K
      <4>1. Has(Append(t, x), K) <=> Has(t, K) \/ x \in K
        BY <3>2, <3>3, AppendHas
      <4>2. QED
        BY <2>6, <4>1
    <3>5. x \in UnderWay(r)
      BY <2>7, RowKinds
    <3>6. QED
      BY <2>3, <2>7, <3>4, <3>5
  <2>9. QED
    BY <2>8, BeforeNone DEF Held
<1>9. QED
  BY <1>6, <1>7, <1>8

\* Where every mail of a mailbox is after the loop's turn.
LEMMA PolledReduce ==
  ASSUME Types, AllPoll, TakenUp, Reduce, NEW k \in Mechanisms
  PROVE  Polled(k)'
<1>1. PICK m, t : /\ Turn(m, t, inbox', model', dropped')
                  /\ pollers'[k] = IF k = m.by THEN Returned(pollers[k]) ELSE pollers[k]
                  /\ anchor'[k] = IF m.tag = "record-poll-state" /\ k = m.by /\ anchor[k] = -1
                                  THEN m.about ELSE anchor[k]
                  /\ rows' = rows /\ boxes' = boxes
  BY TurnFacts
<1>2. PICK y, u, d : y = inbox' /\ u = model' /\ d = dropped'
  OBVIOUS
<1>3. Turn(m, t, y, u, d)
  BY <1>1, <1>2
<1>4. /\ \A r : Filed(u, r) <=> Filed(model, r) \/ (Files(m) /\ r = m.about)
      /\ \A r \in Nat : Has(y, UnderWay(r)) => Has(inbox, UnderWay(r))
  BY <1>2, <1>3, TakenReduce DEF TakenUp
<1>5. PICK b, n : b = pollers[k].batch /\ n = pollers[k].next
  OBVIOUS
<1>6. pollers'[k].batch = b /\ pollers'[k].next = n
  <2>1. pollers[k] \in PollerType(Arrived)
    BY DEF Types
  <2>2. QED
    BY <1>1, <1>5, <2>1, ReturnedFacts
<1>7. Ahead(y, rows, boxes[k], b, n)
  <2>1. Ahead(inbox, rows, boxes[k], b, n)
    BY <1>5 DEF TakenUp, Polled
  <2>2. \A r \in DOMAIN rows : r \in Nat
    BY ModelFacts
  <2>3. QED
    BY <1>4, <2>1, <2>2 DEF Ahead
<1>8. PICK h, c, e, g : /\ h = anchor[k] /\ c = model.cursor[k]
                        /\ e = anchor'[k] /\ g = model'.cursor[k]
  OBVIOUS
<1>9. /\ m \in MessageType(Stored, Begun, Opened) /\ m \in AnyMessage
      /\ inbox # <<>> /\ m = inbox[1] /\ 1 \in DOMAIN inbox
  BY <1>3 DEF Turn, MessageType
<1>10. Placed(pollers[k], c, h, boxes[k]) /\ Waited(pollers[k], k, inbox)
  BY <1>8 DEF AllPoll, Polls
<1>11. NoneSkipped(k, inbox, model, rows, dropped, boxes[k], h, c, b, n)
  BY <1>5, <1>8 DEF TakenUp, Polled
<1>12. ASSUME NEW q \in DOMAIN boxes[k], 0 <= e, e < q, q <= n
       PROVE  \/ Done(u, rows, d, boxes[k][q])
              \/ g < q /\ (boxes[k][q] \in Range(b) \/ InHand(y, rows, k, boxes[k][q]))
  <2>1. PICK x : x = boxes[k][q]
    OBVIOUS
  <2>2. n \in Int /\ q \in Int
    <3>1. pollers[k] \in PollerType(Arrived) /\ boxes[k] \in Seq(1..Arrived)
      BY DEF Types
    <3>2. PICK S : S = 1..Arrived
      OBVIOUS
    <3>3. boxes[k] \in Seq(S)
      BY <3>1, <3>2
    <3>4. q \in Int
      BY <3>3
    <3>5. QED
      BY <1>5, <3>1, <3>4 DEF PollerType
  <2>3. e = h
    <3>1. CASE m.tag = "record-poll-state" /\ k = m.by /\ anchor[k] = -1
      <4>1. m \in By("record-poll-state", k)
        BY <1>9, <3>1 DEF By
      <4>2. m.about = n
        BY <1>5, <1>9, <1>10, <4>1 DEF Waited
      <4>3. e = n
        BY <1>1, <1>8, <3>1, <4>2
      <4>4. n < q /\ q <= n
        BY <1>12, <4>3
      <4>5. QED
        BY <2>2, <4>4
    <3>2. QED
      BY <1>1, <1>8, <3>1
  <2>4. \/ Done(model, rows, dropped, x)
        \/ c < q /\ (x \in Range(b) \/ InHand(inbox, rows, k, x))
    BY <1>11, <1>12, <2>1, <2>3 DEF NoneSkipped
  <2>5. CASE Done(model, rows, dropped, x)
    <3>1. dropped \subseteq d
      BY <1>3 DEF Turn
    <3>2. Done(u, rows, d, x)
      BY <1>4, <2>5, <3>1, DoneKept
    <3>3. QED
      BY <2>1, <3>2
  <2>6. CASE m \in By("record-poll-state", k) /\ c < q /\ (x \in Range(b) \/ InHand(inbox, rows, k, x))
    <3>1. b = <<>>
      <4>1. pollers[k].at = "recording"
        BY <1>9, <1>10, <2>6 DEF Waited, Has
      <4>2. QED
        BY <1>5, <1>10, <4>1 DEF Placed
    <3>2. x \notin Range(b)
      BY <3>1 DEF Range
    <3>3. PICK r \in DOMAIN rows : rows[r] = x /\ Held(inbox, k, r)
      BY <2>6, <3>2 DEF InHand
    <3>4. m \notin By("record-poll-state", k)
      <4>1. inbox \in Seq(MessageType(Stored, Begun, Opened))
        BY DEF Types
      <4>2. PICK S, L : S = MessageType(Stored, Begun, Opened) /\ L = By("record-poll-state", k)
        OBVIOUS
      <4>3. inbox \in Seq(S) /\ inbox # <<>> /\ Before(inbox, Takes(r), L)
        BY <1>9, <3>3, <4>1, <4>2 DEF Held
      <4>4. inbox[1] \notin L
        BY <4>3, BeforeTail
      <4>5. QED
        BY <1>9, <4>2, <4>4
    <3>5. QED
      BY <2>6, <3>4
  <2>7. CASE m \notin By("record-poll-state", k) /\ c < q /\ (x \in Range(b) \/ InHand(inbox, rows, k, x))
    <3>1. g = c
      <4>1. model' = Update(model, m)
        BY <1>1 DEF Turn
      <4>2. ~(m.tag = "record-poll-state" /\ m.by = k)
        BY <1>9, <2>7 DEF By
      <4>3. QED
        BY <1>8, <4>1, <4>2, CursorFacts
    <3>2. CASE x \in Range(b)
      BY <2>1, <2>7, <3>1, <3>2
    <3>3. ASSUME NEW r \in DOMAIN rows, rows[r] = x, Held(inbox, k, r)
          PROVE  Done(u, rows, d, x) \/ InHand(y, rows, k, x)
      <4>1. CASE m \in UnderWay(r)
        <5>1. rows[r] \in Range(boxes[k])
          BY <2>1, <3>3 DEF Range
        <5>2. Done(u, rows, d, rows[r]) \/ Held(y, k, r)
          BY <1>2, <1>3, <4>1, <5>1, RowApplied DEF TakenUp
        <5>3. QED
          BY <3>3, <5>2 DEF InHand
      <4>2. CASE m \notin UnderWay(r)
        <5>1. r \in Nat
          BY ModelFacts
        <5>2. Has(y, UnderWay(r))
          <6>1. RowOnce(inbox, model, r)
            BY <5>1 DEF TakenUp, Taken
          <6>2. /\ inbox # <<>> /\ m = Head(inbox) /\ t = Tail(inbox) /\ u = Update(model, m)
                /\ y = Tail(inbox) \o Sends(model, m)
            BY <1>3 DEF Turn
          <6>3. Has(y, UnderWay(r)) <=> Has(inbox, UnderWay(r))
            BY <1>2, <4>2, <5>1, <6>1, <6>2, ReduceRow
          <6>4. QED
            BY <3>3, <6>3 DEF Held
        <5>3. PICK S : S = MessageType(Stored, Begun, Opened) \cup MessageType(Stored, Begun, Opened + 1)
          OBVIOUS
        <5>4. inbox \in Seq(S)
          <6>1. PICK R : R = MessageType(Stored, Begun, Opened)
            OBVIOUS
          <6>2. inbox \in Seq(R) /\ R \subseteq S
            BY <5>3, <6>1 DEF Types
          <6>3. QED
            BY <6>2, SeqWider
        <5>5. y = t \/ \E x1 \in S : y = Append(t, x1) /\ x1 \notin By("record-poll-state", k)
          <6>1. ASSUME NEW x1, Follows(x1, m), y = Append(t, x1)
                PROVE  x1 \in S /\ x1 \notin By("record-poll-state", k)
            <7>1. /\ x1 \in MessageType(Stored, Begun, IF m.tag = "create-task" THEN Opened + 1 ELSE Opened)
                  /\ x1.tag \notin OfPoller
              BY <1>9, <6>1, FollowsTyped
            <7>2. QED
              BY <5>3, <7>1 DEF By, OfPoller
          <6>2. QED
            BY <1>3, <6>1 DEF Turn
        <5>6. Held(y, k, r)
          <6>1. t = Tail(inbox) /\ inbox # <<>> /\ inbox[1] \notin UnderWay(r)
            BY <1>3, <1>9, <4>2 DEF Turn
          <6>2. QED
            BY <3>3, <5>2, <5>4, <5>5, <6>1, HeldKept
        <5>7. QED
          BY <3>3, <5>6 DEF InHand
      <4>3. QED
        BY <4>1, <4>2
    <3>4. QED
      BY <2>1, <2>7, <3>1, <3>2, <3>3 DEF InHand
  <2>8. QED
    BY <2>1, <2>4, <2>5, <2>6, <2>7
<1>13. NoneSkipped(k, y, u, rows, d, boxes[k], e, g, b, n)
  BY <1>12 DEF NoneSkipped
<1>14. QED
  BY <1>1, <1>2, <1>6, <1>7, <1>8, <1>13 DEF Polled

-----------------------------------------------------------------------------
\* A message more on the channel: what is held stays so, unless the message is the
\* cursor's and nothing takes the row up yet.
Longer(x, y) ==
  /\ \A K : Has(y, K) <=> Has(inbox, K) \/ x \in K
  /\ \A K : Once(inbox, K) /\ (x \notin K \/ ~Has(inbox, K)) => Once(y, K)
  /\ \A k, r : /\ Held(inbox, k, r)
               /\ x \notin By("record-poll-state", k) \/ Has(inbox, Takes(r))
               => Held(y, k, r)
  /\ \A i \in DOMAIN y : y[i] = x \/ (i \in DOMAIN inbox /\ y[i] = inbox[i])

\* A message added at the end leaves the ones before it where they are.
LEMMA AppendHeld ==
  ASSUME Types, NEW x, NEW y, y = Append(inbox, x)
  PROVE  Longer(x, y)
<1>1. PICK R, S : R = MessageType(Stored, Begun, Opened) /\ S = R \cup {x}
  OBVIOUS
<1>2. inbox \in Seq(R) /\ R \subseteq S /\ x \in S
  BY <1>1 DEF Types
<1>3. inbox \in Seq(S)
  BY <1>2, SeqWider
<1>4. ASSUME NEW K
      PROVE  /\ Has(y, K) <=> Has(inbox, K) \/ x \in K
             /\ Once(inbox, K) /\ (x \notin K \/ ~Has(inbox, K)) => Once(y, K)
  <2>1. /\ Has(Append(inbox, x), K) <=> Has(inbox, K) \/ x \in K
        /\ Once(inbox, K) /\ (x \notin K \/ ~Has(inbox, K)) => Once(Append(inbox, x), K)
    BY <1>2, <1>3, AppendHas
  <2>2. QED
    BY <2>1
<1>5. ASSUME NEW k, NEW r, Held(inbox, k, r),
             x \notin By("record-poll-state", k) \/ Has(inbox, Takes(r))
      PROVE  Held(y, k, r)
  <2>1. PICK L : L = By("record-poll-state", k)
    OBVIOUS
  <2>2. Before(inbox, Takes(r), L) /\ (x \notin L \/ Has(inbox, Takes(r)))
    BY <1>5, <2>1 DEF Held
  <2>3. Before(Append(inbox, x), Takes(r), L)
    BY <1>2, <1>3, <2>2, BeforeAppend
  <2>4. Has(y, UnderWay(r))
    BY <1>4, <1>5 DEF Held
  <2>5. QED
    BY <2>1, <2>3, <2>4 DEF Held
<1>6. \A i \in DOMAIN Append(inbox, x) : \/ Append(inbox, x)[i] = x
                                         \/ i \in DOMAIN inbox /\ Append(inbox, x)[i] = inbox[i]
  BY <1>2, <1>3
<1>7. QED
  BY <1>4, <1>5, <1>6 DEF Longer

\* More rows, the old ones as they were.
Grown(rs) ==
  /\ rs \in Seq(1..Arrived) /\ Stored <= Len(rs)
  /\ \A i \in 1..Stored : rs[i] = rows[i]

\* Rows left alone have grown by nothing.
LEMMA GrownSame ==
  ASSUME Types
  PROVE  Grown(rows)
BY ModelFacts DEF Grown, Types, Stored

\* Rows that have grown keep every row they had.
LEMMA GrownFacts ==
  ASSUME Types, NEW rs, Grown(rs)
  PROVE  /\ DOMAIN rs = 1..Len(rs) /\ Len(rs) \in Nat
         /\ \A r \in DOMAIN rows : r \in DOMAIN rs /\ rs[r] = rows[r]
<1>1. PICK S : S = 1..Arrived
  OBVIOUS
<1>2. rs \in Seq(S)
  BY <1>1 DEF Grown
<1>3. DOMAIN rs = 1..Len(rs) /\ Len(rs) \in Nat
  BY <1>2
<1>4. DOMAIN rows = 1..Stored /\ Stored \in Nat
  BY ModelFacts
<1>5. \A r \in 1..Stored : r \in 1..Len(rs)
  BY <1>3, <1>4 DEF Grown
<1>6. QED
  BY <1>3, <1>4, <1>5 DEF Grown

\* A poller has a batch left of the mails it had; what it has no more is turned away
\* or in hand, and what is newly under way is a mail it had.
LEMMA PolledLeft ==
  ASSUME Types, NEW k \in Mechanisms, Polled(k),
         NEW y, NEW rs, Grown(rs), NEW d, dropped \subseteq d,
         NEW b, b = boxes[k], NEW n, n = pollers[k].next,
         NEW batch, Range(batch) \subseteq Range(pollers[k].batch),
         \A r \in DOMAIN rs, q \in DOMAIN b : Has(y, UnderWay(r)) /\ rs[r] = b[q] =>
           \/ r \in DOMAIN rows /\ Has(inbox, UnderWay(r))
           \/ q <= n /\ rs[r] \notin Range(batch),
         \A r \in DOMAIN rows : rows[r] \in Range(b) /\ Held(inbox, k, r) => Held(y, k, r),
         \A x \in Range(pollers[k].batch) : x \in Range(batch) \/ x \in d \/ InHand(y, rs, k, x)
  PROVE  /\ Ahead(y, rs, b, batch, n)
         /\ NoneSkipped(k, y, model, rs, d, b, anchor[k], model.cursor[k], batch, n)
<1>1. /\ Ahead(inbox, rows, b, pollers[k].batch, n)
      /\ NoneSkipped(k, inbox, model, rows, dropped, b, anchor[k], model.cursor[k],
                     pollers[k].batch, n)
  BY DEF Polled
<1>2. \A r \in DOMAIN rows : r \in DOMAIN rs /\ rs[r] = rows[r]
  BY GrownFacts
<1>3. ASSUME NEW q \in DOMAIN b, NEW r \in DOMAIN rs, Has(y, UnderWay(r)), rs[r] = b[q]
      PROVE  q <= n /\ b[q] \notin Range(batch)
  <2>1. CASE r \in DOMAIN rows /\ Has(inbox, UnderWay(r))
    <3>1. rows[r] = b[q]
      BY <1>2, <1>3, <2>1
    <3>2. q <= n /\ b[q] \notin Range(pollers[k].batch)
      BY <1>1, <2>1, <3>1 DEF Ahead
    <3>3. QED
      BY <3>2
  <2>2. CASE q <= n /\ rs[r] \notin Range(batch)
    BY <1>3, <2>2
  <2>3. QED
    BY <1>3, <2>1, <2>2
<1>4. Ahead(y, rs, b, batch, n)
  BY <1>3 DEF Ahead
<1>5. PICK h, c : h = anchor[k] /\ c = model.cursor[k]
  OBVIOUS
<1>6. ASSUME NEW q \in DOMAIN b, 0 <= h, h < q, q <= n
      PROVE  \/ Done(model, rs, d, b[q])
             \/ c < q /\ (b[q] \in Range(batch) \/ InHand(y, rs, k, b[q]))
  <2>1. PICK x : x = b[q]
    OBVIOUS
  <2>2. \/ Done(model, rows, dropped, x)
        \/ c < q /\ (x \in Range(pollers[k].batch) \/ InHand(inbox, rows, k, x))
    BY <1>1, <1>5, <1>6, <2>1 DEF NoneSkipped
  <2>3. Done(model, rows, dropped, x) => Done(model, rs, d, x)
    BY <1>2 DEF Done
  <2>4. x \in d => Done(model, rs, d, x)
    BY DEF Done
  <2>5. InHand(inbox, rows, k, x) => InHand(y, rs, k, x)
    <3>1. x \in Range(b)
      BY <2>1 DEF Range
    <3>2. QED
      BY <1>2, <3>1 DEF InHand
  <2>6. QED
    BY <2>1, <2>2, <2>3, <2>4, <2>5
<1>7. QED
  BY <1>4, <1>5, <1>6 DEF NoneSkipped

\* A message that is about no row, from outside or of a poller's cursor, that no
\* row's routing waits behind.
LEMMA TakenSteady ==
  ASSUME Types, AllPoll, TakenUp, NEW x, x \in MessageType(Stored, Begun, Opened), x.tag \notin OfRow,
         inbox' = Append(inbox, x), rows' = rows, boxes' = boxes, dropped' = dropped,
         anchor' = anchor, model' = model,
         \A k \in Mechanisms : /\ pollers'[k].batch = pollers[k].batch
                               /\ pollers'[k].next = pollers[k].next,
         \A k \in Mechanisms : \A r \in DOMAIN rows :
           rows[r] \in Range(boxes[k]) /\ Held(inbox, k, r) =>
             x \notin By("record-poll-state", k) \/ Has(inbox, Takes(r))
  PROVE  TakenUp'
<1>1. PICK y : y = inbox' /\ y = Append(inbox, x)
  OBVIOUS
<1>2. Longer(x, y)
  BY <1>1, AppendHeld
<1>3. \A r : x \notin UnderWay(r) /\ x \notin Takes(r)
  BY RowKinds DEF UnderWay, About
<1>4. Taken'
  <2>1. \A r \in Nat : RowOnce(y, model, r)
    BY <1>2, <1>3 DEF Longer, TakenUp, Taken, RowOnce
  <2>2. Owned(y, rows, boxes)
    <3>1. x.tag # "route-email"
      BY DEF OfRow
    <3>2. QED
      BY <1>2, <3>1 DEF Longer, TakenUp, Taken, Owned
  <2>3. QED
    BY <1>1, <2>1, <2>2 DEF TakenUp, Taken
<1>5. ASSUME NEW k \in Mechanisms PROVE Polled(k)'
  <2>1. PICK b, n, batch : b = boxes[k] /\ n = pollers[k].next /\ batch = pollers[k].batch
    OBVIOUS
  <2>2. Grown(rows)
    BY GrownSame
  <2>3. Polled(k)
    BY DEF TakenUp
  <2>4. \A r \in DOMAIN rows, q \in DOMAIN b : Has(y, UnderWay(r)) /\ rows[r] = b[q] =>
          \/ r \in DOMAIN rows /\ Has(inbox, UnderWay(r))
          \/ q <= n /\ rows[r] \notin Range(batch)
    BY <1>2, <1>3 DEF Longer
  <2>5. \A r \in DOMAIN rows : rows[r] \in Range(b) /\ Held(inbox, k, r) => Held(y, k, r)
    BY <1>2, <2>1 DEF Longer
  <2>6. /\ Ahead(y, rows, b, batch, n)
        /\ NoneSkipped(k, y, model, rows, dropped, b, anchor[k], model.cursor[k], batch, n)
    BY <2>1, <2>2, <2>3, <2>4, <2>5, PolledLeft
  <2>7. QED
    BY <1>1, <2>1, <2>6 DEF Polled
<1>6. QED
  BY <1>4, <1>5 DEF TakenUp, Rows

\* A message from outside is about no row and of no poller.
LEMMA TakenPosted ==
  ASSUME Types, AllPoll, TakenUp, NEW x, Posted(x), x.tag \notin OfRow
  PROVE  TakenUp'
<1>1. /\ x \in MessageType(Stored, Begun, Opened)
      /\ inbox' = Append(inbox, x) /\ rows' = rows /\ boxes' = boxes /\ dropped' = dropped
      /\ anchor' = anchor /\ model' = model /\ pollers' = pollers
  BY DEF Posted, outside
<1>2. \A k \in Mechanisms : x \notin By("record-poll-state", k)
  <2>1. x.by = "" /\ "" \notin Mechanisms
    BY InboundAssumption DEF Posted
  <2>2. QED
    BY <2>1 DEF By
<1>3. \A k \in Mechanisms : /\ pollers'[k].batch = pollers[k].batch
                            /\ pollers'[k].next = pollers[k].next
  BY <1>1
<1>4. QED
  BY <1>1, <1>2, <1>3, TakenSteady

\* When a poller records its cursor nothing of its mailbox is still to be routed.
LEMMA TakenRecord ==
  ASSUME Types, AllPoll, TakenUp, NEW j \in Mechanisms, Record(j)
  PROVE  TakenUp'
<1>1. PICK x : x = Message("record-poll-state", pollers[j].next, 0, "", j)
  OBVIOUS
<1>2. /\ inbox' = Append(inbox, x)
      /\ pollers' = [pollers EXCEPT ![j] = At("recording", pollers[j], pollers[j].batch)]
  BY <1>1, RecordFacts
<1>3. /\ rows' = rows /\ boxes' = boxes /\ dropped' = dropped
      /\ anchor' = anchor /\ model' = model /\ pollers[j].at = "record"
  BY DEF Record, rest, Poller
<1>4. x.tag = "record-poll-state" /\ x.by = j
  BY <1>1 DEF Message
<1>5. x \in MessageType(Stored, Begun, Opened) /\ x.tag \notin OfRow
  <2>1. pollers[j] \in PollerType(Arrived)
    BY DEF Types
  <2>2. pollers[j].next \in Int
    BY <2>1 DEF PollerType
  <2>3. Stored \in Nat /\ Begun \in Nat /\ Opened \in Nat
    BY ModelFacts
  <2>4. QED
    BY <1>1, <1>4, <2>2, <2>3, MessagesTyped DEF OfRow
<1>6. ASSUME NEW k \in Mechanisms
      PROVE  pollers'[k].batch = pollers[k].batch /\ pollers'[k].next = pollers[k].next
  <2>1. DOMAIN pollers = Mechanisms
    BY DEF Types
  <2>2. CASE k = j
    BY <1>2, <2>1, <2>2 DEF At
  <2>3. CASE k # j
    BY <1>2, <2>1, <2>3
  <2>4. QED
    BY <2>2, <2>3
<1>7. ASSUME NEW k \in Mechanisms, NEW r \in DOMAIN rows, rows[r] \in Range(boxes[k]), Held(inbox, k, r),
             x \in By("record-poll-state", k)
      PROVE  Has(inbox, Takes(r))
  <2>1. k = j
    BY <1>4, <1>7 DEF By
  <2>2. PICK i \in DOMAIN inbox : inbox[i] \in UnderWay(r)
    BY <1>7 DEF Held, Has
  <2>3. inbox[i] \in MessageType(Stored, Begun, Opened)
    BY <2>2 DEF Types
  <2>4. inbox[i] \in AnyMessage /\ inbox[i].tag \in OfRow /\ inbox[i].about = r
    BY <2>2, <2>3, RowKinds DEF MessageType
  <2>5. inbox[i].tag # "route-email"
    <3>1. ASSUME inbox[i].tag = "route-email" PROVE FALSE
      <4>1. inbox[i].by \in Mechanisms
        BY <2>3, <3>1, ModelFacts, MessageFacts DEF OfPoller
      <4>2. rows[r] \in Range(boxes[inbox[i].by])
        BY <2>2, <2>4, <3>1 DEF TakenUp, Taken, Owned
      <4>3. inbox[i].by = k
        BY <1>7, <4>1, <4>2 DEF TakenUp, Rows, Apart, Range
      <4>4. inbox[i].by # j
        BY <1>3, Unwaited DEF AllPoll
      <4>5. QED
        BY <2>1, <4>3, <4>4
    <3>2. QED
      BY <3>1
  <2>6. inbox[i] \in Takes(r)
    BY <2>4, <2>5, RowKinds DEF OfRow
  <2>7. QED
    BY <2>6 DEF Has
<1>8. QED
  BY <1>2, <1>3, <1>5, <1>6, <1>7, TakenSteady

\* A batch is of mails of its mailbox, from after the cursor up to the next one.
LEMMA BatchPlaces ==
  ASSUME Types, AllPoll, Rows, NEW k \in Mechanisms, NEW x \in Range(pollers[k].batch)
  PROVE  /\ x \in Range(boxes[k])
         /\ \A q \in DOMAIN boxes[k] : boxes[k][q] = x => q <= pollers[k].next
         /\ \A j \in Mechanisms : x \in Range(boxes[j]) => j = k
<1>1. PICK q \in DOMAIN boxes[k] : q <= pollers[k].next /\ x = boxes[k][q]
  BY DEF AllPoll, Polls, Placed
<1>2. \A i \in DOMAIN boxes[k] : boxes[k][i] = x => i = q
  BY <1>1 DEF Rows, Apart
<1>3. QED
  BY <1>1, <1>2 DEF Rows, Apart, Range

\* A row that is new is the mail's, and nothing is under way for it.
LEMMA StoresFacts ==
  ASSUME Types, Rows, NEW rs, NEW mail, Stores(rs, mail)
  PROVE  /\ Grown(rs) /\ Distinct(rs)
         /\ \A r \in DOMAIN rs : Has(inbox, UnderWay(r)) => r \in DOMAIN rows
         /\ \A r \in DOMAIN rs : r \in DOMAIN rows \/ rs[r] = mail
<1>1. Grown(rs)
  BY DEF Stores, Grown
<1>2. DOMAIN rows = 1..Stored
  BY ModelFacts
<1>3. Distinct(rs)
  BY <1>2 DEF Rows, Distinct, Stores
<1>4. ASSUME NEW r, Has(inbox, UnderWay(r)) PROVE r \in DOMAIN rows
  <2>1. PICK i \in DOMAIN inbox : inbox[i] \in UnderWay(r)
    BY <1>4 DEF Has
  <2>2. inbox[i] \in MessageType(Stored, Begun, Opened)
    BY <2>1 DEF Types
  <2>3. inbox[i].tag \in OfRow /\ inbox[i].about = r
    BY <2>1 DEF UnderWay, About
  <2>4. inbox[i].about \in 1..Stored
    BY <2>2, <2>3, ModelFacts, MessageFacts
  <2>5. QED
    BY <1>2, <2>3, <2>4
<1>5. QED
  BY <1>1, <1>2, <1>3, <1>4 DEF Stores

\* The rows under way are of the mailbox whose poller routes them.
LEMMA OwnedGrown ==
  ASSUME Types, Taken, NEW rs, Grown(rs)
  PROVE  Owned(inbox, rs, boxes)
<1>1. \A i \in DOMAIN inbox : inbox[i].tag = "route-email" => inbox[i].about \in DOMAIN rows
  <2>1. ASSUME NEW i \in DOMAIN inbox, inbox[i].tag = "route-email"
        PROVE  inbox[i].about \in DOMAIN rows
    <3>1. inbox[i] \in MessageType(Stored, Begun, Opened)
      BY DEF Types
    <3>2. inbox[i].tag \in OfRow
      BY <2>1 DEF OfRow
    <3>3. QED
      BY <3>1, <3>2, ModelFacts, MessageFacts
  <2>2. QED
    BY <2>1
<1>2. QED
  BY <1>1, GrownFacts DEF Taken, Owned

\* The mailboxes whose poller does not move, when a mail of another is stored.
LEMMA PolledElsewhere ==
  ASSUME Types, AllPoll, TakenUp, NEW j \in Mechanisms, pollers[j].batch # <<>>,
         NEW rs, rs = rows', rs = rows \/ Stores(rs, Head(pollers[j].batch)),
         NEW y, y = inbox',
         y = inbox \/ \E r \in DOMAIN rs : /\ y = Append(inbox, Message("route-email", r, 0, "", j))
                                           /\ rs[r] = Head(pollers[j].batch),
         dropped \subseteq dropped', boxes' = boxes, model' = model, anchor' = anchor,
         NEW k \in Mechanisms, k # j, pollers'[k] = pollers[k]
  PROVE  Polled(k)'
<1>1. PICK b, n, batch, d : /\ b = boxes[k] /\ n = pollers[k].next
                            /\ batch = pollers[k].batch /\ d = dropped'
  OBVIOUS
<1>2. PICK mail : mail = Head(pollers[j].batch)
  OBVIOUS
<1>3. Grown(rs) /\ (\A r \in DOMAIN rs : Has(inbox, UnderWay(r)) => r \in DOMAIN rows)
  <2>1. CASE rs = rows
    <3>1. Grown(rows)
      BY GrownSame
    <3>2. QED
      BY <2>1, <3>1
  <2>2. CASE Stores(rs, mail)
    BY <2>2, StoresFacts DEF TakenUp
  <2>3. QED
    BY <1>2, <2>1, <2>2
<1>4. mail \notin Range(b)
  <2>1. mail \in Range(pollers[j].batch)
    BY <1>2, BatchFacts
  <2>2. QED
    BY <1>1, <2>1, BatchPlaces DEF TakenUp
<1>5. ASSUME NEW r \in DOMAIN rs, NEW q \in DOMAIN b, Has(y, UnderWay(r)), rs[r] = b[q]
      PROVE  r \in DOMAIN rows /\ Has(inbox, UnderWay(r))
  <2>1. CASE y = inbox
    BY <1>3, <1>5, <2>1
  <2>2. ASSUME NEW i \in DOMAIN rs, NEW x, x = Message("route-email", i, 0, "", j),
               y = Append(inbox, x), rs[i] = mail
        PROVE  Has(inbox, UnderWay(r))
    <3>1. Longer(x, y)
      BY <2>2, AppendHeld
    <3>2. x.about = i
      BY <2>2 DEF Message
    <3>3. x \notin UnderWay(r)
      <4>1. ASSUME i = r PROVE FALSE
        <5>1. b[q] = mail
          BY <1>5, <2>2, <4>1
        <5>2. QED
          BY <1>4, <5>1 DEF Range
      <4>2. QED
        BY <3>2, <4>1 DEF UnderWay, About
    <3>4. QED
      BY <1>5, <3>1, <3>3 DEF Longer
  <2>3. QED
    BY <1>2, <1>3, <1>5, <2>1, <2>2
<1>6. ASSUME NEW r, Held(inbox, k, r) PROVE Held(y, k, r)
  <2>1. CASE y = inbox
    BY <1>6, <2>1
  <2>2. ASSUME NEW i, NEW x, x = Message("route-email", i, 0, "", j), y = Append(inbox, x)
        PROVE  Held(y, k, r)
    <3>1. Longer(x, y)
      BY <2>2, AppendHeld
    <3>2. x \notin By("record-poll-state", k)
      BY <2>2 DEF Message, By
    <3>3. QED
      BY <1>6, <3>1, <3>2 DEF Longer
  <2>3. QED
    BY <2>1, <2>2
<1>7. Polled(k)
  BY DEF TakenUp
<1>8. /\ Ahead(y, rs, b, batch, n)
      /\ NoneSkipped(k, y, model, rs, d, b, anchor[k], model.cursor[k], batch, n)
  <2>1. \A r \in DOMAIN rs, q \in DOMAIN b : Has(y, UnderWay(r)) /\ rs[r] = b[q] =>
          \/ r \in DOMAIN rows /\ Has(inbox, UnderWay(r))
          \/ q <= n /\ rs[r] \notin Range(batch)
    BY <1>5
  <2>2. \A r \in DOMAIN rows : rows[r] \in Range(b) /\ Held(inbox, k, r) => Held(y, k, r)
    BY <1>6
  <2>3. \A x \in Range(pollers[k].batch) : x \in Range(batch) \/ x \in d \/ InHand(y, rs, k, x)
    BY <1>1
  <2>4. dropped \subseteq d /\ Range(batch) \subseteq Range(pollers[k].batch)
    BY <1>1
  <2>5. QED
    BY <1>1, <1>3, <1>7, <2>1, <2>2, <2>3, <2>4, PolledLeft
<1>9. QED
  BY <1>1, <1>8 DEF Polled

\* A mail is stored and its row routed: the row, new or not, is under way alone.
LEMMA TakenRoute ==
  ASSUME Types, AllPoll, TakenUp, NEW k \in Mechanisms, Route(k)
  PROVE  TakenUp'
<1>1. PICK batch, mail : batch = pollers[k].batch /\ mail = Head(batch)
  OBVIOUS
<1>2. PICK rs, y : rs = rows' /\ y = inbox'
  OBVIOUS
<1>3. /\ batch # <<>> /\ Stores(rs, mail)
      /\ pollers' = [pollers EXCEPT ![k] = At("routing", pollers[k], Tail(batch))]
      /\ \E r \in DOMAIN rs : rs[r] = mail /\ y = Append(inbox, Message("route-email", r, 0, "", k))
  BY <1>1, <1>2, RouteFacts DEF AllPoll
<1>4. PICK r \in DOMAIN rs : rs[r] = mail /\ y = Append(inbox, Message("route-email", r, 0, "", k))
  BY <1>3
<1>5. PICK x : x = Message("route-email", r, 0, "", k)
  OBVIOUS
<1>6. x.tag = "route-email" /\ x.about = r /\ x.by = k
  BY <1>5 DEF Message
<1>7. /\ boxes' = boxes /\ model' = model /\ anchor' = anchor /\ dropped' = dropped
      /\ pollers[k].at = "route"
  BY DEF Route, rest, Poller
<1>8. /\ Grown(rs) /\ Distinct(rs)
      /\ \A i \in DOMAIN rs : Has(inbox, UnderWay(i)) => i \in DOMAIN rows
      /\ \A i \in DOMAIN rs : i \in DOMAIN rows \/ rs[i] = mail
  BY <1>3, StoresFacts DEF TakenUp
<1>9. /\ DOMAIN rs = 1..Len(rs) /\ Len(rs) \in Nat
      /\ \A i \in DOMAIN rows : i \in DOMAIN rs /\ rs[i] = rows[i]
  BY <1>8, GrownFacts
<1>10. Longer(x, y)
  BY <1>4, <1>5, AppendHeld
<1>11. x \in AnyMessage /\ x \in UnderWay(r) /\ \A i : x \notin Takes(i)
  <2>1. x \in MessageType(Len(rs), Begun, Opened)
    BY <1>5, <1>9, ModelFacts, MessagesTyped
  <2>2. x \in AnyMessage
    BY <2>1 DEF MessageType
  <2>3. x.tag \in OfRow /\ x.tag \notin {"create-task", "append-to-task"}
    BY <1>6 DEF OfRow
  <2>4. QED
    BY <1>6, <2>2, <2>3, RowKinds
<1>12. /\ mail \in Range(batch) /\ mail \notin Range(Tail(batch))
       /\ \A z : z \in Range(batch) <=> z = mail \/ z \in Range(Tail(batch))
  <2>1. \A i, j \in DOMAIN batch : batch[i] = batch[j] => i = j
    BY <1>1 DEF AllPoll, Polls, Placed
  <2>2. QED
    BY <1>1, <1>3, <2>1, BatchFacts
<1>13. /\ mail \in Range(boxes[k])
       /\ \A q \in DOMAIN boxes[k] : boxes[k][q] = mail => q <= pollers[k].next
  BY <1>1, <1>12, BatchPlaces DEF TakenUp
<1>14. ~Has(inbox, UnderWay(r))
  <2>1. ASSUME Has(inbox, UnderWay(r)) PROVE FALSE
    <3>1. r \in DOMAIN rows /\ rows[r] = mail
      BY <1>4, <1>8, <1>9, <2>1
    <3>2. PICK q \in DOMAIN boxes[k] : boxes[k][q] = mail
      BY <1>13 DEF Range
    <3>3. mail \notin Range(batch)
      BY <1>1, <2>1, <3>1, <3>2 DEF TakenUp, Polled, Ahead
    <3>4. QED
      BY <1>12, <3>3
  <2>2. QED
    BY <2>1
<1>15. \A i \in DOMAIN inbox : inbox[i].by # k
  BY <1>7, Unwaited DEF AllPoll
<1>16. Taken'
  <2>1. ASSUME NEW i \in Nat PROVE RowOnce(y, model, i)
    <3>1. RowOnce(inbox, model, i)
      BY DEF TakenUp, Taken
    <3>2. x \in UnderWay(i) => i = r
      BY <1>6 DEF UnderWay, About
    <3>3. Once(y, UnderWay(i))
      BY <1>10, <1>14, <3>1, <3>2 DEF Longer, RowOnce
    <3>4. QED
      BY <1>10, <1>11, <3>1, <3>3 DEF Longer, RowOnce
  <2>2. Owned(y, rs, boxes)
    <3>1. Owned(inbox, rs, boxes)
      BY <1>8, OwnedGrown DEF TakenUp
    <3>2. rs[x.about] \in Range(boxes[x.by])
      BY <1>4, <1>6, <1>13
    <3>3. QED
      BY <1>10, <3>1, <3>2 DEF Longer, Owned
  <2>3. QED
    BY <1>2, <1>7, <2>1, <2>2 DEF TakenUp, Taken
<1>17. Rows'
  BY <1>2, <1>7, <1>8 DEF TakenUp, Rows
<1>18. Polled(k)'
  <2>1. PICK b, n, left : b = boxes[k] /\ n = pollers[k].next /\ left = Tail(batch)
    OBVIOUS
  <2>2. pollers'[k].batch = left /\ pollers'[k].next = n
    BY <1>3, <2>1 DEF Types, At
  <2>3. Polled(k)
    BY DEF TakenUp
  <2>4. ASSUME NEW i \in DOMAIN rs, NEW q \in DOMAIN b, Has(y, UnderWay(i)), rs[i] = b[q]
        PROVE  \/ i \in DOMAIN rows /\ Has(inbox, UnderWay(i))
               \/ q <= n /\ rs[i] \notin Range(left)
    <3>1. CASE Has(inbox, UnderWay(i))
      BY <1>8, <3>1
    <3>2. CASE x \in UnderWay(i)
      <4>1. i = r
        BY <1>6, <3>2 DEF UnderWay, About
      <4>2. QED
        BY <1>4, <1>12, <1>13, <2>1, <2>4, <4>1
    <3>3. QED
      BY <1>10, <2>4, <3>1, <3>2 DEF Longer
  <2>5. x \notin By("record-poll-state", k)
    BY <1>6 DEF By
  <2>6. \A i \in DOMAIN rows : rows[i] \in Range(b) /\ Held(inbox, k, i) => Held(y, k, i)
    BY <1>10, <2>5 DEF Longer
  <2>7. InHand(y, rs, k, mail)
    <3>1. ~Has(inbox, By("record-poll-state", k))
      BY <1>15 DEF Has, By
    <3>2. ~Has(y, By("record-poll-state", k))
      BY <1>10, <2>5, <3>1 DEF Longer
    <3>3. Has(y, UnderWay(r))
      BY <1>10, <1>11 DEF Longer
    <3>4. Held(y, k, r)
      BY <3>2, <3>3, BeforeNone DEF Held
    <3>5. QED
      BY <1>4, <3>4 DEF InHand
  <2>8. \A z \in Range(pollers[k].batch) : z \in Range(left) \/ z \in dropped \/ InHand(y, rs, k, z)
    BY <1>1, <1>12, <2>1, <2>7
  <2>9. Range(left) \subseteq Range(pollers[k].batch)
    BY <1>1, <1>12, <2>1
  <2>10. /\ Ahead(y, rs, b, left, n)
         /\ NoneSkipped(k, y, model, rs, dropped, b, anchor[k], model.cursor[k], left, n)
    BY <1>8, <2>1, <2>3, <2>4, <2>6, <2>8, <2>9, PolledLeft
  <2>11. QED
    BY <1>2, <1>7, <2>1, <2>2, <2>10 DEF Polled
<1>19. ASSUME NEW i \in Mechanisms, i # k PROVE Polled(i)'
  <2>1. pollers'[i] = pollers[i]
    BY <1>3, <1>19 DEF Types
  <2>2. \E z \in DOMAIN rs : y = Append(inbox, Message("route-email", z, 0, "", k)) /\ rs[z] = Head(pollers[k].batch)
    BY <1>1, <1>4
  <2>3. pollers[k].batch # <<>> /\ Stores(rs, Head(pollers[k].batch)) /\ dropped \subseteq dropped'
    BY <1>1, <1>3, <1>7
  <2>4. QED
    BY <1>2, <1>7, <1>19, <2>1, <2>2, <2>3, PolledElsewhere
<1>20. QED
  BY <1>16, <1>17, <1>18, <1>19 DEF TakenUp

\* A mail that could not be stored or read is passed over, and turned away by that.
LEMMA TakenRouteFails ==
  ASSUME Types, AllPoll, TakenUp, NEW k \in Mechanisms, RouteFails(k)
  PROVE  TakenUp'
<1>1. PICK batch, mail : batch = pollers[k].batch /\ mail = Head(batch)
  OBVIOUS
<1>2. PICK rs, d : rs = rows' /\ d = dropped'
  OBVIOUS
<1>3. /\ batch # <<>> /\ (rs = rows \/ Stores(rs, mail)) /\ d = dropped \cup {mail}
      /\ pollers' = [pollers EXCEPT ![k] = At(Pending(Tail(batch)), pollers[k], Tail(batch))]
  BY <1>1, <1>2, RouteFailsFacts DEF AllPoll
<1>4. /\ boxes' = boxes /\ model' = model /\ anchor' = anchor /\ inbox' = inbox
  BY DEF RouteFails, rest
<1>5. /\ Grown(rs) /\ Distinct(rs)
      /\ \A i \in DOMAIN rs : Has(inbox, UnderWay(i)) => i \in DOMAIN rows
  <2>1. CASE rs = rows
    <3>1. Grown(rows) /\ Distinct(rows)
      BY GrownSame DEF TakenUp, Rows
    <3>2. QED
      BY <2>1, <3>1
  <2>2. CASE Stores(rs, mail)
    BY <2>2, StoresFacts DEF TakenUp
  <2>3. QED
    BY <1>3, <2>1, <2>2
<1>6. Taken'
  <2>1. Owned(inbox, rs, boxes)
    BY <1>5, OwnedGrown DEF TakenUp
  <2>2. QED
    BY <1>2, <1>4, <2>1 DEF TakenUp, Taken
<1>7. Rows'
  BY <1>2, <1>4, <1>5 DEF TakenUp, Rows
<1>8. \A z : z \in Range(batch) <=> z = mail \/ z \in Range(Tail(batch))
  BY <1>1, <1>3, BatchFacts
<1>9. Polled(k)'
  <2>1. PICK b, n, left : b = boxes[k] /\ n = pollers[k].next /\ left = Tail(batch)
    OBVIOUS
  <2>2. pollers'[k].batch = left /\ pollers'[k].next = n
    BY <1>3, <2>1 DEF Types, At
  <2>3. Polled(k)
    BY DEF TakenUp
  <2>4. \A r \in DOMAIN rs, q \in DOMAIN b : Has(inbox, UnderWay(r)) /\ rs[r] = b[q] =>
          \/ r \in DOMAIN rows /\ Has(inbox, UnderWay(r))
          \/ q <= n /\ rs[r] \notin Range(left)
    BY <1>5
  <2>5. \A z \in Range(pollers[k].batch) : z \in Range(left) \/ z \in d \/ InHand(inbox, rs, k, z)
    BY <1>1, <1>3, <1>8, <2>1
  <2>6. Range(left) \subseteq Range(pollers[k].batch) /\ dropped \subseteq d
    BY <1>1, <1>3, <1>8, <2>1
  <2>7. /\ Ahead(inbox, rs, b, left, n)
        /\ NoneSkipped(k, inbox, model, rs, d, b, anchor[k], model.cursor[k], left, n)
    BY <1>5, <2>1, <2>3, <2>4, <2>5, <2>6, PolledLeft
  <2>8. QED
    BY <1>2, <1>4, <2>1, <2>2, <2>7 DEF Polled
<1>10. ASSUME NEW i \in Mechanisms, i # k PROVE Polled(i)'
  <2>1. pollers'[i] = pollers[i]
    BY <1>3, <1>10 DEF Types
  <2>2. /\ pollers[k].batch # <<>> /\ (rs = rows \/ Stores(rs, Head(pollers[k].batch)))
        /\ dropped \subseteq dropped'
    BY <1>1, <1>2, <1>3
  <2>3. QED
    BY <1>2, <1>4, <1>10, <2>1, <2>2, PolledElsewhere
<1>11. QED
  BY <1>6, <1>7, <1>9, <1>10 DEF TakenUp

\* A fetch takes into the batch every mail after the cursor, none of them under way.
LEMMA TakenFetch ==
  ASSUME Types, AllPoll, TakenUp, NEW k \in Mechanisms, Fetch(k)
  PROVE  TakenUp'
<1>1. PICK batch :
        /\ Fetched(batch, pollers[k].state, boxes[k])
        /\ pollers' = [pollers EXCEPT ![k] =
                         [at |-> IF batch # <<>> THEN "route" ELSE "record",
                          state |-> pollers[k].state, batch |-> batch, next |-> Len(boxes[k])]]
  BY FetchFacts DEF AllPoll
<1>2. /\ boxes' = boxes /\ model' = model /\ anchor' = anchor /\ inbox' = inbox
      /\ rows' = rows /\ dropped' = dropped /\ pollers[k].at = "fetch"
  BY DEF Fetch, rest, Poller
<1>3. Taken' /\ Rows'
  BY <1>2 DEF TakenUp, Taken, Rows
<1>4. PICK b, n, c, h : /\ b = boxes[k] /\ n = Len(b) /\ c = pollers[k].state /\ h = anchor[k]
  OBVIOUS
<1>5. b \in Seq(1..Arrived) /\ c \in Int
  <2>1. pollers[k] \in PollerType(Arrived)
    BY DEF Types
  <2>2. QED
    BY <1>4, <2>1 DEF Types, PollerType
<1>6. DOMAIN b = 1..n /\ n \in Nat
  <2>1. PICK S : S = 1..Arrived
    OBVIOUS
  <2>2. b \in Seq(S)
    BY <1>5, <2>1
  <2>3. QED
    BY <1>4, <2>2
<1>7. /\ model.cursor[k] = c /\ pollers[k].next = c /\ -1 <= c /\ (0 <= h => 0 <= c)
  BY <1>2, <1>4 DEF AllPoll, Polls, Placed
<1>8. \A x : x \in Range(batch) => \E q \in DOMAIN b : c < q /\ x = b[q]
  BY <1>1, <1>4 DEF Fetched
<1>9. Polled(k)'
  <2>1. pollers'[k].batch = batch /\ pollers'[k].next = n
    BY <1>1, <1>4 DEF Types
  <2>2. ASSUME NEW q \in DOMAIN b, NEW r \in DOMAIN rows, Has(inbox, UnderWay(r)), rows[r] = b[q]
        PROVE  q <= n /\ b[q] \notin Range(batch)
    <3>1. q <= c
      BY <1>4, <1>7, <2>2 DEF TakenUp, Polled, Ahead
    <3>2. q <= n
      BY <1>6
    <3>3. ASSUME b[q] \in Range(batch) PROVE FALSE
      <4>1. PICK p \in DOMAIN b : c < p /\ b[q] = b[p]
        BY <1>8, <3>3
      <4>2. q = p
        BY <1>4, <4>1 DEF TakenUp, Rows, Apart
      <4>3. q \in Int /\ c < q
        BY <1>6, <4>1, <4>2
      <4>4. QED
        BY <1>5, <3>1, <4>3
    <3>4. QED
      BY <3>2, <3>3
  <2>3. Ahead(inbox, rows, b, batch, n)
    BY <2>2 DEF Ahead
  <2>4. ASSUME NEW q \in DOMAIN b, 0 <= h, h < q, q <= n
        PROVE  \/ Done(model, rows, dropped, b[q])
               \/ c < q /\ (b[q] \in Range(batch) \/ InHand(inbox, rows, k, b[q]))
    <3>1. q \in Int
      BY <1>6
    <3>2. CASE c < q
      <4>1. c # -1
        BY <1>5, <1>7, <2>4
      <4>2. b[q] \in Range(batch)
        BY <1>1, <1>4, <3>2, <4>1 DEF Fetched
      <4>3. QED
        BY <3>2, <4>2
    <3>3. CASE ~(c < q)
      <4>1. q <= c
        BY <1>5, <3>1, <3>3
      <4>2. Done(model, rows, dropped, b[q])
        BY <1>4, <1>7, <2>4, <3>3, <4>1 DEF TakenUp, Polled, NoneSkipped
      <4>3. QED
        BY <4>2
    <3>4. QED
      BY <3>2, <3>3
  <2>5. NoneSkipped(k, inbox, model, rows, dropped, b, h, c, batch, n)
    BY <2>4 DEF NoneSkipped
  <2>6. QED
    BY <1>2, <1>4, <1>7, <2>1, <2>3, <2>5 DEF Polled
<1>10. ASSUME NEW i \in Mechanisms, i # k PROVE Polled(i)'
  <2>1. pollers'[i] = pollers[i]
    BY <1>1, <1>10 DEF Types
  <2>2. QED
    BY <1>2, <2>1 DEF TakenUp, Polled
<1>11. QED
  BY <1>3, <1>9, <1>10 DEF TakenUp

\* A mail that arrives is beyond every cursor that was recorded, and has no row.
LEMMA TakenArrive ==
  ASSUME Types, AllPoll, TakenUp, Rows', NEW ks \in SUBSET Mechanisms, Arrive(ks)
  PROVE  TakenUp'
<1>1. /\ rows' = rows /\ model' = model /\ inbox' = inbox /\ pollers' = pollers
      /\ anchor' = anchor /\ dropped' = dropped
      /\ boxes' = [k \in Mechanisms |-> IF k \in ks THEN Append(boxes[k], Len(mails')) ELSE boxes[k]]
  BY DEF Arrive
<1>2. PICK new : new = Len(mails')
  OBVIOUS
<1>3. Arrived \in Nat /\ new = Arrived + 1
  <2>1. PICK x : mails' = Append(mails, x)
    BY DEF Arrive
  <2>2. PICK R, S : R = Mailed /\ S = Mailed \cup {x}
    OBVIOUS
  <2>3. mails \in Seq(R) /\ R \subseteq S /\ x \in S
    BY <2>2 DEF Types
  <2>4. mails \in Seq(S)
    BY <2>3, SeqWider
  <2>5. Len(mails') = Len(mails) + 1
    BY <2>1, <2>3, <2>4
  <2>6. QED
    BY <1>2, <2>5, ModelFacts DEF Arrived
<1>4. \A r \in DOMAIN rows : rows[r] # new
  <2>1. \A r \in DOMAIN rows : rows[r] \in 1..Arrived
    BY ModelFacts
  <2>2. new \notin 1..Arrived
    BY <1>3
  <2>3. QED
    BY <2>1, <2>2
<1>5. ASSUME NEW k \in Mechanisms
      PROVE  /\ \A q \in DOMAIN boxes[k] : q \in DOMAIN boxes'[k] /\ boxes'[k][q] = boxes[k][q]
             /\ \A q \in DOMAIN boxes'[k] : \/ q \in DOMAIN boxes[k]
                                            \/ boxes'[k][q] = new /\ ~(q <= pollers[k].next)
  <2>1. PICK b : b = boxes[k]
    OBVIOUS
  <2>2. PICK R, S : R = 1..Arrived /\ S = (1..Arrived) \cup {new}
    OBVIOUS
  <2>3. b \in Seq(R) /\ R \subseteq S /\ new \in S
    BY <2>1, <2>2 DEF Types
  <2>4. b \in Seq(S)
    BY <2>3, SeqWider
  <2>5. PICK l \in Nat : l = Len(b)
    BY <2>4
  <2>6. PICK d : d = Append(b, new)
    OBVIOUS
  <2>7. /\ DOMAIN b = 1..l /\ DOMAIN d = 1..(l + 1) /\ d[l + 1] = new
        /\ \A q \in 1..l : d[q] = b[q]
    BY <2>3, <2>4, <2>5, <2>6
  <2>8. PICK n \in Int : n = pollers[k].next /\ n <= l
    <3>1. pollers[k] \in PollerType(Arrived)
      BY DEF Types
    <3>2. pollers[k].next \in Int
      BY <3>1 DEF PollerType
    <3>3. pollers[k].next <= l
      BY <2>1, <2>5 DEF AllPoll, Polls, Placed
    <3>4. QED
      BY <3>2, <3>3
  <2>9. (\A q \in 1..l : q \in 1..(l + 1)) /\ (\A q \in 1..(l + 1) : q \in 1..l \/ (q = l + 1 /\ ~(q <= n)))
    BY <2>8
  <2>10. CASE k \in ks
    <3>1. boxes'[k] = d
      BY <1>1, <1>2, <2>1, <2>6, <2>10
    <3>2. QED
      BY <2>1, <2>7, <2>8, <2>9, <3>1
  <2>11. CASE k \notin ks
    BY <1>1, <2>11
  <2>12. QED
    BY <2>10, <2>11
<1>6. Taken'
  <2>1. Owned(inbox, rows, boxes')
    <3>1. ASSUME NEW i \in DOMAIN inbox, inbox[i].tag = "route-email"
          PROVE  rows[inbox[i].about] \in Range(boxes'[inbox[i].by])
      <4>1. inbox[i] \in MessageType(Stored, Begun, Opened)
        BY DEF Types
      <4>2. inbox[i].by \in Mechanisms
        BY <3>1, <4>1, ModelFacts, MessageFacts DEF OfPoller
      <4>3. PICK k \in Mechanisms : k = inbox[i].by
        BY <4>2
      <4>4. rows[inbox[i].about] \in Range(boxes[k])
        BY <3>1, <4>3 DEF TakenUp, Taken, Owned
      <4>5. QED
        BY <1>5, <4>3, <4>4 DEF Range
    <3>2. QED
      BY <3>1 DEF Owned
  <2>2. QED
    BY <1>1, <2>1 DEF TakenUp, Taken
<1>7. ASSUME NEW k \in Mechanisms PROVE Polled(k)'
  <2>1. PICK b, n, batch : b = boxes'[k] /\ n = pollers[k].next /\ batch = pollers[k].batch
    OBVIOUS
  <2>2. /\ Ahead(inbox, rows, boxes[k], batch, n)
        /\ NoneSkipped(k, inbox, model, rows, dropped, boxes[k], anchor[k], model.cursor[k], batch, n)
    BY <2>1 DEF TakenUp, Polled
  <2>3. Ahead(inbox, rows, b, batch, n)
    <3>1. ASSUME NEW q \in DOMAIN b, NEW r \in DOMAIN rows, Has(inbox, UnderWay(r)), rows[r] = b[q]
          PROVE  q <= n /\ b[q] \notin Range(batch)
      <4>1. q \in DOMAIN boxes[k] /\ boxes[k][q] = b[q]
        BY <1>4, <1>5, <2>1, <3>1
      <4>2. QED
        BY <2>2, <3>1, <4>1 DEF Ahead
    <3>2. QED
      BY <3>1 DEF Ahead
  <2>4. NoneSkipped(k, inbox, model, rows, dropped, b, anchor[k], model.cursor[k], batch, n)
    <3>1. \A q \in DOMAIN b : q <= n => q \in DOMAIN boxes[k] /\ boxes[k][q] = b[q]
      BY <1>5, <2>1
    <3>2. QED
      BY <2>2, <3>1 DEF NoneSkipped
  <2>5. QED
    BY <1>1, <2>1, <2>3, <2>4 DEF Polled
<1>8. QED
  BY <1>6, <1>7 DEF TakenUp

\* The channel is lost, the cursor is not: up to it every mail is done with.
LEMMA TakenRestart ==
  ASSUME Types, AllPoll, TakenUp, Restart
  PROVE  TakenUp'
<1>1. /\ rows' = rows /\ model' = model /\ inbox' = <<>> /\ boxes' = boxes
      /\ anchor' = anchor /\ dropped' = dropped
      /\ pollers' = [k \in Mechanisms |-> Idle(model.cursor[k])]
  BY DEF Restart
<1>2. \A K : ~Has(<<>>, K)
  BY DEF Has
<1>3. Taken'
  <2>1. ASSUME NEW r \in Nat PROVE RowOnce(<<>>, model, r)
    BY <1>2 DEF RowOnce, Once
  <2>2. Owned(<<>>, rows, boxes)
    BY DEF Owned
  <2>3. QED
    BY <1>1, <2>1, <2>2 DEF TakenUp, Taken
<1>4. Rows'
  BY <1>1 DEF TakenUp, Rows
<1>5. ASSUME NEW k \in Mechanisms PROVE Polled(k)'
  <2>1. PICK b, c, h : b = boxes[k] /\ c = model.cursor[k] /\ h = anchor[k]
    OBVIOUS
  <2>2. pollers'[k].batch = <<>> /\ pollers'[k].next = c
    BY <1>1, <2>1 DEF Idle
  <2>3. Ahead(<<>>, rows, b, <<>>, c)
    BY <1>2 DEF Ahead
  <2>4. PICK n \in Int : n = pollers[k].next /\ c <= n /\ c \in Int
    <3>1. pollers[k] \in PollerType(Arrived)
      BY DEF Types
    <3>2. QED
      BY <2>1, <3>1 DEF PollerType, AllPoll, Polls, Placed
  <2>5. DOMAIN b \subseteq Int
    <3>1. PICK S : S = 1..Arrived
      OBVIOUS
    <3>2. b \in Seq(S)
      BY <2>1, <3>1 DEF Types
    <3>3. QED
      BY <3>2
  <2>6. ASSUME NEW q \in DOMAIN b, 0 <= h, h < q, q <= c
        PROVE  Done(model, rows, dropped, b[q])
    <3>1. q \in Int /\ q <= n /\ ~(c < q)
      BY <2>4, <2>5, <2>6
    <3>2. NoneSkipped(k, inbox, model, rows, dropped, b, h, c, pollers[k].batch, n)
      BY <2>1, <2>4 DEF TakenUp, Polled
    <3>3. QED
      BY <2>6, <3>1, <3>2 DEF NoneSkipped
  <2>7. NoneSkipped(k, <<>>, model, rows, dropped, b, h, c, <<>>, c)
    BY <2>6 DEF NoneSkipped
  <2>8. QED
    BY <1>1, <2>1, <2>2, <2>3, <2>7 DEF Polled
<1>6. QED
  BY <1>3, <1>4, <1>5 DEF TakenUp

\* At first no mail has been taken up.
LEMMA TakenInit ==
  ASSUME Init
  PROVE  TakenUp
<1>1. /\ inbox = <<>> /\ rows = <<>> /\ model.tasks = <<>> /\ boxes = [k \in Mechanisms |-> <<>>]
  BY DEF Init
<1>2. \A K : ~Has(<<>>, K)
  BY DEF Has
<1>3. Rows
  BY <1>1 DEF Rows, Apart, Distinct
<1>4. Taken
  <2>1. Single(model)
    BY <1>1 DEF Single
  <2>2. ASSUME NEW r \in Nat PROVE RowOnce(<<>>, model, r)
    BY <1>2 DEF RowOnce, Once
  <2>3. Owned(<<>>, rows, boxes)
    BY DEF Owned
  <2>4. QED
    BY <1>1, <2>1, <2>2, <2>3 DEF Taken
<1>5. ASSUME NEW k \in Mechanisms PROVE Polled(k)
  <2>1. boxes[k] = <<>>
    BY <1>1
  <2>2. QED
    BY <2>1 DEF Polled, Ahead, NoneSkipped
<1>6. QED
  BY <1>3, <1>4, <1>5 DEF TakenUp

\* Every step keeps every mail of a mailbox where it can be found.
LEMMA TakenStep ==
  ASSUME Types, AllPoll, TakenUp, Twice = FALSE, [Next]_vars
  PROVE  TakenUp'
<1>1. Rows'
  BY RowsStep DEF TakenUp
<1>2. CASE Reduce
  <2>1. Taken'
    <3>1. PICK m, t : Turn(m, t, inbox', model', dropped') /\ rows' = rows /\ boxes' = boxes
      BY <1>2, TurnFacts
    <3>2. PICK y, u, d : y = inbox' /\ u = model' /\ d = dropped'
      OBVIOUS
    <3>3. Turn(m, t, y, u, d)
      BY <3>1, <3>2
    <3>4. Single(u) /\ (\A r \in Nat : RowOnce(y, u, r)) /\ Owned(y, rows, boxes)
      BY <3>2, <3>3, TakenReduce DEF TakenUp
    <3>5. QED
      BY <3>1, <3>2, <3>4 DEF Taken
  <2>2. QED
    BY <1>1, <1>2, <2>1, PolledReduce DEF TakenUp
<1>3. ASSUME NEW ks \in SUBSET Mechanisms, Arrive(ks) PROVE TakenUp'
  BY <1>1, <1>3, TakenArrive
<1>4. ASSUME NEW k \in Mechanisms, Poll(k) \/ RouteFails(k) PROVE TakenUp'
  BY <1>4, TakenFetch, TakenRoute, TakenRecord, TakenRouteFails DEF Poll
<1>5. ASSUME NEW r \in DOMAIN model.runs, NEW how \in Outcomes, EndRun(r, how) PROVE TakenUp'
  <2>1. PICK x : x = Message("finish-agent-run", r, TaskOf(r), how, "")
    OBVIOUS
  <2>2. Posted(x)
    BY <1>5, <2>1, EndRunFacts
  <2>3. x.tag \notin OfRow
    BY <2>1 DEF Message, OfRow
  <2>4. QED
    BY <2>2, <2>3, TakenPosted
<1>6. ASSUME NEW r \in model.owed, Mint(r) PROVE TakenUp'
  <2>1. PICK x : x = Message("register-ui-request", r, TaskOf(r), "", "")
    OBVIOUS
  <2>2. Posted(x)
    BY <1>6, <2>1, MintFacts
  <2>3. x.tag \notin OfRow
    BY <2>1 DEF Message, OfRow
  <2>4. QED
    BY <2>2, <2>3, TakenPosted
<1>7. ASSUME NEW r \in model.asked, Answer(r) PROVE TakenUp'
  <2>1. PICK x : x = Message("answer-ui-request", r, TaskOf(r), "", "")
    OBVIOUS
  <2>2. Posted(x)
    BY <1>7, <2>1, AnswerFacts
  <2>3. x.tag \notin OfRow
    BY <2>1 DEF Message, OfRow
  <2>4. QED
    BY <2>2, <2>3, TakenPosted
<1>8. ASSUME NEW t \in DOMAIN model.tasks, FinishTask(t) PROVE TakenUp'
  <2>1. PICK x : x = Message("finish-task", 0, t, "", "")
    OBVIOUS
  <2>2. Posted(x)
    BY <1>8, <2>1, FinishFacts
  <2>3. x.tag \notin OfRow
    BY <2>1 DEF Message, OfRow
  <2>4. QED
    BY <2>2, <2>3, TakenPosted
<1>9. CASE Restart
  BY <1>9, TakenRestart
<1>10. CASE UNCHANGED vars
  BY <1>10 DEF vars, TakenUp, Rows, Taken, Polled
<1>11. QED
  BY <1>2, <1>3, <1>4, <1>5, <1>6, <1>7, <1>8, <1>9, <1>10 DEF Next, Ends

\* Two places of one mail are one: its row is one, and is in one task once.
LEMMA OnePlace ==
  ASSUME Types, TakenUp, NEW m
  PROVE  Cardinality(Places(m)) <= 1
<1>1. \A z \in Places(m) :
        \E t \in Tasks : \E p \in DOMAIN model.tasks[t].rows :
          z = <<t, p>> /\ rows[model.tasks[t].rows[p]] = m
  BY DEF Places, PlacesIn
<1>2. ASSUME NEW t \in Tasks, NEW p \in DOMAIN model.tasks[t].rows,
             NEW v \in Tasks, NEW q \in DOMAIN model.tasks[v].rows,
             rows[model.tasks[t].rows[p]] = m, rows[model.tasks[v].rows[q]] = m
      PROVE  t = v /\ p = q
  <2>1. ASSUME NEW i \in Tasks, NEW j \in DOMAIN model.tasks[i].rows
        PROVE  model.tasks[i].rows[j] \in DOMAIN rows
    <3>1. model.tasks[i] \in TaskType(Arrived, Stored, Begun) /\ DOMAIN rows = 1..Stored
      BY ModelFacts DEF Tasks
    <3>2. model.tasks[i].rows \in Seq(1..Stored)
      BY <3>1 DEF TaskType
    <3>3. PICK S, s : S = 1..Stored /\ s = model.tasks[i].rows
      OBVIOUS
    <3>4. s \in Seq(S) /\ j \in DOMAIN s
      BY <3>2, <3>3
    <3>5. s[j] \in S
      BY <3>4
    <3>6. QED
      BY <3>1, <3>3, <3>5
  <2>2. model.tasks[t].rows[p] = model.tasks[v].rows[q]
    BY <1>2, <2>1 DEF TakenUp, Rows, Distinct
  <2>3. QED
    BY <2>2 DEF TakenUp, Taken, Single, Tasks
<1>3. ASSUME NEW y \in Places(m), NEW z \in Places(m) PROVE y = z
  BY <1>1, <1>2
<1>4. CASE Places(m) = {}
  BY <1>4, FS_EmptySet
<1>5. CASE Places(m) # {}
  <2>1. PICK z : Places(m) = {z}
    BY <1>3, <1>5
  <2>2. Cardinality({z}) = 1
    BY FS_Singleton
  <2>3. QED
    BY <2>1, <2>2
<1>6. QED
  BY <1>4, <1>5

\* Up to the recorded cursor nothing is in hand: every mail is done with.
LEMMA TakenUpHeld ==
  ASSUME Types, AllPoll, TakenUp
  PROVE  TakenUpOnce
<1>1. \A m \in DOMAIN mails : Cardinality(Places(m)) <= 1
  BY OnePlace
<1>2. ASSUME NEW k \in Mechanisms, NEW p \in DOMAIN boxes[k],
             0 <= anchor[k], anchor[k] < p, p <= model.cursor[k]
      PROVE  boxes[k][p] \in dropped \/ Places(boxes[k][p]) # {}
  <2>1. PICK c \in Int, n \in Int : c = model.cursor[k] /\ n = pollers[k].next /\ c <= n
    <3>1. pollers[k] \in PollerType(Arrived)
      BY DEF Types
    <3>2. QED
      BY <3>1 DEF PollerType, AllPoll, Polls, Placed
  <2>2. p \in Int
    <3>1. PICK S, b : S = 1..Arrived /\ b = boxes[k]
      OBVIOUS
    <3>2. b \in Seq(S)
      BY <3>1 DEF Types
    <3>3. QED
      BY <3>1, <3>2
  <2>3. p <= n /\ ~(c < p)
    BY <1>2, <2>1, <2>2
  <2>4. Done(model, rows, dropped, boxes[k][p])
    BY <1>2, <2>1, <2>3 DEF TakenUp, Polled, NoneSkipped
  <2>5. ASSUME NEW r \in DOMAIN rows, rows[r] = boxes[k][p], Filed(model, r)
        PROVE  Places(boxes[k][p]) # {}
    <3>1. PICK t \in Tasks : r \in Range(model.tasks[t].rows)
      BY <2>5 DEF Filed, HasIngestedInbox, Tasks
    <3>2. PICK q \in DOMAIN model.tasks[t].rows : model.tasks[t].rows[q] = r
      BY <3>1 DEF Range
    <3>3. <<t, q>> \in PlacesIn(t, boxes[k][p])
      BY <2>5, <3>2 DEF PlacesIn
    <3>4. <<t, q>> \in Places(boxes[k][p])
      BY <3>1, <3>3 DEF Places
    <3>5. QED
      BY <3>4
  <2>6. QED
    BY <2>4, <2>5 DEF Done
<1>3. QED
  BY <1>1, <1>2 DEF TakenUpOnce

\* A mail is taken up once at most, and from the first recorded cursor on none is
\* skipped (decision-018), wherever kasi dies and however its channel and its
\* pollers interleave, as long as one mail reaches one mailbox: route-email looks
\* for the row in the tasks only, so that a mail that two pollers route at once is
\* taken up twice.
THEOREM TakesUpOnce ==
  ASSUME Twice = FALSE
  PROVE  Spec => []TakenUpOnce
<1>1. Init => TakenUp
  BY TakenInit
<1>2. Types /\ AllPoll /\ TakenUp /\ [Next]_vars => TakenUp'
  BY TakenStep
<1>3. Types /\ AllPoll /\ TakenUp => TakenUpOnce
  BY TakenUpHeld
<1>4. QED
  BY <1>1, <1>2, <1>3, Kept, PTL DEF Spec
=============================================================================
