--------------------------- MODULE AgentRunsProofs ---------------------------
(***************************************************************************)
(* What is proved about AgentRuns for every set of tasks, cap and harness, *)
(* and any number of runs, stops, deaths and failing effects.              *)
(***************************************************************************)
EXTENDS AgentRuns, SequenceLemmas

(***************************************************************************)
(* Types, with n runs on record, l processes ever started and ps those of  *)
(* this kasi.                                                              *)
(***************************************************************************)
RunType(l) == [task : Tasks, status : Status, resume : BOOLEAN,
               harness : Harness, session : 0..l]

Spawning == [tag : {"spawn-agent-run"}, about : Tasks, session : {0}, how : {"fresh", "resume"}]
OfRun(n) == [tag : {"stop-agent-run", "launch-agent-run", "agent-run-finished"},
             about : 1..n, session : {0}, how : {""}]
Finishing(n) == [tag : {"finish-agent-run"}, about : 1..n, session : {0},
                 how : {"exited", "stopped"}]
Recording(n, l) == [tag : {"record-session"}, about : 1..n, session : 1..l, how : {""}]
Capping == [tag : {"set-max-concurrent-runs"}, about : Caps, session : {0}, how : {""}]
Choosing == [tag : {"set-worker-harness"}, about : {0}, session : {0}, how : Harness]

MessageType(n, l) ==
  Spawning \cup OfRun(n) \cup Finishing(n) \cup Recording(n, l) \cup Capping \cup Choosing

\* An effect that registers a process, and a watcher that has found one, hold
\* a process of their run.
OfProcess(ps, e) == e.proc \in DOMAIN ps /\ ps[e.proc].run = e.run
EffectType(n, l, ps) ==
  {e \in [of : {"start", "signal"}, run : 1..n, session : 0..l,
          at : {"spawn", "register", "signal"}, proc : 0..l] :
     e.at = "register" => OfProcess(ps, e)}
WatcherType(n, l, ps) ==
  {w \in [run : 1..n, proc : 0..l, at : {"await", "select", "reap"}, cancelled : BOOLEAN] :
     w.at # "await" => OfProcess(ps, w)}
ProcType(n, l) == [run : 1..n, session : 0..l, is : {"up", "signalled", "exited", "reaped"}]

Count == Len(model.runs)

Types ==
  /\ launches \in Nat
  /\ model \in [runs : Seq(RunType(launches)), cap : Caps \cup {FirstCap}, choice : Harness]
  /\ inbox \in Seq(MessageType(Count, launches))
  /\ effects \in Seq(EffectType(Count, launches, procs))
  /\ watchers \in Seq(WatcherType(Count, launches, procs))
  /\ launchers \in Seq(1..Count)
  /\ started \subseteq 1..Count
  /\ DOMAIN procs \subseteq 1..launches
  /\ procs \in [DOMAIN procs -> ProcType(Count, launches)]
  /\ table \in [Tasks -> DOMAIN procs \cup {0}]
  /\ threads \in [Tasks -> Seq(1..launches)]
  /\ received \in [RunId -> Nat]
  /\ asked \in Seq(Tasks)
  /\ crashes \in Nat

-----------------------------------------------------------------------------
(***************************************************************************)
(* Launching and reporting: what is under way for a run.                   *)
(***************************************************************************)
Launching(r) == {About("launch-agent-run", r)}
Spawns(r) == [of : {"start", "signal"}, run : {r}, session : Nat, at : {"spawn"}, proc : Nat]
Works(r) == [run : {r}, session : Nat, is : {"up", "signalled", "exited", "reaped"}]
Watches(r) == [run : {r}, proc : Nat, at : {"await", "select", "reap"}, cancelled : BOOLEAN]
Ending(r) == {Message("finish-agent-run", r, 0, "exited"),
              Message("finish-agent-run", r, 0, "stopped")}
Ended(r) == {Message("finish-agent-run", r, 0, "exited")}
Telling(r) == {About("agent-run-finished", r)}

Coming(r) == Has(launchers, {r}) \/ Has(inbox, Launching(r)) \/ Has(effects, Spawns(r))
Told(r) == r \in RunId /\ received[r] > 0

\* A run is launched once: at any time one thing at most is under way for it.
Launches(r) ==
  /\ Once(launchers, {r}) /\ Once(inbox, Launching(r))
  /\ Once(effects, Spawns(r)) /\ Once(procs, Works(r))
  /\ ~(Has(launchers, {r}) /\ Has(inbox, Launching(r)))
  /\ ~(Has(launchers, {r}) /\ Has(effects, Spawns(r)))
  /\ ~(Has(inbox, Launching(r)) /\ Has(effects, Spawns(r)))
  /\ ~(Coming(r) /\ Has(procs, Works(r)))

\* Its end is reported once.
Reports_(r) ==
  /\ Once(watchers, Watches(r)) /\ Once(inbox, Ending(r)) /\ Once(inbox, Telling(r))
  /\ r \in RunId => received[r] <= 1
  /\ ~(Has(watchers, Watches(r)) /\ Has(inbox, Ending(r)))
  /\ ~((Has(watchers, Watches(r)) \/ Has(inbox, Ending(r))) /\ (Has(inbox, Telling(r)) \/ Told(r)))
  /\ ~(Has(inbox, Telling(r)) /\ Told(r))

Running(r) == model.runs[r].status = "running"

\* Whatever is under way for a running run, the cap lets it in.
LetIn(r) ==
  /\ (Coming(r) \/ Has(procs, Works(r)) \/ Has(watchers, Watches(r)) \/ Has(inbox, Ending(r)))
       => r \in DOMAIN model.runs /\ (Running(r) => r \in started)
  /\ Has(inbox, Telling(r)) \/ Told(r) => r \in DOMAIN model.runs /\ ~Running(r)

\* A finished run, and one whose process was seen to end, has no process left.
NoneAlive(ps, r) == \A p \in DOMAIN ps : ps[p].run = r => ps[p].is \notin {"up", "signalled"}
Gone(r) ==
  (r \in DOMAIN model.runs /\ model.runs[r].status = "finished") \/ Has(inbox, Ended(r)) =>
    ~Coming(r) /\ NoneAlive(procs, r)

Current == started = ActiveRuns(model)
Orderly == \A r \in Nat : Launches(r) /\ Reports_(r) /\ LetIn(r) /\ Gone(r)

-----------------------------------------------------------------------------
(***************************************************************************)
(* Types.                                                                  *)
(***************************************************************************)
\* More runs and more processes widen every type.
Widens(n, l, ps, k, h, qs) ==
  /\ Seq(RunType(l)) \subseteq Seq(RunType(h)) /\ RunType(l) \subseteq RunType(h)
  /\ Seq(MessageType(n, l)) \subseteq Seq(MessageType(k, h))
  /\ Seq(EffectType(n, l, ps)) \subseteq Seq(EffectType(k, h, qs))
  /\ Seq(WatcherType(n, l, ps)) \subseteq Seq(WatcherType(k, h, qs))
  /\ ProcType(n, l) \subseteq ProcType(k, h)
  /\ Seq(1..n) \subseteq Seq(1..k) /\ Seq(1..l) \subseteq Seq(1..h)

\* Numbers only grow and a process keeps its run, so what was typed stays typed.
LEMMA Wider ==
  ASSUME NEW n \in Nat, NEW l \in Nat, NEW k \in Nat, NEW h \in Nat,
         NEW ps, NEW qs, n <= k, l <= h, DOMAIN ps \subseteq DOMAIN qs,
         \A p \in DOMAIN ps : qs[p].run = ps[p].run
  PROVE  Widens(n, l, ps, k, h, qs)
<1>1. 1..n \subseteq 1..k /\ 1..l \subseteq 1..h /\ 0..l \subseteq 0..h
  OBVIOUS
<1>2. RunType(l) \subseteq RunType(h)
  BY <1>1 DEF RunType
<1>3. EffectType(n, l, ps) \subseteq EffectType(k, h, qs)
  BY <1>1 DEF EffectType, OfProcess
<1>4. WatcherType(n, l, ps) \subseteq WatcherType(k, h, qs)
  BY <1>1 DEF WatcherType, OfProcess
<1>5. ProcType(n, l) \subseteq ProcType(k, h)
  BY <1>1 DEF ProcType
<1>6. OfRun(n) \subseteq OfRun(k) /\ Finishing(n) \subseteq Finishing(k)
      /\ Recording(n, l) \subseteq Recording(k, h)
  BY <1>1 DEF OfRun, Finishing, Recording
<1>7. MessageType(n, l) \subseteq MessageType(k, h)
  BY <1>6 DEF MessageType
<1>8. ASSUME NEW S, NEW T, S \subseteq T PROVE Seq(S) \subseteq Seq(T)
  <2>1. ASSUME NEW s \in Seq(S) PROVE s \in Seq(T)
    <3>1. s \in [1..Len(s) -> S] /\ Len(s) \in Nat
      BY LenProperties
    <3>2. s \in [1..Len(s) -> T]
      BY <1>8, <3>1
    <3>3. QED
      BY <3>1, <3>2
  <2>2. QED
    BY <2>1
<1>9. QED
  BY <1>1, <1>2, <1>3, <1>4, <1>5, <1>7, <1>8 DEF Widens

\* What a message says of itself, by its tag.
LEMMA MessageFacts ==
  ASSUME NEW n \in Nat, NEW l \in Nat, NEW m \in MessageType(n, l)
  PROVE  /\ m.tag = "spawn-agent-run" => m.about \in Tasks /\ m.how \in {"fresh", "resume"}
         /\ m.tag = "stop-agent-run" => m = About("stop-agent-run", m.about)
         /\ m.tag = "launch-agent-run" => m = About("launch-agent-run", m.about)
         /\ m.tag = "agent-run-finished" => m = About("agent-run-finished", m.about)
         /\ m.tag = "finish-agent-run" => m.how \in {"exited", "stopped"}
              /\ m = Message("finish-agent-run", m.about, 0, m.how)
         /\ m.tag = "record-session" => m.session \in 1..l
         /\ m.tag \in {"stop-agent-run", "launch-agent-run", "agent-run-finished",
                       "finish-agent-run", "record-session"} => m.about \in 1..n
         /\ m.tag = "set-max-concurrent-runs" => m.about \in Caps
         /\ m.tag = "set-worker-harness" => m.how \in Harness
         /\ m.tag \in {"spawn-agent-run", "stop-agent-run", "launch-agent-run",
                       "agent-run-finished", "finish-agent-run", "record-session",
                       "set-max-concurrent-runs", "set-worker-harness"}
<1>1. CASE m \in Spawning
  BY <1>1 DEF Spawning
<1>2. CASE m \in OfRun(n)
  BY <1>2 DEF OfRun, About, Message
<1>3. CASE m \in Finishing(n)
  BY <1>3 DEF Finishing, Message
<1>4. CASE m \in Recording(n, l)
  BY <1>4 DEF Recording
<1>5. CASE m \in Capping \cup Choosing
  BY <1>5 DEF Capping, Choosing
<1>6. QED
  BY <1>1, <1>2, <1>3, <1>4, <1>5 DEF MessageType

\* The messages the actions send have their type.
LEMMA MessagesTyped ==
  ASSUME NEW n \in Nat, NEW l \in Nat
  PROVE  /\ \A t \in Tasks, h \in {"fresh", "resume"} :
              Message("spawn-agent-run", t, 0, h) \in MessageType(n, l)
         /\ \A r \in 1..n :
              /\ About("stop-agent-run", r) \in MessageType(n, l)
              /\ About("launch-agent-run", r) \in MessageType(n, l)
              /\ About("agent-run-finished", r) \in MessageType(n, l)
              /\ \A h \in {"exited", "stopped"} :
                   Message("finish-agent-run", r, 0, h) \in MessageType(n, l)
              /\ \A s \in 1..l : Message("record-session", r, s, "") \in MessageType(n, l)
         /\ \A c \in Caps : Message("set-max-concurrent-runs", c, 0, "") \in MessageType(n, l)
         /\ \A h \in Harness : Message("set-worker-harness", 0, 0, h) \in MessageType(n, l)
<1>1. \A t \in Tasks, h \in {"fresh", "resume"} : Message("spawn-agent-run", t, 0, h) \in Spawning
  BY DEF Message, Spawning
<1>2. \A r \in 1..n :
        /\ About("stop-agent-run", r) \in OfRun(n)
        /\ About("launch-agent-run", r) \in OfRun(n)
        /\ About("agent-run-finished", r) \in OfRun(n)
  BY DEF About, Message, OfRun
<1>3. \A r \in 1..n, h \in {"exited", "stopped"} :
        Message("finish-agent-run", r, 0, h) \in Finishing(n)
  BY DEF Message, Finishing
<1>4. \A r \in 1..n, s \in 1..l : Message("record-session", r, s, "") \in Recording(n, l)
  BY DEF Message, Recording
<1>5. \A c \in Caps : Message("set-max-concurrent-runs", c, 0, "") \in Capping
  BY DEF Message, Capping
<1>6. \A h \in Harness : Message("set-worker-harness", 0, 0, h) \in Choosing
  BY DEF Message, Choosing
<1>7. QED
  BY <1>1, <1>2, <1>3, <1>4, <1>5, <1>6 DEF MessageType

\* The runs let in are running runs, finitely many.
LEMMA ActiveFacts ==
  ASSUME NEW s, NEW S, s.runs \in Seq(S)
  PROVE  /\ ActiveRuns(s) \subseteq 1..Len(s.runs) /\ IsFiniteSet(ActiveRuns(s))
         /\ \A r \in ActiveRuns(s) : s.runs[r].status = "running"
<1>1. Len(s.runs) \in Nat /\ DOMAIN s.runs = 1..Len(s.runs)
  OBVIOUS
<1>2. ActiveRuns(s) \subseteq 1..Len(s.runs)
      /\ \A r \in ActiveRuns(s) : s.runs[r].status = "running"
  BY <1>1 DEF ActiveRuns
<1>3. IsFiniteSet(1..Len(s.runs))
  BY <1>1, FS_Interval
<1>4. QED
  BY <1>2, <1>3, FS_Subset

\* The harness of a run: that of an earlier run of its task if it is resumed and
\* there is one, and the operator's choice otherwise.
LEMMA PinFacts ==
  ASSUME Types, NEW m
  PROVE  /\ PinHarness(model, m) \in Harness
         /\ m.how = "resume" /\ (\E q \in DOMAIN model.runs : model.runs[q].task = m.about) =>
              \E q \in DOMAIN model.runs : /\ model.runs[q].task = m.about
                                           /\ PinHarness(model, m) = model.runs[q].harness
<1> DEFINE prior == {q \in DOMAIN model.runs : model.runs[q].task = m.about}
<1>1. /\ model.runs \in Seq(RunType(launches)) /\ model.choice \in Harness
      /\ Count \in Nat /\ DOMAIN model.runs = 1..Count
  BY DEF Types, Count
<1>2. ASSUME NEW q \in DOMAIN model.runs PROVE model.runs[q].harness \in Harness
  <2>1. model.runs[q] \in RunType(launches)
    BY <1>1
  <2>2. QED
    BY <2>1 DEF RunType
<1>3. CASE m.how = "resume" /\ prior # {}
  <2>1. prior \in SUBSET (1..Count)
    BY <1>1
  <2>2. Max(prior) \in prior
    BY <1>1, <1>3, <2>1, MaxProperties
  <2>3. PinHarness(model, m) = model.runs[Max(prior)].harness
    BY <1>3 DEF PinHarness
  <2>4. QED
    BY <1>2, <2>2, <2>3
<1>4. CASE ~(m.how = "resume" /\ prior # {})
  <2>1. PinHarness(model, m) = model.choice
    BY <1>4 DEF PinHarness
  <2>2. QED
    BY <1>1, <1>4, <2>1
<1>5. QED
  BY <1>3, <1>4

\* What a handler makes of the slice: a new run is the last, an old one keeps its
\* task, harness and mode and never runs again, and its end is that reported.
Kept(old, new, m, r) ==
  /\ new[r].task = old[r].task /\ new[r].resume = old[r].resume
  /\ new[r].harness = old[r].harness
  /\ new[r].status = "running" => old[r].status = "running"
  /\ new[r].status = "finished" => old[r].status = "finished" \/ m \in Ended(r)
  /\ m \in Ending(r) => new[r].status # "running"
  /\ new[r].session = old[r].session
       \/ (m.tag = "record-session" /\ m.about = r /\ new[r].session = m.session)

Updated(u, m) ==
  /\ u \in [runs : Seq(RunType(launches)), cap : Caps \cup {FirstCap}, choice : Harness]
  /\ \A r \in 1..Count : Kept(model.runs, u.runs, m, r)
  /\ m.tag # "spawn-agent-run" => Len(u.runs) = Count
  /\ m.tag = "spawn-agent-run" =>
       /\ Len(u.runs) = Count + 1
       /\ u.runs[Count + 1] = [task |-> m.about, status |-> "running",
                               resume |-> m.how = "resume",
                               harness |-> PinHarness(model, m), session |-> 0]

\* What the update half of every message may change in the model.
LEMMA UpdateFacts ==
  ASSUME Types, NEW m \in MessageType(Count, launches)
  PROVE  Updated(Update(model, m), m)
<1> DEFINE n == Count
           rs == model.runs
           R == RunType(launches)
           M == [runs : Seq(R), cap : Caps \cup {FirstCap}, choice : Harness]
           u == Update(model, m)
<1>1. /\ n \in Nat /\ launches \in Nat /\ rs \in Seq(R) /\ DOMAIN rs = 1..n /\ Len(rs) = n
      /\ model \in M
  BY DEF Types, Count
<1>2. \A r \in 1..n : rs[r] \in R
  BY <1>1
<1>3. /\ m.tag = "spawn-agent-run" => m.about \in Tasks /\ m.how \in {"fresh", "resume"}
      /\ m.tag = "finish-agent-run" => m.how \in {"exited", "stopped"}
           /\ m = Message("finish-agent-run", m.about, 0, m.how)
      /\ m.tag = "record-session" => m.session \in 1..launches
      /\ m.tag \in {"stop-agent-run", "finish-agent-run", "record-session"} => m.about \in 1..n
      /\ m.tag = "set-max-concurrent-runs" => m.about \in Caps
      /\ m.tag = "set-worker-harness" => m.how \in Harness
  BY <1>1, MessageFacts
<1>4. m.tag # "finish-agent-run" => \A r \in Nat : m \notin Ended(r) /\ m \notin Ending(r)
  BY DEF Ended, Ending, Message
<1> HIDE DEF n
<1>5. CASE m.tag = "spawn-agent-run"
  <2> DEFINE x == [task |-> m.about, status |-> "running", resume |-> m.how = "resume",
                   harness |-> PinHarness(model, m), session |-> 0]
  <2>1. PinHarness(model, m) \in Harness
    BY PinFacts
  <2>2. x \in R
    BY <1>1, <1>3, <1>5, <2>1 DEF RunType, Status
  <2>3. u = [model EXCEPT !.runs = Append(rs, x)]
    BY <1>5 DEF Update, SpawnAgentRun
  <2> HIDE DEF x
  <2>4. /\ Append(rs, x) \in Seq(R) /\ Len(Append(rs, x)) = n + 1
        /\ Append(rs, x)[n + 1] = x /\ \A r \in 1..n : Append(rs, x)[r] = rs[r]
    BY <1>1, <2>2
  <2>5. u \in M /\ u.runs = Append(rs, x)
    BY <1>1, <2>3, <2>4
  <2>6. \A r \in 1..n : Kept(rs, u.runs, m, r)
    BY <1>1, <1>4, <1>5, <2>4, <2>5 DEF Kept
  <2>7. QED
    BY <1>5, <2>4, <2>5, <2>6 DEF Updated, x, n
<1>6. CASE m.tag \in {"stop-agent-run", "finish-agent-run", "record-session"}
  <2> DEFINE a == m.about
             status == IF m.tag = "stop-agent-run" THEN "stopping"
                       ELSE IF m.tag = "finish-agent-run"
                            THEN IF m.how = "stopped" \/ rs[a].status = "stopping"
                                 THEN "stopped" ELSE "finished"
                            ELSE rs[a].status
             session == IF m.tag = "record-session" THEN m.session ELSE rs[a].session
             x == [rs[a] EXCEPT !.status = status, !.session = session]
             xs == [rs EXCEPT ![a] = x]
  <2>1. a \in 1..n /\ rs[a] \in R
    BY <1>2, <1>3, <1>6
  <2>2. status \in Status /\ session \in 0..launches
    BY <1>1, <1>3, <1>6, <2>1 DEF Status, RunType
  <2>3. x \in R
    BY <2>1, <2>2 DEF RunType
  <2>4. u = [model EXCEPT !.runs = xs]
    <3>1. CASE m.tag = "stop-agent-run"
      <4>1. x = [rs[a] EXCEPT !.status = "stopping"]
        BY <2>1, <3>1 DEF RunType
      <4>2. u = [model EXCEPT !.runs[a].status = "stopping"]
        BY <3>1 DEF Update, StopAgentRun
      <4>3. QED
        BY <1>1, <4>1, <4>2
    <3>2. CASE m.tag = "finish-agent-run"
      <4>1. x = [rs[a] EXCEPT !.status = IF m.how = "stopped" \/ @ = "stopping"
                                         THEN "stopped" ELSE "finished"]
        BY <2>1, <3>2 DEF RunType
      <4>2. u = [model EXCEPT !.runs[a].status =
                   IF m.how = "stopped" \/ @ = "stopping" THEN "stopped" ELSE "finished"]
        BY <3>2 DEF Update, FinishAgentRun
      <4>3. QED
        BY <1>1, <4>1, <4>2
    <3>3. CASE m.tag = "record-session"
      <4>1. x = [rs[a] EXCEPT !.session = m.session]
        BY <2>1, <3>3 DEF RunType
      <4>2. u = [model EXCEPT !.runs[a].session = m.session]
        BY <3>3 DEF Update
      <4>3. QED
        BY <1>1, <4>1, <4>2
    <3>4. QED
      BY <1>6, <3>1, <3>2, <3>3
  <2>5. /\ x.task = rs[a].task /\ x.resume = rs[a].resume /\ x.harness = rs[a].harness
        /\ x.status = status /\ x.session = session
    BY <2>1 DEF RunType
  <2> HIDE DEF x
  <2>6. /\ xs \in Seq(R) /\ Len(xs) = n
        /\ \A r \in 1..n : xs[r] = IF r = a THEN x ELSE rs[r]
    BY <1>1, <2>1, <2>3, Replaced
  <2> HIDE DEF xs
  <2>7. u \in M /\ u.runs = xs
    BY <1>1, <2>4, <2>6
  <2>8. ASSUME NEW r \in 1..n PROVE Kept(rs, xs, m, r)
    <3>1. m \in Ending(r) => r = a
      BY DEF Ending, Message
    <3>2. CASE r # a
      BY <2>6, <3>1, <3>2 DEF Kept
    <3>3. CASE r = a
      <4>1. /\ status = "running" => rs[a].status = "running"
            /\ status = "finished" => rs[a].status = "finished" \/ m \in Ended(a)
        BY <1>3, <1>6 DEF Ended
      <4>2. m \in Ending(a) => status # "running"
        BY DEF Ending, Message
      <4>3. session = rs[a].session \/ (m.tag = "record-session" /\ session = m.session)
        OBVIOUS
      <4> HIDE DEF status, session
      <4>4. QED
        BY <2>5, <2>6, <3>3, <4>1, <4>2, <4>3 DEF Kept
    <3>4. QED
      BY <3>2, <3>3
  <2>9. QED
    BY <1>6, <2>6, <2>7, <2>8 DEF Updated, n
<1>7. CASE m.tag \notin {"spawn-agent-run", "stop-agent-run", "finish-agent-run", "record-session"}
  <2>1. u \in M /\ u.runs = rs
    <3>1. CASE m.tag = "set-max-concurrent-runs"
      BY <1>1, <1>3, <3>1 DEF Update
    <3>2. CASE m.tag = "set-worker-harness"
      BY <1>1, <1>3, <3>2 DEF Update
    <3>3. CASE m.tag \notin {"set-max-concurrent-runs", "set-worker-harness"}
      <4>1. u = model
        BY <1>7, <3>3 DEF Update
      <4>2. QED
        BY <1>1, <4>1
    <3>4. QED
      BY <3>1, <3>2, <3>3
  <2>2. \A r \in 1..n : Kept(rs, u.runs, m, r)
    BY <1>1, <1>4, <1>7, <2>1 DEF Kept
  <2>3. QED
    BY <1>1, <1>7, <2>1, <2>2 DEF Updated, n
<1>8. QED
  BY <1>5, <1>6, <1>7

\* What is under way for a run, by the fields that tell.
LEMMA WatchKind ==
  ASSUME NEW n \in Nat, NEW l \in Nat, NEW ps, NEW r \in Nat, NEW w \in WatcherType(n, l, ps)
  PROVE  w \in Watches(r) <=> w.run = r
BY DEF WatcherType, Watches

\* Which effects start the process of run r.
LEMMA SpawnKind ==
  ASSUME NEW n \in Nat, NEW l \in Nat, NEW ps, NEW r \in Nat, NEW e \in EffectType(n, l, ps)
  PROVE  e \in Spawns(r) <=> e.at = "spawn" /\ e.run = r
BY DEF EffectType, Spawns

\* Which processes belong to run r.
LEMMA WorkKind ==
  ASSUME NEW n \in Nat, NEW l \in Nat, NEW r \in Nat, NEW p \in ProcType(n, l)
  PROVE  p \in Works(r) <=> p.run = r
BY DEF ProcType, Works

\* What the four kinds of message about run r are, by tag and run.
LEMMA MessageKind ==
  ASSUME NEW n \in Nat, NEW l \in Nat, NEW r \in Nat, NEW m \in MessageType(n, l)
  PROVE  /\ m \in Launching(r) <=> m.tag = "launch-agent-run" /\ m.about = r
         /\ m \in Telling(r) <=> m.tag = "agent-run-finished" /\ m.about = r
         /\ m \in Ending(r) <=> m.tag = "finish-agent-run" /\ m.about = r
         /\ m \in Ended(r) <=> m.tag = "finish-agent-run" /\ m.about = r /\ m.how = "exited"
<1>1. /\ m.tag = "launch-agent-run" => m = About("launch-agent-run", m.about)
      /\ m.tag = "agent-run-finished" => m = About("agent-run-finished", m.about)
      /\ m.tag = "finish-agent-run" => m.how \in {"exited", "stopped"}
           /\ m = Message("finish-agent-run", m.about, 0, m.how)
  BY MessageFacts
<1>2. /\ About("launch-agent-run", r).tag = "launch-agent-run"
      /\ About("launch-agent-run", r).about = r
      /\ About("agent-run-finished", r).tag = "agent-run-finished"
      /\ About("agent-run-finished", r).about = r
  BY DEF About, Message
<1>3. \A h : /\ Message("finish-agent-run", r, 0, h).tag = "finish-agent-run"
             /\ Message("finish-agent-run", r, 0, h).about = r
             /\ Message("finish-agent-run", r, 0, h).how = h
  BY DEF Message
<1>4. m \in Launching(r) <=> m.tag = "launch-agent-run" /\ m.about = r
  BY <1>1, <1>2 DEF Launching
<1>5. m \in Telling(r) <=> m.tag = "agent-run-finished" /\ m.about = r
  BY <1>1, <1>2 DEF Telling
<1>6. /\ m \in Ending(r) <=> m.tag = "finish-agent-run" /\ m.about = r
      /\ m \in Ended(r) <=> m.tag = "finish-agent-run" /\ m.about = r /\ m.how = "exited"
  BY <1>1, <1>3 DEF Ending, Ended
<1>7. QED
  BY <1>4, <1>5, <1>6

\* A sequence described by its elements.
LEMMA Listed ==
  ASSUME NEW S, NEW k \in Nat, NEW s \in [1..k -> S]
  PROVE  s \in Seq(S) /\ Len(s) = k /\ DOMAIN s = 1..k
OBVIOUS

\* Every run in the list gets a watcher of its own.
LEMMA NewWatchers ==
  ASSUME NEW n \in Nat, NEW l \in Nat, NEW ps, NEW new \in Seq(1..n),
         NEW ws, ws = [i \in DOMAIN new |-> Watcher(new[i])]
  PROVE  /\ ws \in Seq(WatcherType(n, l, ps))
         /\ \A r \in Nat : (Has(ws, Watches(r)) <=> Has(new, {r}))
                           /\ (Once(new, {r}) => Once(ws, Watches(r)))
<1>1. Len(new) \in Nat /\ DOMAIN new = 1..Len(new) /\ \A i \in DOMAIN new : new[i] \in 1..n
  OBVIOUS
<1>2. \A r \in 1..n : Watcher(r) \in WatcherType(n, l, ps)
  BY DEF Watcher, WatcherType
<1>3. ws \in [1..Len(new) -> WatcherType(n, l, ps)]
  BY <1>1, <1>2
<1>4. ws \in Seq(WatcherType(n, l, ps)) /\ DOMAIN ws = DOMAIN new
  BY <1>1, <1>3, Listed
<1>5. ASSUME NEW r \in Nat, NEW i \in DOMAIN new PROVE ws[i] \in Watches(r) <=> new[i] \in {r}
  <2>1. ws[i].run = new[i] /\ ws[i] \in WatcherType(n, l, ps)
    BY <1>1, <1>2 DEF Watcher
  <2>2. QED
    BY <2>1, WatchKind
<1>6. ASSUME NEW r \in Nat
      PROVE  (Has(ws, Watches(r)) <=> Has(new, {r})) /\ (Once(new, {r}) => Once(ws, Watches(r)))
  <2>1. \A i \in DOMAIN new : ws[i] \in Watches(r) <=> new[i] \in {r}
    BY <1>5
  <2>2. QED
    BY <1>4, <2>1, SameHas
<1>7. QED
  BY <1>4, <1>6

\* Cancelling a watcher leaves it the watcher of its run.
LEMMA Cancelled ==
  ASSUME NEW n \in Nat, NEW l \in Nat, NEW ps, NEW ws \in Seq(WatcherType(n, l, ps)), NEW kept
  PROVE  /\ Cancel(ws, kept) \in Seq(WatcherType(n, l, ps))
         /\ \A r \in Nat : (Has(Cancel(ws, kept), Watches(r)) <=> Has(ws, Watches(r)))
                           /\ (Once(ws, Watches(r)) => Once(Cancel(ws, kept), Watches(r)))
<1> DEFINE cs == Cancel(ws, kept)
<1>1. Len(ws) \in Nat /\ DOMAIN ws = 1..Len(ws)
      /\ \A i \in DOMAIN ws : ws[i] \in WatcherType(n, l, ps)
  OBVIOUS
<1>2. cs = [i \in DOMAIN ws |-> [ws[i] EXCEPT !.cancelled = @ \/ ws[i].run \notin kept]]
  BY DEF Cancel
<1> HIDE DEF cs
<1>3. ASSUME NEW i \in DOMAIN ws
      PROVE  cs[i] \in WatcherType(n, l, ps) /\ cs[i].run = ws[i].run
             /\ cs[i] \in [run : 1..n, proc : 0..l, at : {"await", "select", "reap"},
                           cancelled : BOOLEAN]
             /\ ws[i] \in [run : 1..n, proc : 0..l, at : {"await", "select", "reap"},
                           cancelled : BOOLEAN]
  <2>1. ws[i] \in [run : 1..n, proc : 0..l, at : {"await", "select", "reap"}, cancelled : BOOLEAN]
        /\ (ws[i].at # "await" => OfProcess(ps, ws[i]))
    BY <1>1 DEF WatcherType
  <2>2. PICK c \in BOOLEAN : cs[i] = [ws[i] EXCEPT !.cancelled = c]
    BY <1>2, <2>1
  <2>3. cs[i] \in [run : 1..n, proc : 0..l, at : {"await", "select", "reap"}, cancelled : BOOLEAN]
        /\ cs[i].run = ws[i].run /\ cs[i].at = ws[i].at /\ cs[i].proc = ws[i].proc
    BY <2>1, <2>2
  <2>4. cs[i].at # "await" => OfProcess(ps, cs[i])
    BY <2>1, <2>3 DEF OfProcess
  <2>5. QED
    BY <2>1, <2>3, <2>4 DEF WatcherType
<1>4. cs \in [1..Len(ws) -> WatcherType(n, l, ps)]
  BY <1>1, <1>2, <1>3
<1>5. cs \in Seq(WatcherType(n, l, ps)) /\ DOMAIN cs = DOMAIN ws
  BY <1>1, <1>4, Listed
<1>6. ASSUME NEW r \in Nat, NEW i \in DOMAIN ws PROVE cs[i] \in Watches(r) <=> ws[i] \in Watches(r)
  BY <1>1, <1>3 DEF Watches
<1>7. QED
  BY <1>5, <1>6, SameHas DEF cs

\* What a handler returns: the effect of its run, and the news for tasks.
LEMMA CommandFacts ==
  ASSUME Types, NEW m \in MessageType(Count, launches)
  PROVE  /\ Commands(model, m) \in Seq(EffectType(Count, launches, procs))
         /\ Sends(m) \in Seq(MessageType(Count, launches))
         /\ \A r \in Nat :
              /\ Once(Commands(model, m), Spawns(r))
              /\ Has(Commands(model, m), Spawns(r)) <=> m \in Launching(r)
              /\ Once(Sends(m), Telling(r))
              /\ Has(Sends(m), Telling(r)) <=> m \in Ending(r)
              /\ ~Has(Sends(m), Launching(r)) /\ ~Has(Sends(m), Ending(r))
              /\ ~Has(Sends(m), Ended(r))
<1> DEFINE E == EffectType(Count, launches, procs)
           c == Commands(model, m)
           d == Sends(m)
<1>1. Count \in Nat /\ launches \in Nat /\ model.runs \in Seq(RunType(launches))
      /\ DOMAIN model.runs = 1..Count
  BY DEF Types, Count
<1>2. \A r \in 1..Count : model.runs[r].session \in 0..launches
  <2>1. \A r \in 1..Count : model.runs[r] \in RunType(launches)
    BY <1>1
  <2>2. QED
    BY <2>1 DEF RunType
<1>3. /\ m.tag \in {"stop-agent-run", "launch-agent-run", "finish-agent-run"} => m.about \in 1..Count
      /\ m.tag = "launch-agent-run" => m = About("launch-agent-run", m.about)
      /\ m.tag = "finish-agent-run" => m.how \in {"exited", "stopped"}
           /\ m = Message("finish-agent-run", m.about, 0, m.how)
  BY <1>1, MessageFacts
<1>k. ASSUME NEW r \in Nat
      PROVE  /\ m \in Launching(r) <=> m.tag = "launch-agent-run" /\ m.about = r
             /\ m \in Ending(r) <=> m.tag = "finish-agent-run" /\ m.about = r
  BY <1>1, MessageKind
<1>4. c \in Seq(E) /\ \A r \in Nat : Once(c, Spawns(r)) /\ (Has(c, Spawns(r)) <=> m \in Launching(r))
  <2>1. CASE m.tag = "launch-agent-run"
    <3> DEFINE e == [of |-> "start", run |-> m.about, session |-> model.runs[m.about].session,
                     at |-> "spawn", proc |-> 0]
    <3>1. c = <<e>>
      BY <2>1 DEF Commands
    <3>2. e \in E
      BY <1>1, <1>2, <1>3, <2>1 DEF EffectType
    <3>3. \A r \in Nat : e \in Spawns(r) <=> r = m.about
      BY <1>1, <1>2, <1>3, <2>1 DEF Spawns
    <3>4. \A r \in Nat : m \in Launching(r) <=> r = m.about
      BY <1>k, <2>1
    <3> HIDE DEF e
    <3>5. c \in Seq(E) /\ DOMAIN c = {1} /\ c[1] = e
      BY <3>1, <3>2
    <3> HIDE DEF c
    <3>6. QED
      BY <3>3, <3>4, <3>5 DEF Has, Once
  <2>2. CASE m.tag = "stop-agent-run"
    <3> DEFINE e == [of |-> "signal", run |-> m.about, session |-> 0,
                     at |-> "signal", proc |-> 0]
    <3>1. c = <<e>>
      BY <2>2 DEF Commands
    <3>2. e \in E
      BY <1>1, <1>2, <1>3, <2>2 DEF EffectType
    <3>3. \A r \in Nat : e \notin Spawns(r)
      BY DEF Spawns
    <3>4. \A r \in Nat : m \notin Launching(r)
      BY <1>k, <2>2
    <3> HIDE DEF e
    <3>5. c \in Seq(E) /\ DOMAIN c = {1} /\ c[1] = e
      BY <3>1, <3>2
    <3> HIDE DEF c
    <3>6. QED
      BY <3>3, <3>4, <3>5 DEF Has, Once
  <2>3. CASE m.tag \notin {"launch-agent-run", "stop-agent-run"}
    <3>1. c = <<>>
      BY <2>3 DEF Commands
    <3>2. \A r \in Nat : m \notin Launching(r)
      BY <1>k, <2>3
    <3>3. c \in Seq(E) /\ DOMAIN c = {}
      BY <3>1
    <3> HIDE DEF c
    <3>4. QED
      BY <3>2, <3>3 DEF Has, Once
  <2>4. QED
    BY <2>1, <2>2, <2>3
<1>5. /\ d \in Seq(MessageType(Count, launches))
      /\ \A r \in Nat : /\ Once(d, Telling(r)) /\ (Has(d, Telling(r)) <=> m \in Ending(r))
                        /\ ~Has(d, Launching(r)) /\ ~Has(d, Ending(r)) /\ ~Has(d, Ended(r))
  <2>1. CASE m.tag = "finish-agent-run"
    <3> DEFINE x == About("agent-run-finished", m.about)
    <3>1. d = <<x>>
      BY <2>1 DEF Sends
    <3>2. x \in MessageType(Count, launches)
      BY <1>1, <1>3, <2>1, MessagesTyped
    <3>3. \A r \in Nat : /\ x \in Telling(r) <=> r = m.about
                         /\ x \notin Launching(r) /\ x \notin Ending(r) /\ x \notin Ended(r)
      BY DEF Telling, Launching, Ending, Ended, About, Message
    <3>4. \A r \in Nat : m \in Ending(r) <=> r = m.about
      BY <1>3, <2>1 DEF Ending, Message
    <3> HIDE DEF x
    <3>5. d \in Seq(MessageType(Count, launches)) /\ DOMAIN d = {1} /\ d[1] = x
      BY <3>1, <3>2
    <3> HIDE DEF d
    <3>6. QED
      BY <3>3, <3>4, <3>5 DEF Has, Once
  <2>2. CASE m.tag # "finish-agent-run"
    <3>1. d = <<>>
      BY <2>2 DEF Sends
    <3>2. \A r \in Nat : m \notin Ending(r)
      BY <2>2 DEF Ending, Message
    <3>3. d \in Seq(MessageType(Count, launches)) /\ DOMAIN d = {}
      BY <3>1
    <3> HIDE DEF d
    <3>4. QED
      BY <3>2, <3>3 DEF Has, Once
  <2>3. QED
    BY <2>1, <2>2
<1>6. QED
  BY <1>4, <1>5

\* The runs to start are listed once each.
LEMMA ListFacts ==
  ASSUME NEW A, IsFiniteSet(A), NEW B, A \subseteq B
  PROVE  /\ SetToSeq(A) \in Seq(B)
         /\ \A r : (Has(SetToSeq(A), {r}) <=> r \in A) /\ Once(SetToSeq(A), {r})
<1> DEFINE s == SetToSeq(A)
<1>1. s \in Seq(A) /\ \A x \in A : \E i \in DOMAIN s : s[i] = x
  BY SetToSeqProperties
<1>2. \A i, j \in DOMAIN s : s[i] = s[j] => i = j
  BY SetToSeqOnce
<1> HIDE DEF s
<1>3. Len(s) \in Nat /\ DOMAIN s = 1..Len(s) /\ \A i \in DOMAIN s : s[i] \in A
  BY <1>1
<1>4. s \in Seq(B)
  BY <1>1, <1>3, Listed
<1>5. \A r : (Has(s, {r}) <=> r \in A) /\ Once(s, {r})
  BY <1>1, <1>2, <1>3 DEF Has, Once
<1>6. QED
  BY <1>4, <1>5 DEF s

\* The loop's turn, in facts.
Turn(m, new, n) ==
  /\ m \in MessageType(Count, launches) /\ inbox # <<>> /\ m = inbox[1]
  /\ n \in Nat /\ n = Len(model'.runs) /\ n >= Count /\ model' = Update(model, m)
  /\ Updated(model', m)
  /\ effects' = effects \o Commands(model, m)
  /\ inbox' = Tail(inbox) \o Sends(m)
  /\ received' = IF m.tag = "agent-run-finished"
                 THEN [received EXCEPT ![m.about] = @ + 1] ELSE received
  /\ started' = ActiveRuns(model') /\ started' \subseteq 1..n
  /\ new \in Seq(1..n)
  /\ \A r : (Has(new, {r}) <=> r \in started' /\ r \notin started) /\ Once(new, {r})
  /\ launchers' = launchers \o new
  /\ watchers' = Cancel(watchers, started') \o [i \in DOMAIN new |-> Watcher(new[i])]
  /\ UNCHANGED <<machine, world>>

\* A reduce turn takes the first message, updates the model and emits its effect.
LEMMA ReduceFacts ==
  ASSUME Types, Reduce
  PROVE  \E m, new, n : Turn(m, new, n)
<1> DEFINE m == Head(inbox)
           active == ActiveRuns(model')
           new == SetToSeq(active \ started)
           n == Len(model'.runs)
<1>1. /\ inbox # <<>> /\ model' = Update(model, m)
      /\ effects' = effects \o Commands(model, m)
      /\ inbox' = Tail(inbox) \o Sends(m)
      /\ received' = IF m.tag = "agent-run-finished"
                     THEN [received EXCEPT ![m.about] = @ + 1] ELSE received
      /\ started' = active
      /\ launchers' = launchers \o new
      /\ watchers' = Cancel(watchers, active) \o [i \in DOMAIN new |-> Watcher(new[i])]
      /\ UNCHANGED <<machine, world>>
  BY DEF Reduce
<1>2. inbox \in Seq(MessageType(Count, launches)) /\ Count \in Nat
  BY DEF Types, Count
<1>3. m \in MessageType(Count, launches) /\ m = inbox[1]
  BY <1>1, <1>2
<1>4. Updated(model', m)
  BY <1>1, <1>3, UpdateFacts
<1> HIDE DEF m
<1>5. model'.runs \in Seq(RunType(launches)) /\ n \in Nat /\ n >= Count
  BY <1>2, <1>4 DEF Updated
<1>6. active \subseteq 1..n /\ IsFiniteSet(active)
  BY <1>5, ActiveFacts
<1>7. IsFiniteSet(active \ started) /\ active \ started \subseteq 1..n
  BY <1>6, FS_Subset
<1> HIDE DEF n
<1>8. new \in Seq(1..n)
      /\ \A r : (Has(new, {r}) <=> r \in active \ started) /\ Once(new, {r})
  BY <1>7, ListFacts
<1>9. started' \subseteq 1..n
      /\ \A r : (Has(new, {r}) <=> r \in started' /\ r \notin started) /\ Once(new, {r})
  BY <1>1, <1>6, <1>8
<1> HIDE DEF new, active
<1>10. Turn(m, new, n)
  BY <1>1, <1>2, <1>3, <1>4, <1>5, <1>8, <1>9 DEF Turn, active, n
<1>11. QED
  BY <1>10

\* The processes of this kasi, and what they mean for the types, do not change.
LEMMA TypesReduce ==
  ASSUME Types, Reduce
  PROVE  Types'
<1>1. PICK m, new, n : Turn(m, new, n)
  BY ReduceFacts
<1> DEFINE l == launches
<1>2. /\ n \in Nat /\ l \in Nat /\ n >= Count /\ Count \in Nat /\ l <= l
      /\ inbox \in Seq(MessageType(Count, l)) /\ inbox # <<>>
      /\ effects \in Seq(EffectType(Count, l, procs))
      /\ watchers \in Seq(WatcherType(Count, l, procs)) /\ launchers \in Seq(1..Count)
  <2>1. n \in Nat /\ n >= Count /\ inbox # <<>>
    BY <1>1 DEF Turn
  <2>2. /\ launches \in Nat /\ model.runs \in Seq(RunType(launches))
        /\ inbox \in Seq(MessageType(Count, l))
        /\ effects \in Seq(EffectType(Count, l, procs))
        /\ watchers \in Seq(WatcherType(Count, l, procs)) /\ launchers \in Seq(1..Count)
    BY DEF Types
  <2>3. Count \in Nat
    BY <2>2 DEF Count
  <2>4. QED
    BY <2>1, <2>2, <2>3
<1>3. /\ Seq(MessageType(Count, l)) \subseteq Seq(MessageType(n, l))
      /\ Seq(EffectType(Count, l, procs)) \subseteq Seq(EffectType(n, l, procs))
      /\ Seq(WatcherType(Count, l, procs)) \subseteq Seq(WatcherType(n, l, procs))
      /\ ProcType(Count, l) \subseteq ProcType(n, l)
      /\ Seq(1..Count) \subseteq Seq(1..n)
  <2>1. DOMAIN procs \subseteq DOMAIN procs /\ \A p \in DOMAIN procs : procs[p].run = procs[p].run
    OBVIOUS
  <2>2. Widens(Count, l, procs, n, l, procs)
    BY <1>2, <2>1, Wider
  <2>3. QED
    BY <2>2 DEF Widens
<1>4. Commands(model, m) \in Seq(EffectType(Count, l, procs))
      /\ Sends(m) \in Seq(MessageType(Count, l))
  BY <1>1, CommandFacts DEF Turn
<1>5. inbox' \in Seq(MessageType(n, l))
  <2>1. Tail(inbox) \in Seq(MessageType(Count, l))
    BY <1>2
  <2>2. Tail(inbox) \o Sends(m) \in Seq(MessageType(Count, l))
    BY <1>4, <2>1, ConcatHas
  <2>3. QED
    BY <1>1, <1>3, <2>2 DEF Turn
<1>6. effects' \in Seq(EffectType(n, l, procs))
  <2>1. effects \o Commands(model, m) \in Seq(EffectType(Count, l, procs))
    BY <1>2, <1>4, ConcatHas
  <2>2. QED
    BY <1>1, <1>3, <2>1 DEF Turn
<1>7. launchers' \in Seq(1..n)
  <2>1. launchers \in Seq(1..n) /\ new \in Seq(1..n)
    BY <1>1, <1>2, <1>3 DEF Turn
  <2>2. launchers \o new \in Seq(1..n)
    BY <2>1, ConcatHas
  <2>3. QED
    BY <1>1, <2>2 DEF Turn
<1>8. watchers' \in Seq(WatcherType(n, l, procs))
  <2> DEFINE W == WatcherType(n, l, procs)
             cs == Cancel(watchers, started')
             ws == [i \in DOMAIN new |-> Watcher(new[i])]
  <2>1. watchers \in Seq(W) /\ new \in Seq(1..n)
    BY <1>1, <1>2, <1>3 DEF Turn
  <2>2. cs \in Seq(W)
    BY <1>2, <2>1, Cancelled
  <2>3. ws \in Seq(W)
    BY <1>2, <2>1, NewWatchers
  <2>4. watchers' = cs \o ws
    BY <1>1 DEF Turn
  <2> HIDE DEF cs, ws, W
  <2>5. cs \o ws \in Seq(W)
    BY <2>2, <2>3, ConcatHas
  <2>6. QED
    BY <2>4, <2>5 DEF W
<1>9. received' \in [RunId -> Nat]
  <2>1. received \in [RunId -> Nat]
    BY DEF Types
  <2>2. received' = received \/ received' = [received EXCEPT ![m.about] = @ + 1]
    BY <1>1 DEF Turn
  <2>3. QED
    BY <2>1, <2>2
<1>10. /\ launches' = l /\ procs' = procs /\ table' = table /\ threads' = threads
       /\ asked' = asked /\ crashes' = crashes
  BY <1>1 DEF Turn, machine, world
<1>11. model' \in [runs : Seq(RunType(l)), cap : Caps \cup {FirstCap}, choice : Harness]
       /\ n = Len(model'.runs) /\ started' \subseteq 1..n
  BY <1>1 DEF Turn, Updated
<1>12. procs \in [DOMAIN procs -> ProcType(n, l)]
  BY <1>3 DEF Types
<1> HIDE DEF l
<1>13. launches' \in Nat /\ DOMAIN procs' \subseteq 1..launches'
       /\ table' \in [Tasks -> DOMAIN procs' \cup {0}]
       /\ threads' \in [Tasks -> Seq(1..launches')] /\ asked' \in Seq(Tasks) /\ crashes' \in Nat
  BY <1>10 DEF Types, l
<1>14. Count' = n /\ launches' = l /\ procs' = procs
  BY <1>10, <1>11 DEF Count
<1>15. QED
  BY <1>5, <1>6, <1>7, <1>8, <1>9, <1>11, <1>12, <1>13, <1>14 DEF Types

\* A message sent, and nothing else.
LEMMA TypesSent ==
  ASSUME Types, NEW m \in MessageType(Count, launches), inbox' = Append(inbox, m),
         UNCHANGED <<model, effects, started, launchers, watchers, machine, received, crashes>>,
         asked' \in Seq(Tasks)
  PROVE  Types'
<1>1. inbox \in Seq(MessageType(Count, launches))
  BY DEF Types
<1>2. inbox' \in Seq(MessageType(Count, launches))
  BY <1>1, AppendTyped
<1>3. Count' = Count /\ launches' = launches /\ procs' = procs /\ table' = table
      /\ threads' = threads
  BY DEF Count, machine
<1>4. QED
  BY <1>2, <1>3 DEF Types

\* Processes keep their run and session, and none comes back to life.
SameProcs(ps, qs, n, l) ==
  /\ DOMAIN qs = DOMAIN ps /\ qs \in [DOMAIN qs -> ProcType(n, l)]
  /\ \A p \in DOMAIN ps :
       /\ qs[p].run = ps[p].run /\ qs[p].session = ps[p].session
       /\ qs[p].is \in {"up", "signalled"} => ps[p].is \in {"up", "signalled"}

Put(ps, p, v) == [ps EXCEPT ![p].is = v]

\* A process that moves on in its life keeps its run, its task and its harness.
LEMMA ProcKept ==
  ASSUME NEW n \in Nat, NEW l \in Nat, NEW ps, ps \in [DOMAIN ps -> ProcType(n, l)],
         NEW p \in DOMAIN ps, NEW v \in {"up", "signalled", "exited", "reaped"},
         v \in {"up", "signalled"} => ps[p].is \in {"up", "signalled"}
  PROVE  SameProcs(ps, Put(ps, p, v), n, l) /\ Put(ps, p, v)[p].is = v
<1> DEFINE qs == Put(ps, p, v)
<1>1. \A q \in DOMAIN ps : ps[q] \in ProcType(n, l)
  OBVIOUS
<1>2. DOMAIN qs = DOMAIN ps /\ qs[p] = [ps[p] EXCEPT !.is = v]
      /\ \A q \in DOMAIN ps : q # p => qs[q] = ps[q]
  BY DEF Put
<1>f. qs = [q \in DOMAIN qs |-> qs[q]]
  BY DEF Put
<1> HIDE DEF qs
<1>3. ps[p] \in ProcType(n, l)
  BY <1>1
<1>4. qs[p] \in ProcType(n, l) /\ qs[p].run = ps[p].run /\ qs[p].session = ps[p].session
      /\ qs[p].is = v
  BY <1>2, <1>3 DEF ProcType
<1>5. \A q \in DOMAIN qs : qs[q] \in ProcType(n, l)
  BY <1>1, <1>2, <1>4
<1>6. qs \in [DOMAIN qs -> ProcType(n, l)]
  BY <1>5, <1>f
<1>7. \A q \in DOMAIN ps :
        /\ qs[q].run = ps[q].run /\ qs[q].session = ps[q].session
        /\ qs[q].is \in {"up", "signalled"} => ps[q].is \in {"up", "signalled"}
  BY <1>2, <1>4
<1>8. QED
  BY <1>2, <1>4, <1>6, <1>7 DEF SameProcs, qs

\* A signal leaves it the same process.
LEMMA SignalledKept ==
  ASSUME Types, NEW p \in DOMAIN procs
  PROVE  SameProcs(procs, Signalled(p), Count, launches)
<1>1. /\ launches \in Nat /\ model.runs \in Seq(RunType(launches))
      /\ procs \in [DOMAIN procs -> ProcType(Count, launches)]
  BY DEF Types
<1>2. Count \in Nat
  BY <1>1 DEF Count
<1>3. procs[p].is \in {"up", "signalled", "exited", "reaped"}
  <2>1. procs[p] \in ProcType(Count, launches)
    BY <1>1
  <2>2. QED
    BY <2>1 DEF ProcType
<1> DEFINE v == IF procs[p].is = "up" THEN "signalled" ELSE procs[p].is
<1>4. /\ v \in {"up", "signalled", "exited", "reaped"}
      /\ v \in {"up", "signalled"} => procs[p].is \in {"up", "signalled"}
      /\ Signalled(p) = [procs EXCEPT ![p].is = v]
  BY <1>3 DEF Signalled
<1> HIDE DEF v
<1>5. SameProcs(procs, Put(procs, p, v), Count, launches)
  BY <1>1, <1>2, <1>4, ProcKept
<1>6. QED
  BY <1>4, <1>5 DEF Put

\* Types are kept by every step that adds no run and no process.
Steady ==
  /\ UNCHANGED <<model, started, launches, threads, received>>
  /\ SameProcs(procs, procs', Count, launches)

\* A step that leaves the runs, the processes and the sessions alone only has to type its
\* queues.
LEMMA TypesSteady ==
  ASSUME Types, Steady, asked' \in Seq(Tasks), crashes' \in Nat,
         inbox' \in Seq(MessageType(Count, launches)),
         launchers' \in Seq(1..Count),
         table' \in [Tasks -> DOMAIN procs \cup {0}],
         effects' \in Seq(EffectType(Count, launches, procs)),
         watchers' \in Seq(WatcherType(Count, launches, procs))
  PROVE  Types'
<1>1. /\ launches \in Nat /\ model.runs \in Seq(RunType(launches)) /\ DOMAIN procs \subseteq 1..launches
      /\ model \in [runs : Seq(RunType(launches)), cap : Caps \cup {FirstCap}, choice : Harness]
      /\ started \subseteq 1..Count /\ threads \in [Tasks -> Seq(1..launches)]
      /\ received \in [RunId -> Nat]
  BY DEF Types
<1>2. Count \in Nat /\ Count <= Count /\ launches <= launches
  BY <1>1 DEF Count
<1>3. /\ DOMAIN procs' = DOMAIN procs /\ \A p \in DOMAIN procs : procs'[p].run = procs[p].run
      /\ procs' \in [DOMAIN procs' -> ProcType(Count, launches)]
  BY DEF Steady, SameProcs
<1>4. PICK qs : qs = procs'
  OBVIOUS
<1>5. DOMAIN procs \subseteq DOMAIN qs /\ \A p \in DOMAIN procs : qs[p].run = procs[p].run
  BY <1>3, <1>4
<1>6. Widens(Count, launches, procs, Count, launches, qs)
  BY <1>1, <1>2, <1>5, Wider
<1>7. effects' \in Seq(EffectType(Count, launches, qs))
      /\ watchers' \in Seq(WatcherType(Count, launches, qs))
  BY <1>6 DEF Widens
<1>8. /\ Count' = Count /\ model' = model /\ started' = started /\ launches' = launches
      /\ threads' = threads /\ received' = received
  BY DEF Steady, Count
<1>9. QED
  BY <1>1, <1>3, <1>4, <1>7, <1>8 DEF Types

\* No process, no change of processes.
LEMMA SameSelf ==
  ASSUME Types
  PROVE  SameProcs(procs, procs, Count, launches)
BY DEF Types, SameProcs

\* Small facts the actions need.
LEMMA Parts ==
  ASSUME Types
  PROVE  /\ Count \in Nat /\ launches \in Nat /\ DOMAIN model.runs = 1..Count
         /\ \A r \in 1..Count : model.runs[r] \in RunType(launches)
         /\ inbox \in Seq(MessageType(Count, launches))
         /\ effects \in Seq(EffectType(Count, launches, procs))
         /\ \A i \in DOMAIN effects : effects[i] \in EffectType(Count, launches, procs)
         /\ watchers \in Seq(WatcherType(Count, launches, procs))
         /\ \A i \in DOMAIN watchers : watchers[i] \in WatcherType(Count, launches, procs)
         /\ launchers \in Seq(1..Count)
         /\ \A i \in DOMAIN launchers : launchers[i] \in 1..Count
         /\ \A p \in DOMAIN procs : p \in Nat \ {0} /\ procs[p] \in ProcType(Count, launches)
         /\ table \in [Tasks -> DOMAIN procs \cup {0}]
         /\ asked \in Seq(Tasks) /\ crashes \in Nat
<1>1. /\ launches \in Nat /\ model.runs \in Seq(RunType(launches))
      /\ inbox \in Seq(MessageType(Count, launches))
      /\ effects \in Seq(EffectType(Count, launches, procs))
      /\ watchers \in Seq(WatcherType(Count, launches, procs))
      /\ launchers \in Seq(1..Count)
      /\ DOMAIN procs \subseteq 1..launches
      /\ procs \in [DOMAIN procs -> ProcType(Count, launches)]
      /\ table \in [Tasks -> DOMAIN procs \cup {0}]
      /\ asked \in Seq(Tasks) /\ crashes \in Nat
  BY DEF Types
<1>2. Count \in Nat /\ DOMAIN model.runs = 1..Count
      /\ \A r \in 1..Count : model.runs[r] \in RunType(launches)
  BY <1>1 DEF Count
<1>3. \A i \in DOMAIN effects : effects[i] \in EffectType(Count, launches, procs)
  BY <1>1
<1>4. \A i \in DOMAIN watchers : watchers[i] \in WatcherType(Count, launches, procs)
  BY <1>1
<1>5. \A i \in DOMAIN launchers : launchers[i] \in 1..Count
  <2>1. launchers \in Seq(1..Count) /\ Count \in Nat
    BY <1>1, <1>2
  <2>2. QED
    BY <2>1, ElementOfSeq
<1>6. \A p \in DOMAIN procs : p \in Nat \ {0} /\ procs[p] \in ProcType(Count, launches)
  <2>1. \A p \in DOMAIN procs : procs[p] \in ProcType(Count, launches)
    BY <1>1
  <2>2. \A p \in 1..launches : p \in Nat \ {0}
    BY <1>1
  <2>3. QED
    BY <1>1, <2>1, <2>2
<1>7. QED
  BY <1>1, <1>2, <1>3, <1>4, <1>5, <1>6

\* What taking one out of each sequence leaves.
LEMMA Removed ==
  ASSUME Types
  PROVE  /\ \A i \in DOMAIN effects :
              /\ RemoveAt(effects, i) \in Seq(EffectType(Count, launches, procs))
              /\ Less(RemoveAt(effects, i), effects, i)
         /\ \A i \in DOMAIN watchers :
              /\ RemoveAt(watchers, i) \in Seq(WatcherType(Count, launches, procs))
              /\ Less(RemoveAt(watchers, i), watchers, i)
         /\ \A i \in DOMAIN launchers :
              /\ RemoveAt(launchers, i) \in Seq(1..Count)
              /\ Less(RemoveAt(launchers, i), launchers, i)
         /\ inbox # <<>> => Less(Tail(inbox), inbox, 1)
<1> DEFINE E == EffectType(Count, launches, procs)
           W == WatcherType(Count, launches, procs)
           M == MessageType(Count, launches)
           L == 1..Count
<1>1. effects \in Seq(E) /\ watchers \in Seq(W) /\ launchers \in Seq(L) /\ inbox \in Seq(M)
  BY Parts
<1> HIDE DEF E, W, M, L
<1>2. \A i \in DOMAIN effects : RemoveAt(effects, i) \in Seq(E) /\ Less(RemoveAt(effects, i), effects, i)
  BY <1>1, RemoveAtLess
<1>3. \A i \in DOMAIN watchers : RemoveAt(watchers, i) \in Seq(W) /\ Less(RemoveAt(watchers, i), watchers, i)
  BY <1>1, RemoveAtLess
<1>4. \A i \in DOMAIN launchers : RemoveAt(launchers, i) \in Seq(L) /\ Less(RemoveAt(launchers, i), launchers, i)
  BY <1>1, RemoveAtLess
<1>5. inbox # <<>> => Less(Tail(inbox), inbox, 1)
  BY <1>1, TailLess
<1>6. QED
  BY <1>2, <1>3, <1>4, <1>5 DEF E, W, L

\* A watcher's report is of its run.
LEMMA Reported ==
  ASSUME Types, NEW i \in DOMAIN watchers, NEW how \in {"exited", "stopped"}
  PROVE  /\ watchers[i].run \in 1..Count
         /\ Message("finish-agent-run", watchers[i].run, 0, how) \in MessageType(Count, launches)
         /\ Append(inbox, Message("finish-agent-run", watchers[i].run, 0, how))
              \in Seq(MessageType(Count, launches))
<1>1. watchers[i] \in WatcherType(Count, launches, procs) /\ Count \in Nat /\ launches \in Nat
      /\ inbox \in Seq(MessageType(Count, launches))
  BY Parts
<1>2. watchers[i].run \in 1..Count
  BY <1>1 DEF WatcherType
<1>3. Message("finish-agent-run", watchers[i].run, 0, how) \in MessageType(Count, launches)
  BY <1>1, <1>2, MessagesTyped
<1>4. QED
  BY <1>1, <1>2, <1>3, AppendTyped

\* An effect that spawns a run's process keeps the types.
LEMMA TypesLaunchRun ==
  ASSUME Types, NEW i, LaunchRun(i)
  PROVE  Types'
<1>1. /\ i \in DOMAIN launchers /\ launchers' = RemoveAt(launchers, i)
      /\ inbox' = inbox \/ inbox' = Append(inbox, About("launch-agent-run", launchers[i]))
      /\ UNCHANGED <<model, effects, started, watchers, table, procs, threads, launches,
                     received, asked, crashes>>
  BY DEF LaunchRun, machine, world
<1>2. /\ Count \in Nat /\ launches \in Nat /\ launchers[i] \in 1..Count
      /\ inbox \in Seq(MessageType(Count, launches)) /\ asked \in Seq(Tasks) /\ crashes \in Nat
      /\ effects \in Seq(EffectType(Count, launches, procs))
      /\ watchers \in Seq(WatcherType(Count, launches, procs))
      /\ table \in [Tasks -> DOMAIN procs \cup {0}]
  BY <1>1, Parts
<1>3. About("launch-agent-run", launchers[i]) \in MessageType(Count, launches)
  BY <1>2, MessagesTyped
<1>4. inbox' \in Seq(MessageType(Count, launches))
  BY <1>1, <1>2, <1>3, AppendTyped
<1>5. launchers' \in Seq(1..Count)
  BY <1>1, Removed
<1>6. Steady
  BY <1>1, SameSelf DEF Steady
<1>7. QED
  BY <1>1, <1>2, <1>4, <1>5, <1>6, TypesSteady

\* Register: the effect's process takes its task's place.
LEMMA TypesRegister ==
  ASSUME Types, NEW i, Register(i)
  PROVE  Types'
<1> DEFINE e == effects[i]
<1>1. /\ i \in DOMAIN effects /\ e.at = "register" /\ effects' = RemoveAt(effects, i)
      /\ table' = [table EXCEPT ![TaskOf(e.run)] = e.proc]
      /\ inbox' = IF procs[e.proc].session = 0 THEN inbox
                  ELSE Append(inbox, Message("record-session", e.run, procs[e.proc].session, ""))
      /\ UNCHANGED <<model, started, launchers, watchers, procs, threads, launches,
                     received, asked, crashes>>
  BY DEF Register, At, Ends, steady, world
<1>2. /\ Count \in Nat /\ launches \in Nat /\ launchers \in Seq(1..Count)
      /\ inbox \in Seq(MessageType(Count, launches)) /\ asked \in Seq(Tasks) /\ crashes \in Nat
      /\ watchers \in Seq(WatcherType(Count, launches, procs))
      /\ table \in [Tasks -> DOMAIN procs \cup {0}]
      /\ e \in EffectType(Count, launches, procs)
      /\ \A p \in DOMAIN procs : procs[p] \in ProcType(Count, launches)
  BY <1>1, Parts
<1>3. e.proc \in DOMAIN procs /\ e.run \in 1..Count
  BY <1>1, <1>2 DEF EffectType, OfProcess
<1> HIDE DEF e
<1>4. procs[e.proc].session \in 0..launches
  BY <1>2, <1>3 DEF ProcType
<1>5. inbox' \in Seq(MessageType(Count, launches))
  <2>1. CASE procs[e.proc].session = 0
    BY <1>1, <1>2, <2>1
  <2>2. CASE procs[e.proc].session # 0
    <3>1. procs[e.proc].session \in 1..launches
      BY <1>2, <1>4, <2>2
    <3>2. Message("record-session", e.run, procs[e.proc].session, "") \in MessageType(Count, launches)
      BY <1>2, <1>3, <3>1, MessagesTyped
    <3>3. QED
      BY <1>1, <1>2, <2>2, <3>2, AppendTyped
  <2>3. QED
    BY <2>1, <2>2
<1>6. table' \in [Tasks -> DOMAIN procs \cup {0}]
  BY <1>1, <1>2, <1>3
<1>7. effects' \in Seq(EffectType(Count, launches, procs))
  BY <1>1, Removed
<1>8. Steady
  BY <1>1, SameSelf DEF Steady
<1>9. QED
  BY <1>1, <1>2, <1>5, <1>6, <1>7, <1>8, TypesSteady

\* A process that is signalled or ends is the same process.
LEMMA TypesProcs ==
  ASSUME Types, SameProcs(procs, procs', Count, launches),
         UNCHANGED <<model, started, launchers, watchers, table, threads, launches,
                     received, asked, crashes, inbox>>,
         effects' \in Seq(EffectType(Count, launches, procs))
  PROVE  Types'
<1>1. /\ launchers \in Seq(1..Count) /\ table \in [Tasks -> DOMAIN procs \cup {0}]
      /\ inbox \in Seq(MessageType(Count, launches)) /\ asked \in Seq(Tasks) /\ crashes \in Nat
      /\ watchers \in Seq(WatcherType(Count, launches, procs))
  BY Parts
<1>2. Steady
  BY DEF Steady
<1>3. QED
  BY <1>1, <1>2, TypesSteady

\* The entry of a run's task is a process, or none.
LEMMA EntryFacts ==
  ASSUME Types, NEW r \in 1..Count
  PROVE  TaskOf(r) \in Tasks /\ Entry(r) \in DOMAIN procs \cup {0}
<1>1. model.runs[r] \in RunType(launches) /\ table \in [Tasks -> DOMAIN procs \cup {0}]
  BY Parts
<1>2. TaskOf(r) \in Tasks
  BY <1>1 DEF RunType, TaskOf
<1>3. QED
  BY <1>1, <1>2 DEF Entry

\* Signalling a process only changes how that process stands.
LEMMA SignalFacts ==
  ASSUME Types, NEW i, Signal(i)
  PROVE  /\ i \in DOMAIN effects /\ effects[i].at = "signal" /\ effects' = RemoveAt(effects, i)
         /\ SameProcs(procs, procs', Count, launches)
         /\ UNCHANGED <<model, started, launchers, watchers, table, threads, launches,
                        received, asked, crashes, inbox>>
<1>1. /\ i \in DOMAIN effects /\ effects[i].at = "signal" /\ effects' = RemoveAt(effects, i)
      /\ LET p == Entry(effects[i].run) IN procs' = IF p = 0 THEN procs ELSE Signalled(p)
      /\ UNCHANGED <<model, started, launchers, watchers, table, threads, launches,
                     received, asked, crashes, inbox>>
  BY DEF Signal, At, Ends, steady, world
<1>2. effects[i] \in EffectType(Count, launches, procs)
  BY <1>1, Parts
<1>3. effects[i].run \in 1..Count
  BY <1>2 DEF EffectType
<1>4. Entry(effects[i].run) \in DOMAIN procs \cup {0}
  BY <1>3, EntryFacts
<1>5. SameProcs(procs, procs', Count, launches)
  BY <1>1, <1>4, SignalledKept, SameSelf
<1>6. QED
  BY <1>1, <1>5

\* A process that exits only changes how that process stands.
LEMMA ExitFacts ==
  ASSUME Types, NEW p, Exit(p)
  PROVE  /\ SameProcs(procs, procs', Count, launches)
         /\ UNCHANGED <<model, effects, started, launchers, watchers, table, threads, launches,
                        received, asked, crashes, inbox>>
<1>1. /\ p \in DOMAIN procs /\ procs' = Put(procs, p, "exited")
      /\ UNCHANGED <<model, effects, started, launchers, watchers, table, threads, launches,
                     received, asked, crashes, inbox>>
  BY DEF Exit, Put, steady, world
<1>2. /\ Count \in Nat /\ launches \in Nat
      /\ procs \in [DOMAIN procs -> ProcType(Count, launches)]
  BY Parts DEF Types
<1>3. SameProcs(procs, Put(procs, p, "exited"), Count, launches)
  BY <1>1, <1>2, ProcKept
<1>4. QED
  BY <1>1, <1>3

\* A watcher that finds its run or is cancelled stays in its place.
LEMMA WatcherMoves ==
  ASSUME Types, NEW i, FindRun(i) \/ SeeCancel(i)
  PROVE  /\ i \in DOMAIN watchers
         /\ SameProcs(procs, procs', Count, launches)
         /\ \E x \in WatcherType(Count, launches, procs) :
              x.run = watchers[i].run /\ watchers' = [watchers EXCEPT ![i] = x]
         /\ UNCHANGED <<model, effects, started, launchers, table, threads, launches,
                        received, asked, crashes, inbox>>
<1> DEFINE w == watchers[i]
           W == WatcherType(Count, launches, procs)
<1>1. /\ i \in DOMAIN watchers
      /\ UNCHANGED <<model, effects, started, launchers, table, threads, launches,
                     received, asked, crashes, inbox>>
  BY DEF FindRun, SeeCancel, Watching, calm, world
<1>2. w \in W /\ Count \in Nat /\ launches \in Nat /\ watchers \in Seq(W)
  BY <1>1, Parts
<1>3. /\ w \in [run : 1..Count, proc : 0..launches, at : {"await", "select", "reap"},
                cancelled : BOOLEAN]
      /\ w.at # "await" => w.proc \in DOMAIN procs /\ procs[w.proc].run = w.run
  BY <1>2 DEF WatcherType, OfProcess
<1>4. CASE FindRun(i)
  <2> DEFINE x == [w EXCEPT !.at = "select", !.proc = Entry(w.run)]
  <2>1. /\ Entry(w.run) # 0 /\ procs[Entry(w.run)].run = w.run /\ procs' = procs
        /\ watchers' = [watchers EXCEPT ![i].at = "select", ![i].proc = Entry(w.run)]
    BY <1>4 DEF FindRun, IsLive
  <2>2. Entry(w.run) \in DOMAIN procs /\ DOMAIN procs \subseteq 1..launches
    <3>1. Entry(w.run) \in DOMAIN procs
      BY <1>3, <2>1, EntryFacts
    <3>2. DOMAIN procs \subseteq 1..launches
      BY DEF Types
    <3>3. QED
      BY <3>1, <3>2
  <2>3. x \in W /\ x.run = w.run
    <3>1. Entry(w.run) \in 0..launches
      BY <1>2, <2>2
    <3>2. /\ x \in [run : 1..Count, proc : 0..launches, at : {"await", "select", "reap"},
                     cancelled : BOOLEAN]
          /\ x.run = w.run /\ x.proc = Entry(w.run)
      BY <1>3, <3>1
    <3>3. OfProcess(procs, x)
      BY <2>1, <2>2, <3>2 DEF OfProcess
    <3>4. QED
      BY <3>2, <3>3 DEF WatcherType
  <2>4. watchers' = [watchers EXCEPT ![i] = x]
    BY <1>1, <1>2, <1>3, <2>1
  <2>5. SameProcs(procs, procs', Count, launches)
    BY <2>1, SameSelf
  <2> HIDE DEF x
  <2>6. QED
    BY <1>1, <2>3, <2>4, <2>5
<1>5. CASE SeeCancel(i)
  <2> DEFINE x == [w EXCEPT !.at = "reap"]
  <2>1. /\ w.at = "select" /\ procs' = Signalled(w.proc)
        /\ watchers' = [watchers EXCEPT ![i].at = "reap"]
    BY <1>5 DEF SeeCancel, Watching
  <2>2. x \in W /\ x.run = w.run
    BY <1>2, <1>3, <2>1 DEF WatcherType, OfProcess
  <2>3. watchers' = [watchers EXCEPT ![i] = x]
    BY <1>1, <1>2, <1>3, <2>1
  <2>4. w.proc \in DOMAIN procs
    BY <1>3, <2>1
  <2>5. SameProcs(procs, procs', Count, launches)
    BY <2>1, <2>4, SignalledKept
  <2> HIDE DEF x
  <2>6. QED
    BY <1>1, <2>2, <2>3, <2>5
<1>6. QED
  BY <1>4, <1>5

\* A watcher that reports is gone, and says "exited" only of a process of its
\* run that it reaped.
LEMMA WatcherReports ==
  ASSUME Types, NEW i, GiveUp(i) \/ SeeExit(i) \/ SeeDeath(i)
  PROVE  /\ i \in DOMAIN watchers /\ watchers' = RemoveAt(watchers, i)
         /\ SameProcs(procs, procs', Count, launches)
         /\ \E how \in {"exited", "stopped"} :
              /\ inbox' = Append(inbox, Message("finish-agent-run", watchers[i].run, 0, how))
              /\ how = "exited" =>
                   \E p \in DOMAIN procs : /\ procs[p].run = watchers[i].run
                                           /\ procs'[p].is \notin {"up", "signalled"}
         /\ UNCHANGED <<model, effects, started, launchers, table, threads, launches,
                        received, asked, crashes>>
<1> DEFINE w == watchers[i]
<1>1. /\ i \in DOMAIN watchers /\ watchers' = RemoveAt(watchers, i)
      /\ UNCHANGED <<model, effects, started, launchers, table, threads, launches,
                     received, asked, crashes>>
  BY DEF GiveUp, SeeExit, SeeDeath, Watching, Reports, calm, world
<1>2. w \in WatcherType(Count, launches, procs) /\ Count \in Nat /\ launches \in Nat
      /\ procs \in [DOMAIN procs -> ProcType(Count, launches)]
  BY <1>1, Parts DEF Types
<1>3. w.at # "await" => w.proc \in DOMAIN procs /\ procs[w.proc].run = w.run
  BY <1>2 DEF WatcherType, OfProcess
<1>4. CASE GiveUp(i)
  <2>1. inbox' = Append(inbox, Message("finish-agent-run", w.run, 0, "stopped")) /\ procs' = procs
    BY <1>4 DEF GiveUp, Reports
  <2>2. SameProcs(procs, procs', Count, launches)
    BY <2>1, SameSelf
  <2>3. QED
    BY <1>1, <2>1, <2>2
<1>5. CASE SeeExit(i) \/ SeeDeath(i)
  <2>1. PICK how \in {"exited", "stopped"} :
          inbox' = Append(inbox, Message("finish-agent-run", w.run, 0, how))
    BY <1>5 DEF SeeExit, SeeDeath, Reports
  <2>2. w.at # "await" /\ procs' = Put(procs, w.proc, "reaped")
    BY <1>5 DEF SeeExit, SeeDeath, Watching, Reap, Put
  <2>3. SameProcs(procs, Put(procs, w.proc, "reaped"), Count, launches)
        /\ Put(procs, w.proc, "reaped")[w.proc].is = "reaped"
    BY <1>2, <1>3, <2>2, ProcKept
  <2>4. w.proc \in DOMAIN procs /\ procs[w.proc].run = w.run
        /\ procs'[w.proc].is \notin {"up", "signalled"}
    BY <1>3, <2>2, <2>3
  <2>5. QED
    BY <1>1, <2>1, <2>2, <2>3, <2>4
<1>6. QED
  BY <1>4, <1>5

\* Every step of a watcher keeps the types.
LEMMA TypesWatch ==
  ASSUME Types, NEW i, WatchStep(i)
  PROVE  Types'
<1>1. /\ Count \in Nat /\ launches \in Nat /\ launchers \in Seq(1..Count)
      /\ inbox \in Seq(MessageType(Count, launches)) /\ asked \in Seq(Tasks) /\ crashes \in Nat
      /\ effects \in Seq(EffectType(Count, launches, procs))
      /\ watchers \in Seq(WatcherType(Count, launches, procs))
      /\ table \in [Tasks -> DOMAIN procs \cup {0}]
  BY Parts
<1>2. CASE FindRun(i) \/ SeeCancel(i)
  <2>1. PICK x \in WatcherType(Count, launches, procs) : watchers' = [watchers EXCEPT ![i] = x]
    BY <1>2, WatcherMoves
  <2>2. /\ i \in DOMAIN watchers /\ SameProcs(procs, procs', Count, launches)
        /\ UNCHANGED <<model, effects, started, launchers, table, threads, launches,
                       received, asked, crashes, inbox>>
    BY <1>2, WatcherMoves
  <2>3. watchers' \in Seq(WatcherType(Count, launches, procs))
    BY <1>1, <2>1, <2>2, Replaced
  <2>4. Steady
    BY <2>2 DEF Steady
  <2>5. QED
    BY <1>1, <2>2, <2>3, <2>4, TypesSteady
<1>3. CASE GiveUp(i) \/ SeeExit(i) \/ SeeDeath(i)
  <2>1. PICK how \in {"exited", "stopped"} :
          inbox' = Append(inbox, Message("finish-agent-run", watchers[i].run, 0, how))
    BY <1>3, WatcherReports
  <2>2. /\ i \in DOMAIN watchers /\ watchers' = RemoveAt(watchers, i)
        /\ SameProcs(procs, procs', Count, launches)
        /\ UNCHANGED <<model, effects, started, launchers, table, threads, launches,
                       received, asked, crashes>>
    BY <1>3, WatcherReports
  <2>3. watchers' \in Seq(WatcherType(Count, launches, procs))
    BY <2>2, Removed
  <2>4. inbox' \in Seq(MessageType(Count, launches))
    BY <2>1, <2>2, Reported
  <2>5. Steady
    BY <2>2 DEF Steady
  <2>6. QED
    BY <1>1, <2>2, <2>3, <2>4, <2>5, TypesSteady
<1>4. QED
  BY <1>2, <1>3 DEF WatchStep

\* The session a process runs in: none of its own, one of the task's, or a new one.
LEMMA SessionFacts ==
  ASSUME Types, NEW e \in EffectType(Count, launches, procs)
  PROVE  LET s == Session(e, model.runs[e.run], launches + 1) IN
         /\ s \in 0..(launches + 1)
         /\ \/ s = 0 \/ s = e.session \/ s \in Range(threads[model.runs[e.run].task])
            \/ s = launches + 1 /\ ~model.runs[e.run].resume
<1> DEFINE run == model.runs[e.run]
           s == Session(e, run, launches + 1)
           th == threads[run.task]
<1>1. /\ launches \in Nat /\ e.run \in 1..Count /\ e.session \in 0..launches
      /\ run \in RunType(launches) /\ threads \in [Tasks -> Seq(1..launches)]
  <2>1. e.run \in 1..Count /\ e.session \in 0..launches
    BY DEF EffectType
  <2>2. QED
    BY <2>1, Parts DEF Types
<1>2. run.task \in Tasks /\ run.resume \in BOOLEAN
  BY <1>1 DEF RunType
<1>3. th \in Seq(1..launches)
  BY <1>1, <1>2
<1>4. NewestThread(run.task) = 0 \/ (NewestThread(run.task) \in Range(th)
                                     /\ NewestThread(run.task) \in 1..launches)
  <2>1. CASE th = <<>>
    BY <2>1 DEF NewestThread
  <2>2. CASE th # <<>>
    <3>1. Len(th) \in DOMAIN th /\ NewestThread(run.task) = th[Len(th)]
      BY <1>3, <2>2 DEF NewestThread, Last
    <3>2. th[Len(th)] \in 1..launches
      BY <1>1, <1>3, <3>1
    <3>3. QED
      BY <3>1, <3>2 DEF Range
  <2>3. QED
    BY <2>1, <2>2
<1>5. s = 0 \/ s = NewestThread(run.task) \/ s = e.session \/ (s = launches + 1 /\ ~run.resume)
  BY <1>2 DEF Session, CodexSession
<1> HIDE DEF s, th, run
<1>6. s \in 0..(launches + 1)
  BY <1>1, <1>4, <1>5
<1>7. QED
  BY <1>4, <1>5, <1>6 DEF s, th, run

\* StartProcess: a new process of the effect's run.
Began(i, x, s) ==
  /\ i \in DOMAIN effects /\ effects[i].at = "spawn"
  /\ s = Session(effects[i], model.runs[effects[i].run], launches + 1)
  /\ launches' = launches + 1
  /\ launches + 1 \notin DOMAIN procs /\ DOMAIN procs' = DOMAIN procs \cup {launches + 1}
  /\ procs'[launches + 1] = [run |-> effects[i].run, session |-> s, is |-> "up"]
  /\ \A p \in DOMAIN procs : procs'[p] = procs[p]
  /\ procs' = [p \in DOMAIN procs' |-> procs'[p]]
  /\ threads' = IF s = 0 \/ s \in Range(threads[TaskOf(effects[i].run)]) THEN threads
                ELSE [threads EXCEPT ![TaskOf(effects[i].run)] = Append(@, s)]
  /\ x = [effects[i] EXCEPT !.at = "register", !.proc = launches + 1]
  /\ effects' = [effects EXCEPT ![i] = x]
  /\ UNCHANGED <<model, started, launchers, watchers, inbox, table, received, asked, crashes>>

\* Starting a process adds one process, at the next free number.
LEMMA StartFacts ==
  ASSUME Types, NEW i, StartProcess(i)
  PROVE  \E x, s : Began(i, x, s)
<1> DEFINE e == effects[i]
           s == Session(e, model.runs[e.run], launches + 1)
           x == [e EXCEPT !.at = "register", !.proc = launches + 1]
           new == [run |-> e.run, session |-> s, is |-> "up"]
           l == launches + 1
<1>1. /\ i \in DOMAIN effects /\ e.at = "spawn" /\ launches' = l
      /\ procs' = [p \in DOMAIN procs \cup {l} |-> IF p = l THEN new ELSE procs[p]]
      /\ threads' = IF s = 0 \/ s \in Range(threads[TaskOf(e.run)]) THEN threads
                    ELSE [threads EXCEPT ![TaskOf(e.run)] = Append(@, s)]
      /\ effects' = [effects EXCEPT ![i].at = "register", ![i].proc = l]
      /\ UNCHANGED <<model, started, launchers, watchers, inbox, table, received, asked, crashes>>
  BY DEF StartProcess, At, steady, world, TaskOf
<1>2. launches \in Nat /\ DOMAIN procs \subseteq 1..launches
  BY DEF Types
<1>3. l \notin DOMAIN procs
  BY <1>2
<1>5. effects' = [effects EXCEPT ![i] = x]
  <2>1. e \in EffectType(Count, launches, procs)
    BY <1>1, Parts
  <2>2. QED
    BY <1>1, <2>1 DEF EffectType
<1> HIDE DEF new, s, x
<1>6. /\ DOMAIN procs' = DOMAIN procs \cup {l} /\ procs'[l] = new
      /\ \A p \in DOMAIN procs : procs'[p] = procs[p]
      /\ procs' = [p \in DOMAIN procs' |-> procs'[p]]
  BY <1>1, <1>3
<1>7. Began(i, x, s)
  BY <1>1, <1>3, <1>5, <1>6 DEF Began, new, x, s
<1>8. QED
  BY <1>7

\* Starting a process keeps the types.
LEMMA TypesStartProcess ==
  ASSUME Types, NEW i, StartProcess(i)
  PROVE  Types'
<1>1. PICK x, s : Began(i, x, s)
  BY StartFacts
<1> DEFINE e == effects[i]
           t == TaskOf(e.run)
           n == Count
<1>2. PICK l \in Nat : l = launches + 1 /\ l \in 1..l /\ l \in 0..l /\ launches <= l
                       /\ 1..launches \subseteq 1..l /\ 0..launches \subseteq 0..l
  BY Parts
<1>3. PICK qs : qs = procs'
  OBVIOUS
<1>4. /\ n \in Nat /\ launches \in Nat /\ n <= n
      /\ inbox \in Seq(MessageType(n, launches))
      /\ effects \in Seq(EffectType(n, launches, procs))
      /\ watchers \in Seq(WatcherType(n, launches, procs))
      /\ launchers \in Seq(1..n)
      /\ \A p \in DOMAIN procs : procs[p] \in ProcType(n, launches)
      /\ table \in [Tasks -> DOMAIN procs \cup {0}]
      /\ asked \in Seq(Tasks) /\ crashes \in Nat
  BY Parts
<1>5. /\ model \in [runs : Seq(RunType(launches)), cap : Caps \cup {FirstCap}, choice : Harness]
      /\ threads \in [Tasks -> Seq(1..launches)] /\ started \subseteq 1..n
      /\ DOMAIN procs \subseteq 1..launches /\ received \in [RunId -> Nat]
  BY DEF Types
<1>6. /\ i \in DOMAIN effects /\ e \in EffectType(n, launches, procs) /\ launches' = l
      /\ DOMAIN qs = DOMAIN procs \cup {l} /\ qs[l] = [run |-> e.run, session |-> s, is |-> "up"]
      /\ l \notin DOMAIN procs
      /\ \A p \in DOMAIN procs : qs[p] = procs[p]
      /\ qs = [p \in DOMAIN qs |-> qs[p]]
  BY <1>1, <1>2, <1>3, Parts DEF Began
<1>7. e \in [of : {"start", "signal"}, run : 1..n, session : 0..launches,
             at : {"spawn", "register", "signal"}, proc : 0..launches]
  BY <1>6 DEF EffectType
<1>8. s \in 0..l
  BY <1>1, <1>2, <1>6, SessionFacts DEF Began
<1>9. t \in Tasks
  BY <1>7, EntryFacts
<1>10. Widens(n, launches, procs, n, l, qs)
  BY <1>2, <1>4, <1>6, Wider
<1>11. qs \in [DOMAIN qs -> ProcType(n, l)]
  <2>1. qs[l] \in ProcType(n, l)
    BY <1>6, <1>7, <1>8 DEF ProcType
  <2>2. \A p \in DOMAIN procs : qs[p] \in ProcType(n, l)
    BY <1>4, <1>6, <1>10 DEF Widens
  <2>3. \A p \in DOMAIN qs : qs[p] \in ProcType(n, l)
    BY <1>6, <2>1, <2>2
  <2>4. QED
    BY <1>6, <2>3
<1>12. x \in EffectType(n, l, qs)
  <2>1. x = [e EXCEPT !.at = "register", !.proc = l]
    BY <1>1, <1>2 DEF Began
  <2>2. /\ x \in [of : {"start", "signal"}, run : 1..n, session : 0..l,
                  at : {"spawn", "register", "signal"}, proc : 0..l]
        /\ x.proc = l /\ x.run = e.run
    BY <1>2, <1>7, <2>1
  <2>3. OfProcess(qs, x)
    BY <1>6, <2>2 DEF OfProcess
  <2>4. QED
    BY <2>2, <2>3 DEF EffectType
<1>13. effects' \in Seq(EffectType(n, l, qs))
  <2>1. effects \in Seq(EffectType(n, l, qs)) /\ effects' = [effects EXCEPT ![i] = x]
    BY <1>1, <1>4, <1>10 DEF Widens, Began
  <2>2. QED
    BY <1>6, <1>12, <2>1, Replaced
<1>14. threads' \in [Tasks -> Seq(1..l)]
  <2>1. threads \in [Tasks -> Seq(1..l)]
    BY <1>5, <1>10 DEF Widens
  <2>2. threads' = threads \/ (s # 0 /\ threads' = [threads EXCEPT ![t] = Append(threads[t], s)])
    BY <1>1 DEF Began
  <2>3. s # 0 => Append(threads[t], s) \in Seq(1..l)
    <3>1. s # 0 => s \in 1..l
      BY <1>2, <1>8
    <3>2. threads[t] \in Seq(1..l)
      BY <1>9, <2>1
    <3>3. QED
      BY <3>1, <3>2, AppendTyped
  <2>4. QED
    BY <1>9, <2>1, <2>2, <2>3
<1>15. /\ inbox \in Seq(MessageType(n, l)) /\ watchers \in Seq(WatcherType(n, l, qs))
       /\ Seq(RunType(launches)) \subseteq Seq(RunType(l))
  BY <1>4, <1>10 DEF Widens
<1>16. /\ model' = model /\ started' = started /\ launchers' = launchers /\ watchers' = watchers
       /\ inbox' = inbox /\ table' = table /\ received' = received /\ asked' = asked
       /\ crashes' = crashes /\ Count' = n
  BY <1>1 DEF Began, Count
<1>17. model \in [runs : Seq(RunType(l)), cap : Caps \cup {FirstCap}, choice : Harness]
  BY <1>5, <1>15
<1>18. DOMAIN qs \subseteq 1..l /\ table \in [Tasks -> DOMAIN qs \cup {0}]
  BY <1>2, <1>4, <1>5, <1>6
<1> HIDE DEF n
<1>19. QED
  BY <1>3, <1>4, <1>5, <1>6, <1>11, <1>13, <1>14, <1>15, <1>16, <1>17, <1>18 DEF Types

\* A restart of the server keeps the types.
LEMMA TypesRestart ==
  ASSUME Types, Restart
  PROVE  Types'
<1> DEFINE n == Count
           new == SetToSeq(ActiveRuns(model))
<1>1. /\ model' = model /\ inbox' = <<>> /\ effects' = <<>>
      /\ table' = [t \in Tasks |-> 0] /\ procs' = [p \in {} |-> 0]
      /\ started' = ActiveRuns(model) /\ launchers' = new
      /\ watchers' = [i \in DOMAIN new |-> Watcher(new[i])]
      /\ crashes' = crashes + 1
      /\ UNCHANGED <<threads, received, asked, launches>>
  BY DEF Restart
<1>2. /\ n \in Nat /\ launches \in Nat /\ asked \in Seq(Tasks) /\ crashes \in Nat
      /\ model \in [runs : Seq(RunType(launches)), cap : Caps \cup {FirstCap}, choice : Harness]
      /\ threads \in [Tasks -> Seq(1..launches)] /\ received \in [RunId -> Nat]
      /\ model.runs \in Seq(RunType(launches))
  BY Parts DEF Types
<1>3. ActiveRuns(model) \subseteq 1..n /\ IsFiniteSet(ActiveRuns(model))
  BY <1>2, ActiveFacts DEF Count
<1>4. new \in Seq(1..n)
  BY <1>3, ListFacts
<1>5. Count' = n /\ launches' = launches
  BY <1>1 DEF Count
<1> HIDE DEF n, new
<1>6. PICK qs : qs = procs'
  OBVIOUS
<1>7. watchers' \in Seq(WatcherType(n, launches, qs))
  BY <1>1, <1>2, <1>4, NewWatchers
<1>8. /\ inbox' \in Seq(MessageType(n, launches)) /\ effects' \in Seq(EffectType(n, launches, qs))
      /\ crashes' \in Nat
  BY <1>1, <1>2
<1>9. /\ DOMAIN qs = {} /\ qs \in [DOMAIN qs -> ProcType(n, launches)]
      /\ table' \in [Tasks -> DOMAIN qs \cup {0}]
  BY <1>1, <1>6
<1>10. QED
  BY <1>1, <1>2, <1>3, <1>4, <1>5, <1>6, <1>7, <1>8, <1>9 DEF Types

\* What Spawn, Stop and the settings do.
LEMMA SpawnFacts ==
  ASSUME Types, NEW t \in Tasks, Spawn(t)
  PROVE  \E h \in {"fresh", "resume"} :
           /\ h = "fresh" <=> t \notin Range(asked)
           /\ inbox' = Append(inbox, Message("spawn-agent-run", t, 0, h))
           /\ Message("spawn-agent-run", t, 0, h) \in MessageType(Count, launches)
           /\ asked' = Append(asked, t)
           /\ UNCHANGED <<model, effects, started, launchers, watchers, machine, received, crashes>>
<1> DEFINE h == IF t \in Range(asked) THEN "resume" ELSE "fresh"
<1>1. /\ h \in {"fresh", "resume"} /\ (h = "fresh" <=> t \notin Range(asked))
      /\ inbox' = Append(inbox, Message("spawn-agent-run", t, 0, h))
      /\ asked' = Append(asked, t)
      /\ UNCHANGED <<model, effects, started, launchers, watchers, machine, received, crashes>>
  BY DEF Spawn
<1> HIDE DEF h
<1>2. Count \in Nat /\ launches \in Nat
  BY Parts
<1>3. Message("spawn-agent-run", t, 0, h) \in MessageType(Count, launches)
  BY <1>1, <1>2, MessagesTyped
<1>4. QED
  BY <1>1, <1>3

\* What is asked from outside only queues one message.
LEMMA OutsideFacts ==
  ASSUME Types,
         \/ \E r \in DOMAIN model.runs : Stop(r)
         \/ \E c \in Caps : SetMaxConcurrentRuns(c)
         \/ \E h \in Harnesses : SetWorkerHarness(h)
  PROVE  \E m \in MessageType(Count, launches) :
           /\ inbox' = Append(inbox, m)
           /\ m.tag \in {"stop-agent-run", "set-max-concurrent-runs", "set-worker-harness"}
           /\ UNCHANGED <<model, effects, started, launchers, watchers, machine, received,
                          asked, crashes>>
<1>1. Count \in Nat /\ launches \in Nat /\ DOMAIN model.runs = 1..Count
  BY Parts
<1>2. ASSUME NEW r \in DOMAIN model.runs, Stop(r)
      PROVE  \E m \in MessageType(Count, launches) :
               /\ inbox' = Append(inbox, m)
               /\ m.tag \in {"stop-agent-run", "set-max-concurrent-runs", "set-worker-harness"}
               /\ UNCHANGED <<model, effects, started, launchers, watchers, machine, received,
                              asked, crashes>>
  <2> DEFINE m == About("stop-agent-run", r)
  <2>1. m \in MessageType(Count, launches)
    BY <1>1, MessagesTyped
  <2>2. m.tag = "stop-agent-run"
    BY DEF About, Message
  <2>3. inbox' = Append(inbox, m)
        /\ UNCHANGED <<model, effects, started, launchers, watchers, machine, received,
                       asked, crashes>>
    BY <1>2 DEF Stop
  <2> HIDE DEF m
  <2>4. QED
    BY <2>1, <2>2, <2>3
<1>3. ASSUME NEW c \in Caps, SetMaxConcurrentRuns(c)
      PROVE  \E m \in MessageType(Count, launches) :
               /\ inbox' = Append(inbox, m)
               /\ m.tag \in {"stop-agent-run", "set-max-concurrent-runs", "set-worker-harness"}
               /\ UNCHANGED <<model, effects, started, launchers, watchers, machine, received,
                              asked, crashes>>
  <2> DEFINE m == Message("set-max-concurrent-runs", c, 0, "")
  <2>1. m \in MessageType(Count, launches)
    BY <1>1, MessagesTyped
  <2>2. m.tag = "set-max-concurrent-runs"
    BY DEF Message
  <2>3. inbox' = Append(inbox, m)
        /\ UNCHANGED <<model, effects, started, launchers, watchers, machine, received,
                       asked, crashes>>
    BY <1>3 DEF SetMaxConcurrentRuns, Configure
  <2> HIDE DEF m
  <2>4. QED
    BY <2>1, <2>2, <2>3
<1>4. ASSUME NEW h \in Harnesses, SetWorkerHarness(h)
      PROVE  \E m \in MessageType(Count, launches) :
               /\ inbox' = Append(inbox, m)
               /\ m.tag \in {"stop-agent-run", "set-max-concurrent-runs", "set-worker-harness"}
               /\ UNCHANGED <<model, effects, started, launchers, watchers, machine, received,
                              asked, crashes>>
  <2> DEFINE m == Message("set-worker-harness", 0, 0, h)
  <2>1. m \in MessageType(Count, launches)
    BY <1>1, MessagesTyped, AgentRunsAssumption
  <2>2. m.tag = "set-worker-harness"
    BY DEF Message
  <2>3. inbox' = Append(inbox, m)
        /\ UNCHANGED <<model, effects, started, launchers, watchers, machine, received,
                       asked, crashes>>
    BY <1>4 DEF SetWorkerHarness, Configure
  <2> HIDE DEF m
  <2>4. QED
    BY <2>1, <2>2, <2>3
<1>5. QED
  BY <1>2, <1>3, <1>4

\* An effect that fails before it starts anything.
LEMMA FailFacts ==
  ASSUME NEW i, StartFails(i)
  PROVE  /\ i \in DOMAIN effects /\ effects' = RemoveAt(effects, i)
         /\ UNCHANGED <<model, inbox, started, launchers, watchers, table, procs, threads,
                        launches, received, asked, crashes>>
BY DEF StartFails, At, Ends, machine

\* The types hold at first.
LEMMA TypesInit ==
  ASSUME Init
  PROVE  Types
<1>1. /\ model = [runs |-> <<>>, cap |-> FirstCap, choice |-> FirstHarness]
      /\ inbox = <<>> /\ effects = <<>> /\ started = {} /\ launchers = <<>> /\ watchers = <<>>
      /\ table = [t \in Tasks |-> 0] /\ procs = [p \in {} |-> 0]
      /\ threads = [t \in Tasks |-> <<>>] /\ received = [r \in RunId |-> 0] /\ asked = <<>>
      /\ launches = 0 /\ crashes = 0
  BY DEF Init
<1>2. model \in [runs : Seq(RunType(launches)), cap : Caps \cup {FirstCap}, choice : Harness]
  BY <1>1, AgentRunsAssumption
<1>3. DOMAIN procs = {} /\ procs \in [DOMAIN procs -> ProcType(Count, launches)]
  BY <1>1
<1>4. QED
  BY <1>1, <1>2, <1>3 DEF Types

\* Every step keeps the types.
LEMMA TypesStep ==
  ASSUME Types, [Next]_vars
  PROVE  Types'
<1>1. Count \in Nat /\ launches \in Nat /\ asked \in Seq(Tasks)
      /\ effects \in Seq(EffectType(Count, launches, procs))
  BY Parts
<1>2. ASSUME NEW t \in Tasks, Spawn(t) PROVE Types'
  <2>1. PICK h \in {"fresh", "resume"} :
          /\ inbox' = Append(inbox, Message("spawn-agent-run", t, 0, h))
          /\ Message("spawn-agent-run", t, 0, h) \in MessageType(Count, launches)
    BY <1>2, SpawnFacts
  <2>2. /\ asked' = Append(asked, t)
        /\ UNCHANGED <<model, effects, started, launchers, watchers, machine, received, crashes>>
    BY <1>2, SpawnFacts
  <2>3. asked' \in Seq(Tasks)
    BY <1>1, <2>2, AppendTyped
  <2>4. QED
    BY <2>1, <2>2, <2>3, TypesSent
<1>3. CASE \/ \E r \in DOMAIN model.runs : Stop(r)
           \/ \E c \in Caps : SetMaxConcurrentRuns(c)
           \/ \E h \in Harnesses : SetWorkerHarness(h)
  <2>1. PICK m \in MessageType(Count, launches) :
          /\ inbox' = Append(inbox, m)
          /\ UNCHANGED <<model, effects, started, launchers, watchers, machine, received,
                         asked, crashes>>
    BY <1>3, OutsideFacts
  <2>2. asked' \in Seq(Tasks)
    BY <1>1, <2>1
  <2>3. QED
    BY <2>1, <2>2, TypesSent
<1>4. ASSUME NEW i, StartFails(i) PROVE Types'
  <2>1. effects' \in Seq(EffectType(Count, launches, procs))
    BY <1>4, FailFacts, Removed
  <2>2. QED
    BY <1>4, <2>1, FailFacts, SameSelf, TypesProcs
<1>5. ASSUME NEW i, Signal(i) PROVE Types'
  <2>1. effects' \in Seq(EffectType(Count, launches, procs))
    BY <1>5, SignalFacts, Removed
  <2>2. QED
    BY <1>5, <2>1, SignalFacts, TypesProcs
<1>6. ASSUME NEW p, Exit(p) PROVE Types'
  <2>1. effects' \in Seq(EffectType(Count, launches, procs))
    BY <1>1, <1>6, ExitFacts
  <2>2. QED
    BY <1>6, <2>1, ExitFacts, TypesProcs
<1>7. CASE UNCHANGED vars
  <2>1. Count' = Count
    BY <1>7 DEF vars, Count
  <2>2. QED
    BY <1>7, <2>1 DEF vars, Types
<1>8. QED
  BY <1>2, <1>3, <1>4, <1>5, <1>6, <1>7, TypesReduce, TypesLaunchRun, TypesStartProcess,
     TypesRegister, TypesWatch, TypesRestart DEF Next, EffectStep

\* Every run, watcher, process and entry of the harness's table is one that was
\* created: a launcher, a watcher and an entry never name a run or a process that
\* does not exist, whatever is stopped, fails or dies.
THEOREM TypeCorrect == Spec => []TypeOK
<1>1. Types => TypeOK
  <2> SUFFICES ASSUME Types PROVE TypeOK
    OBVIOUS
  <2>1. /\ model.runs \in Seq(RunType(launches)) /\ model.cap \in Caps \cup {FirstCap}
        /\ model.choice \in Harness /\ started \subseteq 1..Count
        /\ DOMAIN procs \subseteq 1..launches
    BY DEF Types
  <2>2. /\ Runs = 1..Count
        /\ \A i \in DOMAIN launchers : launchers[i] \in 1..Count
        /\ \A i \in DOMAIN watchers : watchers[i] \in WatcherType(Count, launches, procs)
        /\ table \in [Tasks -> DOMAIN procs \cup {0}]
    BY Parts DEF Runs
  <2>3. \A i \in DOMAIN watchers : watchers[i].run \in Runs /\ watchers[i].proc \in 0..launches
    BY <2>2 DEF WatcherType
  <2>4. Range(launchers) \subseteq Runs
    BY <2>2 DEF Range
  <2>5. \A t \in Tasks : table[t] \in DOMAIN procs \cup {0}
    BY <2>2
  <2>6. model.runs \in Seq([task : Tasks, status : Status, resume : BOOLEAN,
                            harness : Harness, session : 0..launches])
    BY <2>1 DEF RunType
  <2>7. QED
    BY <2>1, <2>2, <2>3, <2>4, <2>5, <2>6 DEF TypeOK
<1>2. QED
  BY <1>1, TypesInit, TypesStep, PTL DEF Spec

-----------------------------------------------------------------------------
(***************************************************************************)
(* Launching and reporting, step by step.                                  *)
(***************************************************************************)
\* The operator only raises the cap, or lifts it.
Raises(old, new) == new = old \/ new = 0 \/ (old # 0 /\ new >= old)
CapRaised == Raises(model.cap, model'.cap)

\* What the next inbox is to a run, m being the message added.
LEMMA SentHas ==
  ASSUME Types, NEW m \in MessageType(Count, launches), NEW r \in Nat,
         NEW box, box = Append(inbox, m)
  PROVE  /\ Has(box, Launching(r)) <=> Has(inbox, Launching(r)) \/ m \in Launching(r)
         /\ Has(box, Ending(r)) <=> Has(inbox, Ending(r)) \/ m \in Ending(r)
         /\ Has(box, Ended(r)) <=> Has(inbox, Ended(r)) \/ m \in Ended(r)
         /\ Has(box, Telling(r)) <=> Has(inbox, Telling(r)) \/ m \in Telling(r)
         /\ Once(inbox, Launching(r)) /\ (m \notin Launching(r) \/ ~Has(inbox, Launching(r)))
              => Once(box, Launching(r))
         /\ Once(inbox, Ending(r)) /\ (m \notin Ending(r) \/ ~Has(inbox, Ending(r)))
              => Once(box, Ending(r))
         /\ Once(inbox, Telling(r)) /\ (m \notin Telling(r) \/ ~Has(inbox, Telling(r)))
              => Once(box, Telling(r))
<1>1. inbox \in Seq(MessageType(Count, launches))
  BY Parts
<1>2. ASSUME NEW K
      PROVE  /\ Has(box, K) <=> Has(inbox, K) \/ m \in K
             /\ Once(inbox, K) /\ (m \notin K \/ ~Has(inbox, K)) => Once(box, K)
  BY <1>1, AppendHas
<1>3. QED
  BY <1>2

\* Processes that keep their runs are processes of the same runs.
LEMMA SameWorks ==
  ASSUME Types, NEW qs, SameProcs(procs, qs, Count, launches), NEW r \in Nat
  PROVE  /\ Has(qs, Works(r)) <=> Has(procs, Works(r))
         /\ Once(procs, Works(r)) => Once(qs, Works(r))
         /\ NoneAlive(procs, r) => NoneAlive(qs, r)
<1>1. /\ DOMAIN qs = DOMAIN procs /\ qs \in [DOMAIN qs -> ProcType(Count, launches)]
      /\ \A p \in DOMAIN procs : /\ qs[p].run = procs[p].run
                                 /\ qs[p].is \in {"up", "signalled"}
                                      => procs[p].is \in {"up", "signalled"}
  BY DEF SameProcs
<1>2. Count \in Nat /\ launches \in Nat
      /\ \A p \in DOMAIN procs : procs[p] \in ProcType(Count, launches)
  BY Parts
<1>3. ASSUME NEW p \in DOMAIN procs PROVE qs[p] \in Works(r) <=> procs[p] \in Works(r)
  <2>1. qs[p] \in ProcType(Count, launches) /\ procs[p] \in ProcType(Count, launches)
    BY <1>1, <1>2
  <2>2. (qs[p] \in Works(r) <=> qs[p].run = r) /\ (procs[p] \in Works(r) <=> procs[p].run = r)
    BY <1>2, <2>1, WorkKind
  <2>3. QED
    BY <1>1, <2>2
<1>4. (Has(qs, Works(r)) <=> Has(procs, Works(r))) /\ (Once(procs, Works(r)) => Once(qs, Works(r)))
  BY <1>1, <1>3, SameHas
<1>5. NoneAlive(procs, r) => NoneAlive(qs, r)
  BY <1>1 DEF NoneAlive
<1>6. QED
  BY <1>4, <1>5

\* What holds of a run, put together.
InOrder(r) == Launches(r) /\ Reports_(r) /\ LetIn(r) /\ Gone(r)

\* A message of another kind changes nothing.
LEMMA OrderSent ==
  ASSUME Types, NEW r \in Nat, InOrder(r), NEW m \in MessageType(Count, launches),
         m.tag \notin {"launch-agent-run", "agent-run-finished", "finish-agent-run"},
         inbox' = Append(inbox, m),
         UNCHANGED <<model, effects, started, launchers, watchers, machine, received>>
  PROVE  InOrder(r)'
<1>1. Count \in Nat /\ launches \in Nat
  BY Parts
<1>2. m \notin Launching(r) /\ m \notin Telling(r) /\ m \notin Ending(r) /\ m \notin Ended(r)
  BY <1>1, MessageKind
<1>3. PICK box : box = inbox'
  OBVIOUS
<1>4. /\ Has(box, Launching(r)) <=> Has(inbox, Launching(r))
      /\ Has(box, Ending(r)) <=> Has(inbox, Ending(r))
      /\ Has(box, Ended(r)) <=> Has(inbox, Ended(r))
      /\ Has(box, Telling(r)) <=> Has(inbox, Telling(r))
      /\ Once(inbox, Launching(r)) => Once(box, Launching(r))
      /\ Once(inbox, Ending(r)) => Once(box, Ending(r))
      /\ Once(inbox, Telling(r)) => Once(box, Telling(r))
  BY <1>2, <1>3, SentHas
<1>5. /\ model' = model /\ effects' = effects /\ started' = started /\ launchers' = launchers
      /\ watchers' = watchers /\ procs' = procs /\ received' = received
  BY DEF machine
<1>6. QED
  BY <1>3, <1>4, <1>5
     DEF InOrder, Launches, Reports_, LetIn, Gone, Coming, Told, Running

\* The launcher looked at the harness, and asked for a launch or not.
LEMMA OrderLaunchRun ==
  ASSUME Types, NEW r \in Nat, InOrder(r), NEW i, LaunchRun(i)
  PROVE  InOrder(r)'
<1> DEFINE a == launchers[i]
           m == About("launch-agent-run", a)
<1>1. /\ i \in DOMAIN launchers /\ launchers' = RemoveAt(launchers, i)
      /\ inbox' = inbox \/ inbox' = Append(inbox, m)
      /\ model' = model /\ effects' = effects /\ started' = started /\ watchers' = watchers
      /\ procs' = procs /\ received' = received
  BY DEF LaunchRun, machine, world
<1>2. Count \in Nat /\ launches \in Nat /\ a \in 1..Count
  BY <1>1, Parts
<1>3. /\ Has(launchers', {r}) => Has(launchers, {r})
      /\ Once(launchers, {r}) => Once(launchers', {r})
      /\ Once(launchers, {r}) /\ a = r => ~Has(launchers', {r})
  BY <1>1, Removed, LessHas
<1>4. a = r => Has(launchers, {r})
  BY <1>1 DEF Has
<1>5. m \in MessageType(Count, launches) /\ m.tag = "launch-agent-run" /\ m.about = a
  BY <1>2, MessagesTyped DEF About, Message
<1> HIDE DEF m, a
<1>6. /\ m \in Launching(r) <=> a = r
      /\ m \notin Telling(r) /\ m \notin Ending(r) /\ m \notin Ended(r)
  BY <1>2, <1>5, MessageKind
<1>7. PICK box : box = inbox'
  OBVIOUS
<1>8. /\ Has(box, Launching(r)) => Has(inbox, Launching(r)) \/ a = r
      /\ Has(box, Ending(r)) <=> Has(inbox, Ending(r))
      /\ Has(box, Ended(r)) <=> Has(inbox, Ended(r))
      /\ Has(box, Telling(r)) <=> Has(inbox, Telling(r))
      /\ Once(inbox, Launching(r)) /\ (a # r \/ ~Has(inbox, Launching(r))) => Once(box, Launching(r))
      /\ Once(inbox, Ending(r)) => Once(box, Ending(r))
      /\ Once(inbox, Telling(r)) => Once(box, Telling(r))
  <2>1. CASE box = inbox
    BY <2>1
  <2>2. CASE box = Append(inbox, m)
    BY <1>5, <1>6, <2>2, SentHas
  <2>3. QED
    BY <1>1, <1>7, <2>1, <2>2
<1>9. QED
  BY <1>1, <1>3, <1>4, <1>7, <1>8
     DEF InOrder, Launches, Reports_, LetIn, Gone, Coming, Told, Running

\* The process of a run starts: it is no longer to come.
LEMMA OrderStartProcess ==
  ASSUME Types, NEW r \in Nat, InOrder(r), NEW i, StartProcess(i)
  PROVE  InOrder(r)'
<1>1. PICK x, s : Began(i, x, s)
  BY StartFacts
<1> DEFINE a == effects[i].run
           l == launches + 1
<1>2. PICK qs : qs = procs'
  OBVIOUS
<1>3. /\ i \in DOMAIN effects /\ effects[i].at = "spawn" /\ effects' = [effects EXCEPT ![i] = x]
      /\ l \notin DOMAIN procs /\ DOMAIN qs = DOMAIN procs \cup {l}
      /\ qs[l] = [run |-> a, session |-> s, is |-> "up"]
      /\ \A p \in DOMAIN procs : qs[p] = procs[p]
      /\ model' = model /\ inbox' = inbox /\ started' = started /\ watchers' = watchers
      /\ launchers' = launchers /\ received' = received
  BY <1>1, <1>2 DEF Began
<1>4. /\ Count \in Nat /\ launches \in Nat /\ effects[i] \in EffectType(Count, launches, procs)
      /\ effects \in Seq(EffectType(Count, launches, procs))
  BY <1>3, Parts
<1>5. a \in Nat /\ effects[i] \in Spawns(r) <=> a = r
  <2>1. a \in 1..Count
    BY <1>4 DEF EffectType
  <2>2. effects[i] \in Spawns(r) <=> a = r
    BY <1>3, <1>4, SpawnKind
  <2>3. QED
    BY <1>4, <2>1, <2>2
<1>6. x \notin Spawns(r)
  <2>1. x = [effects[i] EXCEPT !.at = "register", !.proc = l]
    BY <1>1 DEF Began
  <2>2. x.at = "register"
    BY <1>4, <2>1 DEF EffectType
  <2>3. QED
    BY <2>2 DEF Spawns
<1>7. PICK fx : fx = effects'
  OBVIOUS
<1>8. /\ Has(fx, Spawns(r)) => Has(effects, Spawns(r))
      /\ Once(effects, Spawns(r)) => Once(fx, Spawns(r))
      /\ Once(effects, Spawns(r)) /\ a = r => ~Has(fx, Spawns(r))
  <2>1. DOMAIN fx = DOMAIN effects
        /\ \A j \in DOMAIN effects : fx[j] = IF j = i THEN x ELSE effects[j]
    BY <1>3, <1>4, <1>7
  <2>2. \A j \in DOMAIN effects : fx[j] \in Spawns(r) => effects[j] \in Spawns(r) /\ j # i
    BY <1>6, <2>1
  <2>3. QED
    BY <1>3, <1>5, <2>1, <2>2 DEF Has, Once
<1>9. a = r => Has(effects, Spawns(r))
  BY <1>3, <1>5 DEF Has
<1>10. s \in Nat
  BY <1>1, <1>4, SessionFacts DEF Began
<1>11. qs[l] \in Works(r) <=> a = r
  BY <1>3, <1>5, <1>10 DEF Works
<1>12. /\ Has(qs, Works(r)) <=> Has(procs, Works(r)) \/ a = r
       /\ Once(procs, Works(r)) /\ (a # r \/ ~Has(procs, Works(r))) => Once(qs, Works(r))
       /\ NoneAlive(procs, r) /\ a # r => NoneAlive(qs, r)
  <2>1. Has(qs, Works(r)) <=> Has(procs, Works(r)) \/ a = r
    BY <1>3, <1>11 DEF Has
  <2>2. ASSUME Once(procs, Works(r)), a # r \/ ~Has(procs, Works(r)) PROVE Once(qs, Works(r))
    BY <1>3, <1>11, <2>2 DEF Has, Once
  <2>3. NoneAlive(procs, r) /\ a # r => NoneAlive(qs, r)
    BY <1>3 DEF NoneAlive
  <2>4. QED
    BY <2>1, <2>2, <2>3
<1> HIDE DEF a
<1>13. QED
  BY <1>2, <1>3, <1>7, <1>8, <1>9, <1>12
     DEF InOrder, Launches, Reports_, LetIn, Gone, Coming, Told, Running

\* An effect that is over was none that starts a process, or failed to; one that
\* ends without a message leaves a process as it is or signals it.
LEMMA OrderEffectOver ==
  ASSUME Types, NEW r \in Nat, InOrder(r),
         effects' = effects \/ \E i \in DOMAIN effects : effects' = RemoveAt(effects, i),
         SameProcs(procs, procs', Count, launches),
         \/ inbox' = inbox
         \/ \E m \in MessageType(Count, launches) :
              m.tag = "record-session" /\ inbox' = Append(inbox, m),
         UNCHANGED <<model, started, launchers, watchers, received>>
  PROVE  InOrder(r)'
<1>1. Count \in Nat /\ launches \in Nat
  BY Parts
<1>2. PICK box, qs, fx : box = inbox' /\ qs = procs' /\ fx = effects'
  OBVIOUS
<1>3. /\ Has(box, Launching(r)) <=> Has(inbox, Launching(r))
      /\ Has(box, Ending(r)) <=> Has(inbox, Ending(r))
      /\ Has(box, Ended(r)) <=> Has(inbox, Ended(r))
      /\ Has(box, Telling(r)) <=> Has(inbox, Telling(r))
      /\ Once(inbox, Launching(r)) => Once(box, Launching(r))
      /\ Once(inbox, Ending(r)) => Once(box, Ending(r))
      /\ Once(inbox, Telling(r)) => Once(box, Telling(r))
  <2>1. CASE box = inbox
    BY <2>1
  <2>2. ASSUME NEW m \in MessageType(Count, launches), m.tag = "record-session",
               box = Append(inbox, m)
        PROVE  /\ Has(box, Launching(r)) <=> Has(inbox, Launching(r))
               /\ Has(box, Ending(r)) <=> Has(inbox, Ending(r))
               /\ Has(box, Ended(r)) <=> Has(inbox, Ended(r))
               /\ Has(box, Telling(r)) <=> Has(inbox, Telling(r))
               /\ Once(inbox, Launching(r)) => Once(box, Launching(r))
               /\ Once(inbox, Ending(r)) => Once(box, Ending(r))
               /\ Once(inbox, Telling(r)) => Once(box, Telling(r))
    <3>1. m \notin Launching(r) /\ m \notin Telling(r) /\ m \notin Ending(r) /\ m \notin Ended(r)
      BY <1>1, <2>2, MessageKind
    <3>2. QED
      BY <2>2, <3>1, SentHas
  <2>3. QED
    BY <1>2, <2>1, <2>2
<1>4. (Has(fx, Spawns(r)) => Has(effects, Spawns(r)))
      /\ (Once(effects, Spawns(r)) => Once(fx, Spawns(r)))
  BY <1>2, Removed, LessHas
<1>5. /\ Has(qs, Works(r)) <=> Has(procs, Works(r))
      /\ Once(procs, Works(r)) => Once(qs, Works(r))
      /\ NoneAlive(procs, r) => NoneAlive(qs, r)
  BY <1>2, SameWorks
<1>6. QED
  BY <1>2, <1>3, <1>4, <1>5
     DEF InOrder, Launches, Reports_, LetIn, Gone, Coming, Told, Running

\* Recording a process in the table keeps at most one thing under way for its run.
LEMMA OrderRegister ==
  ASSUME Types, NEW r \in Nat, InOrder(r), NEW i, Register(i)
  PROVE  InOrder(r)'
<1> DEFINE e == effects[i]
           m == Message("record-session", e.run, procs[e.proc].session, "")
<1>1. /\ i \in DOMAIN effects /\ e.at = "register" /\ effects' = RemoveAt(effects, i)
      /\ inbox' = IF procs[e.proc].session = 0 THEN inbox ELSE Append(inbox, m)
      /\ UNCHANGED <<model, started, launchers, watchers, procs, received>>
  BY DEF Register, At, Ends, steady
<1>2. /\ Count \in Nat /\ launches \in Nat /\ e \in EffectType(Count, launches, procs)
      /\ \A p \in DOMAIN procs : procs[p] \in ProcType(Count, launches)
  BY <1>1, Parts
<1>3. e.proc \in DOMAIN procs /\ e.run \in 1..Count
  BY <1>1, <1>2 DEF EffectType, OfProcess
<1>4. procs[e.proc].session \in 0..launches
  BY <1>2, <1>3 DEF ProcType
<1>5. CASE procs[e.proc].session = 0
  BY <1>1, <1>5, SameSelf, OrderEffectOver
<1>6. CASE procs[e.proc].session # 0
  <2>1. procs[e.proc].session \in 1..launches
    BY <1>2, <1>4, <1>6
  <2>2. m \in MessageType(Count, launches)
    BY <1>2, <1>3, <2>1, MessagesTyped
  <2>3. m.tag = "record-session"
    BY DEF Message
  <2> HIDE DEF m
  <2>4. QED
    BY <1>1, <1>6, <2>2, <2>3, SameSelf, OrderEffectOver
<1>7. QED
  BY <1>5, <1>6

\* A watcher that goes on is the watcher of the same run.
LEMMA OrderWatcherMoves ==
  ASSUME Types, NEW r \in Nat, InOrder(r), NEW i, FindRun(i) \/ SeeCancel(i)
  PROVE  InOrder(r)'
<1>1. PICK x \in WatcherType(Count, launches, procs) :
        x.run = watchers[i].run /\ watchers' = [watchers EXCEPT ![i] = x]
  BY WatcherMoves
<1>2. /\ i \in DOMAIN watchers /\ SameProcs(procs, procs', Count, launches)
      /\ UNCHANGED <<model, effects, started, launchers, received, inbox>>
  BY WatcherMoves
<1>3. /\ Count \in Nat /\ launches \in Nat
      /\ watchers[i] \in WatcherType(Count, launches, procs)
      /\ watchers \in Seq(WatcherType(Count, launches, procs))
  BY <1>2, Parts
<1>4. x \in Watches(r) <=> watchers[i] \in Watches(r)
  <2>1. (x \in Watches(r) <=> x.run = r) /\ (watchers[i] \in Watches(r) <=> watchers[i].run = r)
    BY <1>3, WatchKind
  <2>2. QED
    BY <1>1, <2>1
<1>5. PICK ws, qs : ws = watchers' /\ qs = procs'
  OBVIOUS
<1>6. (Has(ws, Watches(r)) <=> Has(watchers, Watches(r)))
      /\ (Once(watchers, Watches(r)) => Once(ws, Watches(r)))
  <2>1. DOMAIN ws = DOMAIN watchers
        /\ \A j \in DOMAIN watchers : ws[j] = IF j = i THEN x ELSE watchers[j]
    BY <1>1, <1>2, <1>3, <1>5
  <2>2. \A j \in DOMAIN watchers : ws[j] \in Watches(r) <=> watchers[j] \in Watches(r)
    BY <1>4, <2>1
  <2>3. QED
    BY <2>1, <2>2, SameHas
<1>7. /\ Has(qs, Works(r)) <=> Has(procs, Works(r))
      /\ Once(procs, Works(r)) => Once(qs, Works(r))
      /\ NoneAlive(procs, r) => NoneAlive(qs, r)
  BY <1>2, <1>5, SameWorks
<1>8. QED
  BY <1>2, <1>5, <1>6, <1>7
     DEF InOrder, Launches, Reports_, LetIn, Gone, Coming, Told, Running

\* A watcher that reports takes its place in the channel, and says "exited" of the
\* only process of its run.
LEMMA OrderWatcherReports ==
  ASSUME Types, NEW r \in Nat, InOrder(r), NEW i, GiveUp(i) \/ SeeExit(i) \/ SeeDeath(i)
  PROVE  InOrder(r)'
<1> DEFINE a == watchers[i].run
           M(how) == Message("finish-agent-run", a, 0, how)
<1>1. PICK how \in {"exited", "stopped"} :
        /\ inbox' = Append(inbox, M(how))
        /\ how = "exited" => \E p \in DOMAIN procs : /\ procs[p].run = a
                                                     /\ procs'[p].is \notin {"up", "signalled"}
  BY WatcherReports
<1>2. /\ i \in DOMAIN watchers /\ watchers' = RemoveAt(watchers, i)
      /\ SameProcs(procs, procs', Count, launches)
      /\ UNCHANGED <<model, effects, started, launchers, received>>
  BY WatcherReports
<1>3. /\ Count \in Nat /\ launches \in Nat
      /\ watchers[i] \in WatcherType(Count, launches, procs)
      /\ \A p \in DOMAIN procs : procs[p] \in ProcType(Count, launches)
  BY <1>2, Parts
<1>4. watchers[i] \in Watches(r) <=> a = r
  BY <1>3, WatchKind
<1>5. a = r => Has(watchers, Watches(r))
  BY <1>2, <1>4 DEF Has
<1>6. M(how) \in MessageType(Count, launches) /\ M(how).tag = "finish-agent-run"
      /\ M(how).about = a /\ M(how).how = how
  BY <1>2, Reported DEF Message
<1>7. PICK m : m = M(how)
  OBVIOUS
<1>8. /\ m \notin Launching(r) /\ m \notin Telling(r) /\ (m \in Ending(r) <=> a = r)
      /\ m \in Ended(r) <=> a = r /\ how = "exited"
  BY <1>3, <1>6, <1>7, MessageKind
<1>9. PICK box, ws, qs : box = inbox' /\ ws = watchers' /\ qs = procs'
  OBVIOUS
<1>10. /\ Has(box, Launching(r)) <=> Has(inbox, Launching(r))
       /\ Has(box, Ending(r)) <=> Has(inbox, Ending(r)) \/ a = r
       /\ Has(box, Ended(r)) <=> Has(inbox, Ended(r)) \/ (a = r /\ how = "exited")
       /\ Has(box, Telling(r)) <=> Has(inbox, Telling(r))
       /\ Once(inbox, Launching(r)) => Once(box, Launching(r))
       /\ Once(inbox, Ending(r)) /\ (a # r \/ ~Has(inbox, Ending(r))) => Once(box, Ending(r))
       /\ Once(inbox, Telling(r)) => Once(box, Telling(r))
  BY <1>1, <1>6, <1>7, <1>8, <1>9, SentHas
<1>11. /\ Has(ws, Watches(r)) => Has(watchers, Watches(r))
       /\ Once(watchers, Watches(r)) => Once(ws, Watches(r))
       /\ Once(watchers, Watches(r)) /\ a = r => ~Has(ws, Watches(r))
  BY <1>2, <1>4, <1>9, Removed, LessHas
<1>12. /\ Has(qs, Works(r)) <=> Has(procs, Works(r))
       /\ Once(procs, Works(r)) => Once(qs, Works(r))
       /\ NoneAlive(procs, r) => NoneAlive(qs, r)
  BY <1>2, <1>9, SameWorks
<1>13. ASSUME a = r, how = "exited", Once(procs, Works(r))
       PROVE  Has(procs, Works(r)) /\ NoneAlive(qs, r)
  <2>1. PICK p \in DOMAIN procs : procs[p].run = r /\ qs[p].is \notin {"up", "signalled"}
    BY <1>1, <1>9, <1>13
  <2>2. \A q \in DOMAIN procs : procs[q] \in Works(r) <=> procs[q].run = r
    BY <1>3, WorkKind
  <2>3. \A q \in DOMAIN procs : procs[q].run = r => q = p
    BY <1>13, <2>1, <2>2 DEF Once
  <2>4. DOMAIN qs = DOMAIN procs /\ \A q \in DOMAIN procs : qs[q].run = procs[q].run
    BY <1>2, <1>9 DEF SameProcs
  <2>5. NoneAlive(qs, r)
    BY <2>1, <2>3, <2>4 DEF NoneAlive
  <2>6. Has(procs, Works(r))
    BY <2>1, <2>2 DEF Has
  <2>7. QED
    BY <2>5, <2>6
<1> HIDE DEF a, M
<1>14. QED
  BY <1>2, <1>5, <1>9, <1>10, <1>11, <1>12, <1>13
     DEF InOrder, Launches, Reports_, LetIn, Gone, Coming, Told, Running

\* A run the cap lets in stays let in while it runs and the cap is not lowered:
\* the runs before it only become fewer.
LEMMA ActiveStays ==
  ASSUME Types, NEW m, NEW u, Updated(u, m), Raises(model.cap, u.cap),
         NEW r \in ActiveRuns(model), u.runs[r].status = "running"
  PROVE  r \in ActiveRuns(u)
<1> DEFINE old == {q \in DOMAIN model.runs : model.runs[q].status = "running"}
           new == {q \in DOMAIN u.runs : u.runs[q].status = "running"}
           before == {q \in old : q < r}
           after == {q \in new : q < r}
<1>1. /\ Count \in Nat /\ DOMAIN model.runs = 1..Count
      /\ model.runs \in Seq(RunType(launches))
      /\ model.cap \in Caps \cup {FirstCap}
  BY Parts DEF Types
<1>2. /\ u.runs \in Seq(RunType(launches)) /\ u.cap \in Caps \cup {FirstCap}
      /\ \A q \in 1..Count : Kept(model.runs, u.runs, m, q)
      /\ Len(u.runs) = Count \/ Len(u.runs) = Count + 1
  BY DEF Updated
<1>3. r \in 1..Count /\ (model.cap = 0 \/ Cardinality(before) < model.cap)
  BY <1>1 DEF ActiveRuns
<1>4. DOMAIN u.runs = 1..Len(u.runs) /\ r \in new
  BY <1>1, <1>2, <1>3
<1>5. ASSUME NEW q \in after PROVE q \in before
  <2>1. q \in Nat /\ q >= 1 /\ q < r /\ u.runs[q].status = "running"
    BY <1>1, <1>2, <1>4
  <2>2. q \in 1..Count
    BY <1>1, <1>3, <2>1
  <2>3. QED
    BY <1>1, <1>2, <2>1, <2>2 DEF Kept
<1>6. IsFiniteSet(before)
  <2>1. before \subseteq 1..Count /\ IsFiniteSet(1..Count)
    BY <1>1, FS_Interval
  <2>2. QED
    BY <2>1, FS_Subset
<1>7. /\ Cardinality(after) <= Cardinality(before) /\ Cardinality(after) \in Nat
      /\ Cardinality(before) \in Nat
  <2>1. after \subseteq before
    BY <1>5
  <2>2. QED
    BY <1>6, <2>1, FS_Subset, FS_CardinalityType
<1>8. model.cap \in Nat /\ u.cap \in Nat
  BY <1>1, <1>2, AgentRunsAssumption
<1>9. r \in ActiveRuns(u) <=> r \in new /\ (u.cap = 0 \/ Cardinality(after) < u.cap)
  BY DEF ActiveRuns
<1> HIDE DEF old, new, before, after
<1>10. u.cap = 0 \/ Cardinality(after) < u.cap
  BY <1>3, <1>7, <1>8 DEF Raises
<1>11. QED
  BY <1>4, <1>9, <1>10

\* The cap lets in no more runs than it says.
LEMMA CapBound ==
  ASSUME Types, model.cap > 0
  PROVE  IsFiniteSet(ActiveRuns(model)) /\ Cardinality(ActiveRuns(model)) <= model.cap
<1> DEFINE S == {q \in DOMAIN model.runs : model.runs[q].status = "running"}
           T == ActiveRuns(model)
<1>1. /\ Count \in Nat /\ DOMAIN model.runs = 1..Count
      /\ model.cap \in Caps \cup {FirstCap}
  BY Parts DEF Types
<1>2. model.cap \in Nat
  <2>1. Caps \subseteq Nat /\ FirstCap \in Nat
    BY AgentRunsAssumption
  <2>2. QED
    BY <1>1, <2>1
<1>3. S \subseteq 1..Count /\ IsFiniteSet(1..Count)
  BY <1>1, FS_Interval
<1>4. IsFiniteSet(S) /\ S \in SUBSET Nat
  <2>1. 1..Count \subseteq Nat
    BY <1>1
  <2>2. S \subseteq Nat
    BY <1>3, <2>1
  <2> HIDE DEF S
  <2>3. IsFiniteSet(S)
    BY <1>3, FS_Subset
  <2>4. QED
    BY <2>2, <2>3
<1>5. T = {r \in S : model.cap = 0 \/ Cardinality({q \in S : q < r}) < model.cap}
  BY DEF ActiveRuns
<1> HIDE DEF S, T
<1>6. T \in SUBSET S /\ \A r \in T : Cardinality(Below(S, r)) < model.cap
  BY <1>2, <1>5 DEF Below
<1>7. PICK k \in Nat : k = model.cap
  BY <1>2
<1>8. IsFiniteSet(T) /\ Cardinality(T) <= k
  BY <1>4, <1>6, <1>7, FewBelow
<1>9. QED
  BY <1>7, <1>8 DEF T

\* The loop's turn.
LEMMA OrderReduce ==
  ASSUME Types, Current, NEW r \in Nat, InOrder(r), Reduce, CapRaised
  PROVE  InOrder(r)'
<1>1. PICK m, new, n : Turn(m, new, n)
  BY ReduceFacts
<1>2. /\ Count \in Nat /\ launches \in Nat /\ DOMAIN model.runs = 1..Count
      /\ inbox \in Seq(MessageType(Count, launches)) /\ launchers \in Seq(1..Count)
      /\ effects \in Seq(EffectType(Count, launches, procs))
      /\ watchers \in Seq(WatcherType(Count, launches, procs))
      /\ received \in [RunId -> Nat]
  BY Parts DEF Types
<1>3. /\ m \in MessageType(Count, launches) /\ inbox # <<>> /\ m = inbox[1]
      /\ n \in Nat /\ n = Len(model'.runs) /\ n >= Count /\ Updated(model', m)
      /\ inbox' = Tail(inbox) \o Sends(m) /\ effects' = effects \o Commands(model, m)
      /\ started' = ActiveRuns(model') /\ started' \subseteq 1..n
      /\ new \in Seq(1..n) /\ Once(new, {r})
      /\ Has(new, {r}) <=> r \in started' /\ r \notin started
      /\ launchers' = launchers \o new
      /\ watchers' = Cancel(watchers, started') \o [i \in DOMAIN new |-> Watcher(new[i])]
      /\ procs' = procs
  BY <1>1 DEF Turn, machine
<1>4. PICK box, fx, ls, ws, rs :
        box = inbox' /\ fx = effects' /\ ls = launchers' /\ ws = watchers' /\ rs = model'.runs
  OBVIOUS
<1>5. /\ Once(Commands(model, m), Spawns(r))
      /\ Has(Commands(model, m), Spawns(r)) <=> m \in Launching(r)
      /\ Once(Sends(m), Telling(r))
      /\ Has(Sends(m), Telling(r)) <=> m \in Ending(r)
      /\ ~Has(Sends(m), Launching(r)) /\ ~Has(Sends(m), Ending(r)) /\ ~Has(Sends(m), Ended(r))
      /\ Commands(model, m) \in Seq(EffectType(Count, launches, procs))
      /\ Sends(m) \in Seq(MessageType(Count, launches))
  BY <1>3, CommandFacts
\* The channel without its head.
<1>6. PICK tail : tail = Tail(inbox)
  OBVIOUS
<1>7. tail \in Seq(MessageType(Count, launches)) /\ Less(tail, inbox, 1) /\ 1 \in DOMAIN inbox
  BY <1>2, <1>3, <1>6, Removed
<1>8. ASSUME NEW K
      PROVE  /\ Has(tail, K) => Has(inbox, K)
             /\ Once(inbox, K) => Once(tail, K)
             /\ m \in K => Has(inbox, K)
             /\ Once(inbox, K) /\ m \in K => ~Has(tail, K)
  BY <1>3, <1>7, LessHas DEF Has
<1>9. ASSUME NEW K
      PROVE  /\ Has(box, K) <=> Has(tail, K) \/ Has(Sends(m), K)
             /\ Once(tail, K) /\ Once(Sends(m), K) /\ ~(Has(tail, K) /\ Has(Sends(m), K))
                  => Once(box, K)
  BY <1>3, <1>4, <1>5, <1>6, <1>7, ConcatHas
<1>10. \A K : ~Has(Sends(m), K) => Once(Sends(m), K)
  BY DEF Has, Once
<1>11. /\ Has(box, Launching(r)) => Has(inbox, Launching(r))
       /\ Has(box, Ending(r)) => Has(inbox, Ending(r))
       /\ Has(box, Ended(r)) => Has(inbox, Ended(r))
       /\ Has(box, Telling(r)) => Has(inbox, Telling(r)) \/ m \in Ending(r)
       /\ Once(inbox, Launching(r)) => Once(box, Launching(r))
       /\ Once(inbox, Ending(r)) => Once(box, Ending(r))
       /\ Once(inbox, Telling(r)) /\ (m \notin Ending(r) \/ ~Has(inbox, Telling(r)))
            => Once(box, Telling(r))
       /\ Once(inbox, Launching(r)) /\ m \in Launching(r) => ~Has(box, Launching(r))
       /\ Once(inbox, Ending(r)) /\ m \in Ending(r) => ~Has(box, Ending(r))
       /\ Once(inbox, Telling(r)) /\ m \in Telling(r) => ~Has(tail, Telling(r))
       /\ Has(box, Telling(r)) => Has(tail, Telling(r)) \/ m \in Ending(r)
       /\ m \in Launching(r) => Has(inbox, Launching(r))
       /\ m \in Ending(r) => Has(inbox, Ending(r))
       /\ m \in Ended(r) => Has(inbox, Ended(r))
       /\ m \in Telling(r) => Has(inbox, Telling(r))
  BY <1>5, <1>8, <1>9, <1>10
<1>12. m \in Telling(r) => m \notin Ending(r)
  BY <1>2, <1>3, MessageKind
<1>13. /\ Has(fx, Spawns(r)) <=> Has(effects, Spawns(r)) \/ m \in Launching(r)
       /\ Once(effects, Spawns(r)) /\ (m \notin Launching(r) \/ ~Has(effects, Spawns(r)))
            => Once(fx, Spawns(r))
  BY <1>2, <1>3, <1>4, <1>5, ConcatHas
<1>w. Widens(Count, launches, procs, n, launches, procs)
  <2>1. DOMAIN procs \subseteq DOMAIN procs /\ \A p \in DOMAIN procs : procs[p].run = procs[p].run
    OBVIOUS
  <2>2. launches <= launches /\ Count <= n
    BY <1>2, <1>3
  <2>3. QED
    BY <1>2, <1>3, <2>1, <2>2, Wider
<1>14. /\ Has(ls, {r}) <=> Has(launchers, {r}) \/ (r \in started' /\ r \notin started)
       /\ Once(launchers, {r}) /\ ((r \in started' /\ r \notin started) => ~Has(launchers, {r}))
            => Once(ls, {r})
  <2>1. launchers \in Seq(1..n)
    BY <1>2, <1>w DEF Widens
  <2>2. (Has(ls, {r}) <=> Has(launchers, {r}) \/ Has(new, {r}))
        /\ (Once(launchers, {r}) /\ Once(new, {r}) /\ ~(Has(launchers, {r}) /\ Has(new, {r}))
              => Once(ls, {r}))
    BY <1>3, <1>4, <2>1, ConcatHas
  <2>3. QED
    BY <1>3, <2>2
<1>15. /\ Has(ws, Watches(r)) <=> Has(watchers, Watches(r)) \/ (r \in started' /\ r \notin started)
       /\ Once(watchers, Watches(r))
            /\ ((r \in started' /\ r \notin started) => ~Has(watchers, Watches(r)))
            => Once(ws, Watches(r))
  <2> DEFINE W == WatcherType(n, launches, procs)
  <2>1. PICK cs, vs : cs = Cancel(watchers, started') /\ vs = [i \in DOMAIN new |-> Watcher(new[i])]
    OBVIOUS
  <2>2. watchers \in Seq(W)
    BY <1>2, <1>w DEF Widens
  <2>4. cs \in Seq(W) /\ (Has(cs, Watches(r)) <=> Has(watchers, Watches(r)))
        /\ (Once(watchers, Watches(r)) => Once(cs, Watches(r)))
    BY <1>2, <1>3, <2>1, <2>2, Cancelled
  <2>5. vs \in Seq(W) /\ (Has(vs, Watches(r)) <=> Has(new, {r}))
        /\ (Once(new, {r}) => Once(vs, Watches(r)))
    BY <1>2, <1>3, <2>1, NewWatchers
  <2> HIDE DEF W
  <2>6. (Has(ws, Watches(r)) <=> Has(cs, Watches(r)) \/ Has(vs, Watches(r)))
        /\ (Once(cs, Watches(r)) /\ Once(vs, Watches(r))
              /\ ~(Has(cs, Watches(r)) /\ Has(vs, Watches(r))) => Once(ws, Watches(r)))
    BY <1>3, <1>4, <2>1, <2>4, <2>5, ConcatHas
  <2>7. QED
    BY <1>3, <2>4, <2>5, <2>6
\* What the run is.
<1>16. DOMAIN rs = 1..n /\ 1..Count \subseteq 1..n
  <2>1. rs \in Seq(RunType(launches)) /\ n = Len(rs)
    BY <1>3, <1>4 DEF Updated
  <2>2. QED
    BY <1>2, <1>3, <2>1
<1>17. r \in 1..Count =>
         /\ rs[r].status = "running" => model.runs[r].status = "running"
         /\ rs[r].status = "finished" => model.runs[r].status = "finished" \/ m \in Ended(r)
         /\ m \in Ending(r) => rs[r].status # "running"
  BY <1>3, <1>4 DEF Updated, Kept
<1>18. r \in 1..n /\ r \notin 1..Count => rs[r].status = "running"
  <2>1. n = Count \/ (n = Count + 1 /\ rs[Count + 1].status = "running")
    BY <1>3, <1>4 DEF Updated
  <2>2. n = Count + 1 /\ r \in 1..n /\ r \notin 1..Count => r = Count + 1
    BY <1>2
  <2>3. QED
    BY <2>1, <2>2
<1>19. r \in started /\ rs[r].status = "running" => r \in started'
  BY <1>3, <1>4, ActiveStays DEF Current, CapRaised
<1>20. r \in started' => r \in 1..n /\ rs[r].status = "running"
  <2>1. rs \in Seq(RunType(launches)) /\ n = Len(rs)
    BY <1>3, <1>4 DEF Updated
  <2>2. QED
    BY <1>3, <1>4, <2>1, ActiveFacts
<1>21. /\ Told(r)' <=> Told(r) \/ (m \in Telling(r) /\ r \in RunId)
       /\ (r \in RunId /\ received[r] <= 1 /\ (m \in Telling(r) => received[r] = 0))
             => received'[r] <= 1
  <2>1. m \in Telling(r) <=> m.tag = "agent-run-finished" /\ m.about = r
    BY <1>2, <1>3, MessageKind
  <2>2. received' = IF m.tag = "agent-run-finished"
                    THEN [received EXCEPT ![m.about] = @ + 1] ELSE received
    BY <1>1 DEF Turn
  <2>3. r \in RunId => received'[r] = IF m \in Telling(r) THEN received[r] + 1 ELSE received[r]
    BY <1>2, <2>1, <2>2
  <2>4. r \in RunId => received[r] \in Nat
    BY <1>2
  <2>5. QED
    BY <2>3, <2>4 DEF Told
<1>22. r \in RunId => received[r] \in Nat
  BY <1>2
<1>23. m \in Telling(r) => (r \in RunId => received[r] = 0)
  BY <1>11, <1>22 DEF InOrder, Reports_, Told
<1>24. Has(inbox, Ended(r)) => Has(inbox, Ending(r))
  BY DEF Has, Ended, Ending
<1>25. Launches(r)'
  BY <1>2, <1>3, <1>4, <1>11, <1>13, <1>14, <1>16, <1>17, <1>18, <1>19, <1>20
     DEF InOrder, Launches, LetIn, Coming, Running
<1>26. Reports_(r)'
  BY <1>2, <1>4, <1>11, <1>12, <1>15, <1>16, <1>17, <1>18, <1>19, <1>20, <1>21, <1>23
     DEF InOrder, Reports_, LetIn, Running, Told
<1>27. LetIn(r)'
  BY <1>2, <1>3, <1>4, <1>11, <1>13, <1>14, <1>15, <1>16, <1>17, <1>18, <1>19, <1>20, <1>21
     DEF InOrder, LetIn, Coming, Running
<1>28. Gone(r)'
  BY <1>2, <1>3, <1>4, <1>11, <1>13, <1>14, <1>16, <1>17, <1>18, <1>20, <1>24
     DEF InOrder, Gone, LetIn, Coming, Running
<1>29. QED
  BY <1>25, <1>26, <1>27, <1>28 DEF InOrder

\* Nothing is in flight after a death: what was declared starts again, once.
LEMMA OrderRestart ==
  ASSUME Types, Current, NEW r \in Nat, InOrder(r), Restart
  PROVE  InOrder(r)'
<1> DEFINE A == ActiveRuns(model)
<1>1. PICK new : new = SetToSeq(A)
  OBVIOUS
<1>2. /\ model' = model /\ inbox' = <<>> /\ effects' = <<>> /\ procs' = [p \in {} |-> 0]
      /\ started' = A /\ launchers' = new
      /\ watchers' = [i \in DOMAIN new |-> Watcher(new[i])] /\ received' = received
  BY <1>1 DEF Restart
<1>3. /\ Count \in Nat /\ launches \in Nat /\ model.runs \in Seq(RunType(launches))
      /\ DOMAIN model.runs = 1..Count
  BY Parts DEF Types
<1>4. A \subseteq 1..Count /\ IsFiniteSet(A) /\ \A q \in A : model.runs[q].status = "running"
  BY <1>3, ActiveFacts DEF Count
<1> HIDE DEF A
<1>5. new \in Seq(1..Count) /\ (Has(new, {r}) <=> r \in A) /\ Once(new, {r})
  BY <1>1, <1>4, ListFacts
<1>6. PICK ws : ws = watchers'
  OBVIOUS
<1>7. (Has(ws, Watches(r)) <=> r \in A) /\ Once(ws, Watches(r))
  BY <1>2, <1>3, <1>5, <1>6, NewWatchers
<1>8. PICK none : none = inbox' /\ DOMAIN none = {}
  BY <1>2
<1>9. PICK idle : idle = effects' /\ DOMAIN idle = {}
  BY <1>2
<1>10. PICK dead : dead = procs' /\ DOMAIN dead = {}
  BY <1>2
<1>11. /\ \A K : ~Has(none, K) /\ Once(none, K) /\ ~Has(idle, K) /\ Once(idle, K)
                 /\ ~Has(dead, K) /\ Once(dead, K)
       /\ NoneAlive(dead, r)
  BY <1>8, <1>9, <1>10 DEF Has, Once, NoneAlive
<1>12. r \in A => r \in DOMAIN model.runs /\ model.runs[r].status = "running"
  BY <1>3, <1>4
<1>13. Launches(r)'
  BY <1>2, <1>5, <1>8, <1>9, <1>10, <1>11 DEF Launches, Coming
<1>14. Reports_(r)'
  BY <1>2, <1>6, <1>7, <1>8, <1>11, <1>12 DEF InOrder, Reports_, LetIn, Told, Running
<1>15. LetIn(r)'
  BY <1>2, <1>5, <1>6, <1>7, <1>8, <1>9, <1>10, <1>11, <1>12
     DEF InOrder, LetIn, Coming, Told, Running
<1>16. Gone(r)'
  BY <1>2, <1>5, <1>8, <1>9, <1>10, <1>11, <1>12 DEF Gone, Coming
<1>17. QED
  BY <1>13, <1>14, <1>15, <1>16 DEF InOrder

\* At first nothing is under way.
LEMMA OrderInit ==
  ASSUME Init
  PROVE  Current /\ Orderly
<1>1. /\ model = [runs |-> <<>>, cap |-> FirstCap, choice |-> FirstHarness]
      /\ inbox = <<>> /\ effects = <<>> /\ started = {} /\ launchers = <<>> /\ watchers = <<>>
      /\ procs = [p \in {} |-> 0] /\ received = [r \in RunId |-> 0]
  BY DEF Init
<1>2. ActiveRuns(model) = {}
  BY <1>1 DEF ActiveRuns
<1>3. /\ DOMAIN inbox = {} /\ DOMAIN effects = {} /\ DOMAIN launchers = {}
      /\ DOMAIN watchers = {} /\ DOMAIN procs = {} /\ DOMAIN model.runs = {}
  BY <1>1
<1>4. \A K : /\ ~Has(inbox, K) /\ ~Has(effects, K) /\ ~Has(launchers, K)
             /\ ~Has(watchers, K) /\ ~Has(procs, K)
             /\ Once(inbox, K) /\ Once(effects, K) /\ Once(launchers, K)
             /\ Once(watchers, K) /\ Once(procs, K)
  BY <1>3 DEF Has, Once
<1>5. ASSUME NEW r \in Nat PROVE ~Told(r) /\ (r \in RunId => received[r] <= 1)
  BY <1>1 DEF Told
<1>6. ASSUME NEW r \in Nat PROVE Launches(r) /\ Reports_(r) /\ LetIn(r) /\ Gone(r)
  BY <1>3, <1>4, <1>5 DEF Launches, Reports_, LetIn, Gone, Coming
<1>7. QED
  BY <1>1, <1>2, <1>6 DEF Current, Orderly

\* While the cap is only ever raised, every step keeps at most one thing under way per
\* run.
LEMMA OrderStep ==
  ASSUME Types, Current, Orderly, [Next]_vars, [CapRaised]_vars
  PROVE  Current' /\ Orderly'
<1>1. Count \in Nat /\ launches \in Nat
  BY Parts
<1>2. ASSUME NEW r \in Nat PROVE InOrder(r)'
  <2>1. InOrder(r)
    BY DEF Orderly, InOrder
  <2>2. ASSUME NEW t \in Tasks, Spawn(t) PROVE InOrder(r)'
    <3>1. PICK h \in {"fresh", "resume"} :
            /\ inbox' = Append(inbox, Message("spawn-agent-run", t, 0, h))
            /\ Message("spawn-agent-run", t, 0, h) \in MessageType(Count, launches)
      BY <2>2, SpawnFacts
    <3>2. UNCHANGED <<model, effects, started, launchers, watchers, machine, received>>
      BY <2>2 DEF Spawn
    <3>3. PICK m : m = Message("spawn-agent-run", t, 0, h)
      OBVIOUS
    <3>4. m.tag = "spawn-agent-run"
      BY <3>3 DEF Message
    <3>5. QED
      BY <2>1, <3>1, <3>2, <3>3, <3>4, OrderSent
  <2>3. CASE \/ \E q \in DOMAIN model.runs : Stop(q)
             \/ \E c \in Caps : SetMaxConcurrentRuns(c)
             \/ \E h \in Harnesses : SetWorkerHarness(h)
    <3>1. PICK m \in MessageType(Count, launches) :
            /\ inbox' = Append(inbox, m)
            /\ m.tag \in {"stop-agent-run", "set-max-concurrent-runs", "set-worker-harness"}
            /\ UNCHANGED <<model, effects, started, launchers, watchers, machine, received>>
      BY <2>3, OutsideFacts
    <3>2. QED
      BY <2>1, <3>1, OrderSent
  <2>4. ASSUME NEW i, StartFails(i) PROVE InOrder(r)'
    BY <2>1, <2>4, FailFacts, SameSelf, OrderEffectOver
  <2>5. ASSUME NEW i, Signal(i) PROVE InOrder(r)'
    BY <2>1, <2>5, SignalFacts, OrderEffectOver
  <2>6. ASSUME NEW p, Exit(p) PROVE InOrder(r)'
    BY <2>1, <2>6, ExitFacts, OrderEffectOver
  <2>7. ASSUME NEW i, WatchStep(i) PROVE InOrder(r)'
    BY <2>1, <2>7, OrderWatcherMoves, OrderWatcherReports DEF WatchStep
  <2>8. CASE Reduce
    <3>1. CASE CapRaised
      BY <2>1, <2>8, <3>1, OrderReduce
    <3>2. CASE UNCHANGED vars
      <4>1. CapRaised
        BY <3>2 DEF vars, CapRaised, Raises
      <4>2. QED
        BY <2>1, <2>8, <4>1, OrderReduce
    <3>3. QED
      BY <3>1, <3>2
  <2>9. CASE UNCHANGED vars
    BY <2>1, <2>9
       DEF vars, InOrder, Launches, Reports_, LetIn, Gone, Coming, Told, Running
  <2>10. QED
    BY <2>1, <2>2, <2>3, <2>4, <2>5, <2>6, <2>7, <2>8, <2>9, OrderLaunchRun,
       OrderStartProcess, OrderRegister, OrderRestart DEF Next, EffectStep
<1>3. Current'
  <2>1. CASE Reduce
    BY <2>1 DEF Reduce, Current
  <2>2. CASE Restart
    BY <2>2 DEF Restart, Current
  <2>3. CASE ~Reduce /\ ~Restart
    <3>1. model' = model /\ started' = started
      BY <2>3 DEF Next, Spawn, Stop, SetMaxConcurrentRuns, SetWorkerHarness, Configure,
         LaunchRun, EffectStep, StartProcess, Register, Signal, StartFails, WatchStep, FindRun,
         GiveUp, SeeExit, SeeCancel, SeeDeath, Exit, steady, calm, vars
    <3>2. QED
      BY <3>1 DEF Current
  <2>4. QED
    BY <2>1, <2>2, <2>3
<1>4. Orderly'
  BY <1>2 DEF Orderly, InOrder
<1>5. QED
  BY <1>3, <1>4

\* While the cap is only ever raised, at most one thing is ever under way per run.
LEMMA OrderInvariant == Spec /\ [][CapRaised]_vars => [](Types /\ Current /\ Orderly)
<1>1. Init => Types /\ Current /\ Orderly
  BY TypesInit, OrderInit
<1>2. (Types /\ Current /\ Orderly) /\ [Next]_vars /\ [CapRaised]_vars
        => (Types /\ Current /\ Orderly)'
  BY TypesStep, OrderStep
<1>3. QED
  BY <1>1, <1>2, PTL DEF Spec

\* As long as the operator never lowers the cap, a run is launched once per
\* process of kasi (decision-015), whatever queues, stops, fails and dies: no run
\* has two agents at work in its workspace.
THEOREM LaunchesOnce == Spec /\ [][CapRaised]_vars => []LaunchedOnce
<1>1. Types /\ Current /\ Orderly => LaunchedOnce
  <2> SUFFICES ASSUME Types, Orderly, NEW p \in DOMAIN procs, NEW q \in DOMAIN procs,
                      procs[p].run = procs[q].run
               PROVE  p = q
    BY DEF LaunchedOnce
  <2>1. /\ Count \in Nat /\ launches \in Nat
        /\ procs[p] \in ProcType(Count, launches) /\ procs[q] \in ProcType(Count, launches)
    BY Parts
  <2>2. procs[p].run \in 1..Count
    BY <2>1 DEF ProcType
  <2>3. PICK r \in Nat : r = procs[p].run
    BY <2>1, <2>2
  <2>4. procs[p] \in Works(r) /\ procs[q] \in Works(r)
    BY <2>1, <2>3, WorkKind
  <2>5. Once(procs, Works(r))
    BY DEF Orderly, Launches
  <2>6. QED
    BY <2>4, <2>5 DEF Once
<1>2. QED
  BY <1>1, OrderInvariant, PTL

\* ... the running runs that hold a process are no more than the cap says
\* (decision-016) ...
THEOREM CapIsKept == Spec /\ [][CapRaised]_vars => []CapHolds
<1>1. Types /\ Current /\ Orderly => CapHolds
  <2> SUFFICES ASSUME Types, Current, Orderly, model.cap > 0
               PROVE  Cardinality({r \in Runs : /\ model.runs[r].status = "running"
                                                /\ \E p \in DOMAIN procs : procs[p].run = r /\ Alive(p)})
                        <= model.cap
    BY DEF CapHolds
  <2> DEFINE H == {r \in Runs : /\ model.runs[r].status = "running"
                                /\ \E p \in DOMAIN procs : procs[p].run = r /\ Alive(p)}
  <2>1. ASSUME NEW r \in H PROVE r \in started
    <3>1. PICK p \in DOMAIN procs : procs[p].run = r
      OBVIOUS
    <3>2. /\ Count \in Nat /\ launches \in Nat /\ procs[p] \in ProcType(Count, launches)
          /\ DOMAIN model.runs = 1..Count
      BY Parts
    <3>3. r \in Nat /\ r \in DOMAIN model.runs /\ Running(r)
      BY <3>2 DEF Runs, Running
    <3>4. procs[p] \in Works(r)
      BY <3>1, <3>2, <3>3, WorkKind
    <3>5. Has(procs, Works(r))
      BY <3>4 DEF Has
    <3>6. QED
      BY <3>3, <3>5 DEF Orderly, LetIn
  <2>2. H \subseteq ActiveRuns(model)
    BY <2>1 DEF Current
  <2> HIDE DEF H
  <2>3. IsFiniteSet(ActiveRuns(model)) /\ Cardinality(ActiveRuns(model)) <= model.cap
    BY CapBound
  <2>4. Cardinality(H) <= Cardinality(ActiveRuns(model))
        /\ Cardinality(H) \in Nat /\ Cardinality(ActiveRuns(model)) \in Nat
    BY <2>2, <2>3, FS_Subset, FS_CardinalityType
  <2>5. model.cap \in Nat
    <3>1. model.cap \in Caps \cup {FirstCap}
      BY DEF Types
    <3>2. Caps \subseteq Nat /\ FirstCap \in Nat
      BY AgentRunsAssumption
    <3>3. QED
      BY <3>1, <3>2
  <2>6. Cardinality(H) <= model.cap
    BY <2>3, <2>4, <2>5
  <2>7. QED
    BY <2>6 DEF H
<1>2. QED
  BY <1>1, OrderInvariant, PTL

\* ... and tasks hears of the end of a run once at most, of a finished one only
\* when its process is gone and out/ is final.
THEOREM HandsOverOnce == Spec /\ [][CapRaised]_vars => []HandedOverOnce
<1>1. Types /\ Current /\ Orderly => HandedOverOnce
  <2> SUFFICES ASSUME Types, Orderly, NEW r \in RunId
               PROVE  /\ received[r] <= 1
                      /\ received[r] = 1 /\ model.runs[r].status = "finished" =>
                           \A p \in DOMAIN procs : procs[p].run = r => ~Alive(p)
    BY DEF HandedOverOnce
  <2>1. r \in Nat
    BY AgentRunsAssumption DEF RunId
  <2>2. Reports_(r) /\ LetIn(r) /\ Gone(r)
    BY <2>1 DEF Orderly
  <2>3. received[r] <= 1
    BY <2>2 DEF Reports_
  <2>4. ASSUME received[r] = 1, model.runs[r].status = "finished"
        PROVE  \A p \in DOMAIN procs : procs[p].run = r => ~Alive(p)
    <3>1. Told(r)
      BY <2>4 DEF Told
    <3>2. NoneAlive(procs, r)
      BY <2>2, <2>4, <3>1 DEF LetIn, Gone
    <3>3. QED
      BY <3>2 DEF NoneAlive, Alive
  <2>5. QED
    BY <2>3, <2>4
<1>2. QED
  BY <1>1, OrderInvariant, PTL

-----------------------------------------------------------------------------
(***************************************************************************)
(* Tasks, harnesses and sessions.                                          *)
(***************************************************************************)
Asks(m, t) == m.tag = "spawn-agent-run" /\ m.about = t

\* What tasks asked for is known, a fresh run is asked for once, and before any
\* resumed one.
FreshFirst(rs, box, known) ==
  /\ \A r \in DOMAIN rs : rs[r].task \in known
  /\ \A i \in DOMAIN box :
       box[i].tag = "spawn-agent-run" =>
         /\ box[i].about \in known
         /\ box[i].how = "fresh" =>
              /\ \A r \in DOMAIN rs : rs[r].task # box[i].about
              /\ \A j \in DOMAIN box : j < i => ~Asks(box[j], box[i].about)

\* The runs of a task have one harness, and only the first is not resumed.
Families(rs) ==
  \A q, r \in DOMAIN rs :
    rs[q].task = rs[r].task => rs[q].harness = rs[r].harness /\ (~rs[r].resume => r <= q)

Firsts == FreshFirst(model.runs, inbox, Range(asked)) /\ Families(model.runs)

\* The sessions that effects, runs, messages and processes name are sessions of
\* their task.
OfTask(rs, th, r, s) == r \in DOMAIN rs /\ (s = 0 \/ s \in Range(th[rs[r].task]))
Sessions ==
  /\ \A i \in DOMAIN effects : OfTask(model.runs, threads, effects[i].run, effects[i].session)
  /\ \A r \in DOMAIN model.runs : OfTask(model.runs, threads, r, model.runs[r].session)
  /\ \A i \in DOMAIN inbox :
       inbox[i].tag = "record-session" =>
         OfTask(model.runs, threads, inbox[i].about, inbox[i].session)
  /\ \A p \in DOMAIN procs : OfTask(model.runs, threads, procs[p].run, procs[p].session)

\* While kasi has not died the only session of a task is the one its first
\* run's process began.
Begun ==
  crashes = 0 =>
    \A t \in Tasks :
      /\ Len(threads[t]) <= 1
      /\ threads[t] # <<>> =>
           \E p \in DOMAIN procs : /\ model.runs[procs[p].run].task = t
                                   /\ ~model.runs[procs[p].run].resume

\* The loop takes a message, whatever it is.
LEMMA TailFirst ==
  ASSUME NEW rs, NEW S, NEW box \in Seq(S), box # <<>>, NEW known,
         FreshFirst(rs, box, known)
  PROVE  FreshFirst(rs, Tail(box), known)
<1> DEFINE t == Tail(box)
           n == Len(box)
<1>1. /\ n \in Nat /\ n > 0 /\ DOMAIN box = 1..n /\ DOMAIN t = 1..(n - 1)
      /\ \A i \in 1..(n - 1) : i + 1 \in 1..n /\ t[i] = box[i + 1]
  OBVIOUS
<1> HIDE DEF t, n
<1>2. ASSUME NEW i \in DOMAIN t, t[i].tag = "spawn-agent-run"
      PROVE  /\ t[i].about \in known
             /\ t[i].how = "fresh" =>
                  /\ \A r \in DOMAIN rs : rs[r].task # t[i].about
                  /\ \A j \in DOMAIN t : j < i => ~Asks(t[j], t[i].about)
  <2>1. PICK k \in 1..n : k = i + 1 /\ t[i] = box[k]
    BY <1>1
  <2>2. ASSUME NEW j \in DOMAIN t, j < i PROVE \E h \in 1..n : h < k /\ t[j] = box[h]
    <3>1. j + 1 \in 1..n /\ t[j] = box[j + 1] /\ j + 1 < k
      BY <1>1, <2>1, <2>2
    <3>2. QED
      BY <3>1
  <2>3. QED
    BY <1>1, <1>2, <2>1, <2>2 DEF FreshFirst
<1>3. QED
  BY <1>2 DEF FreshFirst, t

\* Another message is sent.
LEMMA OtherFirst ==
  ASSUME NEW rs, NEW S, NEW box \in Seq(S), NEW known, FreshFirst(rs, box, known),
         NEW x \in S, x.tag # "spawn-agent-run"
  PROVE  FreshFirst(rs, Append(box, x), known)
<1> DEFINE t == Append(box, x)
           n == Len(box)
<1>1. /\ n \in Nat /\ DOMAIN box = 1..n /\ DOMAIN t = 1..(n + 1)
      /\ t[n + 1] = x /\ \A i \in 1..n : t[i] = box[i]
      /\ \A i \in 1..(n + 1) : i \in 1..n \/ i = n + 1
  OBVIOUS
<1> HIDE DEF t, n
<1>2. ASSUME NEW i \in DOMAIN t, t[i].tag = "spawn-agent-run"
      PROVE  /\ t[i].about \in known
             /\ t[i].how = "fresh" =>
                  /\ \A r \in DOMAIN rs : rs[r].task # t[i].about
                  /\ \A j \in DOMAIN t : j < i => ~Asks(t[j], t[i].about)
  <2>1. i \in 1..n /\ t[i] = box[i]
    BY <1>1, <1>2
  <2>2. \A j \in DOMAIN t : j = n + 1 \/ (j \in DOMAIN box /\ t[j] = box[j])
    BY <1>1
  <2>3. ~Asks(t[n + 1], t[i].about)
    BY <1>1 DEF Asks
  <2>4. QED
    BY <1>1, <1>2, <2>1, <2>2, <2>3 DEF FreshFirst
<1>3. QED
  BY <1>2 DEF FreshFirst, t

\* tasks asks for a run of t, a fresh one only if it never asked for one.
LEMMA AskFirst ==
  ASSUME NEW rs, NEW S, NEW box \in Seq(S), NEW known, FreshFirst(rs, box, known),
         NEW x \in S, x.tag = "spawn-agent-run", x.how = "fresh" => x.about \notin known
  PROVE  FreshFirst(rs, Append(box, x), known \cup {x.about})
<1> DEFINE t == Append(box, x)
           n == Len(box)
<1>1. /\ n \in Nat /\ DOMAIN box = 1..n /\ DOMAIN t = 1..(n + 1)
      /\ t[n + 1] = x /\ \A i \in 1..n : t[i] = box[i]
      /\ \A i \in 1..(n + 1) : i \in 1..n \/ i = n + 1
  OBVIOUS
<1>2. \A i \in 1..n : ~(n + 1 < i)
  BY <1>1
<1> HIDE DEF t, n
<1>3. ASSUME NEW i \in DOMAIN t, t[i].tag = "spawn-agent-run"
      PROVE  /\ t[i].about \in known \cup {x.about}
             /\ t[i].how = "fresh" =>
                  /\ \A r \in DOMAIN rs : rs[r].task # t[i].about
                  /\ \A j \in DOMAIN t : j < i => ~Asks(t[j], t[i].about)
  <2>1. CASE i \in 1..n
    <3>1. t[i] = box[i] /\ i \in DOMAIN box
      BY <1>1, <2>1
    <3>2. \A j \in DOMAIN t : j < i => j \in DOMAIN box /\ t[j] = box[j]
      BY <1>1, <1>2, <2>1
    <3>3. QED
      BY <1>3, <3>1, <3>2 DEF FreshFirst
  <2>2. CASE i = n + 1
    <3>1. t[i] = x
      BY <1>1, <2>2
    <3>2. \A r \in DOMAIN rs : x.how = "fresh" => rs[r].task # x.about
      BY DEF FreshFirst
    <3>3. ASSUME NEW j \in DOMAIN t, j < i, x.how = "fresh" PROVE ~Asks(t[j], x.about)
      <4>1. j \in DOMAIN box /\ t[j] = box[j]
        BY <1>1, <2>2, <3>3
      <4>2. QED
        BY <3>3, <4>1 DEF FreshFirst, Asks
    <3>4. QED
      BY <3>1, <3>2, <3>3
  <2>3. QED
    BY <1>1, <2>1, <2>2
<1>4. \A r \in DOMAIN rs : rs[r].task \in known \cup {x.about}
  BY DEF FreshFirst
<1>5. FreshFirst(rs, t, known \cup {x.about})
  BY <1>3, <1>4 DEF FreshFirst
<1>6. QED
  BY <1>5 DEF t

\* Runs that stay of their task, harness and mode.
SameRuns(rs, qs) ==
  /\ DOMAIN qs = DOMAIN rs
  /\ \A r \in DOMAIN rs : /\ qs[r].task = rs[r].task /\ qs[r].resume = rs[r].resume
                          /\ qs[r].harness = rs[r].harness

\* Runs that keep their task, harness and mode keep what is known of first runs and of
\* families.
LEMMA RunsFirst ==
  ASSUME NEW rs, NEW qs, NEW box, NEW known, SameRuns(rs, qs)
  PROVE  /\ FreshFirst(rs, box, known) => FreshFirst(qs, box, known)
         /\ Families(rs) => Families(qs)
BY DEF SameRuns, FreshFirst, Families

\* The run asked for is recorded, with the harness of its task's runs if it is
\* resumed.
Recorded(rs, qs, n, m) ==
  /\ n \in Nat /\ DOMAIN rs = 1..n /\ DOMAIN qs = 1..(n + 1)
  /\ \A r \in 1..n : /\ qs[r].task = rs[r].task /\ qs[r].resume = rs[r].resume
                     /\ qs[r].harness = rs[r].harness
  /\ m.tag = "spawn-agent-run" /\ m.how \in {"fresh", "resume"}
  /\ qs[n + 1].task = m.about /\ (m.how = "resume" => qs[n + 1].resume)
  /\ m.how = "resume" /\ (\E q \in 1..n : rs[q].task = m.about) =>
       \E q \in 1..n : rs[q].task = m.about /\ qs[n + 1].harness = rs[q].harness

\* A spawn message taken from the inbox becomes the run it asks for.
LEMMA SpawnFirst ==
  ASSUME NEW rs, NEW qs, NEW n, NEW S, NEW box \in Seq(S), box # <<>>, NEW known,
         FreshFirst(rs, box, known), Families(rs), Recorded(rs, qs, n, box[1])
  PROVE  FreshFirst(qs, Tail(box), known) /\ Families(qs)
<1> DEFINE t == Tail(box)
           k == Len(box)
           a == box[1].about
<1>1. /\ k \in Nat /\ k > 0 /\ DOMAIN box = 1..k /\ DOMAIN t = 1..(k - 1) /\ 1 \in 1..k
      /\ \A i \in 1..(k - 1) : i + 1 \in 1..k /\ 1 < i + 1 /\ t[i] = box[i + 1]
  OBVIOUS
<1>r. /\ n \in Nat /\ DOMAIN rs = 1..n /\ DOMAIN qs = 1..(n + 1)
      /\ \A r \in 1..n : /\ qs[r].task = rs[r].task /\ qs[r].resume = rs[r].resume
                         /\ qs[r].harness = rs[r].harness
      /\ box[1].tag = "spawn-agent-run" /\ box[1].how \in {"fresh", "resume"}
      /\ qs[n + 1].task = a /\ (box[1].how = "resume" => qs[n + 1].resume)
      /\ box[1].how = "resume" /\ (\E q \in 1..n : rs[q].task = a) =>
           \E q \in 1..n : rs[q].task = a /\ qs[n + 1].harness = rs[q].harness
  BY DEF Recorded
<1>2. \A r \in 1..(n + 1) : r \in 1..n \/ r = n + 1
  BY <1>r
<1>3. FreshFirst(rs, t, known)
  BY TailFirst
<1> HIDE DEF t, k
<1>4. \A r \in DOMAIN qs : qs[r].task \in known
  BY <1>r, <1>1, <1>2 DEF FreshFirst
<1>5. ASSUME NEW i \in DOMAIN t, t[i].tag = "spawn-agent-run", t[i].how = "fresh"
      PROVE  \A r \in DOMAIN qs : qs[r].task # t[i].about
  <2>1. PICK j \in 1..k : 1 < j /\ t[i] = box[j]
    BY <1>1
  <2>2. ~Asks(box[1], box[j].about)
    BY <1>r, <1>1, <1>5, <2>1 DEF FreshFirst
  <2>3. a # t[i].about
    BY <1>r, <2>1, <2>2 DEF Asks
  <2>4. \A r \in 1..n : rs[r].task # t[i].about
    BY <1>r, <1>3, <1>5 DEF FreshFirst
  <2>5. QED
    BY <1>r, <1>2, <2>3, <2>4
<1>6. FreshFirst(qs, t, known)
  BY <1>3, <1>4, <1>5 DEF FreshFirst
<1>7. box[1].how = "fresh" => \A r \in 1..n : rs[r].task # a
  BY <1>r, <1>1 DEF FreshFirst
<1>8. \A q \in 1..n : rs[q].task = a =>
        qs[n + 1].harness = rs[q].harness /\ qs[n + 1].resume
  BY <1>r, <1>7 DEF Families
<1>9. ASSUME NEW q \in DOMAIN qs, NEW r \in DOMAIN qs, qs[q].task = qs[r].task
      PROVE  qs[q].harness = qs[r].harness /\ (~qs[r].resume => r <= q)
  <2>1. CASE q \in 1..n /\ r \in 1..n
    BY <1>r, <1>9, <2>1 DEF Families
  <2>2. CASE q = n + 1 /\ r \in 1..n
    <3>1. qs[q].harness = qs[r].harness
      BY <1>r, <1>8, <1>9, <2>2
    <3>2. r <= q
      BY <1>r, <2>2
    <3>3. QED
      BY <3>1, <3>2
  <2>3. CASE q \in 1..n /\ r = n + 1
    BY <1>r, <1>8, <1>9, <2>3
  <2>4. CASE q = n + 1 /\ r = n + 1
    <3>1. r <= q
      BY <1>r, <2>4
    <3>2. QED
      BY <2>4, <3>1
  <2>5. QED
    BY <1>r, <1>2, <2>1, <2>2, <2>3, <2>4
<1>10. Families(qs)
  BY <1>9 DEF Families
<1>11. QED
  BY <1>6, <1>10 DEF t

\* The steps other than the loop's turn, an asking and a restart keep the slice
\* and send one message at most.
Sent(m) == /\ inbox' = Append(inbox, m)
           /\ m \in MessageType(Count, launches) /\ m.tag # "spawn-agent-run"
Quiet == /\ UNCHANGED <<model, asked>>
         /\ inbox' = inbox \/ \E m : Sent(m)

\* The steps other than a turn, an asking and a restart keep the slice and send at most
\* one message.
LEMMA OthersQuiet ==
  ASSUME Types, [Next]_vars, ~Reduce, ~Restart, \A t \in Tasks : ~Spawn(t)
  PROVE  Quiet
<1>1. /\ Count \in Nat /\ launches \in Nat
      /\ \A i \in DOMAIN launchers : launchers[i] \in 1..Count
  BY Parts
<1>2. ASSUME NEW i, LaunchRun(i) PROVE Quiet
  <2>1. PICK m : m = About("launch-agent-run", launchers[i])
    OBVIOUS
  <2>2. m \in MessageType(Count, launches) /\ m.tag = "launch-agent-run"
    <3>1. launchers[i] \in 1..Count
      BY <1>1, <1>2 DEF LaunchRun
    <3>2. QED
      BY <1>1, <2>1, <3>1, MessagesTyped DEF About, Message
  <2>3. (inbox' = inbox \/ inbox' = Append(inbox, m)) /\ UNCHANGED <<model, asked>>
    BY <1>2, <2>1 DEF LaunchRun, world
  <2>4. QED
    BY <2>2, <2>3 DEF Quiet, Sent
<1>3. ASSUME NEW i, Register(i) PROVE Quiet
  <2> DEFINE e == effects[i]
  <2>1. /\ i \in DOMAIN effects /\ e.at = "register"
        /\ inbox' = IF procs[e.proc].session = 0 THEN inbox
                    ELSE Append(inbox, Message("record-session", e.run, procs[e.proc].session, ""))
        /\ UNCHANGED <<model, asked>>
    BY <1>3 DEF Register, At, steady, world
  <2>2. e \in EffectType(Count, launches, procs)
        /\ \A p \in DOMAIN procs : procs[p] \in ProcType(Count, launches)
    BY <2>1, Parts
  <2>3. e.run \in 1..Count /\ e.proc \in DOMAIN procs
    BY <2>1, <2>2 DEF EffectType, OfProcess
  <2>4. procs[e.proc].session \in 0..launches
    BY <2>2, <2>3 DEF ProcType
  <2> HIDE DEF e
  <2>5. CASE procs[e.proc].session = 0
    BY <2>1, <2>5 DEF Quiet
  <2>6. CASE procs[e.proc].session # 0
    <3>1. procs[e.proc].session \in 1..launches
      BY <1>1, <2>4, <2>6
    <3>2. PICK m : m = Message("record-session", e.run, procs[e.proc].session, "")
      OBVIOUS
    <3>3. m \in MessageType(Count, launches)
      BY <1>1, <2>3, <3>1, <3>2, MessagesTyped
    <3>4. m.tag = "record-session"
      BY <3>2 DEF Message
    <3>5. QED
      BY <2>1, <2>6, <3>2, <3>3, <3>4 DEF Quiet, Sent
  <2>7. QED
    BY <2>5, <2>6
<1>4. ASSUME NEW i, WatchStep(i) PROVE Quiet
  <2>1. CASE FindRun(i) \/ SeeCancel(i)
    BY <2>1, WatcherMoves DEF Quiet
  <2>2. CASE GiveUp(i) \/ SeeExit(i) \/ SeeDeath(i)
    <3>1. i \in DOMAIN watchers /\ UNCHANGED <<model, asked>>
      BY <2>2, WatcherReports
    <3>2. PICK how \in {"exited", "stopped"} :
            inbox' = Append(inbox, Message("finish-agent-run", watchers[i].run, 0, how))
      BY <2>2, WatcherReports
    <3>3. PICK m : m = Message("finish-agent-run", watchers[i].run, 0, how)
      OBVIOUS
    <3>4. m \in MessageType(Count, launches)
      BY <3>1, <3>3, Reported
    <3>5. m.tag = "finish-agent-run"
      BY <3>3 DEF Message
    <3>6. QED
      BY <3>1, <3>2, <3>3, <3>4, <3>5 DEF Quiet, Sent
  <2>3. QED
    BY <1>4, <2>1, <2>2 DEF WatchStep
<1>5. CASE \/ \E r \in DOMAIN model.runs : Stop(r)
           \/ \E c \in Caps : SetMaxConcurrentRuns(c)
           \/ \E h \in Harnesses : SetWorkerHarness(h)
  <2>1. PICK m \in MessageType(Count, launches) :
          /\ inbox' = Append(inbox, m)
          /\ m.tag \in {"stop-agent-run", "set-max-concurrent-runs", "set-worker-harness"}
          /\ UNCHANGED <<model, asked>>
    BY <1>5, OutsideFacts
  <2>2. QED
    BY <2>1 DEF Quiet, Sent
<1>6. ASSUME NEW i, StartProcess(i) \/ Signal(i) \/ StartFails(i) PROVE Quiet
  BY <1>6 DEF Quiet, StartProcess, Signal, StartFails, steady, world
<1>7. ASSUME NEW p, Exit(p) PROVE Quiet
  BY <1>7 DEF Quiet, Exit, steady, world
<1>8. CASE UNCHANGED vars
  BY <1>8 DEF Quiet, vars
<1>9. QED
  BY <1>2, <1>3, <1>4, <1>5, <1>6, <1>7, <1>8 DEF Next, EffectStep

\* The loop's turn puts a run on record, the one asked for.
LEMMA ReduceFirsts ==
  ASSUME Types, Firsts, Reduce
  PROVE  Firsts'
<1>1. PICK m, new, n : Turn(m, new, n)
  BY ReduceFacts
<1>2. /\ Count \in Nat /\ launches \in Nat /\ DOMAIN model.runs = 1..Count
      /\ inbox \in Seq(MessageType(Count, launches))
  BY Parts
<1>3. /\ m \in MessageType(Count, launches) /\ inbox # <<>> /\ m = inbox[1]
      /\ Updated(model', m) /\ inbox' = Tail(inbox) \o Sends(m) /\ asked' = asked
  BY <1>1 DEF Turn, world
<1>4. PICK tail, rs, qs, box, u :
        tail = Tail(inbox) /\ rs = model.runs /\ qs = model'.runs /\ box = inbox' /\ u = model'
  OBVIOUS
<1>5. tail \in Seq(MessageType(Count, launches))
  BY <1>2, <1>3, <1>4
<1> DEFINE known == Range(asked)
<1>6. FreshFirst(rs, inbox, known) /\ Families(rs)
  BY <1>4 DEF Firsts
<1>7. /\ Updated(u, m) /\ qs = u.runs /\ qs \in Seq(RunType(launches))
  BY <1>3, <1>4 DEF Updated
<1> HIDE DEF known
<1>8. FreshFirst(qs, tail, known) /\ Families(qs)
  <2>1. \A r \in 1..Count : /\ qs[r].task = rs[r].task /\ qs[r].resume = rs[r].resume
                            /\ qs[r].harness = rs[r].harness
    BY <1>4, <1>7 DEF Updated, Kept
  <2>2. CASE m.tag # "spawn-agent-run"
    <3>1. Len(qs) = Count
      BY <1>7, <2>2 DEF Updated
    <3>2. DOMAIN qs = DOMAIN rs
      BY <1>2, <1>4, <1>7, <3>1
    <3>3. SameRuns(rs, qs)
      BY <1>2, <1>4, <2>1, <3>2 DEF SameRuns
    <3>4. FreshFirst(rs, tail, known)
      BY <1>2, <1>3, <1>4, <1>6, TailFirst
    <3>5. QED
      BY <1>6, <3>3, <3>4, RunsFirst
  <2>3. CASE m.tag = "spawn-agent-run"
    <3>1. /\ Len(qs) = Count + 1
          /\ qs[Count + 1] = [task |-> m.about, status |-> "running",
                              resume |-> m.how = "resume",
                              harness |-> PinHarness(model, m), session |-> 0]
      BY <1>7, <2>3 DEF Updated
    <3>2. DOMAIN qs = 1..(Count + 1) /\ DOMAIN rs = 1..Count
      BY <1>2, <1>4, <1>7, <3>1
    <3>3. m.how \in {"fresh", "resume"}
      BY <1>2, <1>3, <2>3, MessageFacts
    <3>4. m.how = "resume" /\ (\E q \in 1..Count : rs[q].task = m.about) =>
            \E q \in 1..Count : rs[q].task = m.about /\ PinHarness(model, m) = rs[q].harness
      BY <1>2, <1>4, PinFacts
    <3>5. /\ qs[Count + 1].task = m.about /\ qs[Count + 1].harness = PinHarness(model, m)
          /\ m.how = "resume" => qs[Count + 1].resume
      <4>1. PICK x, h : x = qs[Count + 1] /\ h = PinHarness(model, m)
        OBVIOUS
      <4>2. x = [task |-> m.about, status |-> "running", resume |-> m.how = "resume",
                 harness |-> h, session |-> 0]
        BY <3>1, <4>1
      <4>3. x.task = m.about /\ x.harness = h /\ (m.how = "resume" => x.resume)
        BY <4>2
      <4>4. QED
        BY <4>1, <4>3
    <3>6. FreshFirst(qs, Tail(inbox), known) /\ Families(qs)
      <4>1. Recorded(rs, qs, Count, inbox[1])
        BY <1>2, <1>3, <2>1, <2>3, <3>2, <3>3, <3>4, <3>5 DEF Recorded
      <4>2. QED
        BY <1>2, <1>3, <1>6, <4>1, SpawnFirst
    <3>7. QED
      BY <1>4, <3>6
  <2>4. QED
    BY <2>2, <2>3
<1>9. FreshFirst(qs, box, known)
  <2>1. CASE m.tag # "finish-agent-run"
    <3>1. Sends(m) = <<>>
      BY <2>1 DEF Sends
    <3>2. tail \o <<>> = tail
      BY <1>5
    <3>3. QED
      BY <1>3, <1>4, <1>8, <3>1, <3>2
  <2>2. CASE m.tag = "finish-agent-run"
    <3>1. PICK x : x = About("agent-run-finished", m.about)
      OBVIOUS
    <3>2. Sends(m) = <<x>> /\ x.tag = "agent-run-finished"
      BY <2>2, <3>1 DEF Sends, About, Message
    <3>3. m.about \in 1..Count
      BY <1>2, <1>3, <2>2, MessageFacts
    <3>4. x \in MessageType(Count, launches)
      BY <1>2, <3>1, <3>3, MessagesTyped
    <3>5. box = Append(tail, x)
      BY <1>3, <1>4, <1>5, <3>2, <3>4
    <3>6. QED
      BY <1>5, <1>8, <3>2, <3>4, <3>5, OtherFirst
  <2>3. QED
    BY <2>1, <2>2
<1>10. asked' = asked
  BY <1>3
<1>11. QED
  BY <1>4, <1>8, <1>9, <1>10 DEF Firsts, known

\* Every step keeps what is known of a task's first run and of the harness its runs share.
LEMMA FirstsStep ==
  ASSUME Types, Firsts, [Next]_vars
  PROVE  Firsts'
<1>1. inbox \in Seq(MessageType(Count, launches)) /\ asked \in Seq(Tasks)
  BY Parts
<1>2. CASE Quiet
  <2>1. model' = model /\ asked' = asked
    BY <1>2 DEF Quiet
  <2>2. FreshFirst(model.runs, inbox, Range(asked)) /\ Families(model.runs)
    BY DEF Firsts
  <2>3. PICK box : box = inbox'
    OBVIOUS
  <2>4. FreshFirst(model.runs, box, Range(asked))
    <3>1. ASSUME NEW m, Sent(m) PROVE FreshFirst(model.runs, box, Range(asked))
      BY <1>1, <2>2, <2>3, <3>1, OtherFirst DEF Sent
    <3>2. QED
      BY <1>2, <2>2, <2>3, <3>1 DEF Quiet
  <2>5. QED
    BY <2>1, <2>2, <2>3, <2>4 DEF Firsts
<1>3. ASSUME NEW t \in Tasks, Spawn(t) PROVE Firsts'
  <2>1. PICK h \in {"fresh", "resume"} :
          /\ h = "fresh" <=> t \notin Range(asked)
          /\ inbox' = Append(inbox, Message("spawn-agent-run", t, 0, h))
          /\ Message("spawn-agent-run", t, 0, h) \in MessageType(Count, launches)
          /\ asked' = Append(asked, t) /\ UNCHANGED model
    BY <1>3, SpawnFacts
  <2>2. PICK m : m = Message("spawn-agent-run", t, 0, h)
    OBVIOUS
  <2>3. m.tag = "spawn-agent-run" /\ m.about = t /\ m.how = h
    BY <2>2 DEF Message
  <2>4. PICK box, all : box = inbox' /\ all = Range(asked')
    OBVIOUS
  <2>5. all = Range(asked) \cup {t}
    <3>1. PICK a : a = Append(asked, t)
      OBVIOUS
    <3>2. /\ Len(asked) \in Nat /\ DOMAIN asked = 1..Len(asked)
          /\ DOMAIN a = 1..(Len(asked) + 1)
          /\ a[Len(asked) + 1] = t /\ \A i \in 1..Len(asked) : a[i] = asked[i]
          /\ \A i \in 1..(Len(asked) + 1) : i \in 1..Len(asked) \/ i = Len(asked) + 1
      BY <1>1, <3>1
    <3>3. Len(asked) + 1 \in 1..(Len(asked) + 1)
          /\ 1..Len(asked) \subseteq 1..(Len(asked) + 1)
      BY <3>2
    <3>4. Range(a) = Range(asked) \cup {t}
      BY <3>2, <3>3 DEF Range
    <3>5. QED
      BY <2>1, <2>4, <3>1, <3>4
  <2>6. FreshFirst(model.runs, inbox, Range(asked)) /\ Families(model.runs)
    BY DEF Firsts
  <2>7. FreshFirst(model.runs, box, all)
    BY <1>1, <2>1, <2>2, <2>3, <2>4, <2>5, <2>6, AskFirst
  <2>8. model' = model
    BY <2>1
  <2>9. QED
    BY <2>4, <2>6, <2>7, <2>8 DEF Firsts
<1>4. CASE Restart
  <2>1. model' = model /\ asked' = asked /\ inbox' = <<>>
    BY <1>4 DEF Restart
  <2>2. QED
    BY <2>1 DEF Firsts, FreshFirst
<1>5. QED
  BY <1>2, <1>3, <1>4, ReduceFirsts, OthersQuiet

\* The sessions named go on being those of their task if the sessions of a task
\* are never dropped, nor its runs, and each new name is of its task.
OfEffect(rs, th, e) == OfTask(rs, th, e.run, e.session)
OfMessage(rs, th, m) == m.tag = "record-session" => OfTask(rs, th, m.about, m.session)

\* A step that adds only effects and messages about the known sessions of a task keeps
\* Sessions.
LEMMA SessionsKept ==
  ASSUME Sessions, NEW rs, NEW th, NEW ps, rs = model'.runs, th = threads', ps = procs',
         \A r, s : OfTask(model.runs, threads, r, s) => OfTask(rs, th, r, s),
         NEW X, From(effects', effects, X), \A e \in X : OfEffect(rs, th, e),
         NEW Y, From(inbox', inbox, Y), \A m \in Y : OfMessage(rs, th, m),
         \A r \in DOMAIN rs : OfTask(rs, th, r, rs[r].session),
         \A p \in DOMAIN ps : OfTask(rs, th, ps[p].run, ps[p].session)
  PROVE  Sessions'
<1>1. PICK fx, box : fx = effects' /\ box = inbox'
  OBVIOUS
<1>2. \A i \in DOMAIN fx : OfTask(rs, th, fx[i].run, fx[i].session)
  <2>1. \A i \in DOMAIN effects : OfTask(rs, th, effects[i].run, effects[i].session)
    BY DEF Sessions
  <2>2. From(fx, effects, X)
    BY <1>1
  <2>3. QED
    BY <2>1, <2>2 DEF From, OfEffect
<1>3. \A i \in DOMAIN box : box[i].tag = "record-session" =>
        OfTask(rs, th, box[i].about, box[i].session)
  <2>1. \A i \in DOMAIN inbox : inbox[i].tag = "record-session" =>
          OfTask(rs, th, inbox[i].about, inbox[i].session)
    BY DEF Sessions
  <2>2. From(box, inbox, Y)
    BY <1>1
  <2>3. QED
    BY <2>1, <2>2 DEF From, OfMessage
<1>4. QED
  BY <1>1, <1>2, <1>3 DEF Sessions

\* A step that keeps the runs and the sessions, and may send a message.
LEMMA SessionsSteady ==
  ASSUME Types, Sessions, UNCHANGED <<model, threads>>,
         SameProcs(procs, procs', Count, launches) \/ DOMAIN procs' = {},
         From(effects', effects, {}),
         NEW Y, From(inbox', inbox, Y), \A m \in Y : OfMessage(model.runs, threads, m)
  PROVE  Sessions'
<1>1. PICK rs, th, ps : rs = model'.runs /\ th = threads' /\ ps = procs'
  OBVIOUS
<1>2. rs = model.runs /\ th = threads
  BY <1>1
<1>3. \A r \in DOMAIN rs : OfTask(rs, th, r, rs[r].session)
  BY <1>2 DEF Sessions
<1>4. \A p \in DOMAIN ps : OfTask(rs, th, ps[p].run, ps[p].session)
  BY <1>1, <1>2 DEF Sessions, SameProcs
<1>5. \A r, s : OfTask(model.runs, threads, r, s) => OfTask(rs, th, r, s)
  BY <1>2
<1>6. (\A e \in {} : OfEffect(rs, th, e)) /\ (\A m \in Y : OfMessage(rs, th, m))
  BY <1>2
<1>7. QED
  BY <1>1, <1>3, <1>4, <1>5, <1>6, SessionsKept

\* The loop's turn: a new run has no session yet, a recorded one is the
\* message's, and a start takes the run's.
LEMMA SessionsReduce ==
  ASSUME Types, Sessions, Reduce
  PROVE  Sessions'
<1>1. PICK m, new, n : Turn(m, new, n)
  BY ReduceFacts
<1>2. /\ Count \in Nat /\ launches \in Nat /\ DOMAIN model.runs = 1..Count
      /\ inbox \in Seq(MessageType(Count, launches))
      /\ effects \in Seq(EffectType(Count, launches, procs))
  BY Parts
<1>3. /\ m \in MessageType(Count, launches) /\ inbox # <<>> /\ m = inbox[1]
      /\ n = Len(model'.runs) /\ n \in Nat /\ n >= Count /\ Updated(model', m)
      /\ inbox' = Tail(inbox) \o Sends(m) /\ effects' = effects \o Commands(model, m)
      /\ threads' = threads /\ procs' = procs
  BY <1>1 DEF Turn, machine
<1>4. PICK tail, rs, c, d, k :
        tail = Tail(inbox) /\ rs = model'.runs /\ c = Commands(model, m) /\ d = Sends(m) /\ k = Count
  OBVIOUS
<1>5. /\ rs \in Seq(RunType(launches)) /\ DOMAIN rs = 1..n /\ 1..k \subseteq 1..n
      /\ \A r \in 1..k : Kept(model.runs, rs, m, r)
      /\ m.tag # "spawn-agent-run" => n = k
      /\ m.tag = "spawn-agent-run" => n = k + 1 /\ rs[k + 1].session = 0
  <2>1. PICK u : u = model'
    OBVIOUS
  <2>2. Updated(u, m) /\ rs = u.runs
    BY <1>3, <1>4, <2>1
  <2>3. rs \in Seq(RunType(launches)) /\ \A r \in 1..k : Kept(model.runs, rs, m, r)
    BY <1>4, <2>2 DEF Updated
  <2>4. DOMAIN rs = 1..n
    BY <1>3, <1>4, <2>3
  <2>5. 1..k \subseteq 1..n
    BY <1>2, <1>3, <1>4
  <2>6. m.tag # "spawn-agent-run" => n = k
    BY <1>3, <1>4, <2>2 DEF Updated
  <2>7. m.tag = "spawn-agent-run" => n = k + 1 /\ rs[k + 1].session = 0
    BY <1>3, <1>4, <2>2 DEF Updated
  <2>8. QED
    BY <2>3, <2>4, <2>5, <2>6, <2>7
<1>6. \A r, s : OfTask(model.runs, threads, r, s) => OfTask(rs, threads, r, s)
  BY <1>2, <1>4, <1>5 DEF OfTask, Kept
<1>7. 1 \in DOMAIN inbox
  BY <1>2, <1>3
<1>8. ASSUME NEW r \in DOMAIN rs PROVE OfTask(rs, threads, r, rs[r].session)
  <2>1. CASE r \in 1..k
    <3>1. OfTask(rs, threads, r, model.runs[r].session)
      BY <1>2, <1>4, <1>6, <2>1 DEF Sessions
    <3>2. m.tag = "record-session" => OfTask(rs, threads, m.about, m.session)
      BY <1>3, <1>6, <1>7 DEF Sessions
    <3>3. QED
      BY <1>5, <2>1, <3>1, <3>2 DEF Kept
  <2>2. CASE r \notin 1..k
    <3>1. r = k + 1 /\ rs[r].session = 0
      BY <1>2, <1>4, <1>5, <2>2
    <3>2. QED
      BY <3>1 DEF OfTask
  <2>3. QED
    BY <2>1, <2>2
<1>9. \A p \in DOMAIN procs : OfTask(rs, threads, procs[p].run, procs[p].session)
  BY <1>6 DEF Sessions
<1> DEFINE X == {c[j] : j \in DOMAIN c}
<1>10. From(effects', effects, X)
  <2>1. c \in Seq(EffectType(Count, launches, procs))
    BY <1>3, <1>4, CommandFacts
  <2>2. \A j \in DOMAIN c : c[j] \in X
    OBVIOUS
  <2> HIDE DEF X
  <2>3. From(effects \o c, effects, X)
    BY <1>2, <2>1, <2>2, FromFacts
  <2>4. QED
    BY <1>3, <1>4, <2>3
<1>11. ASSUME NEW e \in X PROVE OfEffect(rs, threads, e)
  <2>1. m.tag \in {"launch-agent-run", "stop-agent-run"} => m.about \in 1..k
    BY <1>2, <1>3, <1>4, MessageFacts
  <2>2. CASE m.tag = "launch-agent-run"
    <3>1. e.run = m.about /\ e.session = model.runs[m.about].session
      <4>1. c = <<[of |-> "start", run |-> m.about, session |-> model.runs[m.about].session,
                   at |-> "spawn", proc |-> 0]>>
        BY <1>4, <2>2 DEF Commands
      <4>2. QED
        BY <1>11, <4>1
    <3>2. QED
      BY <1>2, <1>4, <1>6, <2>1, <2>2, <3>1 DEF Sessions, OfEffect
  <2>3. CASE m.tag = "stop-agent-run"
    <3>1. e.run = m.about /\ e.session = 0
      <4>1. c = <<[of |-> "signal", run |-> m.about, session |-> 0, at |-> "signal", proc |-> 0]>>
        BY <1>4, <2>3 DEF Commands
      <4>2. QED
        BY <1>11, <4>1
    <3>2. QED
      BY <1>5, <2>1, <2>3, <3>1 DEF OfTask, OfEffect
  <2>4. CASE m.tag \notin {"launch-agent-run", "stop-agent-run"}
    BY <1>4, <1>11, <2>4 DEF Commands
  <2>5. QED
    BY <2>2, <2>3, <2>4
<1> DEFINE Y == {d[j] : j \in DOMAIN d}
<1>12. From(inbox', inbox, Y)
  <2>1. d \in Seq(MessageType(Count, launches)) /\ tail \in Seq(MessageType(Count, launches))
    BY <1>2, <1>3, <1>4, CommandFacts
  <2>2. \A j \in DOMAIN d : d[j] \in Y
    OBVIOUS
  <2> HIDE DEF Y
  <2>3. From(tail \o d, tail, Y)
    BY <2>1, <2>2, FromFacts
  <2>4. Less(tail, inbox, 1)
    BY <1>3, <1>4, Removed
  <2>5. From(tail, inbox, {})
    BY <1>2, <2>4, FromFacts
  <2>6. From(tail \o d, inbox, Y)
    BY <2>3, <2>5, FromMore
  <2>7. QED
    BY <1>3, <1>4, <2>6
<1>13. ASSUME NEW x \in Y PROVE OfMessage(rs, threads, x)
  <2>0. PICK y : y = About("agent-run-finished", m.about)
    OBVIOUS
  <2>1. x.tag = "agent-run-finished"
    <3>1. d = <<y>> \/ d = <<>>
      BY <1>4, <2>0 DEF Sends
    <3>2. x = y
      BY <1>13, <3>1
    <3>3. QED
      BY <2>0, <3>2 DEF About, Message
  <2>2. QED
    BY <2>1 DEF OfMessage
<1> HIDE DEF X, Y
<1>14. PICK th, ps : th = threads' /\ ps = procs'
  OBVIOUS
<1>15. th = threads /\ ps = procs
  BY <1>3, <1>14
<1>16. QED
  BY <1>4, <1>6, <1>8, <1>9, <1>10, <1>11, <1>12, <1>13, <1>14, <1>15, SessionsKept

\* A process that starts: its session is one of its task's from now on.
LEMMA SessionsStart ==
  ASSUME Types, Sessions, NEW i, StartProcess(i)
  PROVE  Sessions'
<1>1. PICK x, s : Began(i, x, s)
  BY StartFacts
<1> DEFINE e == effects[i]
           t == TaskOf(e.run)
<1>2. /\ i \in DOMAIN effects /\ s = Session(e, model.runs[e.run], launches + 1)
      /\ threads' = IF s = 0 \/ s \in Range(threads[t]) THEN threads
                    ELSE [threads EXCEPT ![t] = Append(threads[t], s)]
      /\ x = [e EXCEPT !.at = "register", !.proc = launches + 1]
      /\ effects' = [effects EXCEPT ![i] = x]
      /\ DOMAIN procs' = DOMAIN procs \cup {launches + 1}
      /\ procs'[launches + 1] = [run |-> e.run, session |-> s, is |-> "up"]
      /\ \A p \in DOMAIN procs : procs'[p] = procs[p]
      /\ UNCHANGED <<model, inbox>>
  BY <1>1 DEF Began
<1>3. PICK rs, th, ps, fx :
        rs = model'.runs /\ th = threads' /\ ps = procs' /\ fx = effects'
  OBVIOUS
<1>4. rs = model.runs
  BY <1>2, <1>3
<1>5. /\ e \in EffectType(Count, launches, procs) /\ DOMAIN model.runs = 1..Count
      /\ effects \in Seq(EffectType(Count, launches, procs))
      /\ threads \in [Tasks -> Seq(1..launches)] /\ launches \in Nat
      /\ inbox \in Seq(MessageType(Count, launches))
  BY <1>2, Parts DEF Types
<1>6. e.run \in 1..Count
  BY <1>5 DEF EffectType
<1>7. t \in Tasks /\ t = rs[e.run].task
  BY <1>4, <1>6, EntryFacts DEF TaskOf
<1>8. x.run = e.run /\ x.session = e.session
  <2>1. e \in [of : {"start", "signal"}, run : 1..Count, session : 0..launches,
               at : {"spawn", "register", "signal"}, proc : 0..launches]
    BY <1>5 DEF EffectType
  <2> HIDE DEF e
  <2>2. QED
    BY <1>2, <2>1
<1> HIDE DEF e
<1>9. (\A u \in Tasks : Range(threads[u]) \subseteq Range(th[u])) /\ (s = 0 \/ s \in Range(th[t]))
  <2>1. CASE s = 0 \/ s \in Range(threads[t])
    BY <1>2, <1>3, <2>1
  <2>2. CASE ~(s = 0 \/ s \in Range(threads[t]))
    <3>1. PICK b : b = Append(threads[t], s)
      OBVIOUS
    <3>2. threads[t] \in Seq(1..launches)
      BY <1>5, <1>7
    <3>3. /\ Len(threads[t]) + 1 \in DOMAIN b /\ b[Len(threads[t]) + 1] = s
          /\ \A j \in DOMAIN threads[t] : j \in DOMAIN b /\ b[j] = threads[t][j]
      BY <3>1, <3>2
    <3>4. Range(threads[t]) \subseteq Range(b) /\ s \in Range(b)
      BY <3>3 DEF Range
    <3>5. th[t] = b /\ \A u \in Tasks : u # t => th[u] = threads[u]
      BY <1>2, <1>3, <1>5, <1>7, <2>2, <3>1
    <3>6. QED
      BY <3>4, <3>5
  <2>3. QED
    BY <2>1, <2>2
<1> HIDE DEF t
<1>10. \A r \in DOMAIN rs : rs[r].task \in Tasks
  <2>1. \A r \in 1..Count : model.runs[r] \in RunType(launches)
    BY Parts
  <2>2. QED
    BY <1>4, <1>5, <2>1 DEF RunType
<1>11. \A r, z : OfTask(model.runs, threads, r, z) => OfTask(rs, th, r, z)
  BY <1>4, <1>9, <1>10 DEF OfTask
<1>12. \A r \in DOMAIN rs : OfTask(rs, th, r, rs[r].session)
  BY <1>4, <1>11 DEF Sessions
<1>13. ASSUME NEW p \in DOMAIN ps PROVE OfTask(rs, th, ps[p].run, ps[p].session)
  <2>1. CASE p = launches + 1
    <3>1. ps[p].run = e.run /\ ps[p].session = s
      BY <1>2, <1>3, <2>1
    <3>2. QED
      BY <1>4, <1>5, <1>6, <1>7, <1>9, <3>1 DEF OfTask
  <2>2. CASE p # launches + 1
    <3>1. p \in DOMAIN procs /\ ps[p] = procs[p]
      BY <1>2, <1>3, <1>13, <2>2
    <3>2. QED
      BY <1>11, <3>1 DEF Sessions
  <2>3. QED
    BY <2>1, <2>2
<1>14. From(fx, effects, {x})
  <2>1. DOMAIN fx = DOMAIN effects /\ \A j \in DOMAIN effects : fx[j] = IF j = i THEN x ELSE effects[j]
    BY <1>2, <1>3, <1>5
  <2>2. QED
    BY <2>1 DEF From
<1>15. OfEffect(rs, th, x)
  <2>1. OfTask(model.runs, threads, e.run, e.session)
    BY <1>2 DEF Sessions, e
  <2>2. QED
    BY <1>8, <1>11, <2>1 DEF OfEffect
<1>16. From(inbox', inbox, {})
  BY <1>2, <1>5, FromFacts
<1>17. (\A y \in {x} : OfEffect(rs, th, y)) /\ (\A y \in {} : OfMessage(rs, th, y))
  BY <1>15
<1>18. QED
  BY <1>3, <1>11, <1>12, <1>13, <1>14, <1>16, <1>17, SessionsKept

\* Every step keeps every session named a session of its task.
LEMMA SessionsStep ==
  ASSUME Types, Sessions, [Next]_vars
  PROVE  Sessions'
<1>1. /\ effects \in Seq(EffectType(Count, launches, procs)) /\ launches \in Nat
      /\ inbox \in Seq(MessageType(Count, launches))
  BY Parts
<1>2. SameProcs(procs, procs, Count, launches)
  BY SameSelf
<1>3. From(effects, effects, {}) /\ From(<<>>, effects, {}) /\ From(inbox, inbox, {})
      /\ From(<<>>, inbox, {})
  BY <1>1, FromFacts
<1>4. \A x : From(Append(inbox, x), inbox, {x})
  BY <1>1, FromFacts
<1>5. ASSUME NEW x, OfMessage(model.runs, threads, x), inbox' = Append(inbox, x),
             UNCHANGED <<model, threads>>, From(effects', effects, {}),
             SameProcs(procs, procs', Count, launches)
      PROVE  Sessions'
  <2>1. From(inbox', inbox, {x})
    BY <1>4, <1>5
  <2>2. \A y \in {x} : OfMessage(model.runs, threads, y)
    BY <1>5
  <2>3. QED
    BY <1>5, <2>1, <2>2, SessionsSteady
<1>6. ASSUME inbox' = inbox \/ inbox' = <<>>,
             UNCHANGED <<model, threads>>, From(effects', effects, {}),
             SameProcs(procs, procs', Count, launches) \/ DOMAIN procs' = {}
      PROVE  Sessions'
  <2>1. From(inbox', inbox, {})
    BY <1>3, <1>6
  <2>2. \A y \in {} : OfMessage(model.runs, threads, y)
    OBVIOUS
  <2>3. QED
    BY <1>6, <2>1, <2>2, SessionsSteady
<1>7. ASSUME NEW i \in DOMAIN effects, effects' = RemoveAt(effects, i)
      PROVE  From(effects', effects, {})
  <2>1. Less(RemoveAt(effects, i), effects, i)
    BY Removed
  <2>2. QED
    BY <1>1, <1>7, <2>1, FromFacts
<1>8. ASSUME NEW x, x.tag # "record-session" PROVE OfMessage(model.runs, threads, x)
  BY <1>8 DEF OfMessage
<1>9. ASSUME NEW t \in Tasks, Spawn(t) PROVE Sessions'
  <2>1. PICK h \in {"fresh", "resume"} :
          /\ inbox' = Append(inbox, Message("spawn-agent-run", t, 0, h))
          /\ UNCHANGED <<model, effects, machine>>
    BY <1>9, SpawnFacts
  <2>2. PICK m : m = Message("spawn-agent-run", t, 0, h)
    OBVIOUS
  <2>3. m.tag # "record-session"
    BY <2>2 DEF Message
  <2>4. UNCHANGED <<model, effects, procs, threads>>
    BY <2>1 DEF machine
  <2>5. QED
    BY <1>2, <1>3, <1>5, <1>8, <2>1, <2>2, <2>3, <2>4
<1>10. CASE \/ \E r \in DOMAIN model.runs : Stop(r)
            \/ \E c \in Caps : SetMaxConcurrentRuns(c)
            \/ \E h \in Harnesses : SetWorkerHarness(h)
  <2>1. PICK m \in MessageType(Count, launches) :
          /\ inbox' = Append(inbox, m)
          /\ m.tag \in {"stop-agent-run", "set-max-concurrent-runs", "set-worker-harness"}
          /\ UNCHANGED <<model, effects, machine>>
    BY <1>10, OutsideFacts
  <2>2. UNCHANGED <<model, effects, procs, threads>>
    BY <2>1 DEF machine
  <2>3. QED
    BY <1>2, <1>3, <1>5, <1>8, <2>1, <2>2
<1>11. ASSUME NEW i, LaunchRun(i) PROVE Sessions'
  <2>1. PICK m : m = About("launch-agent-run", launchers[i])
    OBVIOUS
  <2>2. m.tag = "launch-agent-run"
    BY <2>1 DEF About, Message
  <2>3. (inbox' = inbox \/ inbox' = Append(inbox, m)) /\ UNCHANGED <<model, effects, procs, threads>>
    BY <1>11, <2>1 DEF LaunchRun, machine
  <2>4. QED
    BY <1>2, <1>3, <1>5, <1>6, <1>8, <2>2, <2>3
<1>12. ASSUME NEW i, Register(i) PROVE Sessions'
  <2> DEFINE e == effects[i]
  <2>1. /\ i \in DOMAIN effects /\ e.at = "register" /\ effects' = RemoveAt(effects, i)
        /\ inbox' = IF procs[e.proc].session = 0 THEN inbox
                    ELSE Append(inbox, Message("record-session", e.run, procs[e.proc].session, ""))
        /\ UNCHANGED <<model, procs, threads>>
    BY <1>12 DEF Register, At, Ends, steady, world
  <2>2. e \in EffectType(Count, launches, procs)
    BY <2>1, Parts
  <2>3. e.proc \in DOMAIN procs /\ procs[e.proc].run = e.run
    BY <2>1, <2>2 DEF EffectType, OfProcess
  <2>4. From(effects', effects, {})
    BY <1>7, <2>1
  <2> HIDE DEF e
  <2>5. PICK m : m = Message("record-session", e.run, procs[e.proc].session, "")
    OBVIOUS
  <2>6. OfTask(model.runs, threads, e.run, procs[e.proc].session)
    BY <2>3 DEF Sessions
  <2>7. OfMessage(model.runs, threads, m)
    BY <2>5, <2>6 DEF OfMessage, Message
  <2>8. QED
    BY <1>2, <1>5, <1>6, <2>1, <2>4, <2>5, <2>7
<1>13. ASSUME NEW i, StartFails(i) PROVE Sessions'
  <2>1. From(effects', effects, {})
    BY <1>7, <1>13, FailFacts
  <2>2. QED
    BY <1>2, <1>6, <1>13, <2>1, FailFacts
<1>14. ASSUME NEW i, Signal(i) PROVE Sessions'
  <2>1. From(effects', effects, {})
    BY <1>7, <1>14, SignalFacts
  <2>2. QED
    BY <1>6, <1>14, <2>1, SignalFacts
<1>15. ASSUME NEW p, Exit(p) PROVE Sessions'
  BY <1>3, <1>6, <1>15, ExitFacts
<1>16. ASSUME NEW i, WatchStep(i) PROVE Sessions'
  <2>1. CASE FindRun(i) \/ SeeCancel(i)
    BY <1>3, <1>6, <2>1, WatcherMoves
  <2>2. CASE GiveUp(i) \/ SeeExit(i) \/ SeeDeath(i)
    <3>1. UNCHANGED <<model, effects, threads>> /\ SameProcs(procs, procs', Count, launches)
      BY <2>2, WatcherReports
    <3>2. PICK how \in {"exited", "stopped"} :
            inbox' = Append(inbox, Message("finish-agent-run", watchers[i].run, 0, how))
      BY <2>2, WatcherReports
    <3>3. PICK m : m = Message("finish-agent-run", watchers[i].run, 0, how)
      OBVIOUS
    <3>4. m.tag # "record-session"
      BY <3>3 DEF Message
    <3>5. QED
      BY <1>3, <1>5, <1>8, <3>1, <3>2, <3>3, <3>4
  <2>3. QED
    BY <1>16, <2>1, <2>2 DEF WatchStep
<1>17. CASE Restart
  <2>1. /\ inbox' = <<>> /\ effects' = <<>> /\ UNCHANGED <<model, threads>> /\ DOMAIN procs' = {}
    BY <1>17 DEF Restart
  <2>2. QED
    BY <1>3, <1>6, <2>1
<1>18. CASE UNCHANGED vars
  BY <1>18 DEF vars, Sessions
<1>19. QED
  BY <1>9, <1>10, <1>11, <1>12, <1>13, <1>14, <1>15, <1>16, <1>17, <1>18, SessionsReduce,
     SessionsStart DEF Next, EffectStep

\* A session is begun for a task that had none: its first run alone begins one,
\* and that run is launched once.
LEMMA BegunStart ==
  ASSUME Types, Firsts, Sessions, Orderly, Begun, NEW i, StartProcess(i)
  PROVE  Begun'
<1>1. PICK x, s : Began(i, x, s)
  BY StartFacts
<1> DEFINE e == effects[i]
           t == TaskOf(e.run)
<1>2. /\ i \in DOMAIN effects /\ e.at = "spawn"
      /\ s = Session(e, model.runs[e.run], launches + 1)
      /\ threads' = IF s = 0 \/ s \in Range(threads[t]) THEN threads
                    ELSE [threads EXCEPT ![t] = Append(threads[t], s)]
      /\ DOMAIN procs' = DOMAIN procs \cup {launches + 1}
      /\ procs'[launches + 1] = [run |-> e.run, session |-> s, is |-> "up"]
      /\ \A p \in DOMAIN procs : procs'[p] = procs[p]
      /\ UNCHANGED <<model, crashes>>
  BY <1>1 DEF Began
<1>3. PICK th, ps : th = threads' /\ ps = procs'
  OBVIOUS
<1>4. /\ Count \in Nat /\ launches \in Nat /\ DOMAIN model.runs = 1..Count
      /\ e \in EffectType(Count, launches, procs)
      /\ \A p \in DOMAIN procs : procs[p] \in ProcType(Count, launches)
      /\ threads \in [Tasks -> Seq(1..launches)]
  BY <1>2, Parts DEF Types
<1>5. e.run \in 1..Count
  BY <1>4 DEF EffectType
<1>6. t \in Tasks /\ t = model.runs[e.run].task
  BY <1>5, EntryFacts DEF TaskOf
<1>7. \/ s = 0 \/ s = e.session \/ s \in Range(threads[t])
      \/ (s = launches + 1 /\ ~model.runs[e.run].resume)
  <2> DEFINE z == Session(e, model.runs[e.run], launches + 1)
             th0 == threads[model.runs[e.run].task]
  <2>1. \/ z = 0 \/ z = e.session \/ z \in Range(th0)
        \/ (z = launches + 1 /\ ~model.runs[e.run].resume)
    BY <1>4, SessionFacts
  <2>2. z = s /\ th0 = threads[t]
    BY <1>2, <1>6
  <2> HIDE DEF z, th0, e, t
  <2>3. QED
    BY <2>1, <2>2
<1>8. e.session = 0 \/ e.session \in Range(threads[t])
  BY <1>2, <1>6 DEF Sessions, OfTask
<1> HIDE DEF e, t
<1>9. ASSUME crashes = 0, ~(s = 0 \/ s \in Range(threads[t]))
      PROVE  threads[t] = <<>> /\ ~model.runs[e.run].resume
  <2>1. ~model.runs[e.run].resume
    BY <1>7, <1>8, <1>9
  <2>2. ASSUME threads[t] # <<>> PROVE FALSE
    <3>1. PICK p \in DOMAIN procs : /\ model.runs[procs[p].run].task = t
                                    /\ ~model.runs[procs[p].run].resume
      BY <1>6, <1>9, <2>2 DEF Begun
    <3>2. PICK q \in 1..Count : q = procs[p].run
      BY <1>4, <3>1 DEF ProcType
    <3>3. q <= e.run /\ e.run <= q
      BY <1>4, <1>5, <1>6, <2>1, <3>1, <3>2 DEF Firsts, Families
    <3>4. q = e.run /\ q \in Nat
      BY <1>4, <1>5, <3>2, <3>3
    <3>5. procs[p] \in Works(q)
      BY <1>4, <3>2, <3>4, WorkKind
    <3>6. Has(procs, Works(q))
      BY <3>1, <3>5 DEF Has
    <3>7. e \in Spawns(q)
      BY <1>2, <1>4, <3>4, SpawnKind DEF e
    <3>8. Has(effects, Spawns(q))
      BY <1>2, <3>7 DEF Has, e
    <3>9. QED
      BY <3>4, <3>6, <3>8 DEF Orderly, Launches, Coming
  <2>3. QED
    BY <2>1, <2>2
<1>10. ASSUME crashes = 0, NEW u \in Tasks
       PROVE  /\ Len(th[u]) <= 1
              /\ th[u] # <<>> =>
                   \E p \in DOMAIN ps : /\ model.runs[ps[p].run].task = u
                                        /\ ~model.runs[ps[p].run].resume
  <2>1. CASE th[u] = threads[u]
    <3>1. /\ Len(threads[u]) <= 1
          /\ threads[u] # <<>> =>
               \E p \in DOMAIN procs : /\ model.runs[procs[p].run].task = u
                                       /\ ~model.runs[procs[p].run].resume
      BY <1>10 DEF Begun
    <3>2. \A p \in DOMAIN procs : p \in DOMAIN ps /\ ps[p] = procs[p]
      BY <1>2, <1>3
    <3>3. QED
      BY <2>1, <3>1, <3>2
  <2>2. CASE th[u] # threads[u]
    <3>1. u = t /\ ~(s = 0 \/ s \in Range(threads[t])) /\ th[u] = Append(threads[t], s)
      BY <1>2, <1>3, <1>4, <1>6, <2>2
    <3>2. threads[t] = <<>> /\ ~model.runs[e.run].resume
      BY <1>9, <1>10, <3>1
    <3>3. Len(th[u]) <= 1
      BY <3>1, <3>2
    <3>4. launches + 1 \in DOMAIN ps /\ ps[launches + 1].run = e.run
      BY <1>2, <1>3
    <3>5. QED
      BY <1>6, <3>1, <3>2, <3>3, <3>4
  <2>3. QED
    BY <2>1, <2>2
<1>11. QED
  BY <1>2, <1>3, <1>10 DEF Begun

\* Every step keeps the only session of a task the one its first run's process began.
LEMMA BegunStep ==
  ASSUME Types, Firsts, Sessions, Orderly, Begun, [Next]_vars
  PROVE  Begun'
\* A new run is a new number: the runs of processes stay what they are.
<1>1. CASE Reduce
  <2>1. PICK m, new, n : Turn(m, new, n)
    BY <1>1, ReduceFacts
  <2>2. /\ Updated(model', m) /\ threads' = threads /\ procs' = procs /\ crashes' = crashes
    BY <2>1 DEF Turn, machine, world
  <2>3. PICK u : u = model'
    OBVIOUS
  <2>4. \A r \in 1..Count : /\ u.runs[r].task = model.runs[r].task
                            /\ u.runs[r].resume = model.runs[r].resume
    BY <2>2, <2>3 DEF Updated, Kept
  <2>5. \A p \in DOMAIN procs : procs[p].run \in 1..Count
    <3>1. \A p \in DOMAIN procs : procs[p] \in ProcType(Count, launches)
      BY Parts
    <3>2. QED
      BY <3>1 DEF ProcType
  <2>6. QED
    BY <2>2, <2>3, <2>4, <2>5 DEF Begun
<1>2. ASSUME SameProcs(procs, procs', Count, launches), UNCHANGED <<model, threads, crashes>>
      PROVE  Begun'
  <2>1. PICK ps : ps = procs'
    OBVIOUS
  <2>2. DOMAIN ps = DOMAIN procs /\ \A p \in DOMAIN procs : ps[p].run = procs[p].run
    BY <1>2, <2>1 DEF SameProcs
  <2>3. QED
    BY <1>2, <2>1, <2>2 DEF Begun
<1>3. SameProcs(procs, procs, Count, launches)
  BY SameSelf
<1>4. ASSUME UNCHANGED <<model, threads, procs, crashes>> PROVE Begun'
  BY <1>4 DEF Begun
<1>5. CASE \/ \E t \in Tasks : Spawn(t)
           \/ \E r \in DOMAIN model.runs : Stop(r)
           \/ \E c \in Caps : SetMaxConcurrentRuns(c)
           \/ \E h \in Harnesses : SetWorkerHarness(h)
           \/ \E i \in DOMAIN launchers : LaunchRun(i)
           \/ \E i \in DOMAIN effects : Register(i) \/ StartFails(i)
  BY <1>4, <1>5 DEF Spawn, Stop, SetMaxConcurrentRuns, SetWorkerHarness, Configure, LaunchRun,
     Register, StartFails, machine, steady, world
<1>6. ASSUME NEW i, Signal(i) PROVE Begun'
  BY <1>2, <1>6, SignalFacts
<1>7. ASSUME NEW p, Exit(p) PROVE Begun'
  BY <1>2, <1>7, ExitFacts
<1>8. ASSUME NEW i, WatchStep(i) PROVE Begun'
  BY <1>2, <1>8, WatcherMoves, WatcherReports DEF WatchStep
<1>9. CASE Restart
  <2>1. crashes' = crashes + 1 /\ crashes \in Nat
    BY <1>9, Parts DEF Restart
  <2>2. crashes' # 0
    BY <2>1
  <2>3. QED
    BY <2>2 DEF Begun
<1>10. CASE UNCHANGED vars
  BY <1>4, <1>10 DEF vars
<1>11. QED
  BY <1>1, <1>5, <1>6, <1>7, <1>8, <1>9, <1>10, BegunStart DEF Next, EffectStep

\* At first no run, no session and no process exist.
LEMMA ThreadInit ==
  ASSUME Init
  PROVE  Firsts /\ Sessions /\ Begun
<1>1. /\ model.runs = <<>> /\ inbox = <<>> /\ effects = <<>> /\ procs = [p \in {} |-> 0]
      /\ threads = [t \in Tasks |-> <<>>]
  BY DEF Init
<1>2. DOMAIN model.runs = {} /\ DOMAIN inbox = {} /\ DOMAIN effects = {} /\ DOMAIN procs = {}
  BY <1>1
<1>3. Firsts
  BY <1>2 DEF Firsts, FreshFirst, Families
<1>4. Sessions
  BY <1>2 DEF Sessions
<1>5. \A t \in Tasks : threads[t] = <<>>
  BY <1>1
<1>6. Begun
  BY <1>5 DEF Begun
<1>7. QED
  BY <1>3, <1>4, <1>6

\* One task, one harness (decision-024), whatever the operator chooses and whatever
\* is stopped, fails or dies; and as long as the cap is not lowered a task's runs
\* go on in the one session its first run began, while kasi does not die.
THEOREM ThreadsAreOne == Spec /\ [][CapRaised]_vars => []OneThread
<1> DEFINE Thread == Types /\ Current /\ Orderly /\ Firsts /\ Sessions /\ Begun
<1>1. Init => Thread
  BY TypesInit, OrderInit, ThreadInit
<1>2. Thread /\ [Next]_vars /\ [CapRaised]_vars => Thread'
  BY TypesStep, OrderStep, FirstsStep, SessionsStep, BegunStep
<1>3. Thread => OneThread
  <2> SUFFICES ASSUME Thread PROVE OneThread
    OBVIOUS
  <2>1. \A q, r \in Runs :
          model.runs[q].task = model.runs[r].task => model.runs[q].harness = model.runs[r].harness
    BY DEF Runs, Firsts, Families
  <2>2. \A t \in Tasks : crashes = 0 => Len(threads[t]) <= 1
    BY DEF Begun
  <2>3. QED
    BY <2>1, <2>2 DEF OneThread
<1>4. QED
  BY <1>1, <1>2, <1>3, PTL DEF Spec
=============================================================================
