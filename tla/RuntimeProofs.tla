---------------------------- MODULE RuntimeProofs ----------------------------
(***************************************************************************)
(* Proofs about module Runtime, for every application (handlers, effects,  *)
(* subscriptions), channel capacity, number of edges and bound on failures *)
(* that satisfy the assumptions of Runtime.                                *)
(***************************************************************************)
EXTENDS Runtime, FiniteSetTheorems, TLAPS

\* A source's identity in running.
Origin(p) == [name |-> p.name, at |-> p.at]

\* What the type of holds rests on: a source that was cancelled is no longer in
\* running, and is not started a second time at the same log position.
Held ==
  /\ ~Alive => procs = {} /\ running = {}
  /\ IsFiniteSet(running)
  /\ \A r \in running : r.at <= cursor
  /\ \A p \in procs : p.kind = "source" =>
       /\ p.at <= cursor
       /\ Origin(p) \in running => p.holds <= 1
       /\ Origin(p) \notin running /\ p.at = cursor => p.name \notin Desired(model)

\* Where the reducer is in the log.
Place ==
  /\ cursor <= Len(log)
  /\ ~Alive => pc = "idle"
  /\ pc = "apply" => cursor + 1 = Len(log)
  /\ Alive /\ pc # "apply" => cursor = Len(log)
  /\ phase = "down" => cursor = 0 /\ model = Zero

\* The trail is the fold of the log, and the model one point of it.
Folded ==
  /\ Len(trail) = Len(log) + 1
  /\ trail[1] = Zero
  /\ \A i \in 1..Len(log) : trail[i + 1] = NextState(trail[i], log[i].msg)
  /\ model = trail[cursor + 1]

Inv == TypeOK /\ Held /\ Place /\ Folded
-----------------------------------------------------------------------------
\* A handler gives a state and a sequence of commands.
LEMMA HandlerType ==
  ASSUME NEW s \in State, NEW m \in Msg
  PROVE  NextState(s, m) \in State /\ NextCmds(s, m) \in Seq(Command)
BY AppAssumption DEF NextState, NextCmds

\* The absence of an envelope is typed as one.
LEMMA NobodyType == Nobody \in Envelope
<1>1. (CHOOSE m \in Msg : TRUE) \in Msg
  BY AppAssumption
<1>2. QED
  BY <1>1 DEF Nobody, Envelope, Edge

\* Finitely many names born at one place are finitely many sources.
LEMMA BornAreFinite ==
  ASSUME NEW S, IsFiniteSet(S), NEW k
  PROVE  IsFiniteSet({[name |-> i, at |-> k] : i \in S})
<1> DEFINE T == {[name |-> i, at |-> k] : i \in S}
           f == [i \in S |-> [name |-> i, at |-> k]]
<1>1. f \in [S -> T]
  OBVIOUS
<1>2. \A t \in T : \E i \in S : f[i] = t
  OBVIOUS
<1>3. f \in Surjection(S, T)
  BY <1>1, <1>2 DEF Surjection
<1>4. QED
  BY <1>3, FS_Surjection

\* What is being unwound are processes, and a source among them is one that runs.
LEMMA UnwindingType ==
  ASSUME TypeOK, Held, NEW r \in running, NEW p \in Unwinding(r)
  PROVE  /\ p \in ProcType
         /\ p.kind = "source" =>
              \E q \in procs : q.kind = "source" /\ Origin(q) = r /\ Origin(p) = r
<1>0. r \in [name : Source, at : Nat]
  BY DEF TypeOK
<1>1. CASE \E q \in procs : q.kind = "source" /\ q.name = r.name /\ q.at = r.at
  <2>1. PICK q \in procs : /\ q.kind = "source" /\ q.name = r.name /\ q.at = r.at
                           /\ p = [q EXCEPT !.holds = @ + 1]
    BY <1>1 DEF Unwinding
  <2>2. q \in ProcType
    BY DEF TypeOK
  <2>3. Origin(q) = r
    BY <1>0, <2>1 DEF Origin
  <2>4. q.holds \in 0..1
    BY <2>1, <2>2, <2>3 DEF Held, ProcType
  <2>5. p \in ProcType /\ p.kind = "source" /\ Origin(p) = Origin(q)
    BY <2>1, <2>2, <2>4 DEF ProcType, Origin
  <2>6. QED
    BY <2>1, <2>3, <2>5
<1>2. CASE ~ \E q \in procs : q.kind = "source" /\ q.name = r.name /\ q.at = r.at
  <2>1. p = Goroutine("reaper", r.name, r.at, 0, <<>>, 1)
    BY <1>2 DEF Unwinding
  <2>2. r.name \in Source /\ r.at \in Nat /\ <<>> \in Seq(Msg)
    BY <1>0
  <2>3. p \in ProcType
    BY <2>1, <2>2 DEF Goroutine, ProcType
  <2>4. QED
    BY <2>1, <2>3 DEF Goroutine
<1>3. QED
  BY <1>1, <1>2

\* diffSubscriptions keeps the types and the source bookkeeping, and leaves
\* exactly the declared sources running, each once.
LEMMA DiffStep ==
  ASSUME TypeOK, Held, Alive, NEW settled \in {0, 1}, DiffSubscriptions(settled),
         cursor' = cursor, model' = model, Alive'
  PROVE  /\ procs' \subseteq ProcType
         /\ running' \subseteq [name : Source, at : Nat]
         /\ pending' \in Int
         /\ Held'
         /\ {r.name : r \in running'} = Desired(model)
<1> DEFINE stops  == {r \in running : r.name \notin Desired(model)}
           starts == Desired(model) \ {r.name : r \in running}
           born   == {Goroutine("source", i, cursor, 0, <<Prompt(i)>>,
                                IF i \in AwaitSource THEN 1 ELSE 0) : i \in starts}
           other  == {p \in procs : p.kind # "source" \/ Origin(p) \notin stops}
           fresh  == {[name |-> i, at |-> cursor] : i \in starts}
           unwound == UNION {Unwinding(r) : r \in stops}
<1>1. /\ running' = (running \ stops) \cup fresh
      /\ procs' = other \cup born \cup unwound
      /\ pending' = pending + Cardinality(stops)
                    + Cardinality(starts \cap AwaitSource) - settled
  BY DEF DiffSubscriptions, Origin
<1>2. /\ Desired(model) \subseteq Source /\ IsFiniteSet(Desired(model))
      /\ running \subseteq [name : Source, at : Nat] /\ procs \subseteq ProcType
      /\ cursor \in Nat /\ pending \in Int
  BY AppAssumption DEF TypeOK
<1>3. IsFiniteSet(stops) /\ IsFiniteSet(starts) /\ IsFiniteSet(starts \cap AwaitSource)
  BY <1>2, FS_Subset DEF Held
<1>4. /\ running' \subseteq [name : Source, at : Nat]
      /\ pending' \in Int
  BY <1>1, <1>2, <1>3, FS_CardinalityType
<1>5. IsFiniteSet(running')
  <2>1. IsFiniteSet(running \ stops)
    BY FS_Subset DEF Held
  <2>2. IsFiniteSet(fresh)
    BY <1>3, BornAreFinite
  <2>3. QED
    BY <1>1, <2>1, <2>2, FS_Union
<1>6. ASSUME NEW p \in born
      PROVE  p \in ProcType /\ p.kind = "source" /\ p.holds <= 1 /\ Origin(p) \in fresh
             /\ p.at = cursor
  <2>1. PICK i \in starts : p = Goroutine("source", i, cursor, 0, <<Prompt(i)>>,
                                          IF i \in AwaitSource THEN 1 ELSE 0)
    OBVIOUS
  <2>2. i \in Source /\ <<Prompt(i)>> \in Seq(Msg)
    BY <1>2, AppAssumption
  <2>3. QED
    BY <1>2, <2>1, <2>2 DEF Goroutine, ProcType, Origin
<1>7. ASSUME NEW p \in unwound
      PROVE  p \in ProcType /\ (p.kind = "source" => Origin(p) \in stops)
  <2>1. PICK r \in stops : p \in Unwinding(r)
    OBVIOUS
  <2>2. r \in running
    OBVIOUS
  <2>3. /\ p \in ProcType
        /\ p.kind = "source" =>
             \E q \in procs : q.kind = "source" /\ Origin(q) = r /\ Origin(p) = r
    BY <2>1, <2>2, UnwindingType
  <2>4. p.kind = "source" => Origin(p) = r
    BY <2>3
  <2>5. QED
    BY <2>1, <2>3, <2>4
<1>8. procs' \subseteq ProcType
  BY <1>1, <1>2, <1>6, <1>7
<1>9. {r.name : r \in running'} = Desired(model)
  <2>1. ASSUME NEW r \in running' PROVE r.name \in Desired(model)
    BY <1>1
  <2>2. ASSUME NEW i \in Desired(model) PROVE \E r \in running' : r.name = i
    <3>1. CASE i \in starts
      <4>1. [name |-> i, at |-> cursor] \in running'
        BY <1>1, <3>1
      <4>2. QED
        BY <4>1
    <3>2. CASE i \notin starts
      <4>1. PICK r \in running : r.name = i
        BY <3>2
      <4>2. r \in running'
        BY <1>1, <4>1
      <4>3. QED
        BY <4>1, <4>2
    <3>3. QED
      BY <3>1, <3>2
  <2>3. QED
    BY <2>1, <2>2
<1>10. \A r \in running' : r.at <= cursor
  BY <1>1, <1>2 DEF Held
<1>11. ASSUME NEW p \in procs', p.kind = "source"
       PROVE  /\ p.at <= cursor
              /\ Origin(p) \in running' => p.holds <= 1
              /\ Origin(p) \notin running' /\ p.at = cursor => p.name \notin Desired(model)
  <2>1. p \in ProcType
    BY <1>8
  <2>2. CASE p \in other
    <3>1. p \in procs /\ Origin(p) \notin stops
      BY <2>2, <1>11
    <3>2. CASE Origin(p) \in running
      BY <1>1, <3>1, <3>2, <1>11 DEF Held
    <3>3. CASE Origin(p) \notin running
      <4>1. p.at <= cursor /\ (p.at = cursor => p.name \notin Desired(model))
        BY <3>1, <3>3, <1>11 DEF Held
      <4>2. Origin(p) \notin fresh
        BY <4>1 DEF Origin
      <4>3. QED
        BY <1>1, <3>3, <4>1, <4>2
    <3>4. QED
      BY <3>2, <3>3
  <2>3. CASE p \in born
    BY <1>1, <1>2, <1>6, <2>3
  <2>4. CASE p \in unwound
    <3>1. Origin(p) \in stops
      BY <1>7, <2>4, <1>11
    <3>2. p.name \notin Desired(model) /\ Origin(p) \in running
      BY <3>1 DEF Origin
    <3>3. p.at <= cursor
      BY <3>2, <1>2 DEF Held, Origin
    <3>4. Origin(p) \notin fresh
      BY <3>2 DEF Origin
    <3>5. QED
      BY <1>1, <3>1, <3>2, <3>3, <3>4
  <2>5. QED
    BY <1>1, <2>2, <2>3, <2>4
<1>12. Held'
  BY <1>5, <1>10, <1>11 DEF Held
<1>13. QED
  BY <1>4, <1>8, <1>9, <1>12
-----------------------------------------------------------------------------
\* The invariant holds at first.
LEMMA InvInit == Init => Inv
<1> SUFFICES ASSUME Init PROVE Inv
  OBVIOUS
<1>1. Nobody \in Envelope /\ Zero \in State
  BY NobodyType, AppAssumption
<1>2. TypeOK
  BY <1>1 DEF Init, TypeOK
<1>3. Held
  BY FS_EmptySet DEF Init, Held
<1>4. Place
  BY DEF Init, Place
<1>5. Folded
  BY DEF Init, Folded
<1>6. QED
  BY <1>2, <1>3, <1>4, <1>5 DEF Inv

\* The entry the reducer or a replay folds next has the type of a message.
LEMMA NextEntryType ==
  ASSUME TypeOK, cursor < Len(log)
  PROVE  log[cursor + 1].msg \in Msg
<1>1. cursor + 1 \in 1..Len(log) /\ log \in Seq(Envelope)
  BY DEF TypeOK
<1>2. log[cursor + 1] \in Envelope
  BY <1>1
<1>3. QED
  BY <1>2 DEF Envelope

\* Every step keeps the types.
LEMMA TypeStep == Inv /\ [Next]_vars => TypeOK'
<1> SUFFICES ASSUME Inv, [Next]_vars PROVE TypeOK'
  OBVIOUS
<1> USE DEF Inv
<1>a. Nobody \in Envelope /\ Zero \in State /\ NoCaller \in Edge
  BY NobodyType, AppAssumption DEF Edge
<1>1. CASE Boot
  BY <1>1, <1>a DEF Boot, TypeOK, durable, budget
<1>2. CASE Replay
  <2>1. model' \in State
    BY <1>2, NextEntryType, HandlerType DEF Replay, TypeOK, Place
  <2>2. QED
    BY <1>2, <2>1 DEF Replay, TypeOK, durable, budget
<1>3. CASE GoLive
  BY <1>3 DEF GoLive, TypeOK, durable, budget
<1>4. CASE StartSubscriptions
  <2>1. Alive /\ Alive' /\ cursor' = cursor /\ model' = model /\ DiffSubscriptions(0)
    BY <1>4 DEF StartSubscriptions, Alive
  <2>2. /\ procs' \subseteq ProcType /\ running' \subseteq [name : Source, at : Nat]
        /\ pending' \in Int
    BY <2>1, DiffStep
  <2>3. QED
    BY <1>4, <2>2 DEF StartSubscriptions, TypeOK, durable, budget
<1>5. CASE Take
  BY <1>5 DEF Take, TypeOK, durable, budget
<1>6. CASE AppendLog
  <2>1. NextState(trail[Len(trail)], current.msg) \in State
    BY HandlerType DEF TypeOK, Folded, Envelope
  <2>2. QED
    BY <1>6, <2>1 DEF AppendLog, TypeOK, budget
<1>7. CASE Apply
  <2>1. model' \in State /\ todo' \in Seq(Command)
    BY <1>7, NextEntryType, HandlerType DEF Apply, TypeOK, Place
  <2>2. QED
    BY <1>7, <2>1 DEF Apply, TypeOK, durable, budget
<1>8. CASE InterpretSend
  <2>1. Head(todo) \in Command /\ Tail(todo) \in Seq(Command)
    BY <1>8 DEF InterpretSend, TypeOK
  <2>2. Head(todo).arg \in Msg
    BY <1>8, <2>1 DEF InterpretSend, Command
  <2>3. [msg |-> Head(todo).arg, cause |-> cursor, from |-> NoCaller] \in Envelope
    BY <1>a, <2>2 DEF Envelope, TypeOK
  <2>4. QED
    BY <1>8, <2>1, <2>3 DEF InterpretSend, TypeOK, durable, budget
<1>9. CASE InterpretEffect
  <2>1. Head(todo) \in Command /\ Tail(todo) \in Seq(Command) /\ Len(todo) \in Nat
    BY <1>9 DEF InterpretEffect, TypeOK
  <2>2. Head(todo).arg \in Effect
    BY <1>9, <2>1 DEF InterpretEffect, Command
  <2>3. Goroutine("effect", Head(todo).arg, cursor, Len(todo),
                  Reports(Head(todo).arg), 1) \in ProcType
    BY <2>1, <2>2, AppAssumption DEF Goroutine, ProcType, TypeOK
  <2>4. QED
    BY <1>9, <2>1, <2>3 DEF InterpretEffect, TypeOK, durable, budget
<1>10. CASE FinishMessage
  <2>1. Alive /\ Alive' /\ cursor' = cursor /\ model' = model /\ DiffSubscriptions(1)
    BY <1>10 DEF FinishMessage, Alive, Place
  <2>2. /\ procs' \subseteq ProcType /\ running' \subseteq [name : Source, at : Nat]
        /\ pending' \in Int
    BY <2>1, DiffStep
  <2>3. QED
    BY <1>10, <1>a, <2>2 DEF FinishMessage, Release, TypeOK, Envelope, Edge, durable, budget
<1>11. CASE AppendFails
  <2>1. caller' \in [Callers -> {"idle", "waiting", "returned"}]
    BY <1>11 DEF AppendFails, Release, TypeOK, Envelope, Edge
  <2>2. current' \in Envelope
    BY <1>11, <1>a DEF AppendFails, Release
  <2>3. QED
    BY <1>11, <2>1, <2>2 DEF AppendFails, Release, TypeOK, durable
<1>12. CASE Stop
  BY <1>12 DEF Stop, TypeOK, durable
<1>13. CASE LoopExit
  BY <1>13 DEF LoopExit, TypeOK, durable, budget
<1>14. CASE Crash \/ Exit
  <2>1. Die /\ crashes' \in Nat
    BY <1>14 DEF Crash, Exit, TypeOK
  <2>2. inbox' = <<>> /\ todo' = <<>> /\ procs' = {} /\ running' = {} /\ caller' = [c \in Callers |-> "idle"]
    BY <2>1 DEF Die
  <2>3. /\ inbox' \in Seq(Envelope) /\ todo' \in Seq(Command)
        /\ caller' \in [Callers -> {"idle", "waiting", "returned"}]
    BY <2>2
  <2>4. /\ log' = log /\ trail' = trail /\ phase' = "down" /\ model' = Zero /\ cursor' = 0
        /\ pc' = "idle" /\ current' = Nobody /\ pending' = 0
        /\ faults' = faults /\ logFaults' = logFaults
    BY <2>1 DEF Die, durable
  <2>5. QED
    BY <1>a, <2>1, <2>2, <2>3, <2>4 DEF TypeOK
<1>15. ASSUME NEW c \in Callers, NEW m \in External, Send(c, m) PROVE TypeOK'
  <2>1. [msg |-> m, cause |-> 0, from |-> c] \in Envelope
    BY AppAssumption DEF Envelope, Edge
  <2>2. QED
    BY <1>15, <2>1 DEF Send, TypeOK, durable, reducer, budget
<1>16. ASSUME NEW p \in procs, Emit(p) PROVE TypeOK'
  <2>1. p \in ProcType /\ Head(p.says) \in Msg /\ Tail(p.says) \in Seq(Msg)
    BY <1>16 DEF Emit, TypeOK, ProcType
  <2>a. p.at \in Nat
    BY <2>1 DEF ProcType
  <2>2. [msg |-> Head(p.says), cause |-> IF p.kind = "effect" THEN p.at ELSE 0,
         from |-> NoCaller] \in Envelope
    BY <1>a, <2>1, <2>a DEF Envelope
  <2>3. [p EXCEPT !.says = Tail(@)] \in ProcType
    BY <2>1 DEF ProcType
  <2>4. inbox' \in Seq(Envelope)
    BY <1>16, <2>2 DEF Emit, TypeOK
  <2>5. procs' \subseteq ProcType
    BY <1>16, <2>3 DEF Emit, TypeOK
  <2>6. pending' \in Int
    BY <1>16 DEF Emit, TypeOK
  <2>7. UNCHANGED <<durable, reducer, running, caller, budget>>
    BY <1>16 DEF Emit
  <2>8. QED
    BY <2>4, <2>5, <2>6, <2>7 DEF TypeOK, durable, reducer, budget
<1>17. ASSUME NEW p \in procs, Return(p) PROVE TypeOK'
  BY <1>17 DEF Return, TypeOK, ProcType, durable, reducer, budget
<1>18. ASSUME NEW p \in procs, EffectFails(p) PROVE TypeOK'
  BY <1>18 DEF EffectFails, TypeOK, ProcType, durable, reducer
<1>19. CASE UNCHANGED vars
  BY <1>19 DEF TypeOK, vars
<1>20. QED
  BY <1>1, <1>2, <1>3, <1>4, <1>5, <1>6, <1>7, <1>8, <1>9, <1>10, <1>11, <1>12,
     <1>13, <1>14, <1>15, <1>16, <1>17, <1>18, <1>19 DEF Next, Progress, Failure

\* Every step keeps the cursor's place in the log.
LEMMA PlaceStep == Inv /\ [Next]_vars => Place'
<1> SUFFICES ASSUME Inv, [Next]_vars PROVE Place'
  OBVIOUS
<1> USE DEF Inv
<1>a. /\ cursor \in Nat /\ log \in Seq(Envelope) /\ Len(log) \in Nat
      /\ phase \in {"down", "replay", "loop", "up", "stopping"}
  BY DEF TypeOK
<1>b. CASE UNCHANGED <<log, phase, model, cursor, pc>>
  BY <1>b DEF Place, Alive
<1>1. CASE Boot \/ Replay \/ GoLive
  BY <1>1, <1>a DEF Boot, Replay, GoLive, Place, Alive, durable
<1>2. CASE StartSubscriptions \/ Stop \/ LoopExit
  BY <1>2, <1>a DEF StartSubscriptions, Stop, LoopExit, Place, Alive, durable
<1>3. CASE Take \/ AppendFails \/ FinishMessage
  BY <1>3, <1>a DEF Take, AppendFails, FinishMessage, Release, Place, Alive, durable
<1>4. CASE AppendLog
  <2>1. Len(log') = Len(log) + 1
    BY <1>4, <1>a DEF AppendLog, TypeOK
  <2>2. QED
    BY <1>4, <1>a, <2>1 DEF AppendLog, Place, Alive
<1>5. CASE Apply
  BY <1>5, <1>a DEF Apply, Place, Alive, durable
<1>6. CASE InterpretSend \/ InterpretEffect
  BY <1>6, <1>b DEF InterpretSend, InterpretEffect, durable
<1>7. CASE Crash \/ Exit
  BY <1>7, <1>a DEF Crash, Exit, Die, Place, Alive, durable
<1>8. ASSUME NEW c \in Callers, NEW m \in External, Send(c, m) PROVE Place'
  BY <1>8, <1>b DEF Send, durable, reducer
<1>9. ASSUME NEW p \in procs, Emit(p) \/ Return(p) \/ EffectFails(p) PROVE Place'
  BY <1>9, <1>b DEF Emit, Return, EffectFails, durable, reducer
<1>10. CASE UNCHANGED vars
  BY <1>10, <1>b DEF vars
<1>11. QED
  BY <1>1, <1>2, <1>3, <1>4, <1>5, <1>6, <1>7, <1>8, <1>9, <1>10 DEF Next, Progress, Failure

\* Every step keeps the state the fold of the log up to the cursor.
LEMMA FoldedStep == Inv /\ [Next]_vars => Folded'
<1> SUFFICES ASSUME Inv, [Next]_vars PROVE Folded'
  OBVIOUS
<1> USE DEF Inv
<1>a. /\ cursor \in Nat /\ log \in Seq(Envelope) /\ Len(log) \in Nat
      /\ trail \in Seq(State) /\ Len(trail) = Len(log) + 1
      /\ cursor <= Len(log) /\ trail[1] = Zero
  BY DEF TypeOK, Folded, Place
<1>b. CASE UNCHANGED <<log, trail, model, cursor>>
  BY <1>b DEF Folded
<1>1. CASE Boot
  BY <1>1, <1>a DEF Boot, Folded, durable
<1>2. CASE Replay
  <2>1. cursor + 1 \in 1..Len(log) /\ cursor' = cursor + 1
    BY <1>2, <1>a DEF Replay
  <2>2. model' = trail[(cursor + 1) + 1]
    <3>1. model' = NextState(trail[cursor + 1], log[cursor + 1].msg)
      BY <1>2 DEF Replay, Folded
    <3>2. trail[(cursor + 1) + 1] = NextState(trail[cursor + 1], log[cursor + 1].msg)
      BY <2>1 DEF Folded
    <3>3. QED
      BY <3>1, <3>2
  <2>3. model' = trail'[cursor' + 1]
    BY <1>2, <2>1, <2>2, <1>a DEF Replay, durable
  <2>4. log' = log /\ trail' = trail
    BY <1>2 DEF Replay, durable
  <2>5. QED
    BY <2>3, <2>4 DEF Folded
<1>3. CASE Apply
  <2>1. cursor + 1 \in 1..Len(log) /\ cursor' = cursor + 1
    BY <1>3, <1>a DEF Apply, Place
  <2>2. model' = trail[(cursor + 1) + 1]
    <3>1. model' = NextState(trail[cursor + 1], log[cursor + 1].msg)
      BY <1>3 DEF Apply, Folded
    <3>2. trail[(cursor + 1) + 1] = NextState(trail[cursor + 1], log[cursor + 1].msg)
      BY <2>1 DEF Folded
    <3>3. QED
      BY <3>1, <3>2
  <2>3. model' = trail'[cursor' + 1]
    BY <1>3, <2>1, <2>2, <1>a DEF Apply, durable
  <2>4. log' = log /\ trail' = trail
    BY <1>3 DEF Apply, durable
  <2>5. QED
    BY <2>3, <2>4 DEF Folded
<1>4. CASE AppendLog
  <2>1. current.msg \in Msg /\ current \in Envelope
    BY DEF TypeOK, Envelope
  <2>2. trail[Len(trail)] \in State
    BY <1>a
  <2>3. NextState(trail[Len(trail)], current.msg) \in State
    BY <2>1, <2>2, HandlerType
  <2>4. /\ log' = Append(log, current)
        /\ trail' = Append(trail, NextState(trail[Len(trail)], current.msg))
        /\ cursor' = cursor /\ model' = model
    BY <1>4 DEF AppendLog
  <2>5. /\ Len(log') = Len(log) + 1 /\ Len(trail') = Len(trail) + 1
        /\ \A i \in 1..Len(log) : log'[i] = log[i]
        /\ \A i \in 1..Len(trail) : trail'[i] = trail[i]
        /\ log'[Len(log) + 1] = current
        /\ trail'[Len(trail) + 1] = NextState(trail[Len(trail)], current.msg)
    BY <2>1, <2>3, <2>4, <1>a
  <2>6. ASSUME NEW i \in 1..Len(log')
        PROVE  trail'[i + 1] = NextState(trail'[i], log'[i].msg)
    <3>1. CASE i \in 1..Len(log)
      BY <3>1, <2>5, <1>a DEF Folded
    <3>2. CASE i = Len(log) + 1
      BY <3>2, <2>5, <1>a
    <3>3. QED
      BY <3>1, <3>2, <2>5, <1>a
  <2>7. trail'[1] = Zero /\ model' = trail'[cursor' + 1] /\ Len(trail') = Len(log') + 1
    BY <2>4, <2>5, <1>a DEF Folded
  <2>8. QED
    BY <2>6, <2>7 DEF Folded
<1>5. CASE Crash \/ Exit
  BY <1>5, <1>a DEF Crash, Exit, Die, Folded, durable
<1>6. CASE GoLive \/ StartSubscriptions \/ Take \/ InterpretSend \/ InterpretEffect
           \/ FinishMessage \/ AppendFails \/ Stop \/ LoopExit
  BY <1>6, <1>b DEF GoLive, StartSubscriptions, Take, InterpretSend, InterpretEffect,
                    FinishMessage, AppendFails, Stop, LoopExit, durable
<1>7. ASSUME NEW c \in Callers, NEW m \in External, Send(c, m) PROVE Folded'
  BY <1>7, <1>b DEF Send, durable, reducer
<1>8. ASSUME NEW p \in procs, Emit(p) \/ Return(p) \/ EffectFails(p) PROVE Folded'
  BY <1>8, <1>b DEF Emit, Return, EffectFails, durable, reducer
<1>9. CASE UNCHANGED vars
  BY <1>9, <1>b DEF vars
<1>10. QED
  BY <1>1, <1>2, <1>3, <1>4, <1>5, <1>6, <1>7, <1>8, <1>9 DEF Next, Progress, Failure

\* Every step keeps what the processes hold.
LEMMA HeldStep == Inv /\ [Next]_vars => Held'
<1> SUFFICES ASSUME Inv, [Next]_vars PROVE Held'
  OBVIOUS
<1> USE DEF Inv
<1>a. /\ cursor \in Nat /\ procs \subseteq ProcType
      /\ running \subseteq [name : Source, at : Nat]
  BY DEF TypeOK
<1>b. CASE UNCHANGED <<phase, model, cursor, procs, running>>
  BY <1>b DEF Held, Alive, Origin
<1>1. CASE Boot \/ Replay \/ GoLive
  <2>1. ~Alive
    BY <1>1 DEF Boot, Replay, GoLive, Alive
  <2>2. procs' = {} /\ running' = {}
    BY <1>1, <2>1 DEF Boot, Replay, GoLive, Held
  <2>3. QED
    BY <2>2, FS_EmptySet DEF Held
<1>2. CASE Crash \/ Exit
  BY <1>2, FS_EmptySet DEF Crash, Exit, Die, Held
<1>3. CASE StartSubscriptions
  <2>1. Alive /\ Alive' /\ cursor' = cursor /\ model' = model /\ DiffSubscriptions(0)
    BY <1>3 DEF StartSubscriptions, Alive
  <2>2. QED
    BY <2>1, DiffStep
<1>4. CASE FinishMessage
  <2>1. Alive /\ Alive' /\ cursor' = cursor /\ model' = model /\ DiffSubscriptions(1)
    BY <1>4 DEF FinishMessage, Alive, Place
  <2>2. QED
    BY <2>1, DiffStep
<1>5. CASE Apply
  <2>1. cursor' = cursor + 1 /\ procs' = procs /\ running' = running /\ phase' = phase
    BY <1>5 DEF Apply
  <2>2. \A r \in running' : r.at <= cursor'
    BY <2>1, <1>a DEF Held
  <2>3. ASSUME NEW p \in procs', p.kind = "source"
        PROVE  /\ p.at <= cursor'
               /\ Origin(p) \in running' => p.holds <= 1
               /\ p.at # cursor'
    BY <2>1, <2>3, <1>a DEF Held, ProcType
  <2>4. QED
    BY <2>1, <2>2, <2>3 DEF Held, Alive
<1>6. CASE InterpretEffect
  <2>1. ASSUME NEW p \in procs', p.kind = "source" PROVE p \in procs
    BY <1>6, <2>1 DEF InterpretEffect, Goroutine
  <2>2. Alive
    BY <1>6 DEF InterpretEffect, Place
  <2>3. UNCHANGED <<phase, model, cursor, running>>
    BY <1>6 DEF InterpretEffect
  <2>4. QED
    BY <2>1, <2>2, <2>3 DEF Held, Alive, Origin
<1>7. ASSUME NEW p \in procs, Emit(p) PROVE Held'
  <2>1. p \in ProcType
    BY <1>a
  <2>2. procs' = (procs \ {p}) \cup {[p EXCEPT !.says = Tail(@)]}
    BY <1>7 DEF Emit
  <2>3. ASSUME NEW q \in procs'
        PROVE  \E o \in procs : /\ q.kind = o.kind /\ q.at = o.at /\ q.name = o.name
                                /\ q.holds = o.holds
    BY <2>1, <2>2 DEF ProcType
  <2>4. UNCHANGED <<phase, model, cursor, running>>
    BY <1>7 DEF Emit, reducer
  <2>5. Alive
    BY DEF Held
  <2>6. QED
    BY <2>3, <2>4, <2>5 DEF Held, Alive, Origin
<1>8. ASSUME NEW p \in procs, Return(p) \/ EffectFails(p) PROVE Held'
  <2>1. procs' \subseteq procs /\ UNCHANGED <<phase, model, cursor, running>>
    BY <1>8 DEF Return, EffectFails, reducer
  <2>2. QED
    BY <2>1 DEF Held, Alive, Origin
<1>9. CASE Stop
  <2>1. Alive /\ Alive' /\ UNCHANGED <<model, cursor, procs, running>>
    BY <1>9 DEF Stop, Alive
  <2>2. QED
    BY <2>1 DEF Held, Origin
<1>10. CASE Take \/ AppendLog \/ InterpretSend \/ AppendFails \/ LoopExit
  BY <1>10, <1>b DEF Take, AppendLog, InterpretSend, AppendFails, LoopExit
<1>11. ASSUME NEW c \in Callers, NEW m \in External, Send(c, m) PROVE Held'
  BY <1>11, <1>b DEF Send, reducer
<1>12. CASE UNCHANGED vars
  BY <1>12, <1>b DEF vars
<1>13. QED
  BY <1>1, <1>2, <1>3, <1>4, <1>5, <1>6, <1>7, <1>8, <1>9, <1>10, <1>11, <1>12
     DEF Next, Progress, Failure

\* The inductive invariant holds of every reachable state.
THEOREM Invariance == Spec => []Inv
<1>1. Inv /\ [Next]_vars => Inv'
  BY TypeStep, HeldStep, PlaceStep, FoldedStep DEF Inv
<1>2. QED
  BY InvInit, <1>1, PTL DEF Spec

\* Every variable keeps its type; in particular a goroutine is counted in
\* pending at most twice, as an Await source that is also being cancelled.
THEOREM TypeCorrect == Spec => []TypeOK
<1>1. Inv => TypeOK
  BY DEF Inv
<1>2. QED
  BY Invariance, <1>1, PTL

\* Replay convergence: after any history of live handling, failed appends,
\* crashes and replays, a process that has folded k entries of the log holds
\* the k-th point of one and the same fold (apply and replay in loop.go).
THEOREM ReplayConverges == Spec => []Convergence
<1>1. Inv => Convergence
  BY DEF Inv, Folded, Convergence
<1>2. QED
  BY Invariance, <1>1, PTL
-----------------------------------------------------------------------------
\* The sources running between two messages.
Started ==
  /\ \A r, s \in running : r.name = s.name => r = s
  /\ phase \in {"up", "stopping"} /\ pc # "interpret" =>
       {r.name : r \in running} = Desired(model)

\* Reconciling the subscriptions leaves one source per name.
LEMMA DiffUnique ==
  ASSUME TypeOK, Started, NEW settled \in {0, 1}, DiffSubscriptions(settled)
  PROVE  \A r, s \in running' : r.name = s.name => r = s
<1> DEFINE stops  == {r \in running : r.name \notin Desired(model)}
           starts == Desired(model) \ {r.name : r \in running}
           fresh  == {[name |-> i, at |-> cursor] : i \in starts}
<1>1. running' = (running \ stops) \cup fresh
  BY DEF DiffSubscriptions
<1>2. SUFFICES ASSUME NEW r \in running', NEW s \in running', r.name = s.name
               PROVE  r = s
  OBVIOUS
<1>3. CASE r \in running /\ s \in running
  BY <1>2, <1>3 DEF Started
<1>4. CASE r \in fresh /\ s \in fresh
  BY <1>2, <1>4
<1>5. CASE (r \in running /\ s \in fresh) \/ (s \in running /\ r \in fresh)
  BY <1>2, <1>5
<1>6. QED
  BY <1>1, <1>3, <1>4, <1>5

\* Every step keeps one source per name, the ones the state desires.
LEMMA StartedStep == Inv /\ Started /\ [Next]_vars => Started'
<1> SUFFICES ASSUME Inv, Started, [Next]_vars PROVE Started'
  OBVIOUS
<1> USE DEF Inv
<1>1. CASE UNCHANGED <<phase, model, pc, running>>
  BY <1>1 DEF Started
<1>2. CASE Boot \/ Replay \/ GoLive
  <2>1. running' = {} /\ phase' \in {"replay", "loop"}
    BY <1>2 DEF Boot, Replay, GoLive, Held, Alive
  <2>2. QED
    BY <2>1 DEF Started
<1>3. CASE Crash \/ Exit
  BY <1>3 DEF Crash, Exit, Die, Started
<1>4. ASSUME NEW k \in {0, 1}, Alive, Alive', UNCHANGED <<cursor, model>>,
             DiffSubscriptions(k)
      PROVE  Started'
  BY <1>4, DiffStep, DiffUnique DEF Started
<1>5. CASE StartSubscriptions
  <2>1. Alive /\ Alive' /\ UNCHANGED <<cursor, model>> /\ DiffSubscriptions(0)
    BY <1>5 DEF StartSubscriptions, Alive
  <2>2. QED
    BY <2>1, <1>4
<1>6. CASE FinishMessage
  <2>1. Alive /\ Alive' /\ UNCHANGED <<cursor, model>> /\ DiffSubscriptions(1)
    BY <1>6 DEF FinishMessage, Alive, Place
  <2>2. QED
    BY <2>1, <1>4
<1>7. CASE Apply
  BY <1>7 DEF Apply, Started
<1>8. CASE Take \/ AppendLog \/ AppendFails \/ LoopExit \/ Stop
  BY <1>8 DEF Take, AppendLog, AppendFails, Release, LoopExit, Stop, Started
<1>9. CASE InterpretSend \/ InterpretEffect
  BY <1>9, <1>1 DEF InterpretSend, InterpretEffect
<1>10. ASSUME NEW c \in Callers, NEW m \in External, Send(c, m) PROVE Started'
  BY <1>10, <1>1 DEF Send, reducer
<1>11. ASSUME NEW p \in procs, Emit(p) \/ Return(p) \/ EffectFails(p) PROVE Started'
  BY <1>11, <1>1 DEF Emit, Return, EffectFails, reducer
<1>12. CASE UNCHANGED vars
  BY <1>12, <1>1 DEF vars
<1>13. QED
  BY <1>2, <1>3, <1>5, <1>6, <1>7, <1>8, <1>9, <1>10, <1>11, <1>12
     DEF Next, Progress, Failure

\* Between messages the running sources are the declared ones, each once, in
\* every interleaving of Start's diff with the reducer's (diffSubscriptions).
THEOREM SourcesAlwaysMatch == Spec => []SourcesMatch
<1>1. Init => Started
  BY DEF Init, Started
<1>2. Started => SourcesMatch
  BY DEF Started, SourcesMatch
<1>3. QED
  BY Invariance, StartedStep, <1>1, <1>2, PTL DEF Spec
-----------------------------------------------------------------------------
\* The envelope in hand after a successful append is the log's last entry.
InHand ==
  /\ pc \in {"apply", "interpret"} => log # <<>> /\ current = log[Len(log)]
  /\ pc \in {"idle", "exited"} => current = Nobody

\* Every step keeps what each process has in its hand.
LEMMA InHandStep == Inv /\ InHand /\ [Next]_vars => InHand'
<1> SUFFICES ASSUME Inv, InHand, [Next]_vars PROVE InHand'
  OBVIOUS
<1> USE DEF Inv
<1>1. CASE UNCHANGED <<log, pc, current>>
  BY <1>1 DEF InHand
<1>2. CASE AppendLog
  <2>1. current \in Envelope /\ log \in Seq(Envelope)
    BY DEF TypeOK
  <2>2. log' = Append(log, current) /\ pc' = "apply" /\ current' = current
    BY <1>2 DEF AppendLog
  <2>3. log' # <<>> /\ log'[Len(log')] = current
    BY <2>1, <2>2
  <2>4. QED
    BY <2>2, <2>3 DEF InHand
<1>3. CASE Boot
  BY <1>3 DEF Boot, InHand, Place, Alive
<1>4. CASE Take \/ Apply \/ FinishMessage \/ AppendFails \/ LoopExit
  BY <1>4 DEF Take, Apply, FinishMessage, AppendFails, LoopExit, Release, InHand, durable
<1>5. CASE Crash \/ Exit
  BY <1>5 DEF Crash, Exit, Die, InHand
<1>6. CASE Replay \/ GoLive \/ StartSubscriptions \/ InterpretSend \/ InterpretEffect \/ Stop
  BY <1>6, <1>1 DEF Replay, GoLive, StartSubscriptions, InterpretSend, InterpretEffect,
                    Stop, durable
<1>7. ASSUME NEW c \in Callers, NEW m \in External, Send(c, m) PROVE InHand'
  BY <1>7, <1>1 DEF Send, reducer, durable
<1>8. ASSUME NEW p \in procs, Emit(p) \/ Return(p) \/ EffectFails(p) PROVE InHand'
  BY <1>8, <1>1 DEF Emit, Return, EffectFails, reducer, durable
<1>9. CASE UNCHANGED vars
  BY <1>9, <1>1 DEF vars
<1>10. QED
  BY <1>2, <1>3, <1>4, <1>5, <1>6, <1>7, <1>8, <1>9 DEF Next, Progress, Failure

Released == \A c \in Callers :
              caller[c] = "waiting" /\ caller'[c] = "returned" =>
                \/ log # <<>> /\ cursor = Len(log) /\ log[cursor].from = c
                \/ logFaults' > logFaults

\* A waiting sender is let go only when its message has been applied.
LEMMA ReleasedStep ==
  ASSUME Inv, InHand, [Next]_vars
  PROVE  [Released]_vars
<1> SUFFICES ASSUME NEW c \in Callers, caller[c] = "waiting", caller'[c] = "returned"
             PROVE  \/ log # <<>> /\ cursor = Len(log) /\ log[cursor].from = c
                    \/ logFaults' > logFaults
  BY DEF Released
<1> USE DEF Inv
<1>1. CASE FinishMessage
  <2>1. current.from = c
    BY <1>1 DEF FinishMessage, Release, TypeOK
  <2>2. log # <<>> /\ current = log[Len(log)]
    BY <1>1 DEF FinishMessage, InHand
  <2>3. cursor = Len(log)
    BY <1>1 DEF FinishMessage, Place
  <2>4. QED
    BY <2>1, <2>2, <2>3
<1>2. CASE AppendFails
  BY <1>2 DEF AppendFails, TypeOK
<1>3. CASE Crash \/ Exit
  BY <1>3 DEF Crash, Exit, Die
<1>4. ASSUME NEW d \in Callers, NEW m \in External, Send(d, m) PROVE FALSE
  BY <1>4 DEF Send, TypeOK
<1>5. CASE UNCHANGED caller
  BY <1>5
<1>6. CASE Boot \/ Replay \/ GoLive \/ StartSubscriptions \/ Take \/ AppendLog
           \/ Apply \/ InterpretSend \/ InterpretEffect \/ Stop \/ LoopExit
  BY <1>5, <1>6 DEF Boot, Replay, GoLive, StartSubscriptions, Take, AppendLog, Apply,
                    InterpretSend, InterpretEffect, Stop, LoopExit
<1>7. ASSUME NEW p \in procs, Emit(p) \/ Return(p) \/ EffectFails(p)
      PROVE  UNCHANGED caller
  BY <1>7 DEF Emit, Return, EffectFails
<1>8. CASE UNCHANGED vars
  BY <1>5, <1>8 DEF vars
<1>9. QED
  BY <1>1, <1>2, <1>3, <1>4, <1>5, <1>6, <1>7, <1>8 DEF Next, Progress, Failure

\* Send (loop.go) returns only at the end of the caller's own message, which is
\* then in the log and folded in the model, or when the append of a message has
\* failed: loop releases the caller then as well.
THEOREM SendReturnsAfterApply == Spec => SendReturnsApplied
<1>1. Init => InHand
  BY DEF Init, InHand
<1>2. Inv /\ InHand /\ [Next]_vars => [Released]_vars
  BY ReleasedStep
<1>3. Spec => [][Released]_vars
  BY <1>1, <1>2, Invariance, InHandStep, PTL DEF Spec
<1>4. QED
  BY <1>3 DEF SendReturnsApplied, Released
-----------------------------------------------------------------------------
\* The refinement mapping, named.
Truth == trail[Len(trail)]
View == IF Alive THEN <<model>> ELSE <<>>

\* The initial states map to initial states of the abstract specification.
LEMMA AbstractInit == Init => Abstract!Init
BY DEF Init, Abstract!Init, Alive

\* A process that is not between append and apply is up to date.
LEMMA UpToDate ==
  ASSUME Inv, Alive, pc # "apply"
  PROVE  model = Truth
BY DEF Inv, Place, Folded, Truth

\* Every step maps to a step of the abstract specification, or to a stutter.
LEMMA AbstractStep == Inv /\ [Next]_vars => [Abstract!Next]_<<Truth, View>>
<1> SUFFICES ASSUME Inv, [Next]_vars PROVE Abstract!Next \/ UNCHANGED <<Truth, View>>
  OBVIOUS
<1> USE DEF Inv
<1>a. phase \in {"down", "replay", "loop", "up", "stopping"} /\ cursor \in Nat
      /\ log \in Seq(Envelope) /\ trail \in Seq(State) /\ Len(trail) = Len(log) + 1
  BY DEF TypeOK, Folded
<1>b. CASE UNCHANGED <<trail, phase, model>>
  BY <1>b DEF Truth, View, Alive
<1>1. CASE Boot \/ Replay
  BY <1>1 DEF Boot, Replay, Truth, View, Alive, durable
<1>2. CASE GoLive
  <2>1. model = Truth
    BY <1>2, <1>a DEF GoLive, Folded, Truth
  <2>2. View = <<>> /\ View' = <<model>> /\ trail' = trail
    BY <1>2 DEF GoLive, View, Alive, durable
  <2>3. QED
    BY <2>1, <2>2 DEF Abstract!Next, Abstract!Recover, Truth, View
<1>3. CASE AppendLog
  <2>1. Alive /\ model = Truth
    BY <1>3, UpToDate DEF AppendLog, Place
  <2>2. current.msg \in Msg
    BY DEF TypeOK, Envelope
  <2>3. trail' = Append(trail, NextState(Truth, current.msg))
    BY <1>3 DEF AppendLog, Truth
  <2>4. Truth \in State
    BY <2>1 DEF TypeOK
  <2>5. NextState(Truth, current.msg) \in State
    BY <2>2, <2>4, HandlerType
  <2>6. trail'[Len(trail')] = NextState(Truth, current.msg)
    BY <2>3, <2>5, <1>a
  <2>7. View = <<Truth>> /\ View' = View
    BY <1>3, <2>1 DEF AppendLog, View, Alive
  <2>8. QED
    BY <2>2, <2>6, <2>7 DEF Abstract!Next, Abstract!Accept, Truth, View
<1>4. CASE Apply
  <2>1. Alive /\ Alive'
    BY <1>4 DEF Apply, Place, Alive
  <2>2. cursor + 1 = Len(log) /\ cursor + 1 \in 1..Len(log)
    BY <1>4, <1>a DEF Apply, Place
  <2>3. model' = NextState(trail[cursor + 1], log[cursor + 1].msg)
    BY <1>4 DEF Apply, Folded
  <2>4. model' = trail[(cursor + 1) + 1]
    BY <2>2, <2>3 DEF Folded
  <2>5. model' = Truth /\ trail' = trail
    BY <1>4, <1>a, <2>2, <2>4 DEF Apply, Truth, durable
  <2>6. QED
    BY <2>1, <2>5 DEF Abstract!Next, Abstract!Publish, Truth, View
<1>5. CASE Crash \/ Exit
  <2>1. View' = <<>> /\ trail' = trail
    BY <1>5 DEF Crash, Exit, Die, View, Alive, durable
  <2>2. QED
    BY <2>1 DEF Abstract!Next, Abstract!Lose, View
<1>6. CASE StartSubscriptions \/ Stop
  BY <1>6 DEF StartSubscriptions, Stop, Truth, View, Alive, durable
<1>7. CASE Take \/ InterpretSend \/ InterpretEffect \/ FinishMessage
           \/ AppendFails \/ LoopExit
  BY <1>7, <1>b DEF Take, InterpretSend, InterpretEffect, FinishMessage, AppendFails,
                    LoopExit, durable
<1>8. ASSUME NEW c \in Callers, NEW m \in External, Send(c, m)
      PROVE  UNCHANGED <<trail, phase, model>>
  BY <1>8 DEF Send, durable, reducer
<1>9. ASSUME NEW p \in procs, Emit(p) \/ Return(p) \/ EffectFails(p)
      PROVE  UNCHANGED <<trail, phase, model>>
  BY <1>9 DEF Emit, Return, EffectFails, durable, reducer
<1>10. CASE UNCHANGED vars
  BY <1>10, <1>b DEF vars
<1>11. QED
  BY <1>b, <1>1, <1>2, <1>3, <1>4, <1>5, <1>6, <1>7, <1>8, <1>9, <1>10
     DEF Next, Progress, Failure

\* The runtime implements DurableModel for every application: the log, the
\* channel, the goroutines, replays and failed appends never show a reader
\* anything but the fold of the accepted messages, one message late at most.
THEOREM Refinement == Spec => RefinesDurableModel
<1>1. Spec => [][Abstract!Next]_<<Truth, View>>
  BY Invariance, AbstractStep, PTL DEF Spec
<1>2. QED
  BY <1>1, AbstractInit, PTL DEF Spec, RefinesDurableModel, Abstract!Spec, Truth, View
-----------------------------------------------------------------------------
\* What a goroutine has still to say is accounted for by the log it started on:
\* an effect's messages by the entry whose handler returned its command, a
\* source's by a state that declared it.
Accounted(p) ==
  /\ p.kind = "effect" => /\ p.at \in 1..cursor
                          /\ \A j \in DOMAIN p.says : p.says[j] \in Consequences(p.at)
  /\ p.kind = "source" => /\ \A j \in DOMAIN p.says : p.says[j] = Prompt(p.name)
                          /\ p.name \in Source
                          /\ \E j \in 0..cursor : p.name \in Desired(trail[j + 1])
  /\ p.kind = "reaper" => p.says = <<>>

\* What is being interpreted is what the handler returned for the last entry.
TodoIsReturned ==
  pc = "interpret" =>
    \A j \in DOMAIN todo :
      \E i \in DOMAIN NextCmds(trail[cursor], log[cursor].msg) :
        todo[j] = NextCmds(trail[cursor], log[cursor].msg)[i]

Causes ==
  /\ LogExplainsItself
  /\ pc = "append" => Explained(current, cursor)
  /\ TodoIsReturned
  /\ \A p \in procs : Accounted(p)

\* A longer log explains what a shorter one did.
LEMMA ConsequencesStay ==
  ASSUME \A i \in 1..Len(log) : log'[i] = log[i],
         \A i \in 1..(Len(log) + 1) : trail'[i] = trail[i],
         Len(log) \in Nat, NEW k \in 1..Len(log)
  PROVE  Consequences(k)' = Consequences(k)
<1>1. log'[k] = log[k] /\ trail'[k] = trail[k]
  OBVIOUS
<1>2. QED
  BY <1>1 DEF Consequences

\* What explains an entry goes on explaining it, since the log only grows.
LEMMA ExplainedStays ==
  ASSUME \A i \in 1..Len(log) : log'[i] = log[i],
         \A i \in 1..(Len(log) + 1) : trail'[i] = trail[i],
         Len(log) \in Nat, NEW k \in 0..Len(log), NEW l \in Nat, k <= l,
         NEW e, Explained(e, k)
  PROVE  Explained(e, l)'
<1>1. CASE e.from \in Callers /\ e.cause = 0 /\ e.msg \in External
  BY <1>1 DEF Explained
<1>2. CASE /\ e.from = NoCaller /\ e.cause = 0
           /\ \E j \in 0..k, i \in Source : i \in Desired(trail[j + 1]) /\ e.msg = Prompt(i)
  <2>1. PICK j \in 0..k, i \in Source : i \in Desired(trail[j + 1]) /\ e.msg = Prompt(i)
    BY <1>2
  <2>2. j \in 0..l /\ trail'[j + 1] = trail[j + 1]
    OBVIOUS
  <2>3. i \in Desired(trail'[j + 1])
    BY <2>1, <2>2
  <2>4. QED
    BY <1>2, <2>1, <2>2, <2>3 DEF Explained
<1>3. CASE e.from = NoCaller /\ e.cause \in 1..k /\ e.msg \in Consequences(e.cause)
  <2>1. e.cause \in 1..Len(log) /\ e.cause \in 1..l
    BY <1>3
  <2>2. PICK c \in 1..Len(log) : c = e.cause
    BY <2>1
  <2>3. e.msg \in Consequences(c)'
    BY <1>3, <2>2, ConsequencesStay
  <2>4. e.msg \in Consequences(e.cause)'
    BY <2>2, <2>3 DEF Consequences
  <2>5. QED
    BY <1>3, <2>1, <2>4 DEF Explained
<1>4. QED
  BY <1>1, <1>2, <1>3 DEF Explained

\* What a process has to account for stays accounted for, since the log only grows.
LEMMA AccountedStays ==
  ASSUME \A i \in 1..Len(log) : log'[i] = log[i],
         \A i \in 1..(Len(log) + 1) : trail'[i] = trail[i],
         Len(log) \in Nat, cursor \in 0..Len(log), cursor' \in Nat, cursor <= cursor',
         NEW p, Accounted(p)
  PROVE  Accounted(p)'
<1>1. ASSUME p.kind = "effect"
      PROVE  p.at \in 1..cursor' /\ \A j \in DOMAIN p.says : p.says[j] \in Consequences(p.at)'
  <2>1. p.at \in 1..Len(log) /\ p.at \in 1..cursor'
    BY <1>1 DEF Accounted
  <2>2. Consequences(p.at)' = Consequences(p.at)
    BY <2>1, ConsequencesStay
  <2>3. QED
    BY <1>1, <2>1, <2>2 DEF Accounted
<1>2. ASSUME p.kind = "source"
      PROVE  \E j \in 0..cursor' : p.name \in Desired(trail'[j + 1])
  <2>1. PICK j \in 0..cursor : p.name \in Desired(trail[j + 1])
    BY <1>2 DEF Accounted
  <2>2. j \in 0..cursor' /\ trail'[j + 1] = trail[j + 1]
    OBVIOUS
  <2>3. QED
    BY <2>1, <2>2
<1>3. QED
  BY <1>1, <1>2 DEF Accounted

\* The goroutines a diff starts and cancels are accounted for.
LEMMA DiffAccounted ==
  ASSUME Inv, Causes, NEW settled \in {0, 1}, DiffSubscriptions(settled)
  PROVE  \A p \in procs' : Accounted(p)
<1> DEFINE stops  == {r \in running : r.name \notin Desired(model)}
           starts == Desired(model) \ {r.name : r \in running}
           born   == {Goroutine("source", i, cursor, 0, <<Prompt(i)>>,
                                IF i \in AwaitSource THEN 1 ELSE 0) : i \in starts}
           other  == {p \in procs : p.kind # "source" \/ Origin(p) \notin stops}
<1>1. procs' = other \cup born \cup UNION {Unwinding(r) : r \in stops}
  BY DEF DiffSubscriptions, Origin
<1>2. ASSUME NEW p \in procs' PROVE Accounted(p)
  <2>1. CASE p \in procs
    BY <2>1 DEF Causes
  <2>2. CASE p \in born
    <3>1. PICK i \in starts : p = Goroutine("source", i, cursor, 0, <<Prompt(i)>>,
                                            IF i \in AwaitSource THEN 1 ELSE 0)
      BY <2>2
    <3>2. p.kind = "source" /\ p.name = i /\ p.says = <<Prompt(i)>>
      BY <3>1 DEF Goroutine
    <3>3. i \in Desired(trail[cursor + 1]) /\ i \in Source /\ cursor \in 0..cursor
      BY AppAssumption DEF Inv, Folded, TypeOK
    <3>4. QED
      BY <3>2, <3>3 DEF Accounted
  <2>3. ASSUME NEW r \in stops, p \in Unwinding(r) PROVE Accounted(p)
    <3>1. CASE \E q \in procs : q.kind = "source" /\ q.name = r.name /\ q.at = r.at
      <4>1. PICK q \in procs : p = [q EXCEPT !.holds = @ + 1]
        BY <2>3, <3>1 DEF Unwinding
      <4>2. q \in ProcType /\ Accounted(q)
        BY DEF Inv, TypeOK, Causes
      <4>3. p.kind = q.kind /\ p.name = q.name /\ p.at = q.at /\ p.says = q.says
        BY <4>1, <4>2 DEF ProcType
      <4>4. QED
        BY <4>2, <4>3 DEF Accounted
    <3>2. CASE ~ \E q \in procs : q.kind = "source" /\ q.name = r.name /\ q.at = r.at
      BY <2>3, <3>2 DEF Unwinding, Goroutine, Accounted
    <3>3. QED
      BY <3>1, <3>2
  <2>4. QED
    BY <1>1, <2>1, <2>2, <2>3
<1>3. QED
  BY <1>2

\* A step that leaves the log, the reducer and the channel alone, and adds no
\* goroutine that is not accounted for, keeps everything explained.
LEMMA CausesKept ==
  ASSUME Inv, Causes, UNCHANGED <<log, trail, cursor, inbox>>,
         pc' = "append" => pc = "append" /\ current' = current,
         pc' = "interpret" => pc = "interpret" /\ todo' = todo,
         \A p \in procs' : Accounted(p)
  PROVE  Causes'
<1>1. \A k \in Nat : Consequences(k)' = Consequences(k)
  BY DEF Consequences
<1>2. \A e : \A k \in Nat : Explained(e, k) => Explained(e, k)'
  BY <1>1 DEF Explained
<1>3. LogExplainsItself'
  <2>1. \A i \in DOMAIN log : i \in Nat
    BY DEF Inv, TypeOK
  <2>2. ASSUME NEW i \in DOMAIN log' PROVE Explained(log[i], i - 1)'
    <3>1. i \in DOMAIN log /\ i - 1 \in Nat /\ Explained(log[i], i - 1) /\ log'[i] = log[i]
      BY DEF Inv, TypeOK, Causes, LogExplainsItself
    <3>2. PICK e : e = log[i]
      OBVIOUS
    <3>3. Explained(e, i - 1)'
      BY <3>1, <3>2, <1>2
    <3>4. QED
      BY <3>1, <3>2, <3>3
  <2>3. ASSUME NEW i \in DOMAIN inbox' PROVE Explained(inbox[i], cursor)'
    <3>1. i \in DOMAIN inbox /\ Explained(inbox[i], cursor) /\ inbox'[i] = inbox[i]
      BY DEF Causes, LogExplainsItself
    <3>2. PICK e : e = inbox[i]
      OBVIOUS
    <3>3. PICK k \in Nat : k = cursor
      BY DEF Inv, TypeOK
    <3>4. Explained(e, k)'
      BY <3>1, <3>2, <3>3, <1>2
    <3>5. QED
      BY <3>1, <3>2, <3>3, <3>4
  <2>4. QED
    BY <2>2, <2>3 DEF LogExplainsItself
<1>4. pc' = "append" => Explained(current, cursor)'
  <2>1. PICK k \in Nat : k = cursor
    BY DEF Inv, TypeOK
  <2>2. PICK e : e = current
    OBVIOUS
  <2>3. pc' = "append" => Explained(e, k)'
    BY <2>1, <2>2, <1>2 DEF Causes
  <2>4. QED
    BY <2>1, <2>2, <2>3
<1>5. TodoIsReturned'
  BY DEF Causes, TodoIsReturned
<1>6. ASSUME NEW p \in procs' PROVE Accounted(p)'
  <2>1. Accounted(p)
    OBVIOUS
  <2>2. p.kind = "effect" => Consequences(p.at)' = Consequences(p.at)
    BY DEF Consequences
  <2>3. QED
    BY <2>1, <2>2 DEF Accounted
<1>7. QED
  BY <1>3, <1>4, <1>5, <1>6 DEF Causes

\* A message an edge, a handler or a goroutine puts on the channel: an explained
\* one keeps everything explained.
LEMMA CausesOffered ==
  ASSUME Inv, Causes, UNCHANGED <<log, trail, cursor, current, pc>>,
         NEW e, inbox' = Append(inbox, e), Explained(e, cursor),
         \A j \in DOMAIN todo' : \E i \in DOMAIN todo : todo'[j] = todo[i],
         \A p \in procs' : Accounted(p)
  PROVE  Causes'
<1>1. \A k \in Nat : Consequences(k)' = Consequences(k)
  BY DEF Consequences
<1>2. \A f : \A k \in Nat : Explained(f, k) => Explained(f, k)'
  BY <1>1 DEF Explained
<1>3. PICK k \in Nat : k = cursor
  BY DEF Inv, TypeOK
<1>4. ASSUME NEW i \in DOMAIN log' PROVE Explained(log[i], i - 1)'
  <2>1. i \in DOMAIN log /\ i - 1 \in Nat /\ Explained(log[i], i - 1) /\ log'[i] = log[i]
    BY DEF Inv, TypeOK, Causes, LogExplainsItself
  <2>2. PICK f : f = log[i]
    OBVIOUS
  <2>3. Explained(f, i - 1)'
    BY <2>1, <2>2, <1>2
  <2>4. QED
    BY <2>1, <2>2, <2>3
<1>5. ASSUME NEW i \in DOMAIN inbox' PROVE Explained(inbox[i], cursor)'
  <2>1. Explained(inbox'[i], k)
    BY <1>3 DEF Inv, TypeOK, Causes, LogExplainsItself
  <2>2. PICK f : f = inbox'[i]
    OBVIOUS
  <2>3. Explained(f, k)'
    BY <2>1, <2>2, <1>2
  <2>4. QED
    BY <2>2, <2>3, <1>3
<1>6. pc' = "append" => Explained(current, cursor)'
  <2>1. PICK f : f = current
    OBVIOUS
  <2>2. pc' = "append" => Explained(f, k)'
    BY <2>1, <1>2, <1>3 DEF Causes
  <2>3. QED
    BY <2>1, <2>2, <1>3
<1>7. TodoIsReturned'
  BY DEF Causes, TodoIsReturned
<1>8. ASSUME NEW p \in procs' PROVE Accounted(p)'
  <2>1. Accounted(p)
    OBVIOUS
  <2>2. p.kind = "effect" => Consequences(p.at)' = Consequences(p.at)
    BY DEF Consequences
  <2>3. QED
    BY <2>1, <2>2 DEF Accounted
<1>9. QED
  BY <1>4, <1>5, <1>6, <1>7, <1>8 DEF Causes, LogExplainsItself

\* The append of an explained message: the log, now longer, explains itself.
LEMMA AppendCauses == ASSUME Inv, Causes, AppendLog PROVE Causes'
<1> USE DEF Inv
<1>1. /\ log \in Seq(Envelope) /\ trail \in Seq(State) /\ Len(log) \in Nat
      /\ Len(trail) = Len(log) + 1 /\ cursor = Len(log) /\ cursor \in 0..Len(log)
  BY DEF AppendLog, TypeOK, Folded, Place, Alive
<1>2. /\ log' = Append(log, current) /\ Len(log') = Len(log) + 1
      /\ \A i \in 1..Len(log) : log'[i] = log[i]
      /\ \A i \in 1..(Len(log) + 1) : trail'[i] = trail[i]
      /\ log'[Len(log) + 1] = current
      /\ UNCHANGED <<cursor, inbox, todo, procs, current>> /\ pc' = "apply"
  BY <1>1 DEF AppendLog, TypeOK
<1>3. ASSUME NEW i \in DOMAIN log' PROVE Explained(log[i], i - 1)'
  <2>1. i \in 1..(Len(log) + 1) /\ i - 1 \in 0..Len(log) /\ i - 1 \in Nat
    BY <1>1, <1>2
  <2>2. Explained(log'[i], i - 1)
    <3>1. CASE i \in 1..Len(log)
      BY <1>1, <1>2, <3>1 DEF Causes, LogExplainsItself
    <3>2. CASE i = Len(log) + 1
      BY <1>1, <1>2, <3>2 DEF Causes, AppendLog
    <3>3. QED
      BY <2>1, <3>1, <3>2, <1>1
  <2>3. PICK e : e = log'[i]
    OBVIOUS
  <2>4. Explained(e, i - 1)'
    BY <1>1, <1>2, <2>1, <2>2, <2>3, ExplainedStays
  <2>5. QED
    BY <2>3, <2>4
<1>4. ASSUME NEW i \in DOMAIN inbox' PROVE Explained(inbox[i], cursor)'
  <2>1. PICK e : e = inbox[i]
    OBVIOUS
  <2>2. Explained(e, cursor)
    BY <2>1, <1>2 DEF Causes, LogExplainsItself
  <2>3. PICK k \in 0..Len(log) : k = cursor
    BY <1>1
  <2>4. Explained(e, k)'
    BY <1>1, <1>2, <2>2, <2>3, ExplainedStays
  <2>5. QED
    BY <1>2, <2>1, <2>3, <2>4
<1>5. ASSUME NEW p \in procs' PROVE Accounted(p)'
  <2>1. Accounted(p)
    BY <1>2 DEF Causes
  <2>2. QED
    BY <1>1, <1>2, <2>1, AccountedStays
<1>6. pc' # "append" /\ TodoIsReturned'
  BY <1>2 DEF TodoIsReturned
<1>7. QED
  BY <1>3, <1>4, <1>5, <1>6 DEF Causes, LogExplainsItself

\* Applying the entry: the cursor moves on, and what is left to interpret is what
\* the handler returned for it.
LEMMA ApplyCauses == ASSUME Inv, Causes, Apply \/ Replay PROVE Causes'
<1> USE DEF Inv
<1>1. /\ log' = log /\ trail' = trail /\ cursor' = cursor + 1
      /\ UNCHANGED <<inbox, procs, current>> /\ cursor \in Nat /\ cursor + 1 <= Len(log)
      /\ Len(log) \in Nat /\ cursor \in 0..Len(log) /\ cursor' \in Nat /\ cursor <= cursor'
  BY DEF Apply, Replay, durable, TypeOK, Place
<1>2. ASSUME NEW i \in DOMAIN log' PROVE Explained(log[i], i - 1)'
  <2>1. PICK e : e = log[i]
    OBVIOUS
  <2>2. Explained(e, i - 1) /\ i - 1 \in 0..Len(log) /\ i - 1 \in Nat
    BY <1>1, <2>1 DEF Causes, LogExplainsItself, TypeOK
  <2>3. Explained(e, i - 1)'
    BY <1>1, <2>2, ExplainedStays
  <2>4. QED
    BY <1>1, <2>1, <2>3
<1>3. ASSUME NEW i \in DOMAIN inbox' PROVE Explained(inbox[i], cursor)'
  <2>1. PICK e : e = inbox[i]
    OBVIOUS
  <2>2. PICK l \in Nat : l = cursor + 1
    BY <1>1
  <2>3. Explained(e, cursor) /\ cursor <= l
    BY <1>1, <2>1, <2>2 DEF Causes, LogExplainsItself
  <2>4. PICK k \in 0..Len(log) : k = cursor
    BY <1>1
  <2>5. Explained(e, l)'
    BY <1>1, <2>3, <2>4, ExplainedStays
  <2>6. QED
    BY <1>1, <2>1, <2>2, <2>5
<1>4. ASSUME NEW p \in procs' PROVE Accounted(p)'
  <2>1. Accounted(p)
    BY <1>1 DEF Causes
  <2>2. QED
    BY <1>1, <2>1, AccountedStays
<1>5. pc' # "append" /\ TodoIsReturned'
  <2>1. CASE Apply
    <3>1. pc' = "interpret" /\ todo' = NextCmds(model, log[cursor + 1].msg)
      BY <2>1 DEF Apply
    <3>2. trail'[cursor'] = model /\ log'[cursor'] = log[cursor + 1]
      BY <1>1 DEF Folded
    <3>3. QED
      BY <3>1, <3>2 DEF TodoIsReturned
  <2>2. CASE Replay
    BY <2>2 DEF Replay, TodoIsReturned, Place, Alive
  <2>3. QED
    BY <2>1, <2>2
<1>6. QED
  BY <1>2, <1>3, <1>4, <1>5 DEF Causes, LogExplainsItself

\* The receive: the envelope in hand was explained on the channel.
LEMMA TakeCauses == ASSUME Inv, Causes, Take PROVE Causes'
<1>1. \A k \in Nat : Consequences(k)' = Consequences(k)
  BY DEF Take, durable, Consequences
<1>2. \A f : \A k \in Nat : Explained(f, k) => Explained(f, k)'
  BY <1>1 DEF Take, durable, Explained
<1>3. PICK k \in Nat : k = cursor
  BY DEF Inv, TypeOK
<1>4. /\ UNCHANGED <<log, trail, cursor, procs>> /\ pc' = "append"
      /\ inbox' = Tail(inbox) /\ current' = Head(inbox) /\ inbox # <<>> /\ inbox \in Seq(Envelope)
  BY DEF Take, durable, Inv, TypeOK
<1>5. ASSUME NEW i \in DOMAIN log' PROVE Explained(log[i], i - 1)'
  <2>1. i \in DOMAIN log /\ i - 1 \in Nat /\ Explained(log[i], i - 1) /\ log'[i] = log[i]
    BY <1>4 DEF Inv, TypeOK, Causes, LogExplainsItself
  <2>2. PICK f : f = log[i]
    OBVIOUS
  <2>3. Explained(f, i - 1)'
    BY <2>1, <2>2, <1>2
  <2>4. QED
    BY <2>1, <2>2, <2>3
<1>6. ASSUME NEW i \in DOMAIN inbox' PROVE Explained(inbox[i], cursor)'
  <2>1. i + 1 \in DOMAIN inbox /\ inbox'[i] = inbox[i + 1]
    BY <1>4
  <2>2. PICK f : f = inbox'[i]
    OBVIOUS
  <2>3. Explained(f, k)
    BY <1>3, <2>1, <2>2 DEF Causes, LogExplainsItself
  <2>4. Explained(f, k)'
    BY <2>3, <1>2
  <2>5. QED
    BY <2>2, <2>4, <1>3, <1>4
<1>7. Explained(current, cursor)'
  <2>1. 1 \in DOMAIN inbox /\ current' = inbox[1]
    BY <1>4
  <2>2. PICK f : f = current'
    OBVIOUS
  <2>3. Explained(f, k)
    BY <1>3, <2>1, <2>2 DEF Causes, LogExplainsItself
  <2>4. Explained(f, k)'
    BY <2>3, <1>2
  <2>5. QED
    BY <2>2, <2>4, <1>3, <1>4
<1>8. ASSUME NEW p \in procs' PROVE Accounted(p)'
  <2>1. Accounted(p)
    BY <1>4 DEF Causes
  <2>2. p.kind = "effect" => Consequences(p.at)' = Consequences(p.at)
    BY <1>4 DEF Consequences
  <2>3. QED
    BY <1>4, <2>1, <2>2 DEF Accounted
<1>9. TodoIsReturned'
  BY <1>4 DEF TodoIsReturned
<1>10. QED
  BY <1>5, <1>6, <1>7, <1>8, <1>9 DEF Causes, LogExplainsItself

\* A death leaves the log alone, and nothing else to explain.
LEMMA DieCauses == ASSUME Inv, Causes, Die PROVE Causes'
<1>1. \A k \in Nat : Consequences(k)' = Consequences(k)
  BY DEF Die, durable, Consequences
<1>2. \A f : \A k \in Nat : Explained(f, k) => Explained(f, k)'
  BY <1>1 DEF Die, durable, Explained
<1>3. UNCHANGED <<log, trail>> /\ inbox' = <<>> /\ procs' = {} /\ pc' = "idle"
  BY DEF Die, durable
<1>4. ASSUME NEW i \in DOMAIN log' PROVE Explained(log[i], i - 1)'
  <2>1. i \in DOMAIN log /\ i - 1 \in Nat /\ Explained(log[i], i - 1) /\ log'[i] = log[i]
    BY <1>3 DEF Inv, TypeOK, Causes, LogExplainsItself
  <2>2. PICK f : f = log[i]
    OBVIOUS
  <2>3. Explained(f, i - 1)'
    BY <2>1, <2>2, <1>2
  <2>4. QED
    BY <2>1, <2>2, <2>3
<1>5. QED
  BY <1>3, <1>4 DEF Causes, LogExplainsItself, TodoIsReturned

\* What the command being interpreted says is a consequence of the last entry.
LEMMA ReturnedIsConsequence ==
  ASSUME Inv, Causes, InHand, pc = "interpret", todo # <<>>
  PROVE  /\ cursor \in 1..cursor
         /\ Head(todo).kind = "send" => Head(todo).arg \in Consequences(cursor)
         /\ Head(todo).kind = "effect" =>
              \A j \in DOMAIN Reports(Head(todo).arg) :
                Reports(Head(todo).arg)[j] \in Consequences(cursor)
<1> DEFINE cmds == NextCmds(trail[cursor], log[cursor].msg)
<1>1. /\ Head(todo) \in Command /\ todo \in Seq(Command) /\ cursor = Len(log) /\ log # <<>>
      /\ log \in Seq(Envelope)
  BY DEF Inv, TypeOK, InHand, Place, Alive
<1>2. PICK i \in DOMAIN cmds : Head(todo) = cmds[i]
  BY <1>1 DEF Causes, TodoIsReturned
<1>3. ASSUME Head(todo).kind = "send" PROVE Head(todo).arg \in Consequences(cursor)
  <2>1. Head(todo).arg \in Msg /\ Head(todo) = SendCmd(Head(todo).arg)
    BY <1>1, <1>3 DEF Command, SendCmd
  <2>2. QED
    BY <1>2, <2>1 DEF Consequences
<1>4. ASSUME Head(todo).kind = "effect", NEW j \in DOMAIN Reports(Head(todo).arg)
      PROVE  Reports(Head(todo).arg)[j] \in Consequences(cursor)
  <2>1. Head(todo).arg \in Effect /\ Head(todo) = EffectCmd(Head(todo).arg)
    BY <1>1, <1>4 DEF Command, EffectCmd
  <2>2. Reports(Head(todo).arg) \in Seq(Msg)
    BY <2>1, AppAssumption
  <2>3. Reports(Head(todo).arg)[j] \in Msg
    BY <2>2
  <2>4. QED
    BY <1>2, <2>1, <2>3 DEF Consequences
<1>5. cursor \in 1..cursor
  BY <1>1
<1>6. QED
  BY <1>3, <1>4, <1>5

\* The message a goroutine emits is explained, and so is the rest of what it says.
LEMMA EmitCauses ==
  ASSUME Inv, Causes, NEW p \in procs, Emit(p)
  PROVE  Causes'
<1> DEFINE e == [msg |-> Head(p.says), cause |-> IF p.kind = "effect" THEN p.at ELSE 0,
                 from |-> NoCaller]
           q == [p EXCEPT !.says = Tail(@)]
<1>1. /\ p \in ProcType /\ p.says # <<>> /\ p.says \in Seq(Msg) /\ Accounted(p)
      /\ p.kind \in {"effect", "source", "reaper"}
  BY DEF Inv, TypeOK, ProcType, Causes, Emit
<1>2. Head(p.says) = p.says[1] /\ 1 \in DOMAIN p.says
      /\ \A j \in DOMAIN Tail(p.says) : j + 1 \in DOMAIN p.says /\ Tail(p.says)[j] = p.says[j + 1]
  BY <1>1
<1>3. Explained(e, cursor)
  <2>1. CASE p.kind = "effect"
    BY <1>1, <1>2, <2>1 DEF Accounted, Explained
  <2>2. CASE p.kind = "source"
    BY <1>1, <1>2, <2>2 DEF Accounted, Explained
  <2>3. CASE p.kind = "reaper"
    BY <1>1, <2>3 DEF Accounted
  <2>4. QED
    BY <1>1, <2>1, <2>2, <2>3
<1>4. q.kind = p.kind /\ q.at = p.at /\ q.name = p.name /\ q.says = Tail(p.says)
  BY <1>1 DEF ProcType
<1>5. Accounted(q)
  <2>1. CASE p.kind = "reaper"
    BY <1>1, <2>1 DEF Accounted
  <2>2. CASE p.kind # "reaper"
    BY <1>1, <1>2, <1>4, <2>2 DEF Accounted
  <2>3. QED
    BY <2>1, <2>2
<1>6. /\ inbox' = Append(inbox, e) /\ procs' = (procs \ {p}) \cup {q}
      /\ UNCHANGED <<log, trail, cursor, current, pc, todo>>
  BY DEF Emit, durable, reducer
<1>7. \A o \in procs' : Accounted(o)
  BY <1>5, <1>6 DEF Causes
<1> HIDE DEF e, q
<1>8. \A j \in DOMAIN todo' : \E i \in DOMAIN todo : todo'[j] = todo[i]
  BY <1>6
<1>9. QED
  BY <1>3, <1>6, <1>7, <1>8, CausesOffered

\* A command leaves the list to interpret for a goroutine that is accounted for.
LEMMA CausesLessToDo ==
  ASSUME Inv, Causes, UNCHANGED <<log, trail, cursor, inbox, current, pc>>,
         todo # <<>>, todo \in Seq(Command), todo' = Tail(todo),
         \A p \in procs' : Accounted(p)
  PROVE  Causes'
<1>1. \A k \in Nat : Consequences(k)' = Consequences(k)
  BY DEF Consequences
<1>2. \A e : \A k \in Nat : Explained(e, k) => Explained(e, k)'
  BY <1>1 DEF Explained
<1>3. PICK k \in Nat : k = cursor
  BY DEF Inv, TypeOK
<1>4. ASSUME NEW i \in DOMAIN log' PROVE Explained(log[i], i - 1)'
  <2>1. i \in DOMAIN log /\ i - 1 \in Nat /\ Explained(log[i], i - 1) /\ log'[i] = log[i]
    BY DEF Inv, TypeOK, Causes, LogExplainsItself
  <2>2. PICK e : e = log[i]
    OBVIOUS
  <2>3. Explained(e, i - 1)'
    BY <2>1, <2>2, <1>2
  <2>4. QED
    BY <2>1, <2>2, <2>3
<1>5. ASSUME NEW i \in DOMAIN inbox' PROVE Explained(inbox[i], cursor)'
  <2>1. PICK e : e = inbox[i]
    OBVIOUS
  <2>2. Explained(e, k)'
    BY <2>1, <1>2, <1>3 DEF Causes, LogExplainsItself
  <2>3. QED
    BY <2>1, <2>2, <1>3
<1>6. pc' = "append" => Explained(current, cursor)'
  <2>1. PICK e : e = current
    OBVIOUS
  <2>2. pc' = "append" => Explained(e, k)'
    BY <2>1, <1>2, <1>3 DEF Causes
  <2>3. QED
    BY <2>1, <2>2, <1>3
<1>7. TodoIsReturned'
  <2>1. \A j \in DOMAIN todo' : j + 1 \in DOMAIN todo /\ todo'[j] = todo[j + 1]
    OBVIOUS
  <2>2. QED
    BY <2>1 DEF Causes, TodoIsReturned
<1>8. ASSUME NEW p \in procs' PROVE Accounted(p)'
  <2>1. p.kind = "effect" => Consequences(p.at)' = Consequences(p.at)
    BY DEF Consequences
  <2>2. QED
    BY <2>1 DEF Accounted
<1>9. QED
  BY <1>4, <1>5, <1>6, <1>7, <1>8 DEF Causes, LogExplainsItself

\* Every step keeps an explanation for every entry, and for what every process holds.
LEMMA CausesStep == Inv /\ InHand /\ Causes /\ [Next]_vars => Causes'
<1> SUFFICES ASSUME Inv, InHand, Causes, [Next]_vars PROVE Causes'
  OBVIOUS
<1>a. \A p \in procs : Accounted(p)
  BY DEF Causes
<1>1. CASE AppendLog
  BY <1>1, AppendCauses
<1>2. CASE Apply \/ Replay
  BY <1>2, ApplyCauses
<1>3. CASE Crash \/ Exit
  BY <1>3, DieCauses DEF Crash, Exit
<1>4. CASE Take
  BY <1>4, TakeCauses
<1>5. CASE Boot \/ GoLive \/ LoopExit \/ Stop \/ AppendFails
  <2>1. /\ UNCHANGED <<log, trail, cursor, inbox, todo, procs>>
        /\ pc' = "append" => UNCHANGED <<pc, current>>
        /\ pc' = "interpret" => UNCHANGED pc
    BY <1>5 DEF Boot, GoLive, LoopExit, Stop, AppendFails, Release, durable, Inv, Place
  <2>2. QED
    BY <2>1, <1>a, CausesKept
<1>6. CASE StartSubscriptions \/ FinishMessage
  <2>1. PICK k \in {0, 1} : DiffSubscriptions(k)
    BY <1>6 DEF StartSubscriptions, FinishMessage
  <2>2. \A p \in procs' : Accounted(p)
    BY <2>1, DiffAccounted
  <2>3. /\ UNCHANGED <<log, trail, cursor, inbox>>
        /\ pc' # "append" \/ UNCHANGED <<pc, current>>
        /\ pc' # "interpret" \/ UNCHANGED <<pc, todo>>
    BY <1>6 DEF StartSubscriptions, FinishMessage, Release, durable
  <2>4. QED
    BY <2>2, <2>3, CausesKept
<1>7. CASE InterpretSend
  <2>1. pc = "interpret" /\ todo # <<>> /\ todo \in Seq(Command)
    BY <1>7 DEF InterpretSend, Inv, TypeOK
  <2>2. PICK e : e = [msg |-> Head(todo).arg, cause |-> cursor, from |-> NoCaller]
    OBVIOUS
  <2>3. Explained(e, cursor)
    BY <1>7, <2>1, <2>2, ReturnedIsConsequence DEF InterpretSend, Explained
  <2>4. \A j \in DOMAIN todo' : \E i \in DOMAIN todo : todo'[j] = todo[i]
    BY <1>7, <2>1 DEF InterpretSend
  <2>5. /\ UNCHANGED <<log, trail, cursor, current, pc, procs>> /\ inbox' = Append(inbox, e)
    BY <1>7, <2>2 DEF InterpretSend, durable
  <2>6. QED
    BY <1>a, <2>3, <2>4, <2>5, CausesOffered
<1>8. CASE InterpretEffect
  <2>1. pc = "interpret" /\ todo # <<>> /\ todo \in Seq(Command)
    BY <1>8 DEF InterpretEffect, Inv, TypeOK
  <2>2. PICK g : g = Goroutine("effect", Head(todo).arg, cursor, Len(todo),
                               Reports(Head(todo).arg), 1)
    OBVIOUS
  <2>3. Accounted(g)
    BY <1>8, <2>1, <2>2, ReturnedIsConsequence DEF InterpretEffect, Goroutine, Accounted
  <2>4. /\ UNCHANGED <<log, trail, cursor, current, pc, inbox>> /\ todo' = Tail(todo)
        /\ procs' = procs \cup {g}
    BY <1>8, <2>2 DEF InterpretEffect, durable
  <2>5. QED
    BY <1>a, <2>1, <2>3, <2>4, CausesLessToDo
<1>9. ASSUME NEW c \in Callers, NEW m \in External, Send(c, m) PROVE Causes'
  <2>1. PICK e : e = [msg |-> m, cause |-> 0, from |-> c]
    OBVIOUS
  <2>2. Explained(e, cursor)
    BY <2>1 DEF Explained
  <2>3. /\ UNCHANGED <<log, trail, cursor, current, pc, todo, procs>>
        /\ inbox' = Append(inbox, e)
    BY <1>9, <2>1 DEF Send, durable, reducer
  <2>4. \A j \in DOMAIN todo' : \E i \in DOMAIN todo : todo'[j] = todo[i]
    BY <2>3
  <2>5. QED
    BY <1>a, <2>2, <2>3, <2>4, CausesOffered
<1>10. ASSUME NEW p \in procs, Emit(p) PROVE Causes'
  BY <1>10, EmitCauses
<1>11. ASSUME NEW p \in procs, Return(p) \/ EffectFails(p) PROVE Causes'
  <2>1. UNCHANGED <<log, trail, cursor, inbox, pc, current, todo>> /\ procs' \subseteq procs
    BY <1>11 DEF Return, EffectFails, durable, reducer
  <2>2. QED
    BY <1>a, <2>1, CausesKept
<1>12. CASE UNCHANGED vars
  BY <1>12, <1>a, CausesKept DEF vars
<1>13. QED
  BY <1>1, <1>2, <1>3, <1>4, <1>5, <1>6, <1>7, <1>8, <1>9, <1>10, <1>11, <1>12
     DEF Next, Progress, Failure

\* Nothing reaches the log or the channel that the log before it does not explain:
\* loop appends before it applies, interpret runs after both, and a goroutine
\* speaks only of the state it was started from (loop, interpret, emitFor).
THEOREM LogIsExplained == Spec => []LogExplainsItself
<1>1. Init => InHand /\ Causes
  BY DEF Init, InHand, Causes, LogExplainsItself, TodoIsReturned
<1>2. Causes => LogExplainsItself
  BY DEF Causes
<1>3. QED
  BY Invariance, InHandStep, CausesStep, <1>1, <1>2, PTL DEF Spec
-----------------------------------------------------------------------------
\* What the pending counter counts besides messages: a goroutine's hold on it,
\* named after the goroutine, once, and once more while a cancelled Await source
\* unwinds.
Ident(p) == <<p.kind, p.name, p.at, p.nth>>
Holds == {<<Ident(p), 1>> : p \in {q \in procs : q.holds >= 1}}
         \cup {<<Ident(p), 2>> : p \in {q \in procs : q.holds = 2}}
InHands == IF pc \in {"idle", "exited"} THEN 0 ELSE 1

\* Goroutines are told apart by what they are, what they were started for and
\* where in the log that was.
Distinct ==
  /\ IsFiniteSet(procs)
  /\ \A p, q \in procs : Ident(p) = Ident(q) => p = q
  /\ \A p \in procs : p.kind = "effect" =>
       p.at <= cursor /\ (p.at = cursor /\ pc = "interpret" => p.nth > Len(todo))
  /\ \A p \in procs : p.kind = "reaper" => p.at < cursor /\ Origin(p) \notin running
  /\ \A p \in procs : p.kind = "source" => p.nth = 0
  /\ \A r \in running : r.at = cursor => r.name \in Desired(model)

\* Equal quadruples have equal parts.
LEMMA Quadruples ==
  ASSUME NEW a, NEW b, NEW c, NEW d, NEW e, NEW f, NEW g, NEW h,
         <<a, b, c, d>> = <<e, f, g, h>>
  PROVE  a = e /\ b = f /\ c = g /\ d = h
OBVIOUS

Counted == pending = Len(inbox) + InHands + Cardinality(Holds)

\* A bijection keeps the number of elements.
LEMMA SameSize ==
  ASSUME NEW S, NEW T, IsFiniteSet(S), NEW f \in [S -> T],
         \A x, y \in S : f[x] = f[y] => x = y,
         \A t \in T : \E x \in S : f[x] = t
  PROVE  IsFiniteSet(T) /\ Cardinality(T) = Cardinality(S)
<1>1. f \in Surjection(S, T)
  BY DEF Surjection
<1>2. f \in Injection(S, T)
  BY DEF Injection, IsInjective
<1>3. QED
  BY <1>1, <1>2, FS_Surjection

\* Adding a set of holds of which there are none yet.
LEMMA Adds ==
  ASSUME NEW S, NEW T, IsFiniteSet(S), IsFiniteSet(T), S \cap T = {}
  PROVE  IsFiniteSet(S \cup T) /\ Cardinality(S \cup T) = Cardinality(S) + Cardinality(T)
<1>1. Cardinality(S \cap T) = 0 /\ Cardinality(S) \in Nat /\ Cardinality(T) \in Nat
  BY FS_EmptySet, FS_CardinalityType
<1>2. IsFiniteSet(S \cup T)
      /\ Cardinality(S \cup T) = Cardinality(S) + Cardinality(T) - Cardinality(S \cap T)
  BY FS_Union
<1>3. QED
  BY <1>1, <1>2

\* The holds are as many as the goroutines that have one and those that have two.
LEMMA HoldsCounted ==
  ASSUME Distinct
  PROVE  /\ IsFiniteSet(Holds)
         /\ Cardinality(Holds) = Cardinality({p \in procs : p.holds >= 1})
                                 + Cardinality({p \in procs : p.holds = 2})
<1> DEFINE A == {p \in procs : p.holds >= 1}
           B == {p \in procs : p.holds = 2}
           SA == {<<Ident(p), 1>> : p \in A}
           SB == {<<Ident(p), 2>> : p \in B}
           fa == [p \in A |-> <<Ident(p), 1>>]
           fb == [p \in B |-> <<Ident(p), 2>>]
<1>1. IsFiniteSet(A) /\ IsFiniteSet(B)
  BY FS_Subset DEF Distinct
<1>2. IsFiniteSet(SA) /\ Cardinality(SA) = Cardinality(A)
  <2>1. fa \in [A -> SA] /\ \A t \in SA : \E p \in A : fa[p] = t
    OBVIOUS
  <2>2. ASSUME NEW p \in A, NEW q \in A, fa[p] = fa[q] PROVE p = q
    <3>1. Ident(p) = Ident(q)
      BY <2>2
    <3>2. QED
      BY <3>1 DEF Distinct
  <2> HIDE DEF fa, SA, A
  <2>3. QED
    BY <1>1, <2>1, <2>2, SameSize
<1>3. IsFiniteSet(SB) /\ Cardinality(SB) = Cardinality(B)
  <2>1. fb \in [B -> SB] /\ \A t \in SB : \E p \in B : fb[p] = t
    OBVIOUS
  <2>2. ASSUME NEW p \in B, NEW q \in B, fb[p] = fb[q] PROVE p = q
    <3>1. Ident(p) = Ident(q)
      BY <2>2
    <3>2. QED
      BY <3>1 DEF Distinct
  <2> HIDE DEF fb, SB, B
  <2>3. QED
    BY <1>1, <2>1, <2>2, SameSize
<1>4. SA \cap SB = {}
  OBVIOUS
<1>5. Holds = SA \cup SB
  BY DEF Holds
<1> HIDE DEF SA, SB
<1>6. IsFiniteSet(SA \cup SB) /\ Cardinality(SA \cup SB) = Cardinality(SA) + Cardinality(SB)
  BY <1>2, <1>3, <1>4, Adds
<1>7. QED
  BY <1>2, <1>3, <1>5, <1>6

\* A goroutine that returns gives up its holds, and only its own.
LEMMA ReturnHolds ==
  ASSUME TypeOK, Distinct, NEW p \in procs, procs' = procs \ {p}
  PROVE  Cardinality(Holds') = Cardinality(Holds) - p.holds
<1>1. p.holds \in 0..2
  BY DEF TypeOK, ProcType
<1>2. IsFiniteSet(Holds) /\ Cardinality(Holds) \in Nat
  BY HoldsCounted, FS_CardinalityType
<1>3. Holds' = (Holds \ {<<Ident(p), 1>>}) \ {<<Ident(p), 2>>}
  <2>1. ASSUME NEW t \in Holds' PROVE t \in (Holds \ {<<Ident(p), 1>>}) \ {<<Ident(p), 2>>}
    <3>1. PICK q \in procs \ {p} : \/ q.holds >= 1 /\ t = <<Ident(q), 1>>
                                   \/ q.holds = 2 /\ t = <<Ident(q), 2>>
      BY DEF Holds
    <3>2. Ident(q) # Ident(p)
      BY DEF Distinct
    <3>3. t \in Holds
      BY <3>1 DEF Holds
    <3> HIDE DEF Ident
    <3>4. QED
      BY <3>1, <3>2, <3>3
  <2>2. ASSUME NEW t \in Holds, t # <<Ident(p), 1>>, t # <<Ident(p), 2>> PROVE t \in Holds'
    <3>1. PICK q \in procs : \/ q.holds >= 1 /\ t = <<Ident(q), 1>>
                             \/ q.holds = 2 /\ t = <<Ident(q), 2>>
      BY DEF Holds
    <3>2. q \in procs'
      BY <3>1, <2>2
    <3>3. QED
      BY <3>1, <3>2 DEF Holds
  <2>3. QED
    BY <2>1, <2>2
<1>4. <<Ident(p), 1>> \in Holds <=> p.holds >= 1
  <2>1. ASSUME <<Ident(p), 1>> \in Holds PROVE p.holds >= 1
    <3>1. PICK q \in procs : q.holds >= 1 /\ Ident(p) = Ident(q)
      BY <2>1 DEF Holds
    <3>2. QED
      BY <3>1 DEF Distinct
  <2>2. QED
    BY <2>1 DEF Holds
<1>5. <<Ident(p), 2>> \in Holds <=> p.holds = 2
  <2>1. ASSUME <<Ident(p), 2>> \in Holds PROVE p.holds = 2
    <3>1. PICK q \in procs : q.holds = 2 /\ Ident(p) = Ident(q)
      BY <2>1 DEF Holds
    <3>2. QED
      BY <3>1 DEF Distinct
  <2>2. QED
    BY <2>1 DEF Holds
<1>6. <<Ident(p), 1>> # <<Ident(p), 2>>
  OBVIOUS
<1> DEFINE one == <<Ident(p), 1>>
           two == <<Ident(p), 2>>
<1> HIDE DEF one, two
<1>7. /\ IsFiniteSet(Holds \ {one})
      /\ Cardinality(Holds \ {one}) = IF one \in Holds THEN Cardinality(Holds) - 1
                                      ELSE Cardinality(Holds)
  BY <1>2, FS_RemoveElement
<1>8. Cardinality((Holds \ {one}) \ {two}) =
        IF two \in Holds \ {one} THEN Cardinality(Holds \ {one}) - 1
        ELSE Cardinality(Holds \ {one})
  BY <1>7, FS_RemoveElement
<1>9. /\ Holds' = (Holds \ {one}) \ {two} /\ one # two
      /\ one \in Holds <=> p.holds >= 1
      /\ two \in Holds <=> p.holds = 2
  BY <1>3, <1>4, <1>5, <1>6 DEF one, two
<1>10. QED
  BY <1>1, <1>2, <1>7, <1>8, <1>9

\* Cancelling a running source touches one goroutine: the source's own, if it has
\* not returned yet, or else a new one that waits for nothing.
LEMMA UnwindingIs ==
  ASSUME TypeOK, Held, Distinct, NEW r \in running
  PROVE  /\ \A q \in procs : q.kind = "source" /\ Origin(q) = r =>
              Unwinding(r) = {[q EXCEPT !.holds = @ + 1]} /\ q.holds \in 0..1
         /\ (~ \E q \in procs : q.kind = "source" /\ Origin(q) = r) =>
              Unwinding(r) = {Goroutine("reaper", r.name, r.at, 0, <<>>, 1)}
<1>1. r \in [name : Source, at : Nat]
  BY DEF TypeOK
<1>2. \A q : Origin(q) = r <=> q.name = r.name /\ q.at = r.at
  BY <1>1 DEF Origin
<1>3. ASSUME NEW q \in procs, q.kind = "source", Origin(q) = r
      PROVE  Unwinding(r) = {[q EXCEPT !.holds = @ + 1]} /\ q.holds \in 0..1
  <2>1. \A p \in procs : p.kind = "source" /\ p.name = r.name /\ p.at = r.at => p = q
    BY <1>2, <1>3 DEF Distinct, Ident
  <2>2. {p \in procs : p.kind = "source" /\ p.name = r.name /\ p.at = r.at} = {q}
    BY <2>1, <1>2, <1>3
  <2>3. Unwinding(r) = {[p EXCEPT !.holds = @ + 1] : p \in {q}}
    BY <2>2 DEF Unwinding
  <2>4. q.holds \in 0..1
    BY <1>3 DEF TypeOK, ProcType, Held
  <2>5. QED
    BY <2>3, <2>4
<1>4. (~ \E q \in procs : q.kind = "source" /\ Origin(q) = r) =>
        Unwinding(r) = {Goroutine("reaper", r.name, r.at, 0, <<>>, 1)}
  BY <1>2 DEF Unwinding
<1>5. QED
  BY <1>3, <1>4

Stops == {r \in running : r.name \notin Desired(model)}
Starts == Desired(model) \ {r.name : r \in running}
Born(i) == Goroutine("source", i, cursor, 0, <<Prompt(i)>>, IF i \in AwaitSource THEN 1 ELSE 0)
Reaper(r) == Goroutine("reaper", r.name, r.at, 0, <<>>, 1)

\* The goroutines after a diff.
LEMMA DiffProcs ==
  ASSUME TypeOK, Held, Distinct, NEW settled \in {0, 1}, DiffSubscriptions(settled),
         NEW p
  PROVE  p \in procs' <=>
           \/ p \in procs /\ (p.kind # "source" \/ Origin(p) \notin Stops)
           \/ \E i \in Starts : p = Born(i)
           \/ \E q \in procs : /\ q.kind = "source" /\ Origin(q) \in Stops
                               /\ p = [q EXCEPT !.holds = @ + 1]
           \/ \E r \in Stops : /\ ~ \E q \in procs : q.kind = "source" /\ Origin(q) = r
                               /\ p = Reaper(r)
<1> DEFINE other == {o \in procs : o.kind # "source" \/ Origin(o) \notin Stops}
<1>1. procs' = other \cup {Born(i) : i \in Starts} \cup UNION {Unwinding(r) : r \in Stops}
  BY DEF DiffSubscriptions, Origin, Stops, Starts, Born
<1>2. ASSUME NEW r \in Stops
      PROVE  p \in Unwinding(r) <=>
               \/ \E q \in procs : /\ q.kind = "source" /\ Origin(q) = r
                                   /\ p = [q EXCEPT !.holds = @ + 1]
               \/ /\ ~ \E q \in procs : q.kind = "source" /\ Origin(q) = r
                  /\ p = Reaper(r)
  <2>1. r \in running
    BY DEF Stops
  <2>2. CASE \E q \in procs : q.kind = "source" /\ Origin(q) = r
    <3>1. PICK q \in procs : q.kind = "source" /\ Origin(q) = r
      BY <2>2
    <3>2. Unwinding(r) = {[q EXCEPT !.holds = @ + 1]}
      BY <2>1, <3>1, UnwindingIs
    <3>3. \A o \in procs : o.kind = "source" /\ Origin(o) = r =>
            Unwinding(r) = {[o EXCEPT !.holds = @ + 1]}
      BY <2>1, UnwindingIs
    <3>4. QED
      BY <2>2, <3>1, <3>2, <3>3
  <2>3. CASE ~ \E q \in procs : q.kind = "source" /\ Origin(q) = r
    BY <2>1, <2>3, UnwindingIs DEF Reaper
  <2>4. QED
    BY <2>2, <2>3
<1>3. QED
  BY <1>1, <1>2

\* Where the goroutines of a diff come from, and how they are named.
LEMMA DiffNames ==
  /\ \A i : /\ Born(i).kind = "source" /\ Born(i).name = i /\ Born(i).at = cursor
            /\ Born(i).nth = 0 /\ Origin(Born(i)) = [name |-> i, at |-> cursor]
            /\ Ident(Born(i)) = <<"source", i, cursor, 0>>
            /\ Born(i).holds = IF i \in AwaitSource THEN 1 ELSE 0
  /\ \A r : /\ Reaper(r).kind = "reaper" /\ Reaper(r).name = r.name /\ Reaper(r).at = r.at
            /\ Origin(Reaper(r)) = [name |-> r.name, at |-> r.at]
            /\ Ident(Reaper(r)) = <<"reaper", r.name, r.at, 0>> /\ Reaper(r).holds = 1
  /\ \A q \in ProcType :
        LET p == [q EXCEPT !.holds = @ + 1]
        IN /\ Ident(p) = Ident(q) /\ Origin(p) = Origin(q) /\ p.holds = q.holds + 1
           /\ p.kind = q.kind /\ p.nth = q.nth /\ p.at = q.at
BY DEF Born, Reaper, Goroutine, Ident, Origin, ProcType

\* No goroutine has the place a diff starts a source in, and none of a source
\* that is running is a reaper's.
LEMMA DiffFresh ==
  ASSUME TypeOK, Held, Distinct
  PROVE  /\ \A p \in procs, i \in Starts : Ident(p) # <<"source", i, cursor, 0>>
         /\ \A p \in procs, r \in running : Ident(p) # <<"reaper", r.name, r.at, 0>>
         /\ \A r \in running, i \in Starts : r.name # i
         /\ \A r \in Stops : r.at < cursor
<1>1. ASSUME NEW p \in procs, NEW i \in Starts, Ident(p) = <<"source", i, cursor, 0>>
      PROVE  FALSE
  <2>1. p.kind = "source" /\ p.name = i /\ p.at = cursor
    BY <1>1 DEF Ident
  <2>2. i \in Desired(model) /\ ~ \E r \in running : r.name = i
    BY DEF Starts
  <2>3. Origin(p) \notin running
    BY <2>1, <2>2 DEF Origin
  <2>4. QED
    BY <2>1, <2>2, <2>3 DEF Held
<1>2. ASSUME NEW p \in procs, NEW r \in running, Ident(p) = <<"reaper", r.name, r.at, 0>>
      PROVE  FALSE
  <2>1. p.kind = "reaper" /\ p.name = r.name /\ p.at = r.at
    BY <1>2 DEF Ident
  <2>2. Origin(p) = r
    BY <2>1 DEF Origin, TypeOK
  <2>3. QED
    BY <2>1, <2>2 DEF Distinct
<1>3. \A r \in running, i \in Starts : r.name # i
  BY DEF Starts
<1>4. ASSUME NEW r \in Stops PROVE r.at < cursor
  <2>1. r \in running /\ r.name \notin Desired(model)
    BY DEF Stops
  <2>2. r.at # cursor /\ r.at <= cursor
    BY <2>1 DEF Distinct, Held
  <2>3. r.at \in Nat /\ cursor \in Nat
    BY <2>1 DEF TypeOK
  <2>4. QED
    BY <2>2, <2>3
<1>5. QED
  BY <1>1, <1>2, <1>3, <1>4

\* The image of a finite set is finite.
LEMMA ImageIsFinite ==
  ASSUME NEW S, IsFiniteSet(S), NEW f, DOMAIN f = S
  PROVE  IsFiniteSet({f[x] : x \in S})
<1> DEFINE T == {f[x] : x \in S}
           g == [x \in S |-> f[x]]
<1>1. g \in [S -> T] /\ \A t \in T : \E x \in S : g[x] = t
  OBVIOUS
<1>2. g \in Surjection(S, T)
  BY <1>1 DEF Surjection
<1>3. QED
  BY <1>2, FS_Surjection

\* Reconciling the subscriptions stops and starts finitely many processes.
LEMMA DiffFinite ==
  ASSUME TypeOK, Held, Distinct, NEW settled \in {0, 1}, DiffSubscriptions(settled)
  PROVE  IsFiniteSet(procs') /\ IsFiniteSet(Stops) /\ IsFiniteSet(Starts)
<1> DEFINE born == [i \in Starts |-> Born(i)]
           more == [q \in procs |-> [q EXCEPT !.holds = @ + 1]]
           reap == [r \in Stops |-> Reaper(r)]
           A == {born[i] : i \in Starts}
           B == {more[q] : q \in procs}
           C == {reap[r] : r \in Stops}
<1>1. IsFiniteSet(Stops) /\ IsFiniteSet(Starts)
  <2>1. IsFiniteSet(Desired(model))
    BY AppAssumption DEF TypeOK
  <2>2. Stops \subseteq running /\ Starts \subseteq Desired(model)
    BY DEF Stops, Starts
  <2>3. QED
    BY <2>1, <2>2, FS_Subset DEF Held
<1>2. IsFiniteSet(A) /\ IsFiniteSet(B) /\ IsFiniteSet(C)
  <2>1. DOMAIN born = Starts /\ DOMAIN more = procs /\ DOMAIN reap = Stops
    OBVIOUS
  <2> HIDE DEF born, more, reap
  <2>2. QED
    BY <1>1, <2>1, ImageIsFinite DEF Distinct
<1>3. procs' \subseteq procs \cup A \cup B \cup C
  <2>1. ASSUME NEW p \in procs' PROVE p \in procs \cup A \cup B \cup C
    BY <2>1, DiffProcs
  <2>2. QED
    BY <2>1
<1> HIDE DEF A, B, C
<1>4. IsFiniteSet(procs \cup A \cup B \cup C)
  BY <1>2, FS_Union DEF Distinct
<1>5. QED
  BY <1>1, <1>3, <1>4, FS_Subset

\* A diff keeps the goroutines apart.
LEMMA DiffDistinct ==
  ASSUME TypeOK, Held, Distinct, NEW settled \in {0, 1}, DiffSubscriptions(settled),
         UNCHANGED <<cursor, model>>, pc' = "interpret" => UNCHANGED <<pc, todo>>
  PROVE  Distinct'
<1> DEFINE Kept(p) == p \in procs /\ (p.kind # "source" \/ Origin(p) \notin Stops)
           New(p) == \E i \in Starts : p = Born(i)
           Ending(p) == \E q \in procs : /\ q.kind = "source" /\ Origin(q) \in Stops
                                         /\ p = [q EXCEPT !.holds = @ + 1]
           Waiting(p) == \E r \in Stops : /\ ~ \E q \in procs : q.kind = "source" /\ Origin(q) = r
                                          /\ p = Reaper(r)
<1>1. \A p \in procs' : Kept(p) \/ New(p) \/ Ending(p) \/ Waiting(p)
  BY DiffProcs
<1>2. /\ procs \subseteq ProcType /\ cursor \in Nat
      /\ \A r \in running : r = [name |-> r.name, at |-> r.at] /\ r.at \in Nat
      /\ Stops \subseteq running
  BY DEF TypeOK, Stops
<1>3. running' = (running \ Stops) \cup {[name |-> i, at |-> cursor] : i \in Starts}
  BY DEF DiffSubscriptions, Stops, Starts
\* What each sort of goroutine is called, and where it comes from.
<1>4. ASSUME NEW p, Kept(p) PROVE p \in procs
  BY <1>4
<1>5. ASSUME NEW p, New(p)
      PROVE  \E i \in Starts : Ident(p) = <<"source", i, cursor, 0>> /\ p = Born(i)
  BY <1>5, DiffNames
<1>6. ASSUME NEW p, Ending(p)
      PROVE  \E q \in procs : /\ q.kind = "source" /\ Origin(q) \in Stops
                              /\ p = [q EXCEPT !.holds = @ + 1] /\ Ident(p) = Ident(q)
                              /\ p.kind = "source" /\ p.nth = q.nth
  <2>1. PICK q \in procs : /\ q.kind = "source" /\ Origin(q) \in Stops
                           /\ p = [q EXCEPT !.holds = @ + 1]
    BY <1>6
  <2>2. q \in ProcType
    BY <1>2
  <2>3. QED
    BY <2>1, <2>2, DiffNames
<1>7. ASSUME NEW p, Waiting(p)
      PROVE  \E r \in Stops : /\ Ident(p) = <<"reaper", r.name, r.at, 0>> /\ p = Reaper(r)
                              /\ r \in running
  BY <1>7, <1>2, DiffNames
<1> HIDE DEF Kept, New, Ending, Waiting
<1>8. ASSUME NEW p \in procs', NEW q \in procs', Ident(p) = Ident(q) PROVE p = q
  <2>1. \A o \in procs : \A i \in Starts : Ident(o) # <<"source", i, cursor, 0>>
    BY DiffFresh
  <2>2. \A o \in procs : \A r \in running : Ident(o) # <<"reaper", r.name, r.at, 0>>
    BY DiffFresh
  <2>3. ASSUME NEW x \in procs', NEW y \in procs', Ident(x) = Ident(y), New(x) PROVE x = y
    <3>1. PICK i \in Starts : Ident(x) = <<"source", i, cursor, 0>> /\ x = Born(i)
      BY <2>3, <1>5
    <3>2. ~Kept(y)
      BY <2>1, <2>3, <3>1, <1>4
    <3>3. ~Ending(y)
      <4>1. SUFFICES ASSUME Ending(y) PROVE FALSE
        OBVIOUS
      <4>2. PICK o \in procs : Ident(y) = Ident(o)
        BY <4>1, <1>6
      <4>3. QED
        BY <2>1, <2>3, <3>1, <4>2
    <3>4. ~Waiting(y)
      <4>1. SUFFICES ASSUME Waiting(y) PROVE FALSE
        OBVIOUS
      <4>2. PICK r \in Stops : Ident(y) = <<"reaper", r.name, r.at, 0>>
        BY <4>1, <1>7
      <4>3. <<"source", i, cursor, 0>> = <<"reaper", r.name, r.at, 0>>
        BY <2>3, <3>1, <4>2
      <4>4. "source" = "reaper"
        BY <4>3, Quadruples
      <4>5. QED
        BY <4>4
    <3>5. PICK j \in Starts : Ident(y) = <<"source", j, cursor, 0>> /\ y = Born(j)
      BY <3>2, <3>3, <3>4, <1>1, <1>5
    <3>6. <<"source", i, cursor, 0>> = <<"source", j, cursor, 0>>
      BY <2>3, <3>1, <3>5
    <3>7. i = j
      BY <3>6, Quadruples
    <3>8. QED
      BY <3>1, <3>5, <3>7
  <2>4. ASSUME NEW x \in procs', NEW y \in procs', Ident(x) = Ident(y), Waiting(x), ~New(y)
        PROVE x = y
    <3>1. PICK r \in Stops : /\ Ident(x) = <<"reaper", r.name, r.at, 0>> /\ x = Reaper(r)
                             /\ r \in running
      BY <2>4, <1>7
    <3>2. ~Kept(y)
      BY <2>2, <2>4, <3>1, <1>4
    <3>3. ~Ending(y)
      <4>1. SUFFICES ASSUME Ending(y) PROVE FALSE
        OBVIOUS
      <4>2. PICK o \in procs : Ident(y) = Ident(o)
        BY <4>1, <1>6
      <4>3. QED
        BY <2>2, <2>4, <3>1, <4>2
    <3>4. PICK s \in Stops : /\ Ident(y) = <<"reaper", s.name, s.at, 0>> /\ y = Reaper(s)
                             /\ s \in running
      BY <3>2, <3>3, <2>4, <1>1, <1>7
    <3>5. <<"reaper", r.name, r.at, 0>> = <<"reaper", s.name, s.at, 0>>
      BY <2>4, <3>1, <3>4
    <3>6. r.name = s.name /\ r.at = s.at
      BY <3>5, Quadruples
    <3>7. r = s
      BY <3>1, <3>4, <3>6, <1>2
    <3>8. QED
      BY <3>1, <3>4, <3>7
  <2>5. ASSUME NEW x \in procs', NEW y \in procs', Ident(x) = Ident(y), Ending(x), Ending(y)
        PROVE x = y
    <3>1. PICK o \in procs : Ident(x) = Ident(o) /\ x = [o EXCEPT !.holds = @ + 1]
      BY <2>5, <1>6
    <3>2. PICK n \in procs : Ident(y) = Ident(n) /\ y = [n EXCEPT !.holds = @ + 1]
      BY <2>5, <1>6
    <3>3. o = n
      BY <2>5, <3>1, <3>2 DEF Distinct
    <3>4. QED
      BY <3>1, <3>2, <3>3
  <2>6. ASSUME NEW x \in procs', NEW y \in procs', Ident(x) = Ident(y), Ending(x), Kept(y)
        PROVE FALSE
    <3>1. PICK o \in procs : Ident(x) = Ident(o) /\ o.kind = "source" /\ Origin(o) \in Stops
      BY <2>6, <1>6
    <3>2. o = y
      BY <2>6, <3>1, <1>4 DEF Distinct
    <3>3. QED
      BY <3>1, <3>2, <2>6 DEF Kept
  <2>7. ASSUME Kept(p), Kept(q) PROVE p = q
    BY <2>7, <1>4, <1>8 DEF Distinct
  <2>8. CASE New(p) \/ New(q)
    BY <2>8, <2>3, <1>8
  <2>9. CASE ~New(p) /\ ~New(q) /\ (Waiting(p) \/ Waiting(q))
    BY <2>9, <2>4, <1>8
  <2>10. CASE Ending(p) \/ Ending(q)
    BY <2>10, <2>3, <2>4, <2>5, <2>6, <2>8, <2>9, <1>1, <1>8
  <2>11. QED
    BY <2>7, <2>8, <2>9, <2>10, <1>1
<1>9. ASSUME NEW p \in procs', p.kind = "effect"
      PROVE  p.at <= cursor' /\ (p.at = cursor' /\ pc' = "interpret" => p.nth > Len(todo'))
  <2>1. ~New(p) /\ ~Ending(p) /\ ~Waiting(p)
    BY <1>9, DiffNames, <1>5, <1>6, <1>7 DEF Ident
  <2>2. p \in procs
    BY <2>1, <1>1, <1>4
  <2>3. QED
    BY <2>2, <1>9 DEF Distinct
<1>10. ASSUME NEW p \in procs', p.kind = "reaper"
       PROVE  p.at < cursor' /\ Origin(p) \notin running'
  <2>1. ~New(p) /\ ~Ending(p)
    BY <1>10, <1>5, <1>6 DEF Ident
  <2>2. CASE Kept(p)
    <3>1. p \in procs /\ p.at < cursor /\ Origin(p) \notin running
      BY <2>2, <1>4, <1>10 DEF Distinct
    <3>2. p.at \in Nat
      BY <3>1, <1>2 DEF ProcType
    <3>3. \A i \in Starts : Origin(p) # [name |-> i, at |-> cursor]
      BY <3>1, <3>2, <1>2 DEF Origin
    <3>4. QED
      BY <3>1, <3>3, <1>3
  <2>3. CASE Waiting(p)
    <3>1. PICK r \in Stops : p = Reaper(r) /\ r \in running
      BY <2>3, <1>7
    <3>2. p.at = r.at /\ Origin(p) = [name |-> r.name, at |-> r.at]
      BY <3>1, DiffNames
    <3>3. r.at < cursor /\ \A i \in Starts : r.name # i
      BY <3>1, DiffFresh
    <3>4. Origin(p) = r
      BY <3>1, <3>2, <1>2
    <3>5. \A i \in Starts : Origin(p) # [name |-> i, at |-> cursor]
      BY <3>2, <3>3
    <3>6. QED
      BY <3>1, <3>2, <3>3, <3>4, <3>5, <1>3
  <2>4. QED
    BY <2>1, <2>2, <2>3, <1>1
<1>11. ASSUME NEW p \in procs', p.kind = "source" PROVE p.nth = 0
  <2>1. CASE Kept(p)
    BY <2>1, <1>4, <1>11 DEF Distinct
  <2>2. CASE New(p)
    <3>1. PICK i \in Starts : p = Born(i)
      BY <2>2, <1>5
    <3>2. QED
      BY <3>1 DEF Born, Goroutine
  <2>3. CASE Ending(p)
    <3>1. PICK q \in procs : q.kind = "source" /\ p.nth = q.nth
      BY <2>3, <1>6
    <3>2. QED
      BY <3>1 DEF Distinct
  <2>4. CASE Waiting(p)
    <3>1. PICK r \in Stops : p = Reaper(r)
      BY <2>4, <1>7
    <3>2. QED
      BY <3>1, <1>11 DEF Reaper, Goroutine
  <2>5. QED
    BY <2>1, <2>2, <2>3, <2>4, <1>1
<1>12. ASSUME NEW r \in running', r.at = cursor' PROVE r.name \in Desired(model')
  BY <1>3, <1>12 DEF Distinct, Starts
<1>13. IsFiniteSet(procs')
  BY DiffFinite
<1>14. QED
  BY <1>8, <1>9, <1>10, <1>11, <1>12, <1>13 DEF Distinct

\* What the cancellation of a source holds of the counter until it is over.
Own(r) == \E q \in procs : q.kind = "source" /\ Origin(q) = r
Twice(r) == \E q \in procs : q.kind = "source" /\ Origin(q) = r /\ q.holds = 1
Nth(r) == IF Twice(r) THEN 2 ELSE 1
Extra(r) == IF Own(r) THEN <<<<"source", r.name, r.at, 0>>, Nth(r)>>
            ELSE <<<<"reaper", r.name, r.at, 0>>, 1>>
Extras == {Extra(r) : r \in Stops}
\* What an Await source that starts holds of it.
Awaited(i) == <<<<"source", i, cursor, 0>>, 1>>
Awaiteds == {Awaited(i) : i \in Starts \cap AwaitSource}

\* Which tokens are held, and by whom.
LEMMA InHolds ==
  ASSUME NEW t
  PROVE  t \in Holds <=> \E p \in procs : \/ p.holds >= 1 /\ t = <<Ident(p), 1>>
                                          \/ p.holds = 2 /\ t = <<Ident(p), 2>>
BY DEF Holds

\* The goroutine of a source that is running.
LEMMA SourceIdent ==
  ASSUME TypeOK, Held, Distinct, NEW r \in running, NEW q \in procs,
         q.kind = "source", Origin(q) = r
  PROVE  Ident(q) = <<"source", r.name, r.at, 0>> /\ q.holds \in 0..1
BY DEF TypeOK, Held, ProcType, Distinct, Ident, Origin

\* One hold more for each cancelled source, and for each Await source started.
LEMMA DiffAdds ==
  ASSUME TypeOK, Held, Distinct
  PROVE  /\ IsFiniteSet(Stops) => IsFiniteSet(Extras) /\ Cardinality(Extras) = Cardinality(Stops)
         /\ IsFiniteSet(Starts) => /\ IsFiniteSet(Awaiteds)
                                   /\ Cardinality(Awaiteds) = Cardinality(Starts \cap AwaitSource)
         /\ Holds \cap Extras = {}
         /\ (Holds \cup Extras) \cap Awaiteds = {}
<1>0. /\ \A r \in running : r = [name |-> r.name, at |-> r.at]
      /\ Stops \subseteq running
  BY DEF TypeOK, Stops
<1>1. ASSUME NEW r \in Stops, NEW s \in Stops, Extra(r) = Extra(s) PROVE r = s
  <2>1. PICK k, l \in {"source", "reaper"} :
          <<k, r.name, r.at, 0>> = <<l, s.name, s.at, 0>>
    BY <1>1 DEF Extra
  <2>2. r.name = s.name /\ r.at = s.at
    BY <2>1, Quadruples
  <2>3. QED
    BY <1>0, <2>2
<1>2. ASSUME IsFiniteSet(Stops)
      PROVE  IsFiniteSet(Extras) /\ Cardinality(Extras) = Cardinality(Stops)
  <2> DEFINE f == [r \in Stops |-> Extra(r)]
  <2>1. /\ f \in [Stops -> Extras] /\ \A t \in Extras : \E r \in Stops : f[r] = t
        /\ \A x, y \in Stops : f[x] = f[y] => x = y
    BY <1>1 DEF Extras
  <2> HIDE DEF f
  <2>2. QED
    BY <2>1, <1>2, SameSize
<1>3. ASSUME IsFiniteSet(Starts)
      PROVE  /\ IsFiniteSet(Awaiteds)
             /\ Cardinality(Awaiteds) = Cardinality(Starts \cap AwaitSource)
  <2> DEFINE S == Starts \cap AwaitSource
             f == [i \in S |-> Awaited(i)]
  <2>1. IsFiniteSet(S)
    BY <1>3, FS_Subset
  <2>2. ASSUME NEW i \in S, NEW j \in S, f[i] = f[j] PROVE i = j
    <3>1. <<"source", i, cursor, 0>> = <<"source", j, cursor, 0>>
      BY <2>2 DEF Awaited
    <3>2. QED
      BY <3>1, Quadruples
  <2>3. f \in [S -> Awaiteds] /\ \A t \in Awaiteds : \E i \in S : f[i] = t
    BY DEF Awaiteds
  <2> HIDE DEF f, S
  <2>4. Cardinality(Awaiteds) = Cardinality(S) /\ IsFiniteSet(Awaiteds)
    BY <2>1, <2>2, <2>3, SameSize
  <2>5. QED
    BY <2>4 DEF S
<1>4. ASSUME NEW r \in Stops, Extra(r) \in Holds PROVE FALSE
  <2>0. r \in running
    BY <1>0
  <2>1. PICK p \in procs : \/ p.holds >= 1 /\ Extra(r) = <<Ident(p), 1>>
                           \/ p.holds = 2 /\ Extra(r) = <<Ident(p), 2>>
    BY <1>4, InHolds
  <2>2. CASE Own(r)
    <3>1. PICK q \in procs : /\ q.kind = "source" /\ Origin(q) = r
                             /\ Ident(q) = <<"source", r.name, r.at, 0>> /\ q.holds \in 0..1
      BY <2>0, <2>2, SourceIdent DEF Own
    <3>2. Extra(r) = <<Ident(q), Nth(r)>>
      BY <2>2, <3>1 DEF Extra
    <3>3. Ident(p) = Ident(q)
      BY <2>1, <3>2
    <3>4. p = q
      BY <3>3 DEF Distinct
    <3>5. q.holds = 1 /\ Nth(r) = 1
      BY <2>1, <3>1, <3>2, <3>4
    <3>6. Twice(r)
      BY <3>1, <3>5 DEF Twice
    <3>7. QED
      BY <3>5, <3>6 DEF Nth
  <2>3. CASE ~Own(r)
    <3>1. Ident(p) = <<"reaper", r.name, r.at, 0>>
      BY <2>1, <2>3 DEF Extra
    <3>2. QED
      BY <2>0, <3>1, DiffFresh
  <2>4. QED
    BY <2>2, <2>3
<1>5. ASSUME NEW i \in Starts, Awaited(i) \in Holds PROVE FALSE
  <2>1. PICK p \in procs : Ident(p) = <<"source", i, cursor, 0>>
    BY <1>5, InHolds DEF Awaited
  <2>2. QED
    BY <2>1, DiffFresh
<1>6. ASSUME NEW i \in Starts, NEW r \in Stops, Awaited(i) = Extra(r) PROVE FALSE
  <2>1. PICK k \in {"source", "reaper"} : <<"source", i, cursor, 0>> = <<k, r.name, r.at, 0>>
    BY <1>6 DEF Awaited, Extra
  <2>2. r.name = i
    BY <2>1, Quadruples
  <2>3. QED
    BY <2>2, <1>0, DiffFresh
<1>7. QED
  BY <1>2, <1>3, <1>4, <1>5, <1>6 DEF Extras, Awaiteds

\* A diff keeps the holds there were and adds these.
LEMMA DiffHolds ==
  ASSUME TypeOK, Held, Distinct, NEW settled \in {0, 1}, DiffSubscriptions(settled)
  PROVE  Holds' = (Holds \cup Extras) \cup Awaiteds
<1>0. /\ \A r \in running : r = [name |-> r.name, at |-> r.at]
      /\ Stops \subseteq running /\ procs \subseteq ProcType
  BY DEF TypeOK, Stops
<1>a. ASSUME NEW t
      PROVE  t \in Holds' <=> \E p \in procs' : \/ p.holds >= 1 /\ t = <<Ident(p), 1>>
                                                \/ p.holds = 2 /\ t = <<Ident(p), 2>>
  BY DEF Holds
<1>1. ASSUME NEW t \in Holds' PROVE t \in (Holds \cup Extras) \cup Awaiteds
  <2>1. PICK p \in procs' : \/ p.holds >= 1 /\ t = <<Ident(p), 1>>
                            \/ p.holds = 2 /\ t = <<Ident(p), 2>>
    BY <1>a
  <2>2. CASE p \in procs
    BY <2>1, <2>2, InHolds
  <2>3. ASSUME NEW i \in Starts, p = Born(i) PROVE t \in Awaiteds
    <3>1. Ident(p) = <<"source", i, cursor, 0>> /\ p.holds = IF i \in AwaitSource THEN 1 ELSE 0
      BY <2>3 DEF Born, Goroutine, Ident
    <3>2. i \in AwaitSource /\ p.holds = 1
      BY <2>1, <3>1
    <3>3. t = Awaited(i)
      BY <2>1, <3>1, <3>2 DEF Awaited
    <3>4. QED
      BY <3>2, <3>3 DEF Awaiteds
  <2>4. ASSUME NEW q \in procs, q.kind = "source", Origin(q) \in Stops,
               p = [q EXCEPT !.holds = @ + 1]
        PROVE  t \in Holds \cup Extras
    <3>1. PICK r \in Stops : r = Origin(q) /\ r \in running
      BY <2>4, <1>0
    <3>2. Ident(q) = <<"source", r.name, r.at, 0>> /\ q.holds \in 0..1
      BY <2>4, <3>1, SourceIdent
    <3>3. Ident(p) = Ident(q) /\ p.holds = q.holds + 1
      BY <2>4, <1>0, DiffNames
    <3>4. Own(r)
      BY <2>4, <3>1 DEF Own
    <3>5. CASE q.holds = 1
      <4>1. Twice(r)
        BY <2>4, <3>1, <3>5 DEF Twice
      <4>2. Extra(r) = <<Ident(q), 2>>
        BY <4>1, <3>2, <3>4 DEF Extra, Nth
      <4>3. t = <<Ident(q), 1>> \/ t = <<Ident(q), 2>>
        BY <2>1, <3>3
      <4>4. QED
        BY <4>2, <4>3, <3>5, InHolds DEF Extras
    <3>6. CASE q.holds = 0
      <4>1. ~Twice(r)
        <5>1. SUFFICES ASSUME Twice(r) PROVE FALSE
          OBVIOUS
        <5>2. PICK o \in procs : o.kind = "source" /\ Origin(o) = r /\ o.holds = 1
          BY <5>1 DEF Twice
        <5>3. Ident(o) = Ident(q)
          BY <5>2, <3>1, <3>2, SourceIdent
        <5>4. QED
          BY <5>2, <5>3, <3>6 DEF Distinct
      <4>2. Extra(r) = <<Ident(q), 1>>
        BY <4>1, <3>2, <3>4 DEF Extra, Nth
      <4>3. t = <<Ident(q), 1>>
        BY <2>1, <3>3, <3>6
      <4>4. QED
        BY <4>2, <4>3 DEF Extras
    <3>7. QED
      BY <3>2, <3>5, <3>6
  <2>5. ASSUME NEW r \in Stops, ~Own(r), p = Reaper(r) PROVE t \in Extras
    <3>1. Ident(p) = <<"reaper", r.name, r.at, 0>> /\ p.holds = 1
      BY <2>5 DEF Reaper, Goroutine, Ident
    <3>2. t = Extra(r)
      BY <2>1, <2>5, <3>1 DEF Extra
    <3>3. QED
      BY <3>2 DEF Extras
  <2>6. QED
    BY <2>2, <2>3, <2>4, <2>5, DiffProcs DEF Own
<1>2. ASSUME NEW t \in Holds PROVE t \in Holds'
  <2>1. PICK p \in procs : \/ p.holds >= 1 /\ t = <<Ident(p), 1>>
                           \/ p.holds = 2 /\ t = <<Ident(p), 2>>
    BY InHolds
  <2>2. CASE p.kind # "source" \/ Origin(p) \notin Stops
    <3>1. p \in procs'
      BY <2>2, DiffProcs
    <3>2. QED
      BY <2>1, <3>1, <1>a
  <2>3. CASE p.kind = "source" /\ Origin(p) \in Stops
    <3>1. PICK q : q = [p EXCEPT !.holds = @ + 1]
      OBVIOUS
    <3>2. q \in procs'
      BY <2>3, <3>1, DiffProcs
    <3>3. Ident(q) = Ident(p) /\ q.holds = p.holds + 1 /\ p.holds \in 0..2
      BY <3>1, <1>0, DiffNames DEF ProcType
    <3>4. p.holds \in 0..1
      BY <2>3, <1>0, SourceIdent
    <3>5. t = <<Ident(q), 1>> /\ q.holds >= 1
      BY <2>1, <3>3, <3>4
    <3>6. QED
      BY <3>2, <3>5, <1>a
  <2>4. QED
    BY <2>2, <2>3
<1>3. ASSUME NEW r \in Stops PROVE Extra(r) \in Holds'
  <2>0. r \in running
    BY <1>0
  <2>1. CASE ~Own(r)
    <3>1. Reaper(r) \in procs'
      BY <2>1, DiffProcs DEF Own
    <3>2. PICK p \in procs' : p = Reaper(r)
      BY <3>1
    <3>3. Ident(p) = <<"reaper", r.name, r.at, 0>> /\ p.holds = 1
      BY <3>2 DEF Reaper, Goroutine, Ident
    <3>4. Extra(r) = <<Ident(p), 1>>
      BY <2>1, <3>3 DEF Extra
    <3>5. QED
      BY <3>3, <3>4, <1>a
  <2>2. CASE Own(r)
    <3>1. PICK q \in procs : /\ q.kind = "source" /\ Origin(q) = r
                             /\ Ident(q) = <<"source", r.name, r.at, 0>> /\ q.holds \in 0..1
      BY <2>0, <2>2, SourceIdent DEF Own
    <3>2. PICK p : p = [q EXCEPT !.holds = @ + 1]
      OBVIOUS
    <3>3. p \in procs'
      BY <3>1, <3>2, DiffProcs
    <3>4. Ident(p) = Ident(q) /\ p.holds = q.holds + 1
      BY <3>2, <1>0, DiffNames
    <3>5. Twice(r) => q.holds = 1
      <4>1. SUFFICES ASSUME Twice(r) PROVE q.holds = 1
        OBVIOUS
      <4>2. PICK o \in procs : o.kind = "source" /\ Origin(o) = r /\ o.holds = 1
        BY <4>1 DEF Twice
      <4>3. Ident(o) = Ident(q)
        BY <2>0, <4>2, <3>1, SourceIdent
      <4>4. QED
        BY <4>2, <4>3 DEF Distinct
    <3>6. Extra(r) = <<Ident(p), Nth(r)>>
      BY <2>2, <3>1, <3>4 DEF Extra
    <3>7. p.holds >= 1 /\ (Twice(r) => p.holds = 2)
      BY <3>1, <3>4, <3>5
    <3>8. QED
      BY <3>3, <3>6, <3>7, <1>a DEF Nth
  <2>3. QED
    BY <2>1, <2>2
<1>4. ASSUME NEW i \in Starts \cap AwaitSource PROVE Awaited(i) \in Holds'
  <2>1. PICK p : p = Born(i)
    OBVIOUS
  <2>2. p \in procs'
    BY <2>1, DiffProcs
  <2>3. Ident(p) = <<"source", i, cursor, 0>> /\ p.holds = 1
    BY <2>1 DEF Born, Goroutine, Ident
  <2>4. QED
    BY <2>2, <2>3, <1>a DEF Awaited
<1>5. \A t \in Extras : t \in Holds'
  BY <1>3 DEF Extras
<1>6. \A t \in Awaiteds : t \in Holds'
  BY <1>4 DEF Awaiteds
<1>7. QED
  BY <1>1, <1>2, <1>5, <1>6

\* Reconciling the subscriptions counts exactly the tokens it hands out.
LEMMA DiffCounted ==
  ASSUME TypeOK, Held, Distinct, Counted, NEW settled \in {0, 1}, DiffSubscriptions(settled)
  PROVE  pending' = Len(inbox) + InHands + Cardinality(Holds') - settled
<1>1. IsFiniteSet(Holds) /\ IsFiniteSet(Stops) /\ IsFiniteSet(Starts)
  BY HoldsCounted, DiffFinite
<1>2. /\ IsFiniteSet(Extras) /\ Cardinality(Extras) = Cardinality(Stops)
      /\ IsFiniteSet(Awaiteds) /\ Cardinality(Awaiteds) = Cardinality(Starts \cap AwaitSource)
      /\ Holds \cap Extras = {} /\ (Holds \cup Extras) \cap Awaiteds = {}
  BY <1>1, DiffAdds
<1>3. /\ IsFiniteSet(Holds \cup Extras)
      /\ Cardinality(Holds \cup Extras) = Cardinality(Holds) + Cardinality(Extras)
  BY <1>1, <1>2, Adds
<1>4. Cardinality((Holds \cup Extras) \cup Awaiteds)
        = Cardinality(Holds \cup Extras) + Cardinality(Awaiteds)
  BY <1>2, <1>3, Adds
<1>5. pending' = pending + Cardinality(Stops) + Cardinality(Starts \cap AwaitSource) - settled
  BY DEF DiffSubscriptions, Stops, Starts
<1>6. Holds' = (Holds \cup Extras) \cup Awaiteds
  BY DiffHolds
<1>7. /\ Cardinality(Holds) \in Nat /\ Cardinality(Extras) \in Nat
      /\ Cardinality(Awaiteds) \in Nat /\ Len(inbox) \in Nat /\ InHands \in Int
  BY <1>1, <1>2, FS_CardinalityType DEF TypeOK, InHands
<1>8. Cardinality(Holds') = Cardinality(Holds) + Cardinality(Extras) + Cardinality(Awaiteds)
  BY <1>3, <1>4, <1>6
<1>9. pending = Len(inbox) + InHands + Cardinality(Holds)
  BY DEF Counted
<1> HIDE DEF InHands
<1>10. QED
  BY <1>2, <1>5, <1>7, <1>8, <1>9

\* A goroutine that says something is still the same goroutine.
LEMMA EmitDistinct ==
  ASSUME TypeOK, Distinct, NEW p \in procs, NEW q,
         Ident(q) = Ident(p), q.kind = p.kind, q.at = p.at, q.nth = p.nth,
         Origin(q) = Origin(p), q.holds = p.holds,
         procs' = (procs \ {p}) \cup {q}, UNCHANGED <<cursor, pc, todo, running, model>>
  PROVE  Distinct' /\ Holds' = Holds
<1>1. \A x \in procs' : \E o \in procs : /\ Ident(x) = Ident(o) /\ x.kind = o.kind /\ x.at = o.at
                                         /\ x.nth = o.nth /\ Origin(x) = Origin(o)
                                         /\ x.holds = o.holds
                                         /\ (o = p => x = q) /\ (o # p => x = o)
  OBVIOUS
<1>2. \A o \in procs : \E x \in procs' : Ident(x) = Ident(o) /\ x.holds = o.holds
  OBVIOUS
<1>3. ASSUME NEW x \in procs', NEW y \in procs', Ident(x) = Ident(y) PROVE x = y
  <2>1. PICK o \in procs : Ident(x) = Ident(o) /\ (o = p => x = q) /\ (o # p => x = o)
    BY <1>1
  <2>2. PICK n \in procs : Ident(y) = Ident(n) /\ (n = p => y = q) /\ (n # p => y = n)
    BY <1>1
  <2>3. o = n
    BY <1>3, <2>1, <2>2 DEF Distinct
  <2>4. QED
    BY <2>1, <2>2, <2>3
<1>4. IsFiniteSet(procs')
  BY FS_Subset, FS_AddElement DEF Distinct
<1>5. ASSUME NEW x \in procs'
      PROVE  /\ x.kind = "effect" =>
                  x.at <= cursor /\ (x.at = cursor /\ pc = "interpret" => x.nth > Len(todo))
             /\ x.kind = "reaper" => x.at < cursor /\ Origin(x) \notin running
             /\ x.kind = "source" => x.nth = 0
  <2>1. PICK o \in procs : x.kind = o.kind /\ x.at = o.at /\ x.nth = o.nth /\ Origin(x) = Origin(o)
    BY <1>1
  <2>2. QED
    BY <2>1 DEF Distinct
<1>6. Distinct'
  <2>1. \A r \in running' : r.at = cursor' => r.name \in Desired(model')
    BY DEF Distinct
  <2>2. QED
    BY <1>3, <1>4, <1>5, <2>1 DEF Distinct
<1>7. ASSUME NEW t PROVE t \in Holds' <=> t \in Holds
  <2>1. t \in Holds' <=> \E x \in procs' : \/ x.holds >= 1 /\ t = <<Ident(x), 1>>
                                           \/ x.holds = 2 /\ t = <<Ident(x), 2>>
    BY DEF Holds
  <2>2. t \in Holds <=> \E x \in procs : \/ x.holds >= 1 /\ t = <<Ident(x), 1>>
                                         \/ x.holds = 2 /\ t = <<Ident(x), 2>>
    BY InHolds
  <2> HIDE DEF Ident
  <2>3. ASSUME t \in Holds' PROVE t \in Holds
    <3>1. PICK x \in procs' : \/ x.holds >= 1 /\ t = <<Ident(x), 1>>
                              \/ x.holds = 2 /\ t = <<Ident(x), 2>>
      BY <2>1, <2>3
    <3>2. PICK o \in procs : Ident(x) = Ident(o) /\ x.holds = o.holds
      BY <1>1
    <3>3. QED
      BY <2>2, <3>1, <3>2
  <2>4. ASSUME t \in Holds PROVE t \in Holds'
    <3>1. PICK o \in procs : \/ o.holds >= 1 /\ t = <<Ident(o), 1>>
                             \/ o.holds = 2 /\ t = <<Ident(o), 2>>
      BY <2>2, <2>4
    <3>2. PICK x \in procs' : Ident(x) = Ident(o) /\ x.holds = o.holds
      BY <1>2
    <3>3. QED
      BY <2>1, <3>1, <3>2
  <2>5. QED
    BY <2>3, <2>4
<1>8. QED
  BY <1>6, <1>7

\* An effect of the message being interpreted gets a place of its own.
LEMMA EffectDistinct ==
  ASSUME TypeOK, Distinct, NEW g, g.kind = "effect", g.at = cursor, g.nth = Len(todo),
         g.holds = 1, pc = "interpret", todo # <<>>,
         procs' = procs \cup {g}, todo' = Tail(todo), UNCHANGED <<cursor, pc, running, model>>
  PROVE  /\ Distinct'
         /\ Cardinality(Holds') = Cardinality(Holds) + 1
<1>1. Len(todo) \in Nat /\ Len(todo') = Len(todo) - 1 /\ cursor \in Nat
  BY DEF TypeOK
<1>2. ASSUME NEW p \in procs, Ident(p) = Ident(g) PROVE FALSE
  <2>1. p.kind = "effect" /\ p.at = cursor /\ p.nth = Len(todo)
    BY <1>2, Quadruples DEF Ident
  <2>2. p.nth > Len(todo)
    BY <2>1 DEF Distinct
  <2>3. QED
    BY <1>1, <2>1, <2>2
<1>3. Distinct'
  <2>1. \A p, q \in procs' : Ident(p) = Ident(q) => p = q
    BY <1>2 DEF Distinct
  <2>2. IsFiniteSet(procs')
    BY FS_AddElement DEF Distinct
  <2>3. ASSUME NEW p \in procs', p.kind = "effect"
        PROVE  p.at <= cursor' /\ (p.at = cursor' /\ pc' = "interpret" => p.nth > Len(todo'))
    <3>1. CASE p = g
      BY <3>1, <1>1
    <3>2. CASE p \in procs
      <4>1. p.at <= cursor /\ (p.at = cursor => p.nth > Len(todo)) /\ p.nth \in Nat
        BY <2>3, <3>2 DEF Distinct, TypeOK, ProcType
      <4>2. QED
        BY <1>1, <4>1
    <3>3. QED
      BY <3>1, <3>2
  <2>4. /\ \A p \in procs' : p.kind = "reaper" => p.at < cursor' /\ Origin(p) \notin running'
        /\ \A p \in procs' : p.kind = "source" => p.nth = 0
        /\ \A r \in running' : r.at = cursor' => r.name \in Desired(model')
    BY DEF Distinct
  <2>5. QED
    BY <2>1, <2>2, <2>3, <2>4 DEF Distinct
<1>4. Holds' = Holds \cup {<<Ident(g), 1>>}
  <2>1. ASSUME NEW t PROVE t \in Holds' <=> t \in Holds \cup {<<Ident(g), 1>>}
    <3>1. t \in Holds' <=> \E x \in procs' : \/ x.holds >= 1 /\ t = <<Ident(x), 1>>
                                             \/ x.holds = 2 /\ t = <<Ident(x), 2>>
      BY DEF Holds
    <3>2. QED
      BY <3>1, InHolds
  <2>2. QED
    BY <2>1
<1>5. <<Ident(g), 1>> \notin Holds
  BY <1>2, InHolds
<1>6. IsFiniteSet(Holds)
  BY HoldsCounted
<1>7. QED
  BY <1>3, <1>4, <1>5, <1>6, FS_AddElement

\* Fewer goroutines are still distinct.
LEMMA FewerDistinct ==
  ASSUME Distinct, procs' \subseteq procs, UNCHANGED <<running, cursor, model>>,
         pc' = "interpret" => UNCHANGED <<pc, todo>>
  PROVE  Distinct'
<1>1. IsFiniteSet(procs')
  BY FS_Subset DEF Distinct
<1>2. \A p, q \in procs' : Ident(p) = Ident(q) => p = q
  BY DEF Distinct
<1>3. QED
  BY <1>1, <1>2 DEF Distinct

\* Reconciling the subscriptions leaves finitely many tokens.
LEMMA DiffHoldsFinite ==
  ASSUME TypeOK, Held, Distinct, NEW settled \in {0, 1}, DiffSubscriptions(settled)
  PROVE  IsFiniteSet(Holds')
<1>1. IsFiniteSet(Holds) /\ IsFiniteSet(Extras) /\ IsFiniteSet(Awaiteds)
  BY HoldsCounted, DiffFinite, DiffAdds
<1>2. Holds' = (Holds \cup Extras) \cup Awaiteds
  BY DiffHolds
<1>3. QED
  BY <1>1, <1>2, FS_Union

\* Every step of the counter, of a message's place and of a goroutine's hold goes
\* with the other.
LEMMA CountStep ==
  ASSUME Inv, Distinct, Counted, [Next]_vars
  PROVE  Distinct' /\ Counted'
<1> USE DEF Inv
<1>a. /\ cursor \in Nat /\ inbox \in Seq(Envelope) /\ Len(inbox) \in Nat /\ pending \in Int
      /\ procs \subseteq ProcType /\ IsFiniteSet(Holds) /\ Cardinality(Holds) \in Nat
  BY HoldsCounted, FS_CardinalityType DEF TypeOK
<1>b. procs' = procs => Holds' = Holds
  BY DEF Holds
<1>1. CASE Boot \/ Replay
  <2>1. /\ procs' = {} /\ running' = {} /\ procs = {} /\ pc' = pc
        /\ UNCHANGED <<inbox, pending>>
    BY <1>1 DEF Boot, Replay, Held, Place, Alive
  <2>2. Distinct'
    BY <2>1, FS_EmptySet DEF Distinct
  <2>3. QED
    BY <2>1, <2>2, <1>b DEF Counted, InHands
<1>2. CASE GoLive \/ Stop \/ LoopExit \/ UNCHANGED vars
  <2>1. /\ UNCHANGED <<procs, running, inbox, pending, cursor, model, todo>>
        /\ InHands' = InHands /\ (pc' = "interpret" => pc' = pc)
    BY <1>2 DEF GoLive, Stop, LoopExit, vars, InHands
  <2>2. QED
    BY <2>1, <1>b, FewerDistinct DEF Counted
<1>3. CASE StartSubscriptions
  <2>1. DiffSubscriptions(0) /\ UNCHANGED <<cursor, model, pc, todo, inbox>>
    BY <1>3 DEF StartSubscriptions
  <2>2. Distinct'
    BY <2>1, DiffDistinct
  <2>3. pending' = Len(inbox) + InHands + Cardinality(Holds') - 0
    BY <2>1, DiffCounted
  <2>4. IsFiniteSet(Holds')
    BY <2>1, DiffHoldsFinite
  <2>5. Cardinality(Holds') \in Nat
    BY <2>4, FS_CardinalityType
  <2>6. InHands' = InHands /\ InHands \in Int /\ Len(inbox') = Len(inbox)
    BY <2>1 DEF InHands
  <2> HIDE DEF InHands
  <2>7. QED
    BY <1>a, <2>2, <2>3, <2>5, <2>6 DEF Counted
<1>4. CASE FinishMessage
  <2>1. DiffSubscriptions(1) /\ UNCHANGED <<cursor, model, inbox>> /\ pc = "interpret" /\ pc' = "idle"
    BY <1>4 DEF FinishMessage, Release
  <2>2. Distinct'
    BY <2>1, DiffDistinct
  <2>3. pending' = Len(inbox) + InHands + Cardinality(Holds') - 1
    BY <2>1, DiffCounted
  <2>4. IsFiniteSet(Holds')
    BY <2>1, DiffHoldsFinite
  <2>5. Cardinality(Holds') \in Nat
    BY <2>4, FS_CardinalityType
  <2>6. InHands' = 0 /\ InHands = 1 /\ Len(inbox') = Len(inbox)
    BY <2>1 DEF InHands
  <2> HIDE DEF InHands
  <2>7. QED
    BY <1>a, <2>2, <2>3, <2>5, <2>6 DEF Counted
<1>5. CASE Take
  <2>1. /\ UNCHANGED <<procs, running, cursor, model, pending>>
        /\ pc = "idle" /\ pc' = "append" /\ inbox # <<>> /\ inbox' = Tail(inbox)
    BY <1>5 DEF Take
  <2>2. Len(inbox') = Len(inbox) - 1
    BY <1>a, <2>1
  <2>3. QED
    BY <1>a, <1>b, <2>1, <2>2, FewerDistinct DEF Counted, InHands
<1>6. CASE AppendLog
  <2>1. /\ UNCHANGED <<procs, running, cursor, model, pending, inbox>>
        /\ pc = "append" /\ pc' = "apply"
    BY <1>6 DEF AppendLog
  <2>2. QED
    BY <1>b, <2>1, FewerDistinct DEF Counted, InHands
<1>7. CASE AppendFails
  <2>1. /\ UNCHANGED <<procs, running, cursor, model, inbox>> /\ pending' = pending - 1
        /\ pc = "append" /\ pc' = "idle"
    BY <1>7 DEF AppendFails, Release
  <2>2. QED
    BY <1>a, <1>b, <2>1, FewerDistinct DEF Counted, InHands
<1>8. CASE Apply
  <2>1. /\ UNCHANGED <<procs, running, pending, inbox>> /\ cursor' = cursor + 1
        /\ pc = "apply" /\ pc' = "interpret"
    BY <1>8 DEF Apply
  <2>2. \A p \in procs : p.at \in Nat
    BY <1>a DEF ProcType
  <2>3. \A r \in running : r.at \in Nat /\ r.at <= cursor
    BY DEF TypeOK, Held
  <2>4. \A p \in procs' : p.kind = "effect" => p.at <= cursor' /\ p.at # cursor'
    BY <1>a, <2>1, <2>2 DEF Distinct
  <2>5. \A p \in procs' : p.kind = "reaper" => p.at < cursor' /\ Origin(p) \notin running'
    BY <1>a, <2>1, <2>2 DEF Distinct
  <2>6. \A r \in running' : r.at # cursor'
    BY <1>a, <2>1, <2>3
  <2>7. IsFiniteSet(procs') /\ \A p, q \in procs' : Ident(p) = Ident(q) => p = q
    BY <2>1 DEF Distinct
  <2>8. \A p \in procs' : p.kind = "source" => p.nth = 0
    BY <2>1 DEF Distinct
  <2>9. Distinct'
    BY <2>4, <2>5, <2>6, <2>7, <2>8 DEF Distinct
  <2>10. QED
    BY <1>b, <2>1, <2>9 DEF Counted, InHands
<1>9. CASE InterpretSend
  <2>1. /\ UNCHANGED <<procs, running, cursor, model, pc>> /\ pending' = pending + 1
        /\ todo # <<>> /\ todo' = Tail(todo) /\ todo \in Seq(Command)
        /\ \E e : inbox' = Append(inbox, e)
    BY <1>9 DEF InterpretSend, TypeOK
  <2>2. Len(inbox') = Len(inbox) + 1 /\ Len(todo') < Len(todo) /\ Len(todo) \in Nat
    BY <1>a, <2>1
  <2>3. \A p \in procs' : p.kind = "effect" =>
           p.at <= cursor' /\ (p.at = cursor' /\ pc' = "interpret" => p.nth > Len(todo'))
    <3>1. SUFFICES ASSUME NEW p \in procs, p.kind = "effect"
                   PROVE  p.at <= cursor /\ (p.at = cursor /\ pc = "interpret" => p.nth > Len(todo'))
      BY <2>1
    <3>2. p.at <= cursor /\ (p.at = cursor /\ pc = "interpret" => p.nth > Len(todo)) /\ p.nth \in Nat
      BY <3>1, <1>a DEF Distinct, ProcType
    <3>3. Len(todo') \in Nat
      BY <2>1
    <3>4. QED
      BY <2>2, <3>2, <3>3
  <2>4. Distinct'
    <3>1. /\ IsFiniteSet(procs') /\ \A p, q \in procs' : Ident(p) = Ident(q) => p = q
          /\ \A p \in procs' : p.kind = "reaper" => p.at < cursor' /\ Origin(p) \notin running'
          /\ \A p \in procs' : p.kind = "source" => p.nth = 0
          /\ \A r \in running' : r.at = cursor' => r.name \in Desired(model')
      BY <2>1 DEF Distinct
    <3>2. QED
      BY <2>3, <3>1 DEF Distinct
  <2>5. InHands' = InHands /\ InHands \in Int
    BY <2>1 DEF InHands
  <2> HIDE DEF InHands
  <2>6. QED
    BY <1>a, <1>b, <2>1, <2>2, <2>4, <2>5 DEF Counted
<1>10. CASE InterpretEffect
  <2>1. PICK g : g = Goroutine("effect", Head(todo).arg, cursor, Len(todo),
                               Reports(Head(todo).arg), 1)
    OBVIOUS
  <2>2. g.kind = "effect" /\ g.at = cursor /\ g.nth = Len(todo) /\ g.holds = 1
    BY <2>1 DEF Goroutine
  <2>3. /\ UNCHANGED <<running, cursor, model, pc, inbox>> /\ pending' = pending + 1
        /\ pc = "interpret" /\ todo # <<>> /\ todo' = Tail(todo) /\ procs' = procs \cup {g}
    BY <1>10, <2>1 DEF InterpretEffect
  <2>4. Distinct' /\ Cardinality(Holds') = Cardinality(Holds) + 1
    BY <2>2, <2>3, EffectDistinct
  <2>5. InHands' = InHands /\ InHands \in Int
    BY <2>3 DEF InHands
  <2> HIDE DEF InHands
  <2>6. QED
    BY <1>a, <2>3, <2>4, <2>5 DEF Counted
<1>11. CASE Crash \/ Exit
  <2>1. /\ procs' = {} /\ running' = {} /\ pc' = "idle" /\ inbox' = <<>> /\ pending' = 0
    BY <1>11 DEF Crash, Exit, Die
  <2>2. Distinct'
    BY <2>1, FS_EmptySet DEF Distinct
  <2>3. Holds' = {}
    BY <2>1 DEF Holds
  <2>4. QED
    BY <2>1, <2>2, <2>3, FS_EmptySet DEF Counted, InHands
<1>12. ASSUME NEW c \in Callers, NEW m \in External, Send(c, m) PROVE Distinct' /\ Counted'
  <2>1. /\ UNCHANGED <<procs, running, cursor, model, pc, todo>> /\ pending' = pending + 1
        /\ \E e : inbox' = Append(inbox, e)
    BY <1>12 DEF Send, reducer
  <2>2. Len(inbox') = Len(inbox) + 1
    BY <1>a, <2>1
  <2>3. InHands' = InHands /\ InHands \in Int
    BY <2>1 DEF InHands
  <2>4. Distinct'
    BY <2>1, FewerDistinct
  <2> HIDE DEF InHands
  <2>5. QED
    BY <1>a, <1>b, <2>1, <2>2, <2>3, <2>4 DEF Counted
<1>13. ASSUME NEW p \in procs, Emit(p) PROVE Distinct' /\ Counted'
  <2>1. PICK q : q = [p EXCEPT !.says = Tail(@)]
    OBVIOUS
  <2>2. /\ Ident(q) = Ident(p) /\ q.kind = p.kind /\ q.at = p.at /\ q.nth = p.nth
        /\ Origin(q) = Origin(p) /\ q.holds = p.holds
    BY <1>a, <2>1 DEF Ident, Origin, ProcType
  <2>3. /\ procs' = (procs \ {p}) \cup {q} /\ UNCHANGED <<cursor, pc, todo, running, model>>
        /\ pending' = pending + 1 /\ \E e : inbox' = Append(inbox, e)
    BY <1>13, <2>1 DEF Emit, reducer
  <2>4. Distinct' /\ Holds' = Holds
    BY <2>2, <2>3, EmitDistinct
  <2>5. Len(inbox') = Len(inbox) + 1
    BY <1>a, <2>3
  <2>6. InHands' = InHands /\ InHands \in Int
    BY <2>3 DEF InHands
  <2> HIDE DEF InHands
  <2>7. QED
    BY <1>a, <2>3, <2>4, <2>5, <2>6 DEF Counted
<1>14. ASSUME NEW p \in procs, Return(p) \/ EffectFails(p) PROVE Distinct' /\ Counted'
  <2>1. /\ procs' = procs \ {p} /\ UNCHANGED <<cursor, pc, todo, running, model, inbox>>
        /\ pending' = pending - p.holds /\ p.holds \in 0..2
    BY <1>14, <1>a DEF Return, EffectFails, reducer, ProcType
  <2>2. Cardinality(Holds') = Cardinality(Holds) - p.holds
    BY <2>1, ReturnHolds
  <2>3. Distinct'
    BY <2>1, FewerDistinct
  <2>4. InHands' = InHands /\ InHands \in Int
    BY <2>1 DEF InHands
  <2> HIDE DEF InHands
  <2>5. QED
    BY <1>a, <2>1, <2>2, <2>3, <2>4 DEF Counted
<1>15. QED
  BY <1>1, <1>2, <1>3, <1>4, <1>5, <1>6, <1>7, <1>8, <1>9, <1>10, <1>11, <1>12, <1>13, <1>14
     DEF Next, Progress, Failure

\* The counter Settle waits on is exact: enqueue, interpret, diffSubscriptions and
\* settleOne together neither lose a count nor take one twice, so a quiescent
\* instance has nothing left to do and Settle returns neither early nor never.
THEOREM PendingIsExact == Spec => []PendingExact
<1>1. Init => Distinct /\ Counted
  <2> SUFFICES ASSUME Init PROVE Distinct /\ Counted
    OBVIOUS
  <2>1. procs = {} /\ running = {} /\ pc = "idle" /\ inbox = <<>> /\ pending = 0
    BY DEF Init
  <2>2. Holds = {}
    BY <2>1 DEF Holds
  <2>3. QED
    BY <2>1, <2>2, FS_EmptySet DEF Distinct, Counted, InHands
<1>2. Inv /\ Distinct /\ Counted /\ [Next]_vars => (Distinct /\ Counted)'
  BY CountStep
<1>3. Inv /\ Distinct /\ Counted => PendingExact
  <2> SUFFICES ASSUME Inv, Distinct, Counted PROVE PendingExact
    OBVIOUS
  <2> DEFINE once == Cardinality({p \in procs : p.holds >= 1})
             twice == Cardinality({p \in procs : p.holds = 2})
  <2>1. IsFiniteSet({p \in procs : p.holds >= 1}) /\ IsFiniteSet({p \in procs : p.holds = 2})
    BY FS_Subset DEF Distinct
  <2>2. once \in Nat /\ twice \in Nat /\ Len(inbox) \in Nat /\ InHands \in Int
    BY <2>1, FS_CardinalityType DEF Inv, TypeOK, InHands
  <2>3. Cardinality(Holds) = once + twice
    BY HoldsCounted
  <2>4. pending = Len(inbox) + InHands + Cardinality(Holds)
    BY DEF Counted
  <2>5. PendingExact <=> pending = Len(inbox) + InHands + once + twice
    BY DEF PendingExact, InHands
  <2> HIDE DEF once, twice, InHands
  <2>6. QED
    BY <2>2, <2>3, <2>4, <2>5
<1>4. QED
  BY Invariance, <1>1, <1>2, <1>3, PTL DEF Spec
=============================================================================
