------------------------------- MODULE Runtime -------------------------------
(***************************************************************************)
(* The Elm-style runtime of runtime/loop.go: one reducer goroutine drains  *)
(* a bounded channel, appends every message to the log before folding it   *)
(* into the model, then interprets the commands the handler returned.      *)
(* Effects and subscription sources are goroutines that feed messages back *)
(* through the same channel.  The log is the only durable state; a process *)
(* death loses the model, the channel, every goroutine and every caller,   *)
(* and Start rebuilds the model by replaying the log.                      *)
(*                                                                         *)
(* The application (its handlers, effects and subscriptions) is a          *)
(* parameter: Step and Cmds are a handler's two results, Desired the       *)
(* sources the subscriptions declare in a state, Reports what an effect    *)
(* emits and Prompt what a source emits.                                   *)
(*                                                                         *)
(* Abstracted: payloads, the command trace and the failure texts.  pending *)
(* is incremented in enqueue just before the channel send; both are one    *)
(* step here, enabled when the channel has room (a full channel blocks).   *)
(***************************************************************************)
EXTENDS Integers, Sequences, FiniteSets

CONSTANTS
  Msg,            \* the message tags
  Handled,        \* those some module's handler decodes
  External,       \* those an edge (web, poller, command line) may Send
  State, Zero,    \* the model's values; the zero value of New
  Step(_, _),     \* Step(s, m): the model a handler returns
  Effect,         \* the command tags with an effect
  Cmds(_, _),     \* Cmds(s, m): the commands a handler returns
  Source,         \* the subscription ids
  AwaitSource,    \* those declared with Await
  Desired(_),     \* Desired(s): the ids the subscriptions declare in s
  Prompt(_),      \* Prompt(id): the message the source emits, once
  Reports(_),     \* Reports(e): the messages effect e emits, in order
  Callers,        \* goroutines of the edges that call Send
  Capacity,       \* the channel's capacity: 1024 in New
  MaxCrashes,     \* bound: process deaths, graceful stops included
  MaxFaults,      \* bound: effects that return an error
  MaxLogFaults    \* bound: log appends that return an error

SendCmd(m) == [kind |-> "send", arg |-> m]
EffectCmd(e) == [kind |-> "effect", arg |-> e]
Command == [kind : {"send"}, arg : Msg] \cup [kind : {"effect"}, arg : Effect]

ASSUME AppAssumption ==
  /\ Msg # {}
  /\ Handled \subseteq Msg
  /\ External \subseteq Msg
  /\ Zero \in State
  /\ AwaitSource \subseteq Source
  /\ \A s \in State, m \in Handled :
        Step(s, m) \in State /\ Cmds(s, m) \in Seq(Command)
  /\ \A s \in State : Desired(s) \subseteq Source /\ IsFiniteSet(Desired(s))
  /\ \A i \in Source : Prompt(i) \in Msg
  /\ \A e \in Effect : Reports(e) \in Seq(Msg)

ASSUME BoundAssumption ==
  /\ Capacity \in Nat \ {0}
  /\ MaxCrashes \in Nat /\ MaxFaults \in Nat /\ MaxLogFaults \in Nat

NoCaller == "nobody"
Edge == Callers \cup {NoCaller}
ASSUME CallerAssumption == NoCaller \notin Callers

\* What travels on the channel (envelope).  cause is the offset of the message
\* whose command led to this one, 0 for an edge or a source; from is the edge
\* that waits for it to be applied.
Envelope == [msg : Msg, cause : Nat, from : Edge]

VARIABLES
  log,      \* the durable log; from is kept only to state properties
  trail,    \* history: trail[k+1] is the fold of the first k log entries
  phase,    \* down, replay, loop (reducer runs, Start not done), up, stopping
  model,    \* the snapshot readers load
  cursor,   \* how many log entries model has folded
  inbox,    \* the channel
  pc,       \* the reducer: idle, append, apply, interpret, settle, exited
  current,  \* the envelope the reducer holds
  todo,     \* the commands interpret has still to perform
  procs,    \* goroutines of effects and sources
  running,  \* the subscription sources diffSubscriptions knows as started
  pending,  \* the counter Settle waits on
  caller,   \* each edge: idle, waiting in Send, returned from Send
  crashes, faults, logFaults

durable == <<log, trail>>
reducer == <<phase, model, cursor, pc, current, todo>>
budget  == <<crashes, faults, logFaults>>
vars == <<log, trail, phase, model, cursor, inbox, pc, current, todo, procs,
          running, pending, caller, crashes, faults, logFaults>>

Nobody == [msg |-> CHOOSE m \in Msg : TRUE, cause |-> 0, from |-> NoCaller]

-----------------------------------------------------------------------------
\* apply's two results: an unknown tag or a payload that does not decode is
\* recorded as a dead send and leaves the model alone.
NextState(s, m) == IF m \in Handled THEN Step(s, m) ELSE s
NextCmds(s, m) == IF m \in Handled THEN Cmds(s, m) ELSE <<>>

Room == Len(inbox) < Capacity
Alive == phase \in {"loop", "up", "stopping"}

Init ==
  /\ log = <<>> /\ trail = <<Zero>>
  /\ phase = "down" /\ model = Zero /\ cursor = 0
  /\ inbox = <<>> /\ pc = "idle" /\ current = Nobody /\ todo = <<>>
  /\ procs = {} /\ running = {} /\ pending = 0
  /\ caller = [c \in Callers |-> "idle"]
  /\ crashes = 0 /\ faults = 0 /\ logFaults = 0

-----------------------------------------------------------------------------
\* New and the head of Start: the zero model, nothing replayed.
Boot ==
  /\ phase = "down"
  /\ phase' = "replay" /\ model' = Zero /\ cursor' = 0 /\ pc' = "idle"
  /\ UNCHANGED <<durable, inbox, current, todo, procs, running, pending,
                 caller, budget>>

\* One entry of replay: apply without interpretation.
Replay ==
  /\ phase = "replay" /\ cursor < Len(log)
  /\ model' = NextState(model, log[cursor + 1].msg)
  /\ cursor' = cursor + 1
  /\ UNCHANGED <<durable, phase, inbox, pc, current, todo, procs, running,
                 pending, caller, budget>>

\* go a.loop(ctx): the reducer runs before Start has diffed subscriptions.
GoLive ==
  /\ phase = "replay" /\ cursor = Len(log)
  /\ phase' = "loop"
  /\ UNCHANGED <<durable, model, cursor, inbox, pc, current, todo, procs,
                 running, pending, caller, budget>>

Goroutine(kind, name, at, nth, says, holds) ==
  [kind |-> kind, name |-> name, at |-> at, nth |-> nth, says |-> says,
   holds |-> holds]

\* A source's cancellation is awaited: pending is raised until its Run has
\* returned, at once if it already had.
Unwinding(r) ==
  IF \E p \in procs : p.kind = "source" /\ p.name = r.name /\ p.at = r.at
  THEN {[p EXCEPT !.holds = @ + 1] :
          p \in {q \in procs : q.kind = "source" /\ q.name = r.name /\ q.at = r.at}}
  ELSE {Goroutine("reaper", r.name, r.at, 0, <<>>, 1)}

\* Seeded faults, here and below: what a slip in the code would make of the
\* definition that follows.  No specification uses them; each shows that a
\* property tells the slip from the code.
DiffSubscriptionsKeepsStopped(settled) ==
  LET stops  == {r \in running : r.name \notin Desired(model)}
      starts == Desired(model) \ {r.name : r \in running}
      born   == {Goroutine("source", i, cursor, 0, <<Prompt(i)>>,
                           IF i \in AwaitSource THEN 1 ELSE 0) : i \in starts}
  IN /\ running' = running \cup {[name |-> i, at |-> cursor] : i \in starts}
     /\ procs' = procs \cup born \cup UNION {Unwinding(r) : r \in stops}
     /\ pending' = pending + Cardinality(stops)
                   + Cardinality(starts \cap AwaitSource) - settled

\* Declared sources against running ones, by id.
DiffSubscriptions(settled) ==
  LET stops  == {r \in running : r.name \notin Desired(model)}
      starts == Desired(model) \ {r.name : r \in running}
      born   == {Goroutine("source", i, cursor, 0, <<Prompt(i)>>,
                           IF i \in AwaitSource THEN 1 ELSE 0) : i \in starts}
      other  == {p \in procs : p.kind # "source"
                               \/ [name |-> p.name, at |-> p.at] \notin stops}
  IN /\ running' = (running \ stops) \cup {[name |-> i, at |-> cursor] : i \in starts}
     /\ procs' = other \cup born \cup UNION {Unwinding(r) : r \in stops}
     /\ pending' = pending + Cardinality(stops)
                   + Cardinality(starts \cap AwaitSource) - settled

\* The tail of Start.
StartSubscriptions ==
  /\ phase = "loop"
  /\ phase' = "up"
  /\ DiffSubscriptions(0)
  /\ UNCHANGED <<durable, model, cursor, inbox, pc, current, todo, caller, budget>>

-----------------------------------------------------------------------------
\* Send up to its wait: an edge offers one message and waits for it.
Send(c, m) ==
  /\ Alive /\ caller[c] = "idle" /\ Room
  /\ inbox' = Append(inbox, [msg |-> m, cause |-> 0, from |-> c])
  /\ pending' = pending + 1
  /\ caller' = [caller EXCEPT ![c] = "waiting"]
  /\ UNCHANGED <<durable, reducer, procs, running, budget>>

\* The loop receives the next envelope and starts the append.
Take ==
  /\ Alive /\ pc = "idle" /\ inbox # <<>>
  /\ current' = Head(inbox) /\ inbox' = Tail(inbox) /\ pc' = "append"
  /\ UNCHANGED <<durable, phase, model, cursor, todo, procs, running, pending,
                 caller, budget>>

AppendLogReleasesEarly ==
  /\ pc = "append"
  /\ log' = Append(log, current)
  /\ trail' = Append(trail, NextState(trail[Len(trail)], current.msg))
  /\ pc' = "apply"
  /\ caller' = IF current.from = NoCaller THEN caller
               ELSE [caller EXCEPT ![current.from] = "returned"]
  /\ UNCHANGED <<phase, model, cursor, inbox, current, todo, procs, running,
                 pending, budget>>

\* log.Append succeeds: the message is durable and not yet applied.
AppendLog ==
  /\ pc = "append"
  /\ log' = Append(log, current)
  /\ trail' = Append(trail, NextState(trail[Len(trail)], current.msg))
  /\ pc' = "apply"
  /\ UNCHANGED <<phase, model, cursor, inbox, current, todo, procs, running,
                 pending, caller, budget>>

\* The reducer is done with the message: close(applied), settleOne.
Release ==
  /\ pc' = "idle" /\ current' = Nobody
  /\ caller' = IF current.from = NoCaller THEN caller
               ELSE [caller EXCEPT ![current.from] = "returned"]

AppendFailsButApplies ==
  /\ pc = "append" /\ logFaults < MaxLogFaults
  /\ logFaults' = logFaults + 1
  /\ model' = NextState(model, current.msg)
  /\ todo' = NextCmds(model, current.msg)
  /\ pc' = "interpret"
  /\ UNCHANGED <<durable, phase, cursor, inbox, current, procs, running, pending,
                 caller, crashes, faults>>
AppendFailsSilently ==
  /\ pc = "append" /\ logFaults < MaxLogFaults
  /\ logFaults' = logFaults + 1
  /\ pc' = "idle" /\ current' = Nobody
  /\ pending' = pending - 1
  /\ UNCHANGED <<durable, phase, model, cursor, inbox, todo, procs, running,
                 caller, crashes, faults>>

\* log.Append fails: recorded, not applied, and the sender is released anyway.
AppendFails ==
  /\ pc = "append" /\ logFaults < MaxLogFaults
  /\ logFaults' = logFaults + 1
  /\ Release
  /\ pending' = pending - 1
  /\ UNCHANGED <<durable, phase, model, cursor, inbox, todo, procs, running,
                 crashes, faults>>

\* apply in live mode: fold one message, keep its commands.
Apply ==
  /\ pc = "apply"
  /\ model' = NextState(model, log[cursor + 1].msg)
  /\ todo' = NextCmds(model, log[cursor + 1].msg)
  /\ cursor' = cursor + 1
  /\ pc' = "interpret"
  /\ UNCHANGED <<durable, phase, inbox, current, procs, running, pending,
                 caller, budget>>

\* interpret, a send command: the reducer itself enqueues, and blocks when
\* the channel is full.
InterpretSend ==
  /\ pc = "interpret" /\ todo # <<>> /\ Head(todo).kind = "send" /\ Room
  /\ inbox' = Append(inbox, [msg |-> Head(todo).arg, cause |-> cursor,
                             from |-> NoCaller])
  /\ pending' = pending + 1
  /\ todo' = Tail(todo)
  /\ UNCHANGED <<durable, phase, model, cursor, pc, current, procs, running,
                 caller, budget>>

\* interpret, an effect: a worker goroutine, counted until it returns.
InterpretEffect ==
  /\ pc = "interpret" /\ todo # <<>> /\ Head(todo).kind = "effect"
  /\ procs' = procs \cup {Goroutine("effect", Head(todo).arg, cursor, Len(todo),
                                    Reports(Head(todo).arg), 1)}
  /\ pending' = pending + 1
  /\ todo' = Tail(todo)
  /\ UNCHANGED <<durable, phase, model, cursor, inbox, pc, current, running,
                 caller, budget>>

\* The end of interpret and of the loop's turn.
FinishMessage ==
  /\ pc = "interpret" /\ todo = <<>>
  /\ DiffSubscriptions(1)
  /\ Release
  /\ UNCHANGED <<durable, phase, model, cursor, inbox, todo, budget>>

-----------------------------------------------------------------------------
\* A goroutine emits its next message; a source's messages have no cause.
Emit(p) ==
  /\ p \in procs /\ p.says # <<>> /\ Room
  /\ inbox' = Append(inbox, [msg |-> Head(p.says),
                             cause |-> IF p.kind = "effect" THEN p.at ELSE 0,
                             from |-> NoCaller])
  /\ procs' = (procs \ {p}) \cup {[p EXCEPT !.says = Tail(@)]}
  /\ pending' = pending + 1
  /\ UNCHANGED <<durable, reducer, running, caller, budget>>

\* A goroutine with nothing left to say returns.  A source stays in running.
Return(p) ==
  /\ p \in procs /\ p.says = <<>>
  /\ procs' = procs \ {p}
  /\ pending' = pending - p.holds
  /\ UNCHANGED <<durable, reducer, inbox, running, caller, budget>>

EffectFailsUnsettled(p) ==
  /\ p \in procs /\ p.kind = "effect" /\ faults < MaxFaults
  /\ faults' = faults + 1
  /\ procs' = procs \ {p}
  /\ UNCHANGED <<durable, reducer, inbox, running, pending, caller, crashes, logFaults>>

\* An effect returns an error: recorded, and whatever it had still to emit is
\* not emitted.
EffectFails(p) ==
  /\ p \in procs /\ p.kind = "effect" /\ faults < MaxFaults
  /\ faults' = faults + 1
  /\ procs' = procs \ {p}
  /\ pending' = pending - p.holds
  /\ UNCHANGED <<durable, reducer, inbox, running, caller, crashes, logFaults>>

-----------------------------------------------------------------------------
\* Stop (or SIGINT through the context): the loop may still take messages,
\* its select chooses among ready cases at random.
Stop ==
  /\ phase = "up" /\ crashes < MaxCrashes
  /\ phase' = "stopping" /\ crashes' = crashes + 1
  /\ UNCHANGED <<durable, model, cursor, inbox, pc, current, todo, procs,
                 running, pending, caller, faults, logFaults>>

LoopExit ==
  /\ phase = "stopping" /\ pc = "idle"
  /\ pc' = "exited"
  /\ UNCHANGED <<durable, phase, model, cursor, inbox, current, todo, procs,
                 running, pending, caller, budget>>

\* The process is gone: everything but the log is lost, and every edge
\* goroutine with it.
Die ==
  /\ phase' = "down" /\ model' = Zero /\ cursor' = 0
  /\ inbox' = <<>> /\ pc' = "idle" /\ current' = Nobody /\ todo' = <<>>
  /\ procs' = {} /\ running' = {} /\ pending' = 0
  /\ caller' = [c \in Callers |-> "idle"]
  /\ UNCHANGED <<durable, faults, logFaults>>

Crash ==
  /\ phase # "down" /\ crashes < MaxCrashes
  /\ crashes' = crashes + 1
  /\ Die

\* Stop has seen the loop end and the process exits; Stop was the one counted.
Exit ==
  /\ pc = "exited"
  /\ UNCHANGED crashes
  /\ Die

\* Everything that moves once the process is asked to run.
Progress ==
  \/ Boot \/ Replay \/ GoLive \/ StartSubscriptions
  \/ Take \/ AppendLog \/ Apply \/ InterpretSend \/ InterpretEffect
  \/ FinishMessage

Failure == AppendFails \/ Stop \/ LoopExit \/ Crash \/ Exit

Next ==
  \/ Progress
  \/ Failure
  \/ \E c \in Callers, m \in External : Send(c, m)
  \/ \E p \in procs : Emit(p) \/ Return(p) \/ EffectFails(p)

Spec == Init /\ [][Next]_vars

\* Go runs a runnable goroutine: the reducer, an effect, an Await source, a
\* cancelled source and one that is done all get to run.  Nothing obliges an
\* edge to Send, a long-lived source to see its event, or the process to die.
Runnable(p) == p.holds >= 1 \/ p.says = <<>>
EmitPromptly == \E p \in procs : Runnable(p) /\ (Emit(p) \/ Return(p))
Fairness == /\ WF_vars(Progress) /\ WF_vars(EmitPromptly)
            /\ WF_vars(LoopExit) /\ WF_vars(Exit)
FairSpec == Spec /\ Fairness
-----------------------------------------------------------------------------
ProcType == [kind : {"effect", "source", "reaper"}, name : Effect \cup Source,
             at : Nat, nth : Nat, says : Seq(Msg), holds : 0..2]

TypeOK ==
  /\ log \in Seq(Envelope) /\ trail \in Seq(State)
  /\ phase \in {"down", "replay", "loop", "up", "stopping"}
  /\ model \in State /\ cursor \in Nat
  /\ inbox \in Seq(Envelope)
  /\ pc \in {"idle", "append", "apply", "interpret", "exited"}
  /\ current \in Envelope
  /\ todo \in Seq(Command)
  /\ procs \subseteq ProcType
  /\ running \subseteq [name : Source, at : Nat]
  /\ pending \in Int
  /\ caller \in [Callers -> {"idle", "waiting", "returned"}]
  /\ crashes \in Nat /\ faults \in Nat /\ logFaults \in Nat

\* Replay convergence (docs/01): whatever mix of live handling, crashes and
\* replays led here, a process that has folded k log entries holds exactly the
\* model every other process held after those k entries.
Convergence == phase # "down" => model = trail[cursor + 1]

\* What the k-th log entry's commands may put on the channel.
Consequences(k) ==
  LET cmds == NextCmds(trail[k], log[k].msg)
  IN {m \in Msg : \E i \in DOMAIN cmds :
        \/ cmds[i] = SendCmd(m)
        \/ \E e \in Effect : cmds[i] = EffectCmd(e)
                             /\ \E j \in DOMAIN Reports(e) : m = Reports(e)[j]}

\* An envelope is explained by the first k log entries: an edge sent it, a
\* source some state among them declared prompted it, or one of them caused it.
Explained(e, k) ==
  \/ e.from \in Callers /\ e.cause = 0 /\ e.msg \in External
  \/ /\ e.from = NoCaller /\ e.cause = 0
     /\ \E j \in 0..k, i \in Source : i \in Desired(trail[j + 1]) /\ e.msg = Prompt(i)
  \/ e.from = NoCaller /\ e.cause \in 1..k /\ e.msg \in Consequences(e.cause)

\* Write-before-apply: nothing ever reaches the log or the channel that the
\* log before it does not explain, so an effect never runs, and a message is
\* never delivered, on the strength of a state a restart would not rebuild.
LogExplainsItself ==
  /\ \A i \in DOMAIN log : Explained(log[i], i - 1)
  /\ \A i \in DOMAIN inbox : Explained(inbox[i], cursor)

\* The pending counter (enqueue, interpret, diffSubscriptions, settleOne)
\* counts exactly the messages queued or in hand, the effects in flight, the
\* Await sources still running and the cancelled sources still unwinding.
PendingExact ==
  pending = Len(inbox) + (IF pc \in {"idle", "exited"} THEN 0 ELSE 1)
            + Cardinality({p \in procs : p.holds >= 1})
            + Cardinality({p \in procs : p.holds = 2})

\* Between messages the started sources are exactly the declared ones, each
\* started once: no source is leaked, doubled or missed by a diff, whichever
\* of Start and the reducer diffs first.
SourcesMatch ==
  phase \in {"up", "stopping"} /\ pc # "interpret" =>
    /\ {r.name : r \in running} = Desired(model)
    /\ \A r, s \in running : r.name = s.name => r = s

\* Send blocks until the reducer has applied the message (runtime/loop.go:177):
\* the step that releases an edge is the end of that edge's own message, which
\* is by then in the log and folded into the model, or the step in which the
\* append of it failed.
SendReturnsApplied ==
  [][\A c \in Callers :
       caller[c] = "waiting" /\ caller'[c] = "returned" =>
         \/ log # <<>> /\ cursor = Len(log) /\ log[cursor].from = c
         \/ logFaults' > logFaults]_vars

\* If the channel fills, emitters block until the reducer drains it (docs/01):
\* the reducer is never itself the one that waits for room.
ReducerNeverBlocks ==
  ~ (pc = "interpret" /\ todo # <<>> /\ Head(todo).kind = "send" /\ ~ Room)

\* Nobody waits for ever: every Send is answered, or the process that owed the
\* answer dies; and Settle returns, since a live instance left alone is quiescent.
WaitsEnd ==
  /\ \A c \in Callers : caller[c] = "waiting" ~> caller[c] # "waiting"
  /\ [](phase = "up" => <>(pending = 0 \/ phase # "up"))

\* The truth is the fold of the whole log, the view what a reader would load.
Abstract == INSTANCE DurableModel WITH
  truth <- trail[Len(trail)],
  view <- IF Alive THEN <<model>> ELSE <<>>

\* Runtime implements DurableModel: crashes, replays, effects and channel are
\* invisible to a reader except as the view being absent for a while.
RefinesDurableModel == Abstract!Spec
=============================================================================
