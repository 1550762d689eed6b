------------------------------ MODULE Cassettes ------------------------------
(***************************************************************************)
(* The rings that a scenario of `kasi test' runs in (docs/13).  The script *)
(* gives one stimulus after the other (mail, the `agent' command, a stop,  *)
(* a crash) while the task's runs live in goroutines of their own: the     *)
(* launcher and the watcher of each run, which meet the `agent' command in *)
(* a harness twin.  sim scripts the turns; live drives a real agent and    *)
(* captures each turn as its Wait returns; a green live run is saved as a  *)
(* cassette, which recorded loads and plays back to the same script.       *)
(*                                                                         *)
(* Abstracted: one task; a file of in/ or out/ is a name with its origin;  *)
(* transcripts, provenance and the mail's cassette are left out.           *)
(***************************************************************************)
EXTENDS Naturals, Sequences, FiniteSets

CONSTANTS
  MaxStimuli,  \* bound: length of a script, one less if noted or earlier
  MaxTapeRuns \* bound: runs of the task

\* The script and the runs are counted.
ASSUME TapeAssumption == MaxStimuli \in Nat /\ MaxTapeRuns \in Nat

VARIABLES
  ring,     \* "sim", "live", "saving", "recorded" or, loudly, "failed"
  noted,    \* whether there is a memory note to hand to the runs
  earlier,  \* whether the script has a cassette already, which is refreshed
  script,   \* the stimuli, as they were given live
  step,     \* stimuli given, or turns saved
  box,      \* the task's in/ and out/
  runs,     \* the task's runs in the model: their status
  entry,    \* the twin's table: the live run of the task, or 0
  live,     \* for each run its launcher, its watcher and its liveRun
  stimulus, \* the stimulus under way
  tape,     \* RecordingHarness.turns
  folder,   \* the cassette's directory, turn by turn
  queue,    \* RecordedHarness.queue
  odd       \* history: runs registered by their own watchers: the run if it was never
            \* launched for that, 0 if it had been stopped before

tapeVars == <<ring, noted, earlier, script, step, box, runs, entry, live, stimulus, tape,
              folder, queue, odd>>
-----------------------------------------------------------------------------
TapeRuns == 1 .. MaxTapeRuns
Running == {r \in DOMAIN runs : runs[r] = "running"}
Lowest(S) == CHOOSE r \in S : \A q \in S : r <= q

Turn(in, out, manifest, exit, stopped) ==
  [in |-> in, out |-> out, manifest |-> manifest, exit |-> exit, stopped |-> stopped]
NoResult == Turn({}, {}, {}, 0, FALSE)
NotLive == [launch |-> "off", watch |-> "off", cancel |-> FALSE, emitted |-> FALSE,
            result |-> NoResult]
Declared == [NotLive EXCEPT !.launch = "owed", !.watch = "starts"]
Quiet == [pc |-> "idle", run |-> 0, turn |-> NoResult]
OldTurn == Turn({<<"mail", 1>>}, {<<"old">>}, {<<"old">>}, 0, FALSE)

FreshWorld ==
  /\ step' = 0 /\ box' = [in |-> {}, out |-> {}] /\ runs' = <<>> /\ entry' = 0
  /\ live' = [r \in TapeRuns |-> NotLive] /\ stimulus' = Quiet /\ odd' = {}

TapeInit ==
  /\ ring \in {"sim", "live"}
  /\ noted \in BOOLEAN /\ earlier \in BOOLEAN
  /\ ~(noted /\ earlier) /\ (ring = "sim" => ~noted /\ ~earlier) \* bound: one at a time, live
  /\ script = <<>> /\ tape = <<>> /\ queue = <<>>
  /\ folder = IF earlier THEN <<OldTurn, OldTurn>> ELSE <<>>
  /\ step = 0 /\ box = [in |-> {}, out |-> {}] /\ runs = <<>> /\ entry = 0
  /\ live = [r \in TapeRuns |-> NotLive] /\ stimulus = Quiet /\ odd = {}

-----------------------------------------------------------------------------
\* The next stimulus: any within the bound, or the one the script has here.
Plays(kind) ==
  /\ stimulus.pc = "idle" /\ ring \in {"sim", "live", "recorded"}
  /\ step' = step + 1
  /\ IF ring = "recorded" THEN step < Len(script) /\ script[step + 1] = kind /\ UNCHANGED script
     ELSE Len(script) < MaxStimuli - (IF noted \/ earlier THEN 1 ELSE 0) /\ script' = Append(script, kind)

Settles == stimulus' = [stimulus EXCEPT !.pc = "settles"]
Fails == ring' = "failed" /\ stimulus' = Quiet
cassette == <<noted, earlier, tape, folder, queue>>

\* `deliver': the mail is laid in and the model has another run, whose launcher and
\* watcher begin.  Bound: no other run of the task is running; the twins' table has
\* room for one, and a command that meets a superseded run waits for ever.
DeliverMail ==
  /\ Running = {} /\ Len(runs) < MaxTapeRuns /\ Plays("mail")
  /\ LET r == Len(runs) + 1
     IN /\ box' = [box EXCEPT !.in = @ \cup {<<"mail", r>>}]
        /\ runs' = Append(runs, "running")
        /\ live' = [live EXCEPT ![r] = Declared]
  /\ Settles
  /\ UNCHANGED <<ring, entry, odd, cassette>>

\* Settle waits for the launchers (Await) and what they start, not for the watchers.
Settle ==
  /\ stimulus.pc = "settles"
  /\ \A r \in Running : live[r].launch = "over"
  /\ stimulus' = Quiet
  /\ UNCHANGED <<ring, script, step, box, runs, entry, live, odd, cassette>>

\* `stop': the running run is to stop; Signal cancels the one the table has.
StopStimulus ==
  /\ Running # {} /\ Plays("stop")
  /\ runs' = [runs EXCEPT ![Lowest(Running)] = "stopping"]
  /\ live' = IF entry = 0 THEN live ELSE [live EXCEPT ![entry].cancel = TRUE]
  /\ Settles
  /\ UNCHANGED <<ring, box, entry, odd, cassette>>

\* `crash' and `restart': App, goroutines and sim harness are new.
CrashStimulus ==
  /\ ring = "sim" /\ Plays("crash")
  /\ entry' = 0
  /\ live' = [r \in TapeRuns |-> IF r \in Running THEN Declared ELSE NotLive]
  /\ Settles
  /\ UNCHANGED <<ring, box, runs, odd, cassette>>
-----------------------------------------------------------------------------
\* launchRun: unless IsLive, start-agent-run provisions in/, empties out/ and
\* registers the run with the harness.
Launch(r) ==
  /\ live[r].launch = "owed" /\ r \in Running
  /\ live' = [live EXCEPT ![r].launch = "over"]
  /\ IF entry = r THEN odd' = odd \cup {r} /\ UNCHANGED <<box, entry>>
     ELSE /\ entry' = r
          /\ box' = [in |-> box.in \cup (IF noted THEN {<<"note">>} ELSE {}), out |-> {}]
          /\ UNCHANGED odd
  /\ UNCHANGED <<ring, script, step, runs, stimulus, cassette>>

\* The watcher begins to Wait: awaitRegistered and awaitRun wait until the launcher
\* has registered the run; RecordedHarness.Wait registers it itself.
WaitStarts(r) ==
  /\ live[r].watch = "starts"
  /\ ring = "recorded" \/ entry = r
  /\ entry' = r
  /\ live' = [live EXCEPT ![r].watch = "waits"]
  /\ odd' = IF entry # r /\ r \notin Running THEN odd \cup {0} ELSE odd
  /\ UNCHANGED <<ring, script, step, box, runs, stimulus, cassette>>

Gets(r, result) == live' = [live EXCEPT ![r] = [@ EXCEPT !.watch = "ended", !.result = result]]

\* An agent may delete the note it was handed, and replies unless it fails.
Agent(r, forgets, says) ==
  [in  |-> IF forgets THEN box.in \ {<<"note">>} ELSE box.in,
   out |-> IF says THEN box.out \cup {<<"reply", r>>} ELSE box.out]

\* A real agent ends its turn by itself, or because it was signalled.
LiveTurnEnds(r) ==
  /\ ring = "live" /\ live[r].watch = "waits" /\ live[r].launch = "over"
  /\ \E forgets, says \in BOOLEAN :
       /\ box' = Agent(r, forgets, says)
       /\ Gets(r, Turn({}, box'.out, box'.out, IF says THEN 0 ELSE 1, runs[r] # "running"))
  /\ UNCHANGED <<ring, script, step, runs, entry, stimulus, odd, cassette>>

\* Wait returns Stopped: the run has left "running", or Signal closed its liveRun;
\* or the run was stopped before Wait could find it.
WaitStopped(r) ==
  /\ \/ live[r].watch = "starts" /\ ring # "recorded" /\ r \notin Running
     \/ live[r].watch = "waits" /\ ring # "live" /\ (live[r].cancel \/ r \notin Running)
  /\ Gets(r, Turn({}, {}, {}, 0, TRUE))
  /\ UNCHANGED <<ring, script, step, box, runs, entry, stimulus, odd, cassette>>

\* RecordingHarness.Wait takes down what in/ and out/ hold by now.
Capture(r) ==
  /\ ring = "live" /\ live[r].watch = "ended"
  /\ tape' = Append(tape, [live[r].result EXCEPT !.in = box.in, !.out = box.out])
  /\ live' = [live EXCEPT ![r].watch = "captured"]
  /\ UNCHANGED <<ring, noted, earlier, script, step, box, runs, entry, stimulus, folder, queue,
                odd>>

\* finish-agent-run; the model, not the harness, says whether the run was stopped.
EmitFinish(r) ==
  /\ live[r].watch = (IF ring = "live" THEN "captured" ELSE "ended")
  /\ live' = [live EXCEPT ![r].watch = "emitted"]
  /\ runs' = [runs EXCEPT ![r] = IF @ = "stopping" \/ live[r].result.stopped THEN "stopped"
                                                                             ELSE "finished"]
  /\ UNCHANGED <<ring, script, step, box, entry, stimulus, odd, cassette>>

MarkEmittedAny(r) ==
  /\ live[r].watch = "emitted"
  /\ live' = [q \in TapeRuns |->
       [live[q] EXCEPT !.watch = IF q = r THEN "over" ELSE @,
                       !.emitted = @ \/ entry = q]]
  /\ UNCHANGED <<ring, script, step, box, runs, entry, stimulus, odd, cassette>>

MarkEmitted(r) ==
  /\ live[r].watch = "emitted"
  /\ live' = [live EXCEPT ![r].watch = "over", ![r].emitted = (entry = r)]
  /\ UNCHANGED <<ring, script, step, box, runs, entry, stimulus, odd, cassette>>
-----------------------------------------------------------------------------
\* The `agent' command wants a running run; live, it then waits until there is
\* none.  DeliverTurn and DeliverRecorded wait for one to be registered.
AgentStimulus ==
  /\ Plays("agent")
  /\ IF Running = {} THEN Fails
     ELSE /\ stimulus' = [Quiet EXCEPT !.pc = IF ring = "live" THEN "polls" ELSE "takes"]
          /\ UNCHANGED ring
  /\ UNCHANGED <<box, runs, entry, live, odd, cassette>>

PollsIdle ==
  /\ stimulus.pc = "polls" /\ Running = {}
  /\ Settles
  /\ UNCHANGED <<ring, script, step, box, runs, entry, live, odd, cassette>>

\* DeliverTurn: the scripted files and deletions; the manifest is all of out/.
TakeScripted ==
  /\ ring = "sim" /\ stimulus.pc = "takes" /\ entry # 0
  /\ \E forgets, says \in BOOLEAN :
       /\ box' = Agent(entry, forgets, says)
       /\ stimulus' = [pc |-> "offers", run |-> entry,
                       turn |-> Turn({}, box'.out, box'.out, IF says THEN 0 ELSE 1, FALSE)]
  /\ UNCHANGED <<ring, script, step, runs, entry, live, odd, cassette>>

\* DeliverRecorded: the next recorded turn, if there is one, if in/ is what it was.
TakeUnchecked ==
  /\ ring = "recorded" /\ stimulus.pc = "takes" /\ entry # 0 /\ queue # <<>>
  /\ queue' = Tail(queue)
  /\ box' = [box EXCEPT !.out = @ \cup Head(queue).out]
  /\ stimulus' = [pc |-> "offers", run |-> entry, turn |-> Head(queue)]
  /\ UNCHANGED <<ring, noted, earlier, script, step, runs, entry, live, tape, folder, odd>>

TakeRecorded ==
  /\ ring = "recorded" /\ stimulus.pc = "takes" /\ entry # 0
  /\ queue' = IF queue = <<>> THEN <<>> ELSE Tail(queue)
  /\ IF queue = <<>> \/ Head(queue).in # box.in THEN Fails /\ UNCHANGED box
     ELSE /\ box' = [box EXCEPT !.out = @ \cup Head(queue).out]
          /\ stimulus' = [pc |-> "offers", run |-> entry, turn |-> Head(queue)]
          /\ UNCHANGED ring
  /\ UNCHANGED <<noted, earlier, script, step, runs, entry, live, tape, folder, odd>>

\* lr.turn <- td, and then <-lr.emitted.
HandOver ==
  /\ stimulus.pc = "offers" /\ live[stimulus.run].watch = "waits"
  /\ stimulus' = [stimulus EXCEPT !.pc = "handed"]
  /\ Gets(stimulus.run, [stimulus.turn EXCEPT !.stopped = FALSE])
  /\ UNCHANGED <<ring, script, step, box, runs, entry, odd, cassette>>

TurnReturns ==
  /\ stimulus.pc = "handed" /\ live[stimulus.run].emitted
  /\ Settles
  /\ UNCHANGED <<ring, script, step, box, runs, entry, live, odd, cassette>>
-----------------------------------------------------------------------------
\* The live run is green: SaveHarness writes the turns captured so far.  A file of
\* a subdirectory, as every memory note is, has no directory to be written to.
GreenRun ==
  /\ ring = "live" /\ stimulus.pc = "idle" /\ script # <<>>
  /\ ring' = "saving" /\ step' = 0
  /\ UNCHANGED <<script, box, runs, entry, live, stimulus, odd, cassette>>

\* What an earlier recording left in the directory of that turn stays there.
SaveTurn ==
  /\ ring = "saving" /\ step < Len(tape)
  /\ step' = step + 1
  /\ LET turn == tape[step + 1]
     IN IF <<"note">> \in turn.in THEN Fails /\ UNCHANGED folder
        ELSE /\ folder' = IF step < Len(folder)
                          THEN [folder EXCEPT ![step + 1] =
                                  [turn EXCEPT !.in = @ \cup folder[step + 1].in,
                                               !.out = @ \cup folder[step + 1].out]]
                          ELSE Append(folder, turn)
             /\ UNCHANGED <<ring, stimulus>>
  /\ UNCHANGED <<noted, earlier, script, box, runs, entry, live, tape, queue, odd>>

\* Another process loads what is there, all of it or, after a death, the first
\* turns, and plays the script in the recorded ring.
LoadCassette ==
  /\ ring = "saving"
  /\ ring' = "recorded"
  /\ queue' = folder
  /\ FreshWorld
  /\ UNCHANGED <<noted, earlier, script, tape, folder>>

TapeNext ==
  \/ DeliverMail \/ Settle \/ StopStimulus \/ CrashStimulus \/ AgentStimulus \/ PollsIdle
  \/ TakeScripted \/ TakeRecorded \/ HandOver \/ TurnReturns
  \/ GreenRun \/ SaveTurn \/ LoadCassette
  \/ \E r \in TapeRuns : \/ Launch(r) \/ WaitStarts(r) \/ LiveTurnEnds(r) \/ WaitStopped(r)
                         \/ Capture(r) \/ EmitFinish(r) \/ MarkEmitted(r)

TapeSpec == TapeInit /\ [][TapeNext]_tapeVars
-----------------------------------------------------------------------------
\* The `agent' command settles the whole turn (harness_sim.go:160) and meets
\* somebody: whom it offers the turn to waits for it, and when it returns that very
\* run has finished with that very turn; unless a stopped run's watcher, late to
\* begin, has registered it in place of the next.
TurnSettled ==
  0 \notin odd =>
    /\ stimulus.pc = "offers" => live[stimulus.run].watch \in {"starts", "waits"}
    /\ stimulus.pc = "settles" /\ stimulus.run # 0 =>
         /\ runs[stimulus.run] = "finished"
         /\ live[stimulus.run].result.exit = stimulus.turn.exit
         /\ live[stimulus.run].result.manifest = stimulus.turn.manifest

\* Staleness is loud, never silent (docs/13): a turn that is played back has the
\* very in/ the run now has, was captured in this place of the order and leaves in
\* out/ what it left.  A run that the launcher found registered by its own watcher
\* was never provisioned, and has the out/ of the turn before as well; and a cassette
\* that was refreshed holds what the earlier recording left, whole turns of it if the
\* recording died or was shorter.
ReplayIsReality ==
  ring = "recorded" /\ stimulus.pc \in {"offers", "handed"} =>
    LET k == Len(folder) - Len(queue)
    IN /\ stimulus.turn.in = box.in
       /\ ~earlier => k \in DOMAIN tape /\ stimulus.turn = tape[k]
       /\ ~earlier /\ odd = {} => box.out = stimulus.turn.out
=============================================================================
