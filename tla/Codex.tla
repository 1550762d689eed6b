-------------------------------- MODULE Codex --------------------------------
(***************************************************************************)
(* The credential Codex runs on.  The vault (secrets.db, beside the log)   *)
(* holds it under one reserved reference; being signed in means that it is *)
(* there.  The operator's browser tabs sign in and out and edit it under   *)
(* /secrets, `kasi secret' writes it from another process, each turn of a  *)
(* Codex task copies it into the task's own CODEX_HOME and writes a token  *)
(* that codex rotated there back at the end.  Every writer inside kasi     *)
(* first writes the vault and then sends a message that names the          *)
(* reference: the audit trail (decision-023).                              *)
(*                                                                         *)
(* Abstracted: a credential is the grant it comes from and how often it    *)
(* was rotated; codes, URLs, encryption and pages are left out.            *)
(***************************************************************************)
EXTENDS Naturals, Sequences, FiniteSets

CONSTANTS
  Tabs,        \* browser tabs, each with one request at a time
  CodexTasks,  \* tasks that run on Codex
  HostLogin,   \* the host has a ~/.codex/auth.json of its own
  MaxGrants,   \* bound: sign-ins begun and values typed in
  MaxRotations,\* bound: rotations of one grant
  MaxTurns,    \* bound: turns of all tasks
  MaxRequests, \* bound: requests of the tabs and commands of the CLI
  MaxDeaths,   \* bound: process deaths
  MaxActs      \* bound: turns, requests, commands and deaths together

VARIABLES
  vault,    \* the credential at the reserved reference, or None
  trail,    \* the last event of the audit trail: "none", "set" or "removed"
  held,     \* Server.codexSession: the sign-in under way, or 0
  signin,   \* for each grant the device sign-in that yields it, if one does
  tab,      \* what each tab's request has got to
  turn,     \* what the turn of each task has got to
  home,     \* each task's CODEX_HOME
  begun,    \* tasks that have had a turn
  finished, \* tasks that are done
  removing, \* tasks whose archive-task has yet to remove the home
  booting,  \* kasi has started and has not yet swept the homes
  doubt,    \* history: a write of the vault that the trail may not show last
  own,      \* history: tasks whose home holds the vault's copy or a rotation of it
  stray,    \* history: tasks whose home was made or kept after the finish
  retired,  \* history: grants signed out, and the host's own
  used      \* grants, turns, requests and deaths so far

codexVars == <<vault, trail, held, signin, tab, turn, home, begun, finished,
               removing, booting, doubt, own, stray, retired, used>>
-----------------------------------------------------------------------------
Grants == 1 .. MaxGrants
None == <<>>
HostGrant == 0
Credential(g) == <<g, 0>>
Rotated(c) == <<c[1], c[2] + 1>>

NoSignIn == [pc |-> "none", home |-> FALSE, closed |-> FALSE]
NoTurn == [pc |-> "idle", before |-> None, token |-> None]
NoRequest == [pc |-> "idle", grant |-> 0, next |-> "idle"]
NoHome == [there |-> FALSE, auth |-> None]

CodexInit ==
  /\ vault = None /\ trail = "none" /\ held = 0
  /\ signin = [g \in Grants |-> NoSignIn]
  /\ tab = [b \in Tabs |-> NoRequest]
  /\ turn = [t \in CodexTasks |-> NoTurn]
  /\ home = [t \in CodexTasks |-> NoHome]
  /\ begun = {} /\ finished = {} /\ removing = {} /\ booting = FALSE
  /\ doubt = FALSE /\ own = {} /\ stray = {} /\ retired = {HostGrant}
  /\ used = [grants |-> 0, turns |-> 0, requests |-> 0, deaths |-> 0]

Room == used.turns + used.requests + used.deaths < MaxActs

-----------------------------------------------------------------------------
\* codexConnected, codexRefresher.Connected: signed in is being there.
Connected == vault # None

\* Writers between their write of the vault and the Send that records it.
Unrecorded == {b \in Tabs : tab[b].pc \in {"setSent", "removedSent"}}
              \cup {g \in Grants : signin[g].pc = "stored"}
              \cup {t \in CodexTasks : turn[t].pc = "wrote"}

\* Set and Delete of the vault by a writer that is recorded afterwards.
Store(c, writer) ==
  /\ vault' = c
  /\ doubt' = (Unrecorded # {})
  /\ own' = own \cap writer
  /\ retired' = IF c = None /\ vault # None THEN retired \cup {vault[1]} ELSE retired

secret == <<vault, doubt, own, retired>>
tasks == <<turn, home, begun, finished, removing, booting, stray>>
-----------------------------------------------------------------------------
\* The tabs.  Each request is a chain of steps; all may overlap.
Request(b, pc) ==
  /\ tab[b].pc = "idle" /\ used.requests < MaxRequests /\ Room
  /\ tab' = [tab EXCEPT ![b] = [NoRequest EXCEPT !.pc = pc]]
  /\ used' = [used EXCEPT !.requests = @ + 1]
  /\ UNCHANGED <<secret, trail, held, signin, tasks>>

TabGoes(b, pc) == tab' = [tab EXCEPT ![b] = [@ EXCEPT !.pc = pc]]
Answers(b) == tab' = [tab EXCEPT ![b] = NoRequest]
TabAt(b, pc) == tab[b].pc = pc

\* saveSecret and deleteSecret of /secrets: the vault first; if that fails the
\* request fails and nothing is recorded.
SaveSecret(b) ==
  /\ TabAt(b, "save")
  /\ \/ /\ used.grants < MaxGrants
        /\ Store(Credential(used.grants + 1), {})
        /\ used' = [used EXCEPT !.grants = @ + 1]
        /\ TabGoes(b, "setSent")
     \/ Answers(b) /\ UNCHANGED <<secret, used>>
  /\ UNCHANGED <<trail, held, signin, tasks>>

DeleteSecret(b) ==
  /\ TabAt(b, "delete")
  /\ \/ Store(None, {}) /\ TabGoes(b, "removedSent")
     \/ Answers(b) /\ UNCHANGED secret
  /\ UNCHANGED <<trail, held, signin, tasks, used>>

\* record-secret-set and record-secret-removed, sent and applied.
RecordsUnsent(b) ==
  /\ TabAt(b, "removedSent")
  /\ Answers(b)
  /\ UNCHANGED <<secret, trail, held, signin, tasks, used>>

Records(b) ==
  /\ tab[b].pc \in {"setSent", "removedSent"}
  /\ trail' = IF TabAt(b, "setSent") THEN "set" ELSE "removed"
  /\ Answers(b)
  /\ UNCHANGED <<secret, held, signin, tasks, used>>

\* connectCodex: nothing to do when signed in; otherwise a home, a process that
\* prints a code, and two goroutines, scan and reap.
ConnectCodex(b) ==
  /\ TabAt(b, "connect")
  /\ \/ /\ ~Connected /\ used.grants < MaxGrants
        /\ LET g == used.grants + 1
           IN /\ signin' = [signin EXCEPT ![g] = [pc |-> "runs", home |-> TRUE, closed |-> FALSE]]
              /\ tab' = [tab EXCEPT ![b] = [pc |-> "started", grant |-> g, next |-> "idle"]]
        /\ used' = [used EXCEPT !.grants = @ + 1]
     \/ /\ Connected \/ used.grants = MaxGrants
        /\ Answers(b) /\ UNCHANGED <<signin, used>>
  /\ UNCHANGED <<secret, trail, held, tasks>>

\* Start returns once the code is known (setCodexPending), or it times out.
SetPending(b) ==
  /\ TabAt(b, "started")
  /\ held' = tab[b].grant
  /\ tab' = [tab EXCEPT ![b] = [pc |-> "closing", grant |-> held, next |-> "idle"]]
  /\ UNCHANGED <<secret, trail, signin, tasks, used>>

SignInTimesOut(b) ==
  /\ TabAt(b, "started")
  /\ TabGoes(b, "closing")
  /\ UNCHANGED <<secret, trail, held, signin, tasks, used>>

\* clearCodexPending takes the sign-in away, and closes it afterwards.
ClearPending(b, next) ==
  /\ tab' = [tab EXCEPT ![b] = [pc |-> "closing", grant |-> held, next |-> next]]
  /\ held' = 0

\* pollCodex reads the sign-in that is held, asks it, and then clears whichever is
\* held by then.
PollCodex(b) ==
  /\ TabAt(b, "poll")
  /\ IF held = 0 \/ signin[held].pc \notin {"ok", "failed"} THEN Answers(b)
                                                            ELSE TabGoes(b, "polled")
  /\ UNCHANGED <<secret, trail, held, signin, tasks, used>>

Polled(b) ==
  /\ TabAt(b, "polled")
  /\ ClearPending(b, "idle")
  /\ UNCHANGED <<secret, trail, signin, tasks, used>>

\* disconnectCodex: cancel the sign-in, then sign out if signed in.
DisconnectCodex(b) ==
  /\ TabAt(b, "disconnect")
  /\ ClearPending(b, "signOut")
  /\ UNCHANGED <<secret, trail, signin, tasks, used>>

SignOut(b) ==
  /\ TabAt(b, "signOut")
  /\ IF Connected THEN TabGoes(b, "delete") ELSE Answers(b)
  /\ UNCHANGED <<secret, trail, held, signin, tasks, used>>

\* execCodexSession.Close: a running process is killed, one that has exited is
\* left to reap; the home goes.
Close(b) ==
  /\ TabAt(b, "closing")
  /\ signin' = [g \in Grants |->
        IF g # tab[b].grant \/ signin[g].closed THEN signin[g]
        ELSE [pc |-> IF signin[g].pc = "runs" THEN "failed" ELSE signin[g].pc,
              home |-> FALSE, closed |-> TRUE]]
  /\ TabGoes(b, tab[b].next)
  /\ UNCHANGED <<secret, trail, held, tasks, used>>
-----------------------------------------------------------------------------
\* A sign-in.  The operator, who was shown the code, approves; or it expires.
Stands(g, pc) == signin' = [signin EXCEPT ![g].pc = pc]
elsewhere == <<trail, held, tab, tasks, used>>

ProcessExits(g) ==
  /\ signin[g].pc = "runs"
  /\ \/ held = g /\ Stands(g, "exited")
     \/ Stands(g, "failed")
  /\ UNCHANGED <<secret, elsewhere>>

\* reap: read auth.json, hand it to harvest (Set, then Send), record the outcome.
ReadAuth(g) ==
  /\ signin[g].pc = "exited"
  /\ Stands(g, IF signin[g].home THEN "read" ELSE "failed")
  /\ UNCHANGED <<secret, elsewhere>>

Harvest(g) ==
  /\ signin[g].pc = "read"
  /\ \/ Store(Credential(g), {}) /\ Stands(g, "stored")
     \/ Stands(g, "failed") /\ UNCHANGED secret
  /\ UNCHANGED elsewhere

Harvested(g) ==
  /\ signin[g].pc = "stored"
  /\ Stands(g, "ok") /\ trail' = "set"
  /\ UNCHANGED <<secret, held, tab, tasks, used>>
-----------------------------------------------------------------------------
\* A turn of a Codex task.
TurnAt(t, pc) == turn[t].pc = pc
TurnGoes(t, pc) == turn' = [turn EXCEPT ![t] = [@ EXCEPT !.pc = pc]]
Ends(t) == turn' = [turn EXCEPT ![t] = NoTurn]
around == <<held, signin, tab, begun, finished, removing, booting>>

\* materializeCodexHome: the home is made once per task; auth.json is written each
\* turn from the vault, else from the host's login, else left as it is.
Materialize(t) ==
  /\ TurnAt(t, "idle") /\ used.turns < MaxTurns /\ Room
  /\ home' = [home EXCEPT ![t] =
       [there |-> TRUE,
        auth |-> IF Connected THEN vault
                 ELSE IF HostLogin THEN Credential(HostGrant) ELSE home[t].auth]]
  /\ own' = IF Connected THEN own \cup {t} ELSE own \ {t}
  /\ stray' = IF t \in finished THEN stray \cup {t} ELSE stray
  /\ begun' = begun \cup {t}
  /\ TurnGoes(t, "spawns")
  /\ used' = [used EXCEPT !.turns = @ + 1]
  /\ UNCHANGED <<vault, doubt, retired, trail, held, signin, tab, finished, removing, booting>>

\* Codex.spawn takes the copy to compare with before the process can rotate it.
Spawn(t) ==
  /\ TurnAt(t, "spawns")
  /\ turn' = [turn EXCEPT ![t] = [pc |-> "runs", before |-> home[t].auth, token |-> None]]
  /\ UNCHANGED <<secret, trail, home, stray, used, around>>

Rotate(t) ==
  /\ TurnAt(t, "runs") /\ home[t].auth # None /\ home[t].auth[2] < MaxRotations
  /\ home' = [home EXCEPT ![t].auth = Rotated(@)]
  /\ UNCHANGED <<secret, trail, turn, stray, used, around>>

\* finalizeCredentials: nothing to do unless codex left another credential than it
\* found; then, if the operator is still signed in, Refresh.
FinalizeNever(t) ==
  /\ TurnAt(t, "runs")
  /\ Ends(t)
  /\ UNCHANGED <<secret, trail, home, stray, used, around>>

Finalize(t) ==
  /\ TurnAt(t, "runs")
  /\ IF home[t].auth = None \/ home[t].auth = turn[t].before THEN Ends(t)
     ELSE turn' = [turn EXCEPT ![t] = [@ EXCEPT !.pc = "changed", !.token = home[t].auth]]
  /\ UNCHANGED <<secret, trail, home, stray, used, around>>

StillConnected(t) ==
  /\ TurnAt(t, "changed")
  /\ IF Connected THEN TurnGoes(t, "refreshes") ELSE Ends(t)
  /\ UNCHANGED <<secret, trail, home, stray, used, around>>

Refresh(t) ==
  /\ TurnAt(t, "refreshes")
  /\ \/ Store(turn[t].token, {t}) /\ TurnGoes(t, "wrote")
     \/ Ends(t) /\ own' = own \ {t} /\ UNCHANGED <<vault, doubt, retired>>
  /\ UNCHANGED <<trail, home, stray, used, around>>

Refreshed(t) ==
  /\ TurnAt(t, "wrote")
  /\ Ends(t) /\ trail' = "set"
  /\ UNCHANGED <<secret, home, stray, used, around>>
-----------------------------------------------------------------------------
\* `kasi secret set' and `rm': another process, and no message.
CommandLine ==
  /\ used.requests < MaxRequests /\ Room
  /\ used' = [used EXCEPT !.requests = @ + 1,
                          !.grants = IF Connected THEN @ ELSE @ + 1]
  /\ used.grants < MaxGrants
  /\ vault' = IF Connected THEN None ELSE Credential(used.grants + 1)
  /\ retired' = IF Connected THEN retired \cup {vault[1]} ELSE retired
  /\ doubt' = TRUE /\ own' = {}
  /\ UNCHANGED <<trail, held, signin, tab, tasks>>

\* finish-task, and the end of its archive-task: RemoveCodexHome, unless Delete
\* has refused to delete the workspace.
FinishTask(t) ==
  /\ t \notin finished
  /\ finished' = finished \cup {t} /\ removing' = removing \cup {t}
  /\ UNCHANGED <<secret, trail, held, signin, tab, turn, home, begun, booting, stray, used>>

RemoveCodexHomeForgotten(t) ==
  /\ t \in removing
  /\ removing' = removing \ {t}
  /\ UNCHANGED <<secret, trail, held, signin, tab, turn, home, begun, stray, finished, booting, used>>

RemoveCodexHome(t) ==
  /\ t \in removing
  /\ removing' = removing \ {t}
  /\ \/ home' = [home EXCEPT ![t] = NoHome] /\ stray' = stray \ {t} /\ own' = own \ {t}
     \/ stray' = stray \cup {t} /\ UNCHANGED <<home, own>>
  /\ UNCHANGED <<vault, doubt, retired, trail, held, signin, tab, turn, begun, finished,
                 booting, used>>

\* The process dies, and nobody harvests what it had started.  Vault and homes
\* remain.
Death ==
  /\ used.deaths < MaxDeaths /\ Room
  /\ used' = [used EXCEPT !.deaths = @ + 1]
  /\ held' = 0 /\ signin' = [g \in Grants |-> NoSignIn]
  /\ tab' = [b \in Tabs |-> NoRequest] /\ turn' = [t \in CodexTasks |-> NoTurn]
  /\ removing' = {} /\ booting' = TRUE
  /\ doubt' = (doubt \/ Unrecorded # {})
  /\ own' = {t \in own : turn[t].pc \in {"idle", "wrote"}}
  /\ UNCHANGED <<vault, trail, home, begun, finished, stray, retired>>

\* SweepCodexHomes at boot, while runs are being launched again already: the homes
\* of tasks that are done.
SweepKeepsAll ==
  /\ booting /\ booting' = FALSE
  /\ UNCHANGED <<vault, doubt, retired, trail, held, signin, tab, turn, home, begun,
                 finished, removing, own, stray, used>>

SweepCodexHomes ==
  /\ booting /\ booting' = FALSE
  /\ home' = [t \in CodexTasks |-> IF t \in finished THEN NoHome ELSE home[t]]
  /\ own' = own \ finished /\ stray' = stray \ finished
  /\ UNCHANGED <<vault, doubt, retired, trail, held, signin, tab, turn, begun, finished,
                 removing, used>>

CodexNext ==
  \/ \E b \in Tabs : \/ \E pc \in {"save", "delete", "connect", "poll", "disconnect"} : Request(b, pc)
                     \/ SaveSecret(b) \/ DeleteSecret(b) \/ Records(b)
                     \/ ConnectCodex(b) \/ SetPending(b) \/ SignInTimesOut(b) \/ Close(b)
                     \/ PollCodex(b) \/ Polled(b) \/ DisconnectCodex(b) \/ SignOut(b)
  \/ \E g \in Grants : ProcessExits(g) \/ ReadAuth(g) \/ Harvest(g) \/ Harvested(g)
  \/ \E t \in CodexTasks : \/ Materialize(t) \/ Spawn(t) \/ Rotate(t) \/ Finalize(t)
                           \/ StillConnected(t) \/ Refresh(t) \/ Refreshed(t)
                           \/ FinishTask(t) \/ RemoveCodexHome(t)
  \/ CommandLine \/ Death \/ SweepCodexHomes

CodexSpec == CodexInit /\ [][CodexNext]_codexVars
-----------------------------------------------------------------------------
\* The trail tells whether the reference is there (decision-023): whoever wrote
\* last, and whatever failed, its last event is the last write's.  In doubt is only
\* a write that overlapped another one, that lost its message in a crash, or that
\* `kasi secret' made, until the next write.
AuditFollowsVault ==
  Unrecorded = {} /\ ~doubt => (Connected <=> trail = "set")

\* A task's home is as good as the vault (decision-025): between turns the copy of
\* a turn that nobody wrote the vault during is the vault's, rotations included, so
\* that the next turn's copy loses no token; a task in flight keeps its home, which
\* its sessions live in; and no credential outlives its task, but for one that a
\* turn begun after the finish was given or that the archive refused to part with.
HomesFaithful ==
  /\ \A t \in own : turn[t].pc \in {"idle", "wrote"} => vault = home[t].auth
  /\ \A t \in begun \ finished : home[t].there
  /\ \A t \in finished \ (removing \cup stray) : ~booting => ~home[t].there

\* "so a rotated token never resurrects a secret the operator deleted (sign-out) and
\* a run that fell back to the host ~/.codex [...] never writes to it"
\* (agents/harness_codex.go:41-42).
NeverResurrected ==
  [][vault' # vault /\ vault' # None => vault'[1] \notin retired]_codexVars
=============================================================================
