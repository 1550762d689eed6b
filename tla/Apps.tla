-------------------------------- MODULE Apps --------------------------------
(***************************************************************************)
(* The app registry (decision-021): register-app and unregister-app record *)
(* intent, apps-reconcile turns an app whose status is not settled into    *)
(* run-app or retire-app, their handlers into an effect on the machine's   *)
(* units, and the effect ends by emitting the message that settles it.     *)
(*                                                                         *)
(* apps is the reducer's state, durable because the runtime rebuilds it    *)
(* from the log (module Runtime).  The channel, the effects, the started   *)
(* sources and the control requests being served die with the process; the *)
(* units are the machine's and survive it.                                 *)
(*                                                                         *)
(* Abstracted: a start command to the number of the request that brought   *)
(* it, the operations and the URL left out (they follow name and port),    *)
(* the token check and the read-only actions of the endpoint left out.     *)
(***************************************************************************)
EXTENDS Integers, Sequences, FiniteSets, SequencesExt

CONSTANTS
  Names,            \* the app names requests mention
  PortMin, PortMax, \* the forwarded band
  MissingUnitFails, \* does disabling a unit whose file is gone fail?
  MaxRequests,      \* bound: control requests
  MaxCrashes,       \* bound: process deaths
  MaxFaults         \* bound: effects that fail by themselves

Port == PortMin..PortMax
Version == 1..MaxRequests

ASSUME AppsAssumption ==
  /\ PortMin \in Nat \ {0} /\ PortMax \in Nat /\ PortMin <= PortMax
  /\ MissingUnitFails \in BOOLEAN
  /\ MaxRequests \in Nat \ {0} /\ MaxCrashes \in Nat /\ MaxFaults \in Nat

VARIABLES
  apps,     \* the registry: name -> [port, cmd, status]
  inbox,    \* the channel
  effects,  \* effects in flight, in the order they started
  started,  \* sources started and not yet dropped by a diff
  unsent,   \* sources whose Run has not emitted yet
  chosen,   \* add requests that have read their port and not yet sent
  units,    \* the machine: name -> what the unit file says, what runs
  ordered,  \* history: the registrations applied so far
  overlap,  \* history: has a request come before the last had settled?
  requests, crashes, faults

vars == <<apps, inbox, effects, started, unsent, chosen, units, ordered,
          overlap, requests, crashes, faults>>

Message(tag, name, port, cmd) == [tag |-> tag, name |-> name, port |-> port, cmd |-> cmd]
About(tag, name) == Message(tag, name, 0, 0)

None == [port |-> 0, cmd |-> 0]
Launch(a) == [port |-> a.port, cmd |-> a.cmd]

-----------------------------------------------------------------------------
\* appsReconcileSubs: a source per app whose unit does not match its status.
Desired(s) ==
  {[of |-> "run-app", name |-> n] : n \in {m \in DOMAIN s : s[m].status = "registered"}}
  \cup
  {[of |-> "retire-app", name |-> n] : n \in {m \in DOMAIN s : s[m].status = "removing"}}

\* The handlers.  register-app adds or replaces; the others leave an app that
\* is not registered alone.
RegisterApp(s, m) ==
  [n \in DOMAIN s \cup {m.name} |->
     IF n = m.name THEN [port |-> m.port, cmd |-> m.cmd, status |-> "registered"] ELSE s[n]]

SetStatus(s, n, status) ==
  IF n \in DOMAIN s THEN [s EXCEPT ![n].status = status] ELSE s

\* mark-app-running looks the app up by name, whatever its status is by now.
MarkAppRunningUnguarded(s, n) ==
  (n :> [port |-> IF n \in DOMAIN s THEN s[n].port ELSE 0,
         cmd |-> IF n \in DOMAIN s THEN s[n].cmd ELSE 0, status |-> "running"]) @@ s
MarkAppRunning(s, n) == SetStatus(s, n, "running")

MarkAppRemoved(s, n) == [m \in DOMAIN s \ {n} |-> s[m]]

Update(s, m) ==
  CASE m.tag = "register-app" -> RegisterApp(s, m)
    [] m.tag = "unregister-app" -> SetStatus(s, m.name, "removing")
    [] m.tag = "mark-app-running" -> MarkAppRunning(s, m.name)
    [] m.tag = "mark-app-removed" -> MarkAppRemoved(s, m.name)
    [] OTHER -> s

Effect(kind, n, launch, pc) ==
  [kind |-> kind, name |-> n, port |-> launch.port, cmd |-> launch.cmd, pc |-> pc]

CommandsAnyStatus(s, m) ==
  CASE m.name \notin DOMAIN s -> <<>>
    [] m.tag = "run-app" ->
         <<Effect("install-app-unit", m.name, Launch(s[m.name]), "install")>>
    [] m.tag = "retire-app" -> <<Effect("remove-app-unit", m.name, None, "stop")>>
    [] m.tag = "restart-app" -> <<Effect("restart-app-unit", m.name, None, "restart")>>
    [] OTHER -> <<>>

\* The commands a handler returns.  run-app and retire-app check the status
\* their source saw; restart-app takes any registered app.
Commands(s, m) ==
  LET status == IF m.name \in DOMAIN s THEN s[m.name].status ELSE "absent"
  IN CASE m.tag = "run-app" /\ status = "registered" ->
            <<Effect("install-app-unit", m.name, Launch(s[m.name]), "install")>>
       [] m.tag = "retire-app" /\ status = "removing" ->
            <<Effect("remove-app-unit", m.name, None, "stop")>>
       [] m.tag = "restart-app" /\ status # "absent" ->
            <<Effect("restart-app-unit", m.name, None, "restart")>>
       [] OTHER -> <<>>

-----------------------------------------------------------------------------
Init ==
  /\ apps = [n \in {} |-> None]
  /\ inbox = <<>> /\ effects = <<>> /\ started = {} /\ unsent = {} /\ chosen = {}
  /\ units = [n \in Names |-> [file |-> None, up |-> None]]
  /\ ordered = {} /\ overlap = FALSE
  /\ requests = 0 /\ crashes = 0 /\ faults = 0

budget == <<overlap, requests, crashes, faults>>

\* The loop's turn: pop, log, apply, start the effects, diff the sources.  A
\* cancelled source that has not emitted yet still does.
Reduce ==
  /\ inbox # <<>>
  /\ LET m == Head(inbox) IN
     /\ apps' = Update(apps, m)
     /\ effects' = effects \o Commands(apps, m)
     /\ ordered' = IF m.tag = "register-app"
                   THEN ordered \cup {[name |-> m.name, launch |-> Launch(m)]} ELSE ordered
  /\ inbox' = Tail(inbox)
  /\ started' = Desired(apps')
  /\ unsent' = unsent \cup {[source |-> i, cmd |-> apps'[i.name].cmd] :
                              i \in Desired(apps') \ started}
  /\ UNCHANGED <<chosen, units, budget>>

\* A source's Run: emit once and finish.
Fire(u) ==
  /\ u \in unsent
  /\ inbox' = Append(inbox, About(u.source.of, u.source.name))
  /\ unsent' = unsent \ {u}
  /\ UNCHANGED <<apps, effects, started, chosen, units, ordered, budget>>

-----------------------------------------------------------------------------
\* The control endpoint.  Agents of several tasks may call it at once.
Settled == inbox = <<>> /\ effects = <<>> /\ unsent = {} /\ chosen = {}
Asked == /\ requests < MaxRequests
         /\ requests' = requests + 1
         /\ overlap' = (overlap \/ ~Settled)

UsedPorts(s) == {s[n].port : n \in DOMAIN s}

\* FreePort: the lowest port no registered app claims, 0 when the band is full.
FreePort(s) ==
  LET free == Port \ UsedPorts(s)
  IN IF free = {} THEN 0 ELSE CHOOSE p \in free : \A q \in free : p <= q

\* add, first half: the port, read from the view outside the reducer: the app's
\* own on a re-add, else a free one.  A full band ends the request.
ChoosePort(n) ==
  LET port == IF n \in DOMAIN apps THEN apps[n].port ELSE FreePort(apps)
  IN /\ Asked /\ port # 0
     /\ chosen' = chosen \cup {Message("register-app", n, port, requests')}
     /\ UNCHANGED <<apps, inbox, effects, started, unsent, units, ordered, crashes, faults>>

\* add, second half: register-app is sent.
Register(m) ==
  /\ m \in chosen
  /\ inbox' = Append(inbox, m) /\ chosen' = chosen \ {m}
  /\ UNCHANGED <<apps, effects, started, unsent, units, ordered, budget>>

\* rm and restart.
Order(tag, n) ==
  /\ Asked
  /\ inbox' = Append(inbox, About(tag, n))
  /\ UNCHANGED <<apps, effects, started, unsent, chosen, units, ordered, crashes, faults>>

-----------------------------------------------------------------------------
\* The effects, one systemctl call a step.
At(i, pc) == i \in DOMAIN effects /\ effects[i].pc = pc
Moves(i, pc) == effects' = [effects EXCEPT ![i].pc = pc]
Ends(i) == effects' = RemoveAt(effects, i)
Reports(i, tag) == /\ inbox' = Append(inbox, About(tag, effects[i].name)) /\ Ends(i)
quiet == <<apps, started, unsent, chosen, ordered, budget>>

InstallReportsEarly(i) ==
  /\ At(i, "install")
  /\ units' = [units EXCEPT ![effects[i].name].file = Launch(effects[i])]
  /\ inbox' = Append(inbox, About("mark-app-running", effects[i].name))
  /\ Moves(i, "start")
  /\ UNCHANGED quiet

\* Runner.Install replaces the unit file; nothing starts or restarts.
Install(i) ==
  /\ At(i, "install")
  /\ units' = [units EXCEPT ![effects[i].name].file = Launch(effects[i])]
  /\ Moves(i, "start")
  /\ UNCHANGED <<inbox, quiet>>

\* Runner.Start, enable --now: leaves a running unit as it is; fails without a
\* unit file, and mark-app-running is then not emitted.
Start(i) ==
  LET u == units[effects[i].name] IN
  /\ At(i, "start")
  /\ IF u.file = None
     THEN Ends(i) /\ UNCHANGED <<units, inbox>>
     ELSE /\ units' = [units EXCEPT ![effects[i].name].up = IF @ = None THEN u.file ELSE @]
          /\ Reports(i, "mark-app-running")
  /\ UNCHANGED quiet

\* Runner.Stop, disable --now.
StopUnit(i) ==
  LET u == units[effects[i].name] IN
  /\ At(i, "stop")
  /\ IF u.file = None /\ MissingUnitFails
     THEN Ends(i) /\ UNCHANGED units
     ELSE /\ units' = [units EXCEPT ![effects[i].name].up = None]
          /\ Moves(i, "remove")
  /\ UNCHANGED <<inbox, quiet>>

RemoveReportsNothing(i) ==
  /\ At(i, "remove")
  /\ units' = [units EXCEPT ![effects[i].name] = [file |-> None, up |-> None]]
  /\ Ends(i)
  /\ UNCHANGED <<inbox, quiet>>

\* Runner.Remove: a best-effort stop, then the unit file goes.
RemoveUnit(i) ==
  /\ At(i, "remove")
  /\ units' = [units EXCEPT ![effects[i].name] = [file |-> None, up |-> None]]
  /\ Reports(i, "mark-app-removed")
  /\ UNCHANGED quiet

\* Runner.Restart: the process is the unit file's again; without one it fails
\* and nothing else happens.
RestartUnit(i) ==
  /\ At(i, "restart")
  /\ units' = [units EXCEPT ![effects[i].name].up = units[effects[i].name].file]
  /\ Ends(i)
  /\ UNCHANGED <<inbox, quiet>>

\* A systemctl call or a write fails: the error is recorded, the effect over.
EffectFails(i) ==
  /\ i \in DOMAIN effects /\ faults < MaxFaults
  /\ faults' = faults + 1
  /\ Ends(i)
  /\ UNCHANGED <<apps, inbox, started, unsent, chosen, units, ordered,
                 overlap, requests, crashes>>

EffectStep(i) ==
  Install(i) \/ Start(i) \/ StopUnit(i) \/ RemoveUnit(i) \/ RestartUnit(i)

-----------------------------------------------------------------------------
\* The process dies and Start replays: every declared source starts afresh.
Restart ==
  /\ crashes < MaxCrashes
  /\ crashes' = crashes + 1
  /\ inbox' = <<>> /\ effects' = <<>> /\ chosen' = {}
  /\ started' = Desired(apps)
  /\ unsent' = {[source |-> i, cmd |-> apps[i.name].cmd] : i \in Desired(apps)}
  /\ UNCHANGED <<apps, units, ordered, overlap, requests, faults>>

Next ==
  \/ Reduce
  \/ \E u \in unsent : Fire(u)
  \/ \E n \in Names : ChoosePort(n) \/ Order("unregister-app", n) \/ Order("restart-app", n)
  \/ \E m \in chosen : Register(m)
  \/ \E i \in DOMAIN effects : EffectStep(i) \/ EffectFails(i)
  \/ Restart

Spec == Init /\ [][Next]_vars

\* The reducer, a started source and an effect in flight are goroutines: Go
\* runs them.  Nobody is obliged to ask for anything, nothing to fail.
Fairness ==
  /\ WF_vars(Reduce)
  /\ WF_vars(\E u \in unsent : Fire(u))
  /\ WF_vars(\E i \in DOMAIN effects : EffectStep(i))
FairSpec == Spec /\ Fairness
-----------------------------------------------------------------------------
Launches == [port : Port, cmd : Version]
Sources == [of : {"run-app", "retire-app"}, name : Names]

TypeOK ==
  /\ DOMAIN apps \subseteq Names
  /\ \A n \in DOMAIN apps : /\ Launch(apps[n]) \in Launches
                            /\ apps[n].status \in {"registered", "running", "removing"}
  /\ started \subseteq Sources
  /\ unsent \subseteq [source : Sources, cmd : Version]
  /\ units \in [Names -> [file : Launches \cup {None}, up : Launches \cup {None}]]

\* The registry and the machine agree (decision-021, feature-apps.md).  At any time
\* the machine has only been told what the log holds: no unit carries a port or
\* command not registered for it.  As long as requests waited for one another, since
\* effects of one app are unordered (see UnitsOwned) and the control endpoint reads
\* the free port before it sends (web/server.go), an app has its port to itself,
\* through removals, re-adds and a band that fills up; and between requests an app
\* that is not registered has no unit, and one that is running has the unit file of
\* its registration and a process, wherever the process of kasi died.
UnitMatches ==
  /\ \A n \in Names :
       units[n].file # None => [name |-> n, launch |-> units[n].file] \in ordered
  /\ ~overlap => \A m, n \in DOMAIN apps : apps[m].port = apps[n].port => m = n
  /\ Settled /\ ~overlap =>
       \A n \in Names :
         /\ n \notin DOMAIN apps => units[n] = [file |-> None, up |-> None]
         /\ n \in DOMAIN apps /\ apps[n].status = "running" =>
              units[n].file = Launch(apps[n]) /\ units[n].up # None

\* Status leaves removing only when mark-app-removed records the teardown, or
\* when the app is registered anew (subscription_apps_reconcile.go): no
\* acknowledgement revives an app that the owner has removed.
RemovalSticks ==
  [][\A n \in DOMAIN apps :
       apps[n].status = "removing" /\ n \in DOMAIN apps' => apps'[n].status # "running"]_vars

\* An installation of an app is under way: its effect runs, or has reported.
Installing(n) ==
  \/ \E i \in DOMAIN effects :
       effects[i].name = n /\ effects[i].pc \in {"install", "start"}
  \/ \E k \in DOMAIN inbox : inbox[k].name = n /\ inbox[k].tag = "mark-app-running"

\* What holds of a removal (message_run_app.go): nothing begins to install an app
\* that is being removed, though a run-app of before may still be on the channel or
\* a cancelled source emit one.  Once no installation of the app is under way none
\* revives it: it stays removing until it is gone or registered anew.
RemovalStands ==
  [][\A n \in DOMAIN apps :
       apps[n].status = "removing" /\ ~Installing(n)
         => \/ n \notin DOMAIN apps'
            \/ apps'[n].status = "registered"
            \/ apps'[n].status = "removing" /\ ~Installing(n)']_vars

\* The app has the port to itself (feature-apps.md), on a band with room for all.
OwnPort ==
  \A m, n \in DOMAIN apps : apps[m].port = apps[n].port => m = n

\* Reconciliation gets there: unless an effect fails by itself, an app does not
\* stay registered or removing, across crashes and overlapping requests.
Reconciled ==
  \A n \in Names : \A status \in {"registered", "removing"} :
    (n \in DOMAIN apps /\ apps[n].status = status)
      ~> (~(n \in DOMAIN apps /\ apps[n].status = status) \/ faults > 0)

\* mark-app-removed drops the entry once the unit is actually gone
\* (message_unregister_app.go): an app that is not registered has no unit.
UnitsOwned ==
  Settled => \A n \in Names \ DOMAIN apps : units[n] = [file |-> None, up |-> None]
=============================================================================
