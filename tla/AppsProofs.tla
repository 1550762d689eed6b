----------------------------- MODULE AppsProofs -----------------------------
(***************************************************************************)
(* What is proved about Apps for every set of names, every band of ports   *)
(* and any number of requests, deaths and failing effects: the registry    *)
(* and the machine agree as long as requests wait for one another.         *)
(***************************************************************************)
EXTENDS Apps, SequenceLemmas

(***************************************************************************)
(* Types.                                                                  *)
(***************************************************************************)
Statuses == {"registered", "running", "removing"}
AppType == [port : Port, cmd : Version, status : Statuses]
Tags == {"register-app", "unregister-app", "run-app", "retire-app", "restart-app",
         "mark-app-running", "mark-app-removed"}
MessageType ==
  {m \in [tag : Tags, name : Names, port : Port \cup {0}, cmd : Version \cup {0}] :
     m.tag = "register-app" => m.port \in Port /\ m.cmd \in Version}
EffectType ==
  {e \in [kind : {"install-app-unit", "remove-app-unit", "restart-app-unit"}, name : Names, port : Port \cup {0}, cmd : Version \cup {0},
          pc : {"install", "start", "stop", "remove", "restart"}] :
     e.pc = "install" => e.port \in Port /\ e.cmd \in Version}
UnitType == [file : Launches \cup {None}, up : Launches \cup {None}]

Types ==
  /\ DOMAIN apps \subseteq Names /\ apps \in [DOMAIN apps -> AppType]
  /\ inbox \in Seq(MessageType) /\ effects \in Seq(EffectType)
  /\ chosen \subseteq {m \in MessageType : m.tag = "register-app"}
  /\ started = Desired(apps)
  /\ unsent \subseteq [source : Sources, cmd : Version]
  /\ units \in [Names -> UnitType]
  /\ requests \in 0..MaxRequests

\* The messages and effects the actions make have their type.
LEMMA MessagesTyped ==
  ASSUME NEW n \in Names
  PROVE  /\ \A tag \in Tags \ {"register-app"} :
              /\ About(tag, n) \in MessageType
              /\ About(tag, n).tag = tag /\ About(tag, n).name = n
         /\ \A p \in Port, c \in Version :
              /\ Message("register-app", n, p, c) \in MessageType
              /\ Message("register-app", n, p, c).tag = "register-app"
              /\ Message("register-app", n, p, c).name = n
              /\ Message("register-app", n, p, c).port = p
              /\ Message("register-app", n, p, c).cmd = c
<1>1. \A tag \in Tags \ {"register-app"} : About(tag, n) = [tag |-> tag, name |-> n, port |-> 0, cmd |-> 0]
  BY DEF About, Message
<1>2. \A p, c : Message("register-app", n, p, c) = [tag |-> "register-app", name |-> n, port |-> p, cmd |-> c]
  BY DEF Message
<1>3. "register-app" \in Tags
  BY DEF Tags
<1>4. QED
  BY <1>1, <1>2, <1>3 DEF MessageType

\* The apps whose unit does not match their status, a source for each.
LEMMA DesiredFacts ==
  ASSUME NEW s
  PROVE  \A i : i \in Desired(s) <=>
           \E n \in DOMAIN s : \/ s[n].status = "registered" /\ i = [of |-> "run-app", name |-> n]
                               \/ s[n].status = "removing" /\ i = [of |-> "retire-app", name |-> n]
BY DEF Desired

\* What a handler makes of the registry: one app at most changes.
Registered(u, m) ==
  /\ DOMAIN u \subseteq Names /\ u \in [DOMAIN u -> AppType]
  /\ \A n \in Names : n # m.name =>
       (n \in DOMAIN u <=> n \in DOMAIN apps) /\ (n \in DOMAIN apps => u[n] = apps[n])
  /\ m.tag = "register-app" =>
       /\ m.name \in DOMAIN u
       /\ u[m.name] = [port |-> m.port, cmd |-> m.cmd, status |-> "registered"]
  /\ m.tag # "register-app" /\ m.name \in DOMAIN u =>
       /\ m.name \in DOMAIN apps
       /\ u[m.name] = [apps[m.name] EXCEPT !.status =
                         IF m.tag = "unregister-app" THEN "removing"
                         ELSE IF m.tag = "mark-app-running" THEN "running" ELSE @]
  /\ m.name \in DOMAIN apps /\ m.name \notin DOMAIN u => m.tag = "mark-app-removed"
  /\ m.tag = "mark-app-removed" => m.name \notin DOMAIN u

\* What the update half of every message does to the registry.
LEMMA UpdateFacts ==
  ASSUME Types, NEW m \in MessageType
  PROVE  Registered(Update(apps, m), m)
<1>1. m.name \in Names /\ m.tag \in Tags
  BY DEF MessageType
<1>2. CASE m.tag = "register-app"
  <2>1. PICK a : a = [port |-> m.port, cmd |-> m.cmd, status |-> "registered"]
    OBVIOUS
  <2>2. a \in AppType
    BY <1>2, <2>1 DEF MessageType, AppType, Statuses
  <2>3. PICK u : u = [n \in DOMAIN apps \cup {m.name} |-> IF n = m.name THEN a ELSE apps[n]]
    OBVIOUS
  <2>4. Update(apps, m) = u
    BY <1>2, <2>1, <2>3 DEF Update, RegisterApp
  <2>5. QED
    BY <1>1, <1>2, <2>1, <2>2, <2>3, <2>4 DEF Types, Registered
<1>3. ASSUME NEW status \in Statuses, NEW u, u = SetStatus(apps, m.name, status)
      PROVE  /\ DOMAIN u = DOMAIN apps /\ u \in [DOMAIN u -> AppType]
             /\ \A n \in DOMAIN apps : n # m.name => u[n] = apps[n]
             /\ m.name \in DOMAIN apps => u[m.name] = [apps[m.name] EXCEPT !.status = status]
  <2>1. CASE m.name \in DOMAIN apps
    <3>1. u = [apps EXCEPT ![m.name].status = status]
      BY <1>3, <2>1 DEF SetStatus
    <3>2. apps[m.name] \in AppType
      BY <2>1 DEF Types
    <3>3. [apps[m.name] EXCEPT !.status = status] \in AppType
      BY <3>2 DEF AppType
    <3>4. QED
      BY <2>1, <3>1, <3>3 DEF Types
  <2>2. CASE m.name \notin DOMAIN apps
    BY <1>3, <2>2 DEF SetStatus, Types
  <2>3. QED
    BY <2>1, <2>2
<1>4. CASE m.tag = "unregister-app"
  <2>1. Update(apps, m) = SetStatus(apps, m.name, "removing") /\ "removing" \in Statuses
    BY <1>4 DEF Update, Statuses
  <2>2. QED
    BY <1>3, <1>4, <2>1 DEF Types, Registered
<1>5. CASE m.tag = "mark-app-running"
  <2>1. Update(apps, m) = SetStatus(apps, m.name, "running") /\ "running" \in Statuses
    BY <1>5 DEF Update, MarkAppRunning, Statuses
  <2>2. QED
    BY <1>3, <1>5, <2>1 DEF Types, Registered
<1>6. CASE m.tag = "mark-app-removed"
  <2>1. Update(apps, m) = [n \in DOMAIN apps \ {m.name} |-> apps[n]]
    BY <1>6 DEF Update, MarkAppRemoved
  <2>2. QED
    BY <1>6, <2>1 DEF Types, Registered
<1>7. CASE m.tag \notin {"register-app", "unregister-app", "mark-app-running", "mark-app-removed"}
  <2>1. Update(apps, m) = apps
    BY <1>7 DEF Update
  <2>2. m.name \in DOMAIN apps => apps[m.name] = [apps[m.name] EXCEPT !.status = @]
    BY DEF Types, AppType
  <2>3. QED
    BY <1>7, <2>1, <2>2 DEF Types, Registered
<1>8. QED
  BY <1>2, <1>4, <1>5, <1>6, <1>7

\* What run-app, retire-app and restart-app start: one effect of their app at most.
Starts(e, m) ==
  /\ e.name = m.name
  /\ \/ /\ m.tag = "run-app" /\ m.name \in DOMAIN apps /\ apps[m.name].status = "registered"
        /\ e = Effect("install-app-unit", m.name, Launch(apps[m.name]), "install")
     \/ /\ m.tag = "retire-app" /\ m.name \in DOMAIN apps /\ apps[m.name].status = "removing"
        /\ e = Effect("remove-app-unit", m.name, None, "stop")
     \/ /\ m.tag = "restart-app" /\ m.name \in DOMAIN apps
        /\ e = Effect("restart-app-unit", m.name, None, "restart")

\* The effect half of a message is one effect about the message's app, or none.
LEMMA CommandsFacts ==
  ASSUME Types, NEW m \in MessageType
  PROVE  Commands(apps, m) = <<>> \/ \E e \in EffectType : Starts(e, m) /\ Commands(apps, m) = <<e>>
<1>1. m.name \in Names
  BY DEF MessageType
<1>2. \A kind, launch, pc : /\ Effect(kind, m.name, launch, pc).name = m.name
                            /\ Effect(kind, m.name, launch, pc)
                                 = [kind |-> kind, name |-> m.name, port |-> launch.port,
                                    cmd |-> launch.cmd, pc |-> pc]
  BY DEF Effect
<1>3. m.name \in DOMAIN apps => apps[m.name] \in AppType
  BY DEF Types
<1>4. CASE m.tag = "run-app" /\ m.name \in DOMAIN apps /\ apps[m.name].status = "registered"
  <2>1. PICK e : e = Effect("install-app-unit", m.name, Launch(apps[m.name]), "install")
    OBVIOUS
  <2>2. Commands(apps, m) = <<e>>
    BY <1>4, <2>1 DEF Commands
  <2>3. e \in EffectType
    <3>1. PICK p \in Port, c \in Version : p = apps[m.name].port /\ c = apps[m.name].cmd
      BY <1>3, <1>4 DEF AppType
    <3>2. e = [kind |-> "install-app-unit", name |-> m.name, port |-> p, cmd |-> c, pc |-> "install"]
      BY <2>1, <3>1 DEF Effect, Launch
    <3>3. QED
      BY <1>1, <3>1, <3>2 DEF EffectType
  <2>4. QED
    BY <1>2, <1>4, <2>1, <2>2, <2>3 DEF Starts
<1>5. CASE m.tag = "retire-app" /\ m.name \in DOMAIN apps /\ apps[m.name].status = "removing"
  <2>1. PICK e : e = Effect("remove-app-unit", m.name, None, "stop")
    OBVIOUS
  <2>2. Commands(apps, m) = <<e>>
    BY <1>5, <2>1 DEF Commands
  <2>3. e \in EffectType
    <3>1. e = [kind |-> "remove-app-unit", name |-> m.name, port |-> 0, cmd |-> 0, pc |-> "stop"]
      BY <2>1 DEF Effect, None
    <3>2. QED
      BY <1>1, <3>1 DEF EffectType
  <2>4. QED
    BY <1>2, <1>5, <2>1, <2>2, <2>3 DEF Starts
<1>6. CASE m.tag = "restart-app" /\ m.name \in DOMAIN apps
  <2>1. PICK e : e = Effect("restart-app-unit", m.name, None, "restart")
    OBVIOUS
  <2>2. Commands(apps, m) = <<e>>
    <3>1. apps[m.name].status # "absent"
      BY <1>3, <1>6 DEF AppType, Statuses
    <3>2. QED
      BY <1>6, <2>1, <3>1 DEF Commands
  <2>3. e \in EffectType
    <3>1. e = [kind |-> "restart-app-unit", name |-> m.name, port |-> 0, cmd |-> 0, pc |-> "restart"]
      BY <2>1 DEF Effect, None
    <3>2. QED
      BY <1>1, <3>1 DEF EffectType
  <2>4. QED
    BY <1>2, <1>6, <2>1, <2>2, <2>3 DEF Starts
<1>7. CASE /\ ~(m.tag = "run-app" /\ m.name \in DOMAIN apps /\ apps[m.name].status = "registered")
           /\ ~(m.tag = "retire-app" /\ m.name \in DOMAIN apps /\ apps[m.name].status = "removing")
           /\ ~(m.tag = "restart-app" /\ m.name \in DOMAIN apps)
  BY <1>7 DEF Commands
<1>8. QED
  BY <1>4, <1>5, <1>6, <1>7

\* The loop's turn: one message gone, one effect more at most, and the sources
\* that the new registry asks for and the old one did not.
Turn(m, t, f, u, U) ==
  /\ inbox # <<>> /\ m \in MessageType /\ 1 \in DOMAIN inbox /\ m = inbox[1]
  /\ t \in Seq(MessageType) /\ Less(t, inbox, 1)
  /\ Registered(u, m)
  /\ f = effects \/ \E e \in EffectType : Starts(e, m) /\ f = Append(effects, e)
  /\ U = unsent \cup {[source |-> i, cmd |-> u[i.name].cmd] : i \in Desired(u) \ Desired(apps)}

\* A reduce turn takes the first message, updates the registry and queues its effect.
LEMMA ReduceFacts ==
  ASSUME Types, Reduce
  PROVE  /\ \E m : /\ Turn(m, inbox', effects', apps', unsent')
                   /\ ordered' = IF m.tag = "register-app"
                                 THEN ordered \cup {[name |-> m.name, launch |-> Launch(m)]}
                                 ELSE ordered
         /\ started' = Desired(apps')
         /\ UNCHANGED <<chosen, units, budget>>
<1>1. PICK m : m = Head(inbox)
  OBVIOUS
<1>2. /\ inbox # <<>> /\ inbox' = Tail(inbox) /\ apps' = Update(apps, m)
      /\ effects' = effects \o Commands(apps, m)
      /\ ordered' = IF m.tag = "register-app"
                    THEN ordered \cup {[name |-> m.name, launch |-> Launch(m)]} ELSE ordered
      /\ started' = Desired(apps')
      /\ unsent' = unsent \cup {[source |-> i, cmd |-> apps'[i.name].cmd] :
                                  i \in Desired(apps') \ Desired(apps)}
      /\ UNCHANGED <<chosen, units, budget>>
  BY <1>1 DEF Reduce, Types
<1>3. m \in MessageType /\ m = inbox[1] /\ 1 \in DOMAIN inbox
  <2>1. PICK S : S = MessageType
    OBVIOUS
  <2>2. inbox \in Seq(S)
    BY <2>1 DEF Types
  <2>3. QED
    BY <1>1, <1>2, <2>1, <2>2, HeadTail
<1>4. Tail(inbox) \in Seq(MessageType) /\ Less(Tail(inbox), inbox, 1)
  BY <1>2, TailLess DEF Types
<1>5. Registered(apps', m)
  BY <1>2, <1>3, UpdateFacts
<1>6. effects' = effects \/ \E e \in EffectType : Starts(e, m) /\ effects' = Append(effects, e)
  <2>1. PICK S : S = EffectType
    OBVIOUS
  <2>2. effects \in Seq(S)
    BY <2>1 DEF Types
  <2>3. effects \o <<>> = effects /\ \A e \in S : effects \o <<e>> = Append(effects, e)
    BY <2>2
  <2>4. QED
    BY <1>2, <1>3, <2>1, <2>3, CommandsFacts
<1>7. Turn(m, inbox', effects', apps', unsent')
  BY <1>2, <1>3, <1>4, <1>5, <1>6 DEF Turn
<1>8. QED
  BY <1>2, <1>7

\* A reduce turn keeps the types.
LEMMA TypesReduce ==
  ASSUME Types, Reduce
  PROVE  Types'
<1>1. PICK m : Turn(m, inbox', effects', apps', unsent')
  BY ReduceFacts
<1>2. started' = Desired(apps') /\ UNCHANGED <<chosen, units, budget>>
  BY ReduceFacts
<1>3. DOMAIN apps' \subseteq Names /\ apps' \in [DOMAIN apps' -> AppType] /\ inbox' \in Seq(MessageType)
  BY <1>1 DEF Turn, Registered
<1>4. effects' \in Seq(EffectType)
  <2>1. PICK S : S = EffectType
    OBVIOUS
  <2>2. effects \in Seq(S) /\ (effects' = effects \/ \E e \in S : effects' = Append(effects, e))
    BY <1>1, <2>1 DEF Turn, Types
  <2>3. \A e \in S : Append(effects, e) \in Seq(S)
    BY <2>2, AppendTyped
  <2>4. QED
    BY <2>1, <2>2, <2>3
<1>5. unsent' \subseteq [source : Sources, cmd : Version]
  <2>1. PICK u : u = apps'
    OBVIOUS
  <2>2. ASSUME NEW i \in Desired(u) PROVE [source |-> i, cmd |-> u[i.name].cmd] \in [source : Sources, cmd : Version]
    <3>1. PICK n \in DOMAIN u : i \in {[of |-> "run-app", name |-> n], [of |-> "retire-app", name |-> n]}
      BY <2>2, DesiredFacts
    <3>2. u[n] \in AppType /\ n \in Names /\ i.name = n
      BY <1>3, <2>1, <3>1
    <3>3. u[n].cmd \in Version
      BY <3>2 DEF AppType
    <3>4. i \in Sources
      BY <3>1, <3>2 DEF Sources
    <3>5. QED
      BY <3>2, <3>3, <3>4
  <2>3. QED
    BY <1>1, <2>1, <2>2 DEF Turn, Types
<1>6. QED
  BY <1>2, <1>3, <1>4, <1>5 DEF Types, budget

\* The free port is one of the band that no app has.
LEMMA FreePortFacts ==
  ASSUME NEW s, FreePort(s) # 0
  PROVE  FreePort(s) \in Port /\ FreePort(s) \notin UsedPorts(s)
<1>1. PICK free : free = Port \ UsedPorts(s)
  OBVIOUS
<1>2. free # {} /\ FreePort(s) = CHOOSE p \in free : \A q \in free : p <= q
  BY <1>1 DEF FreePort
<1>3. \E p \in free : \A q \in free : p <= q
  <2>1. PortMax \in Nat /\ free \in SUBSET (1..PortMax)
    BY <1>1, AppsAssumption DEF Port
  <2>2. Min(free) \in free /\ \A q \in free : Min(free) <= q
    BY <1>2, <2>1, MinProperties
  <2>3. QED
    BY <2>2
<1>4. FreePort(s) \in free
  BY <1>2, <1>3
<1>5. QED
  BY <1>1, <1>4

\* What a request sends: it is one more, and an overlap unless all was settled.
LEMMA ChooseFacts ==
  ASSUME Types, NEW n \in Names, ChoosePort(n)
  PROVE  /\ \E m \in MessageType :
              /\ m.tag = "register-app" /\ m.name = n
              /\ chosen' = chosen \cup {m}
              /\ IF n \in DOMAIN apps THEN m.port = apps[n].port ELSE m.port \notin UsedPorts(apps)
         /\ requests' \in 0..MaxRequests
         /\ UNCHANGED <<apps, inbox, effects, started, unsent, units, ordered>>
<1>1. PICK p : p = IF n \in DOMAIN apps THEN apps[n].port ELSE FreePort(apps)
  OBVIOUS
<1>2. /\ p # 0 /\ requests < MaxRequests /\ requests' = requests + 1
      /\ chosen' = chosen \cup {Message("register-app", n, p, requests')}
      /\ UNCHANGED <<apps, inbox, effects, started, unsent, units, ordered>>
  BY <1>1 DEF ChoosePort, Asked
<1>3. p \in Port
  <2>1. CASE n \in DOMAIN apps
    BY <1>1, <2>1 DEF Types, AppType
  <2>2. CASE n \notin DOMAIN apps
    BY <1>1, <1>2, <2>2, FreePortFacts
  <2>3. QED
    BY <2>1, <2>2
<1>4. requests' \in Version /\ requests' \in 0..MaxRequests
  BY <1>2, AppsAssumption DEF Types, Version
<1>5. n \notin DOMAIN apps => p \notin UsedPorts(apps)
  BY <1>1, <1>2, FreePortFacts
<1>6. PICK m : m = Message("register-app", n, p, requests')
  OBVIOUS
<1>7. m \in MessageType /\ m.tag = "register-app" /\ m.name = n /\ m.port = p
  BY <1>3, <1>4, <1>6, MessagesTyped
<1>8. QED
  BY <1>1, <1>2, <1>4, <1>5, <1>6, <1>7

\* A request to unregister or to restart only queues its message.
LEMMA OrderFacts ==
  ASSUME Types, NEW n \in Names, NEW tag \in {"unregister-app", "restart-app"}, Order(tag, n)
  PROVE  /\ \E m \in MessageType : m.tag = tag /\ m.name = n /\ inbox' = Append(inbox, m)
         /\ requests' \in 0..MaxRequests
         /\ UNCHANGED <<apps, chosen, effects, started, unsent, units, ordered>>
<1>1. /\ requests < MaxRequests /\ requests' = requests + 1 /\ inbox' = Append(inbox, About(tag, n))
      /\ UNCHANGED <<apps, chosen, effects, started, unsent, units, ordered>>
  BY DEF Order, Asked
<1>2. requests' \in 0..MaxRequests
  BY <1>1, AppsAssumption DEF Types
<1>3. About(tag, n) \in MessageType /\ About(tag, n).tag = tag /\ About(tag, n).name = n
  <2>1. tag \in Tags \ {"register-app"}
    BY DEF Tags
  <2>2. QED
    BY <2>1, MessagesTyped
<1>4. QED
  BY <1>1, <1>2, <1>3

\* What one systemctl call of the effect e, or a failing one, makes of its unit w.
Bare == [file |-> None, up |-> None]
Tells(tag, n, s) == \E m \in MessageType : m.tag = tag /\ m.name = n /\ s = Append(inbox, m)
Over(i) == RemoveAt(effects, i)
Acts(i, e, w, v, f, s) ==
  \/ /\ e.pc = "install" /\ v = [w EXCEPT !.file = Launch(e)]
     /\ f = [effects EXCEPT ![i].pc = "start"] /\ s = inbox
  \/ /\ e.pc = "start" /\ w.file # None /\ v = [w EXCEPT !.up = IF @ = None THEN w.file ELSE @]
     /\ f = Over(i) /\ Tells("mark-app-running", e.name, s)
  \/ /\ e.pc = "stop" /\ v = [w EXCEPT !.up = None]
     /\ f = [effects EXCEPT ![i].pc = "remove"] /\ s = inbox
  \/ e.pc = "remove" /\ v = Bare /\ f = Over(i) /\ Tells("mark-app-removed", e.name, s)
  \/ e.pc = "restart" /\ v = [w EXCEPT !.up = w.file] /\ f = Over(i) /\ s = inbox
  \/ v = w /\ f = Over(i) /\ s = inbox

\* A step of an effect changes the unit of its own app only.
LEMMA EffectFacts ==
  ASSUME Types, NEW i \in DOMAIN effects, EffectStep(i) \/ EffectFails(i)
  PROVE  /\ \E v \in UnitType :
              /\ Acts(i, effects[i], units[effects[i].name], v, effects', inbox')
              /\ units' = [units EXCEPT ![effects[i].name] = v]
         /\ UNCHANGED <<apps, started, unsent, chosen, ordered, overlap, requests>>
<1>1. PICK e, n, w : e = effects[i] /\ n = e.name /\ w = units[n]
  OBVIOUS
<1>2. e \in EffectType /\ n \in Names
  <2>1. e \in EffectType
    BY <1>1 DEF Types
  <2>2. QED
    BY <1>1, <2>1 DEF EffectType
<1>3. w \in UnitType /\ units = [units EXCEPT ![n] = w]
  BY <1>1, <1>2 DEF Types
<1>4. SUFFICES /\ \E v \in UnitType : Acts(i, e, w, v, effects', inbox') /\ units' = [units EXCEPT ![n] = v]
               /\ UNCHANGED <<apps, started, unsent, chosen, ordered, overlap, requests>>
  BY <1>1
<1>5. About("mark-app-running", n) \in MessageType /\ About("mark-app-removed", n) \in MessageType
      /\ About("mark-app-running", n).tag = "mark-app-running"
      /\ About("mark-app-removed", n).tag = "mark-app-removed"
      /\ About("mark-app-running", n).name = n /\ About("mark-app-removed", n).name = n
  <2>1. {"mark-app-running", "mark-app-removed"} \subseteq Tags \ {"register-app"}
    BY DEF Tags
  <2>2. QED
    BY <1>2, <2>1, MessagesTyped
<1>6. CASE Install(i)
  <2>1. PICK v : v = [w EXCEPT !.file = Launch(e)]
    OBVIOUS
  <2>2. v \in UnitType
    <3>1. e.pc = "install"
      BY <1>1, <1>6 DEF Install, At
    <3>2. Launch(e) \in Launches
      BY <1>2, <3>1 DEF EffectType, Launch, Launches
    <3>3. QED
      BY <1>3, <2>1, <3>2 DEF UnitType
  <2>3. units' = [units EXCEPT ![n] = v]
    BY <1>1, <1>2, <1>6, <2>1 DEF Install, Types
  <2>4. /\ e.pc = "install" /\ effects' = [effects EXCEPT ![i].pc = "start"] /\ inbox' = inbox
        /\ UNCHANGED <<apps, started, unsent, chosen, ordered, overlap, requests>>
    BY <1>1, <1>6 DEF Install, At, Moves, quiet, budget
  <2>5. QED
    BY <2>1, <2>2, <2>3, <2>4 DEF Acts
<1>7. CASE Start(i)
  <2>1. e.pc = "start" /\ UNCHANGED <<apps, started, unsent, chosen, ordered, overlap, requests>>
    BY <1>1, <1>7 DEF Start, At, quiet, budget
  <2>2. CASE w.file = None
    <3>1. effects' = Over(i) /\ units' = units /\ inbox' = inbox
      BY <1>1, <1>7, <2>2 DEF Start, Ends, Over
    <3>2. QED
      BY <1>3, <2>1, <3>1 DEF Acts
  <2>3. CASE w.file # None
    <3>1. PICK v : v = [w EXCEPT !.up = IF @ = None THEN w.file ELSE @]
      OBVIOUS
    <3>2. v \in UnitType
      BY <1>3, <3>1 DEF UnitType
    <3>3. units' = [units EXCEPT ![n] = v]
      BY <1>1, <1>2, <1>7, <2>3, <3>1 DEF Start, Types
    <3>4. inbox' = Append(inbox, About("mark-app-running", n)) /\ effects' = Over(i)
      BY <1>1, <1>7, <2>3 DEF Start, Reports, Ends, Over
    <3>5. Tells("mark-app-running", n, inbox')
      BY <1>5, <3>4 DEF Tells
    <3>6. QED
      BY <1>1, <2>1, <2>3, <3>1, <3>2, <3>3, <3>4, <3>5 DEF Acts
  <2>4. QED
    BY <2>2, <2>3
<1>8. CASE StopUnit(i)
  <2>1. e.pc = "stop" /\ inbox' = inbox
        /\ UNCHANGED <<apps, started, unsent, chosen, ordered, overlap, requests>>
    BY <1>1, <1>8 DEF StopUnit, At, quiet, budget
  <2>2. CASE w.file = None /\ MissingUnitFails
    <3>1. effects' = Over(i) /\ units' = units
      BY <1>1, <1>8, <2>2 DEF StopUnit, Ends, Over
    <3>2. QED
      BY <1>3, <2>1, <3>1 DEF Acts
  <2>3. CASE ~(w.file = None /\ MissingUnitFails)
    <3>1. PICK v : v = [w EXCEPT !.up = None]
      OBVIOUS
    <3>2. v \in UnitType
      BY <1>3, <3>1 DEF UnitType
    <3>3. units' = [units EXCEPT ![n] = v] /\ effects' = [effects EXCEPT ![i].pc = "remove"]
      BY <1>1, <1>2, <1>8, <2>3, <3>1 DEF StopUnit, Moves, Types
    <3>4. QED
      BY <2>1, <3>1, <3>2, <3>3 DEF Acts
  <2>4. QED
    BY <2>2, <2>3
<1>9. CASE RemoveUnit(i)
  <2>1. /\ e.pc = "remove" /\ units' = [units EXCEPT ![n] = Bare]
        /\ inbox' = Append(inbox, About("mark-app-removed", n)) /\ effects' = Over(i)
        /\ UNCHANGED <<apps, started, unsent, chosen, ordered, overlap, requests>>
    BY <1>1, <1>9 DEF RemoveUnit, At, Reports, Ends, Over, quiet, budget, Bare
  <2>2. Bare \in UnitType
    BY DEF Bare, UnitType
  <2>3. Tells("mark-app-removed", n, inbox')
    BY <1>5, <2>1 DEF Tells
  <2>4. QED
    BY <1>1, <2>1, <2>2, <2>3 DEF Acts
<1>10. CASE RestartUnit(i)
  <2>1. PICK v : v = [w EXCEPT !.up = w.file]
    OBVIOUS
  <2>2. v \in UnitType
    BY <1>3, <2>1 DEF UnitType
  <2>3. units' = [units EXCEPT ![n] = v]
    BY <1>1, <1>2, <1>10, <2>1 DEF RestartUnit, Types
  <2>4. /\ e.pc = "restart" /\ inbox' = inbox /\ effects' = Over(i)
        /\ UNCHANGED <<apps, started, unsent, chosen, ordered, overlap, requests>>
    BY <1>1, <1>10 DEF RestartUnit, At, Ends, Over, quiet, budget
  <2>5. QED
    BY <2>1, <2>2, <2>3, <2>4 DEF Acts
<1>11. CASE EffectFails(i)
  <2>1. /\ inbox' = inbox /\ effects' = Over(i) /\ units' = units
        /\ UNCHANGED <<apps, started, unsent, chosen, ordered, overlap, requests>>
    BY <1>11 DEF EffectFails, Ends, Over
  <2>2. QED
    BY <1>3, <2>1 DEF Acts
<1>12. QED
  BY <1>6, <1>7, <1>8, <1>9, <1>10, <1>11 DEF EffectStep

\* One effect moves on, or is over; the others stay.
Moved(f, i, pc) ==
  /\ DOMAIN f = DOMAIN effects /\ f[i] = [effects[i] EXCEPT !.pc = pc]
  /\ \A j \in DOMAIN effects : j # i => f[j] = effects[j]

\* An effect that goes on to its next step stays where it is, about the same app.
LEMMA MovedFacts ==
  ASSUME Types, NEW i \in DOMAIN effects, NEW pc \in {"start", "remove"}, NEW f,
         f = [effects EXCEPT ![i].pc = pc]
  PROVE  Moved(f, i, pc) /\ f \in Seq(EffectType) /\ f[i].name = effects[i].name
<1>1. effects[i] \in EffectType
  BY DEF Types
<1>2. PICK x : x = [effects[i] EXCEPT !.pc = pc]
  OBVIOUS
<1>3. x \in EffectType /\ x.name = effects[i].name
  BY <1>1, <1>2 DEF EffectType
<1>4. f = [effects EXCEPT ![i] = x]
  BY <1>2
<1>5. PICK S : S = EffectType
  OBVIOUS
<1>6. effects \in Seq(S) /\ x \in S
  BY <1>3, <1>5 DEF Types
<1>7. /\ f \in Seq(S) /\ DOMAIN f = DOMAIN effects
      /\ \A j \in DOMAIN effects : f[j] = IF j = i THEN x ELSE effects[j]
  BY <1>4, <1>6, Replaced
<1>8. QED
  BY <1>2, <1>3, <1>5, <1>7 DEF Moved

\* An effect that ends leaves the others in their order.
LEMMA OverFacts ==
  ASSUME Types, NEW i \in DOMAIN effects
  PROVE  Over(i) \in Seq(EffectType) /\ Less(Over(i), effects, i)
BY RemoveAtLess DEF Types, Over

\* A step of an effect keeps the types.
LEMMA TypesEffect ==
  ASSUME Types, NEW i \in DOMAIN effects, EffectStep(i) \/ EffectFails(i)
  PROVE  Types'
<1>1. PICK v \in UnitType :
        /\ Acts(i, effects[i], units[effects[i].name], v, effects', inbox')
        /\ units' = [units EXCEPT ![effects[i].name] = v]
  BY EffectFacts
<1>2. UNCHANGED <<apps, started, unsent, chosen, ordered, overlap, requests>>
  BY EffectFacts
<1>3. effects[i].name \in Names
  <2>1. effects[i] \in EffectType
    BY DEF Types
  <2>2. QED
    BY <2>1 DEF EffectType
<1>4. units' \in [Names -> UnitType]
  BY <1>1, <1>3 DEF Types
<1>5. PICK f, s : f = effects' /\ s = inbox'
  OBVIOUS
<1>6. f \in Seq(EffectType)
  <2>1. \/ f = [effects EXCEPT ![i].pc = "start"] \/ f = [effects EXCEPT ![i].pc = "remove"]
        \/ f = Over(i)
    BY <1>1, <1>5 DEF Acts
  <2>2. QED
    BY <2>1, MovedFacts, OverFacts
<1>7. s \in Seq(MessageType)
  <2>1. s = inbox \/ \E m \in MessageType : s = Append(inbox, m)
    BY <1>1, <1>5 DEF Acts, Tells
  <2>2. PICK S : S = MessageType
    OBVIOUS
  <2>3. inbox \in Seq(S) /\ (s = inbox \/ \E m \in S : s = Append(inbox, m))
    BY <2>1, <2>2 DEF Types
  <2>4. QED
    BY <2>2, <2>3, AppendTyped
<1>8. QED
  BY <1>2, <1>4, <1>5, <1>6, <1>7 DEF Types

\* A source that fires queues the message of its own app.
LEMMA FireFacts ==
  ASSUME Types, NEW u \in unsent, Fire(u)
  PROVE  /\ Tells(u.source.of, u.source.name, inbox') /\ u.source \in Sources
         /\ unsent' = unsent \ {u}
         /\ UNCHANGED <<apps, effects, started, chosen, units, ordered, overlap, requests>>
<1>1. u.source \in Sources
  BY DEF Types
<1>2. u.source.of \in Tags \ {"register-app"} /\ u.source.name \in Names
  BY <1>1 DEF Sources, Tags
<1>3. PICK tag, n : tag = u.source.of /\ n = u.source.name
  OBVIOUS
<1>4. /\ inbox' = Append(inbox, About(tag, n)) /\ unsent' = unsent \ {u}
      /\ UNCHANGED <<apps, effects, started, chosen, units, ordered, overlap, requests>>
  BY <1>3 DEF Fire, budget
<1>5. About(tag, n) \in MessageType /\ About(tag, n).tag = tag /\ About(tag, n).name = n
  BY <1>2, <1>3, MessagesTyped
<1>6. QED
  BY <1>1, <1>3, <1>4, <1>5 DEF Tells

\* Registering with a chosen port queues that message and spends the choice.
LEMMA RegisterFacts ==
  ASSUME Types, NEW m \in chosen, Register(m)
  PROVE  /\ m \in MessageType /\ m.tag = "register-app"
         /\ inbox' = Append(inbox, m) /\ chosen' = chosen \ {m}
         /\ UNCHANGED <<apps, effects, started, unsent, units, ordered, overlap, requests>>
BY DEF Register, Types, budget

\* A restart forgets the queues and starts the sources of the stored registry again.
LEMMA RestartFacts ==
  ASSUME Types, Restart
  PROVE  /\ inbox' = <<>> /\ effects' = <<>> /\ chosen' = {} /\ started' = Desired(apps)
         /\ unsent' = {[source |-> i, cmd |-> apps[i.name].cmd] : i \in Desired(apps)}
         /\ unsent' \subseteq [source : Sources, cmd : Version]
         /\ UNCHANGED <<apps, units, ordered, overlap, requests>>
<1>1. \A i \in Desired(apps) : i \in Sources /\ apps[i.name].cmd \in Version
  <2>1. ASSUME NEW i \in Desired(apps) PROVE i \in Sources /\ apps[i.name].cmd \in Version
    <3>1. PICK n \in DOMAIN apps : i \in {[of |-> "run-app", name |-> n], [of |-> "retire-app", name |-> n]}
      BY <2>1, DesiredFacts
    <3>2. n \in Names /\ i.name = n /\ apps[n] \in AppType
      BY <3>1 DEF Types
    <3>3. QED
      BY <3>1, <3>2 DEF Sources, AppType
  <2>2. QED
    BY <2>1
<1>2. QED
  BY <1>1 DEF Restart

\* A message more has its type.
LEMMA TellTyped ==
  ASSUME Types, NEW s, NEW m \in MessageType, s = Append(inbox, m)
  PROVE  s \in Seq(MessageType)
BY AppendTyped DEF Types

\* The types hold at first.
LEMMA TypesInit ==
  ASSUME Init
  PROVE  Types
<1>1. apps = [n \in {} |-> None] /\ DOMAIN apps = {}
  BY DEF Init
<1>2. Desired(apps) = {}
  BY <1>1, DesiredFacts
<1>3. 0 \in 0..MaxRequests
  BY AppsAssumption
<1>4. <<>> \in Seq(MessageType) /\ <<>> \in Seq(EffectType)
  OBVIOUS
<1>5. apps \in [DOMAIN apps -> AppType]
  BY <1>1
<1>6. units \in [Names -> UnitType]
  BY DEF Init, UnitType
<1>7. QED
  BY <1>1, <1>2, <1>3, <1>4, <1>5, <1>6 DEF Init, Types

\* Every step keeps the types.
LEMMA TypesStep ==
  ASSUME Types, [Next]_vars
  PROVE  Types'
<1>1. CASE Reduce
  BY <1>1, TypesReduce
<1>2. ASSUME NEW u \in unsent, Fire(u) PROVE Types'
  <2>1. PICK s : s = inbox'
    OBVIOUS
  <2>2. s \in Seq(MessageType)
    BY <1>2, <2>1, FireFacts, TellTyped DEF Tells
  <2>3. QED
    BY <1>2, <2>1, <2>2, FireFacts DEF Types
<1>3. ASSUME NEW n \in Names, ChoosePort(n) PROVE Types'
  BY <1>3, ChooseFacts DEF Types
<1>4. ASSUME NEW n \in Names, NEW tag \in {"unregister-app", "restart-app"}, Order(tag, n) PROVE Types'
  <2>1. PICK s : s = inbox'
    OBVIOUS
  <2>2. s \in Seq(MessageType)
    BY <1>4, <2>1, OrderFacts, TellTyped
  <2>3. QED
    BY <1>4, <2>1, <2>2, OrderFacts DEF Types
<1>5. ASSUME NEW m \in chosen, Register(m) PROVE Types'
  <2>1. PICK s : s = inbox'
    OBVIOUS
  <2>2. s \in Seq(MessageType)
    BY <1>5, <2>1, RegisterFacts, TellTyped
  <2>3. QED
    BY <1>5, <2>1, <2>2, RegisterFacts DEF Types
<1>6. ASSUME NEW i \in DOMAIN effects, EffectStep(i) \/ EffectFails(i) PROVE Types'
  BY <1>6, TypesEffect
<1>7. CASE Restart
  <2>1. /\ inbox' = <<>> /\ effects' = <<>> /\ chosen' = {} /\ started' = Desired(apps)
        /\ unsent' \subseteq [source : Sources, cmd : Version]
        /\ apps' = apps /\ units' = units /\ requests' = requests
    BY <1>7, RestartFacts
  <2>2. <<>> \in Seq(MessageType) /\ <<>> \in Seq(EffectType)
    OBVIOUS
  <2>3. QED
    BY <2>1, <2>2 DEF Types
<1>8. CASE UNCHANGED vars
  BY <1>8 DEF Types, vars
<1>9. QED
  BY <1>1, <1>2, <1>3, <1>4, <1>5, <1>6, <1>7, <1>8 DEF Next

\* The registry, what is desired of the machine and the units are what they may be:
\* a registered app has a port of the band and the command of a request.
THEOREM TypeCorrect ==
  Spec => []TypeOK
<1>1. Types => TypeOK
  <2>1. ASSUME Types PROVE TypeOK
    <3>1. ASSUME NEW n \in DOMAIN apps
          PROVE  /\ Launch(apps[n]) \in Launches
                 /\ apps[n].status \in {"registered", "running", "removing"}
      <4>1. apps[n] \in AppType
        BY <2>1 DEF Types
      <4>2. QED
        BY <4>1 DEF AppType, Statuses, Launch, Launches
    <3>2. started \subseteq Sources
      <4>1. ASSUME NEW i \in Desired(apps) PROVE i \in Sources
        BY <2>1, DesiredFacts DEF Sources, Types
      <4>2. QED
        BY <2>1, <4>1 DEF Types
    <3>3. QED
      BY <2>1, <3>1, <3>2 DEF Types, TypeOK, UnitType
  <2>2. QED
    BY <2>1
<1>2. QED
  BY <1>1, TypesInit, TypesStep, PTL DEF Spec

-----------------------------------------------------------------------------
(***************************************************************************)
(* The machine is told what the log holds.                                 *)
(***************************************************************************)
\* Every app, every unit to be installed and every unit file is of a registration
\* in the log.
Entry(n, launch) == [name |-> n, launch |-> launch]
Told ==
  /\ \A n \in DOMAIN apps : Entry(n, Launch(apps[n])) \in ordered
  /\ \A i \in DOMAIN effects : effects[i].pc = "install" =>
       Entry(effects[i].name, Launch(effects[i])) \in ordered
  /\ \A n \in Names : units[n].file # None => Entry(n, units[n].file) \in ordered

\* A reduce turn installs only what some registration in the log asked for.
LEMMA ToldReduce ==
  ASSUME Types, Told, Reduce
  PROVE  Told'
<1>1. PICK m : /\ Turn(m, inbox', effects', apps', unsent')
               /\ ordered' = IF m.tag = "register-app"
                             THEN ordered \cup {[name |-> m.name, launch |-> Launch(m)]} ELSE ordered
  BY ReduceFacts
<1>2. units' = units
  BY ReduceFacts
<1>3. PICK u, f, o : u = apps' /\ f = effects' /\ o = ordered'
  OBVIOUS
<1>4. ordered \subseteq o
  BY <1>1, <1>3
<1>5. m \in MessageType /\ m.name \in Names /\ Registered(u, m)
  BY <1>1, <1>3 DEF Turn, MessageType
<1>6. \A n \in DOMAIN apps : apps[n] \in AppType
  BY DEF Types
<1>7. ASSUME NEW n \in DOMAIN u PROVE Entry(n, Launch(u[n])) \in o
  <2>1. n \in Names
    BY <1>5, <1>7 DEF Registered
  <2>2. CASE n # m.name
    BY <1>4, <1>5, <1>7, <2>1, <2>2 DEF Registered, Told
  <2>3. CASE n = m.name /\ m.tag = "register-app"
    <3>1. u[n].port = m.port /\ u[n].cmd = m.cmd
      BY <1>5, <2>3 DEF Registered
    <3>2. QED
      BY <1>1, <1>3, <2>3, <3>1 DEF Entry, Launch
  <2>4. CASE n = m.name /\ m.tag # "register-app"
    <3>1. n \in DOMAIN apps /\ \E status : u[n] = [apps[n] EXCEPT !.status = status]
      BY <1>5, <1>7, <2>4 DEF Registered
    <3>2. u[n].port = apps[n].port /\ u[n].cmd = apps[n].cmd
      BY <1>6, <3>1 DEF AppType
    <3>3. Launch(u[n]) = Launch(apps[n])
      BY <3>2 DEF Launch
    <3>4. QED
      BY <1>4, <3>1, <3>3 DEF Told
  <2>5. QED
    BY <2>2, <2>3, <2>4
<1>8. ASSUME NEW j \in DOMAIN f, f[j].pc = "install" PROVE Entry(f[j].name, Launch(f[j])) \in o
  <2>1. CASE f = effects
    BY <1>4, <1>8, <2>1 DEF Told
  <2>2. ASSUME NEW e \in EffectType, Starts(e, m), f = Append(effects, e)
        PROVE  Entry(f[j].name, Launch(f[j])) \in o
    <3>1. f[j] = e \/ (j \in DOMAIN effects /\ f[j] = effects[j])
      <4>1. PICK S : S = EffectType
        OBVIOUS
      <4>2. effects \in Seq(S) /\ e \in S
        BY <2>2, <4>1 DEF Types
      <4>3. QED
        BY <1>8, <2>2, <4>2
    <3>2. CASE j \in DOMAIN effects /\ f[j] = effects[j]
      BY <1>4, <1>8, <3>2 DEF Told
    <3>3. CASE f[j] = e
      <4>1. /\ m.name \in DOMAIN apps
            /\ e = Effect("install-app-unit", m.name, Launch(apps[m.name]), "install")
        BY <1>8, <2>2, <3>3 DEF Starts, Effect
      <4>2. e.name = m.name /\ e.port = apps[m.name].port /\ e.cmd = apps[m.name].cmd
        BY <4>1 DEF Effect, Launch
      <4>3. Launch(e) = Launch(apps[m.name])
        BY <4>2 DEF Launch
      <4>4. QED
        BY <1>4, <3>3, <4>1, <4>2, <4>3 DEF Told
    <3>4. QED
      BY <3>1, <3>2, <3>3
  <2>3. QED
    BY <1>1, <1>3, <2>1, <2>2 DEF Turn
<1>9. QED
  BY <1>2, <1>3, <1>4, <1>7, <1>8 DEF Told

\* A step of an effect leaves every unit file that of a registration in the log.
LEMMA ToldEffect ==
  ASSUME Types, Told, NEW i \in DOMAIN effects, EffectStep(i) \/ EffectFails(i)
  PROVE  Told'
<1>1. PICK v \in UnitType :
        /\ Acts(i, effects[i], units[effects[i].name], v, effects', inbox')
        /\ units' = [units EXCEPT ![effects[i].name] = v]
  BY EffectFacts
<1>2. apps' = apps /\ ordered' = ordered
  BY EffectFacts
<1>3. PICK f, e, k, w : f = effects' /\ e = effects[i] /\ k = e.name /\ w = units[k]
  OBVIOUS
<1>4. e \in EffectType /\ k \in Names /\ w \in UnitType
  <2>1. e \in EffectType
    BY <1>3 DEF Types
  <2>2. QED
    BY <1>3, <2>1 DEF EffectType, Types
<1>5. \A j \in DOMAIN f : f[j].pc = "install" => \E l \in DOMAIN effects : f[j] = effects[l]
  <2>1. ASSUME NEW pc \in {"start", "remove"}, f = [effects EXCEPT ![i].pc = pc]
        PROVE  \A j \in DOMAIN f : f[j].pc = "install" => \E l \in DOMAIN effects : f[j] = effects[l]
    <3>1. Moved(f, i, pc)
      BY <2>1, MovedFacts
    <3>2. f[i].pc = pc
      BY <1>3, <1>4, <3>1 DEF Moved, EffectType
    <3>3. QED
      BY <3>1, <3>2 DEF Moved
  <2>2. ASSUME f = Over(i)
        PROVE  \A j \in DOMAIN f : \E l \in DOMAIN effects : f[j] = effects[l]
    BY <2>2, OverFacts DEF Less
  <2>3. \/ f = [effects EXCEPT ![i].pc = "start"] \/ f = [effects EXCEPT ![i].pc = "remove"]
        \/ f = Over(i)
    BY <1>1, <1>3 DEF Acts
  <2>4. QED
    BY <2>1, <2>2, <2>3
<1>6. v.file # None => Entry(k, v.file) \in ordered
  <2>1. w.file # None => Entry(k, w.file) \in ordered
    BY <1>3, <1>4 DEF Told
  <2>2. e.pc = "install" => Entry(k, Launch(e)) \in ordered
    BY <1>3 DEF Told
  <2>3. v.file = w.file \/ (e.pc = "install" /\ v.file = Launch(e)) \/ v.file = None
    BY <1>1, <1>3, <1>4 DEF Acts, UnitType, Bare
  <2>4. QED
    BY <2>1, <2>2, <2>3
<1>7. \A n \in Names : units'[n] = IF n = k THEN v ELSE units[n]
  BY <1>1, <1>3, <1>4 DEF Types
<1>8. QED
  BY <1>2, <1>3, <1>5, <1>6, <1>7 DEF Told

\* Every step tells the machine only what the log holds.
LEMMA ToldStep ==
  ASSUME Types, Told, [Next]_vars
  PROVE  Told'
<1>1. ASSUME apps' = apps, effects' = effects, units' = units, ordered' = ordered PROVE Told'
  BY <1>1 DEF Told
<1>2. CASE Restart
  BY <1>2, RestartFacts DEF Told
<1>3. CASE UNCHANGED vars
  BY <1>1, <1>3 DEF vars
<1>4. QED
  BY <1>1, <1>2, <1>3, ToldReduce, ToldEffect, FireFacts, ChooseFacts, OrderFacts, RegisterFacts DEF Next

-----------------------------------------------------------------------------
(***************************************************************************)
(* One thing at a time is under way for an app, as long as requests wait   *)
(* for one another.                                                        *)
(***************************************************************************)
\* What is under way for app n: a message, an effect, a source or a request.
In(n) == {m \in MessageType : m.name = n}
On(n) == {e \in EffectType : e.name = n}
Of(U, n) == {u \in U : u.source.name = n}
For(C, n) == {m \in C : m.name = n}
One(S) == \A x, y \in S : x = y
Alone(s, f, U, C, n) ==
  /\ Once(s, In(n)) /\ Once(f, On(n)) /\ One(Of(U, n)) /\ One(For(C, n))
  /\ Has(s, In(n)) => ~Has(f, On(n)) /\ Of(U, n) = {} /\ For(C, n) = {}
  /\ Has(f, On(n)) => Of(U, n) = {} /\ For(C, n) = {}
  /\ Of(U, n) # {} => For(C, n) = {}

\* It was caused by a status that is still the app's, and it leaves of the unit w
\* what the next of its chain goes on from: the unit file of the registration and a
\* process before mark-app-running, nothing before mark-app-removed.
Is(a, n, status) == n \in DOMAIN a /\ a[n].status = status
Meant(m, a, w) ==
  /\ m.tag = "run-app" => Is(a, m.name, "registered")
  /\ m.tag = "retire-app" => Is(a, m.name, "removing")
  /\ m.tag = "mark-app-running" =>
       Is(a, m.name, "registered") /\ w.file = Launch(a[m.name]) /\ w.up # None
  /\ m.tag = "mark-app-removed" => Is(a, m.name, "removing") /\ w = Bare
Doing(e, a, w) ==
  /\ e.pc = "install" => Is(a, e.name, "registered") /\ Launch(e) = Launch(a[e.name])
  /\ e.pc = "start" => Is(a, e.name, "registered") /\ w.file = Launch(a[e.name])
  /\ e.pc \in {"stop", "remove"} => Is(a, e.name, "removing")
  /\ e.pc = "restart" => e.name \in DOMAIN a
Wanted(u, a) ==
  Is(a, u.source.name, IF u.source.of = "run-app" THEN "registered" ELSE "removing")
Caused(s, f, U, a, w, n) ==
  /\ \A i \in DOMAIN s : s[i] \in In(n) => Meant(s[i], a, w)
  /\ \A i \in DOMAIN f : f[i] \in On(n) => Doing(f[i], a, w)
  /\ \A u \in Of(U, n) : Wanted(u, a)

\* The machine agrees with the registry about app n.
Agrees(a, w, n) ==
  /\ n \notin DOMAIN a => w = Bare
  /\ Is(a, n, "running") => w.file = Launch(a[n]) /\ w.up # None

InOrder(s, f, U, C, a, w, n) ==
  Alone(s, f, U, C, n) /\ Caused(s, f, U, a, w, n) /\ Agrees(a, w, n)
Ordered ==
  ~overlap => \A n \in Names : InOrder(inbox, effects, unsent, chosen, apps, units[n], n)

\* The elements of t in K are some of those of s.
Within(t, s, K) ==
  /\ Once(s, K) => Once(t, K)
  /\ \A j \in DOMAIN t : t[j] \in K => \E i \in DOMAIN s : t[j] = s[i]

\* Taking away, or adding what is about other apps, leaves an app's own entries in their
\* order.
LEMMA WithinFacts ==
  ASSUME NEW S, NEW s \in Seq(S), NEW K
  PROVE  /\ Within(s, s, K)
         /\ \A t, i : Less(t, s, i) => Within(t, s, K)
         /\ \A x \in S : x \notin K => Within(Append(s, x), s, K)
<1>1. Within(s, s, K)
  BY DEF Within
<1>2. ASSUME NEW t, NEW i, Less(t, s, i) PROVE Within(t, s, K)
  <2>1. Once(s, K) => Once(t, K)
    BY <1>2, LessHas
  <2>2. QED
    BY <1>2, <2>1 DEF Less, Within
<1>3. ASSUME NEW x \in S, x \notin K PROVE Within(Append(s, x), s, K)
  <2>1. Once(s, K) => Once(Append(s, x), K)
    BY <1>3, AppendHas
  <2>2. \A j \in DOMAIN Append(s, x) : Append(s, x)[j] = x \/ (j \in DOMAIN s /\ Append(s, x)[j] = s[j])
    OBVIOUS
  <2>3. QED
    BY <1>3, <2>1, <2>2 DEF Within
<1>4. QED
  BY <1>1, <1>2, <1>3

\* An effect of another app that goes on leaves this app's effects as they are.
LEMMA MovedWithin ==
  ASSUME Types, NEW i \in DOMAIN effects, NEW pc, NEW f, Moved(f, i, pc), f \in Seq(EffectType),
         f[i].name = effects[i].name, NEW n, n # effects[i].name
  PROVE  Within(f, effects, On(n))
<1>1. f[i] \notin On(n) /\ effects[i] \notin On(n)
  BY DEF On
<1>2. QED
  BY <1>1 DEF Moved, Within, Once

\* What happens to other apps leaves an app in order.
LEMMA Elsewhere ==
  ASSUME NEW s, NEW f, NEW U, NEW C, NEW a, NEW w, NEW n, InOrder(s, f, U, C, a, w, n),
         NEW t, NEW g, NEW V, NEW D, NEW b,
         Within(t, s, In(n)), Within(g, f, On(n)), Of(V, n) \subseteq Of(U, n),
         For(D, n) \subseteq For(C, n),
         n \in DOMAIN b <=> n \in DOMAIN a, n \in DOMAIN a => b[n] = a[n]
  PROVE  InOrder(t, g, V, D, b, w, n)
<1>1. (Has(t, In(n)) => Has(s, In(n))) /\ (Has(g, On(n)) => Has(f, On(n)))
  BY DEF Within, Has
<1>2. Alone(t, g, V, D, n)
  BY <1>1 DEF InOrder, Alone, Within, One
<1>3. \A status : Is(b, n, status) <=> Is(a, n, status)
  BY DEF Is
<1>4. Caused(t, g, V, b, w, n)
  <2>1. ASSUME NEW j \in DOMAIN t, t[j] \in In(n) PROVE Meant(t[j], b, w)
    <3>1. PICK m \in In(n) : m = t[j]
      BY <2>1
    <3>2. Meant(m, a, w) /\ m.name = n
      BY <2>1, <3>1 DEF Within, InOrder, Caused, In
    <3>3. QED
      BY <1>3, <3>1, <3>2 DEF Meant, Is
  <2>2. ASSUME NEW j \in DOMAIN g, g[j] \in On(n) PROVE Doing(g[j], b, w)
    <3>1. PICK e \in On(n) : e = g[j]
      BY <2>2
    <3>2. Doing(e, a, w) /\ e.name = n
      BY <2>2, <3>1 DEF Within, InOrder, Caused, On
    <3>3. QED
      BY <1>3, <3>1, <3>2 DEF Doing, Is
  <2>3. ASSUME NEW u \in Of(V, n) PROVE Wanted(u, b)
    <3>1. Wanted(u, a) /\ u.source.name = n
      BY <2>3 DEF InOrder, Caused, Of
    <3>2. QED
      BY <1>3, <3>1 DEF Wanted
  <2>4. QED
    BY <2>1, <2>2, <2>3 DEF Caused
<1>5. Agrees(b, w, n)
  BY <1>3 DEF InOrder, Agrees, Is
<1>6. QED
  BY <1>2, <1>4, <1>5 DEF InOrder

\* Nothing is under way for an app.
Quiet(s, f, U, C, n) ==
  ~Has(s, In(n)) /\ ~Has(f, On(n)) /\ Of(U, n) = {} /\ For(C, n) = {}

\* A message is the one thing under way, or an effect, a source, a request is.
LEMMA OneUnderWay ==
  ASSUME NEW s, NEW f, NEW U, NEW C, NEW n, Quiet(s, f, U, C, n)
  PROVE  /\ Alone(s, f, U, C, n)
         /\ \A t : Once(t, In(n)) => Alone(t, f, U, C, n)
         /\ \A g : Once(g, On(n)) => Alone(s, g, U, C, n)
         /\ \A V : One(Of(V, n)) => Alone(s, f, V, C, n)
         /\ \A D : One(For(D, n)) => Alone(s, f, U, D, n)
<1>1. Once(s, In(n)) /\ Once(f, On(n)) /\ One(Of(U, n)) /\ One(For(C, n))
  BY DEF Quiet, Has, Once, One
<1>2. QED
  BY <1>1 DEF Quiet, Alone

\* A source is new because a request for its app has just been applied.
LEMMA NewSources ==
  ASSUME Types, NEW m \in MessageType, NEW u, Registered(u, m), NEW i \in Desired(u) \ Desired(apps)
  PROVE  /\ m.tag \in {"register-app", "unregister-app"}
         /\ i = [of |-> IF u[m.name].status = "registered" THEN "run-app" ELSE "retire-app",
                 name |-> m.name]
         /\ Is(u, m.name, IF i.of = "run-app" THEN "registered" ELSE "removing")
<1>1. PICK n \in DOMAIN u : \/ u[n].status = "registered" /\ i = [of |-> "run-app", name |-> n]
                            \/ u[n].status = "removing" /\ i = [of |-> "retire-app", name |-> n]
  BY DesiredFacts
<1>2. n \in DOMAIN apps => apps[n] # u[n]
  BY <1>1, DesiredFacts
<1>3. n \in Names /\ m.tag \in Tags
  BY <1>1 DEF Registered, MessageType
<1>4. n = m.name
  BY <1>1, <1>2, <1>3 DEF Registered
<1>5. m.tag \in {"register-app", "unregister-app"}
  <2>1. SUFFICES ASSUME m.tag \notin {"register-app", "unregister-app"} PROVE FALSE
    OBVIOUS
  <2>2. /\ n \in DOMAIN apps
        /\ u[n] = [apps[n] EXCEPT !.status = IF m.tag = "mark-app-running" THEN "running" ELSE @]
    BY <1>1, <1>4, <2>1 DEF Registered
  <2>3. apps[n] \in AppType
    BY <2>2 DEF Types
  <2>4. CASE m.tag = "mark-app-running"
    <3>1. u[n].status = "running"
      BY <2>2, <2>3, <2>4 DEF AppType
    <3>2. QED
      BY <1>1, <3>1
  <2>5. CASE m.tag # "mark-app-running"
    <3>1. u[n] = apps[n]
      BY <2>2, <2>3, <2>5 DEF AppType
    <3>2. QED
      BY <1>2, <2>2, <3>1
  <2>6. QED
    BY <2>4, <2>5
<1>6. QED
  BY <1>1, <1>4, <1>5 DEF Is

\* A message about another app leaves an app in order.
LEMMA ReduceOther ==
  ASSUME Types, NEW m, NEW t, NEW f, NEW u, NEW U, Turn(m, t, f, u, U),
         NEW n \in Names, n # m.name, NEW w, InOrder(inbox, effects, unsent, chosen, apps, w, n)
  PROVE  InOrder(t, f, U, chosen, u, w, n)
<1>1. /\ inbox \in Seq(MessageType) /\ Less(t, inbox, 1) /\ m \in MessageType /\ Registered(u, m)
      /\ effects \in Seq(EffectType)
  BY DEF Turn, Types
<1>2. Within(t, inbox, In(n))
  <2>1. PICK S : S = MessageType
    OBVIOUS
  <2>2. inbox \in Seq(S)
    BY <1>1, <2>1
  <2>3. QED
    BY <1>1, <2>2, WithinFacts
<1>3. Within(f, effects, On(n))
  <2>1. PICK S : S = EffectType
    OBVIOUS
  <2>2. effects \in Seq(S)
    BY <1>1, <2>1
  <2>3. f = effects \/ \E e \in S : e \notin On(n) /\ f = Append(effects, e)
    BY <2>1 DEF Turn, Starts, On
  <2>4. QED
    BY <2>2, <2>3, WithinFacts
<1>4. Of(U, n) \subseteq Of(unsent, n)
  <2>1. SUFFICES ASSUME NEW x \in Of(U, n), x \notin unsent PROVE FALSE
    BY DEF Of
  <2>2. PICK i \in Desired(u) \ Desired(apps) : x = [source |-> i, cmd |-> u[i.name].cmd]
    BY <2>1 DEF Of, Turn
  <2>3. i.name = n
    BY <2>1, <2>2 DEF Of
  <2>4. i.name = m.name
    BY <1>1, <2>2, NewSources
  <2>5. QED
    BY <2>3, <2>4
<1>5. For(chosen, n) \subseteq For(chosen, n)
  OBVIOUS
<1>6. (n \in DOMAIN u <=> n \in DOMAIN apps) /\ (n \in DOMAIN apps => u[n] = apps[n])
  BY <1>1 DEF Registered
<1>7. QED
  BY <1>2, <1>3, <1>4, <1>5, <1>6, Elsewhere

\* So does one about the app itself, which was the one thing under way for it.
LEMMA ReduceOwn ==
  ASSUME Types, NEW m, NEW t, NEW f, NEW u, NEW U, Turn(m, t, f, u, U),
         NEW k, k = m.name, NEW w, InOrder(inbox, effects, unsent, chosen, apps, w, k)
  PROVE  InOrder(t, f, U, chosen, u, w, k)
<1>1. /\ Less(t, inbox, 1) /\ m \in MessageType /\ Registered(u, m) /\ k \in Names
      /\ 1 \in DOMAIN inbox /\ m = inbox[1] /\ m.tag \in Tags
  BY DEF Turn, MessageType
<1>2. m \in In(k) /\ Has(inbox, In(k))
  BY <1>1 DEF In, Has
<1>3. Quiet(t, effects, unsent, chosen, k)
  <2>1. ~Has(effects, On(k)) /\ Of(unsent, k) = {} /\ For(chosen, k) = {}
    BY <1>2 DEF InOrder, Alone
  <2>2. Once(inbox, In(k))
    BY DEF InOrder, Alone
  <2>3. ~Has(t, In(k))
    BY <1>1, <1>2, <2>2, LessHas
  <2>4. QED
    BY <2>1, <2>3 DEF Quiet
<1>4. Meant(m, apps, w) /\ Agrees(apps, w, k)
  BY <1>1, <1>2 DEF InOrder, Caused
<1>5. \A j \in DOMAIN t : t[j] \notin In(k)
  BY <1>3 DEF Quiet, Has
<1>6. k \in DOMAIN apps => apps[k] \in AppType
  BY DEF Types
<1>7. k \in DOMAIN u => u[k] \in AppType
  BY <1>1 DEF Registered
<1>8. CASE m.tag \in {"register-app", "unregister-app"}
  <2>1. f = effects
    BY <1>8 DEF Turn, Starts
  <2>2. ASSUME NEW x \in Of(U, k)
        PROVE  /\ x.source.of = IF u[k].status = "registered" THEN "run-app" ELSE "retire-app"
               /\ x = [source |-> [of |-> IF u[k].status = "registered" THEN "run-app" ELSE "retire-app",
                                   name |-> k], cmd |-> u[k].cmd]
               /\ Wanted(x, u)
    <3>1. x \notin unsent
      BY <1>3, <2>2 DEF Quiet, Of
    <3>2. PICK i \in Desired(u) \ Desired(apps) : x = [source |-> i, cmd |-> u[i.name].cmd]
      BY <2>2, <3>1 DEF Of, Turn
    <3>3. /\ i = [of |-> IF u[k].status = "registered" THEN "run-app" ELSE "retire-app", name |-> k]
          /\ Is(u, k, IF i.of = "run-app" THEN "registered" ELSE "removing")
      BY <1>1, <3>2, NewSources
    <3>4. QED
      BY <3>2, <3>3 DEF Wanted
  <2>3. One(Of(U, k))
    BY <2>2 DEF One
  <2>4. Alone(t, f, U, chosen, k)
    BY <1>3, <2>1, <2>3, OneUnderWay
  <2>5. Caused(t, f, U, u, w, k)
    BY <1>3, <1>5, <2>1, <2>2 DEF Caused, Quiet, Has
  <2>6. Agrees(u, w, k)
    <3>1. CASE m.tag = "register-app"
      BY <1>1, <3>1 DEF Registered, Agrees, Is
    <3>2. CASE m.tag = "unregister-app"
      <4>1. k \in DOMAIN u => u[k].status = "removing"
        BY <1>1, <1>6, <3>2 DEF Registered, AppType
      <4>2. k \notin DOMAIN u => k \notin DOMAIN apps
        BY <1>1, <3>2 DEF Registered
      <4>3. QED
        BY <1>4, <4>1, <4>2 DEF Agrees, Is
    <3>3. QED
      BY <1>8, <3>1, <3>2
  <2>7. QED
    BY <2>4, <2>5, <2>6 DEF InOrder
<1>9. CASE m.tag \notin {"register-app", "unregister-app"}
  <2>1. Of(U, k) = {}
    <3>1. Of(unsent, k) = {} /\ Desired(u) \ Desired(apps) = {}
      BY <1>1, <1>3, <1>9, NewSources DEF Quiet
    <3>2. U = unsent
      BY <3>1 DEF Turn
    <3>3. QED
      BY <3>1, <3>2
  <2>2. /\ k \in DOMAIN u => k \in DOMAIN apps
        /\ k \in DOMAIN u /\ m.tag # "mark-app-running" => u[k] = apps[k]
        /\ k \in DOMAIN u => Launch(u[k]) = Launch(apps[k])
        /\ m.tag # "mark-app-removed" /\ k \in DOMAIN apps => k \in DOMAIN u
    BY <1>1, <1>6, <1>9 DEF Registered, AppType, Launch
  <2>3. f = effects \/ \E e \in EffectType : e \in On(k) /\ f = Append(effects, e) /\ Doing(e, u, w)
    <3>1. ASSUME NEW e \in EffectType, Starts(e, m) PROVE e \in On(k) /\ Doing(e, u, w)
      <4>1. e.name = k
        BY <3>1 DEF Starts
      <4>2. /\ m.tag \in {"run-app", "retire-app", "restart-app"} /\ k \in DOMAIN apps
            /\ \/ /\ e.pc = "install" /\ apps[k].status = "registered"
                  /\ Launch(e) = Launch(apps[k])
               \/ e.pc = "stop" /\ apps[k].status = "removing"
               \/ e.pc = "restart"
        BY <3>1 DEF Starts, Effect, Launch
      <4>3. k \in DOMAIN u /\ u[k] = apps[k]
        BY <2>2, <4>2
      <4>4. QED
        BY <4>1, <4>2, <4>3 DEF On, Doing, Is
    <3>2. QED
      BY <3>1 DEF Turn
  <2>4. /\ Once(f, On(k))
        /\ \A i \in DOMAIN f : f[i] \in On(k) => Doing(f[i], u, w)
    <3>1. PICK S : S = EffectType
      OBVIOUS
    <3>2. effects \in Seq(S)
      BY <3>1 DEF Types
    <3>3. ~Has(effects, On(k))
      BY <1>3 DEF Quiet
    <3>4. CASE f = effects
      BY <3>3, <3>4 DEF Has, Once
    <3>5. ASSUME NEW e \in S, f = Append(effects, e), Doing(e, u, w)
          PROVE  Once(f, On(k)) /\ \A i \in DOMAIN f : f[i] \in On(k) => Doing(f[i], u, w)
      <4>1. Once(effects, On(k))
        BY <3>3 DEF Has, Once
      <4>2. Once(f, On(k))
        BY <3>2, <3>3, <3>5, <4>1, AppendHas
      <4>3. \A i \in DOMAIN f : f[i] = e \/ (i \in DOMAIN effects /\ f[i] = effects[i])
        BY <3>2, <3>5
      <4>4. QED
        BY <3>3, <3>5, <4>2, <4>3 DEF Has
    <3>6. QED
      BY <2>3, <3>1, <3>4, <3>5
  <2>5. Alone(t, f, U, chosen, k)
    <3>1. Quiet(t, effects, U, chosen, k)
      BY <1>3, <2>1 DEF Quiet
    <3>2. QED
      BY <2>4, <3>1, OneUnderWay
  <2>6. Caused(t, f, U, u, w, k)
    BY <1>5, <2>1, <2>4 DEF Caused
  <2>7. Agrees(u, w, k)
    <3>1. CASE m.tag = "mark-app-running"
      <4>1. Is(apps, k, "registered") /\ w.file = Launch(apps[k]) /\ w.up # None
        BY <1>4, <3>1 DEF Meant
      <4>2. QED
        BY <2>2, <3>1, <4>1 DEF Agrees, Is
    <3>2. CASE m.tag = "mark-app-removed"
      <4>1. w = Bare /\ k \notin DOMAIN u
        BY <1>1, <1>4, <3>2 DEF Meant, Registered
      <4>2. QED
        BY <4>1 DEF Agrees, Is
    <3>3. CASE m.tag \notin {"mark-app-running", "mark-app-removed"}
      BY <1>4, <2>2, <3>3 DEF Agrees, Is
    <3>4. QED
      BY <3>1, <3>2, <3>3
  <2>8. QED
    BY <2>5, <2>6, <2>7 DEF InOrder
<1>10. QED
  BY <1>8, <1>9

\* An effect of another app leaves an app in order.
LEMMA EffectOther ==
  ASSUME Types, NEW i \in DOMAIN effects, NEW e, e = effects[i], NEW x, NEW v, NEW f, NEW s,
         Acts(i, e, x, v, f, s),
         NEW n \in Names, n # e.name, NEW w, InOrder(inbox, effects, unsent, chosen, apps, w, n)
  PROVE  InOrder(s, f, unsent, chosen, apps, w, n)
<1>1. Within(s, inbox, In(n))
  <2>1. PICK S : S = MessageType
    OBVIOUS
  <2>2. inbox \in Seq(S)
    BY <2>1 DEF Types
  <2>3. s = inbox \/ \E m \in S : m \notin In(n) /\ s = Append(inbox, m)
    BY <2>1 DEF Acts, Tells, In
  <2>4. QED
    BY <2>2, <2>3, WithinFacts
<1>2. Within(f, effects, On(n))
  <2>1. PICK S : S = EffectType
    OBVIOUS
  <2>2. effects \in Seq(S)
    BY <2>1 DEF Types
  <2>3. ASSUME NEW pc \in {"start", "remove"}, f = [effects EXCEPT ![i].pc = pc]
        PROVE  Within(f, effects, On(n))
    BY <2>3, MovedFacts, MovedWithin
  <2>4. CASE f = Over(i)
    BY <2>2, <2>4, OverFacts, WithinFacts
  <2>5. QED
    BY <2>3, <2>4 DEF Acts
<1>3. QED
  BY <1>1, <1>2, Elsewhere

\* So does one of its own, the one thing under way for it.
LEMMA EffectOwn ==
  ASSUME Types, NEW i \in DOMAIN effects, NEW e, e = effects[i], NEW k, k = e.name,
         NEW w \in UnitType, NEW v, NEW f, NEW s,
         Acts(i, e, w, v, f, s), InOrder(inbox, effects, unsent, chosen, apps, w, k)
  PROVE  InOrder(s, f, unsent, chosen, apps, v, k)
<1>1. e \in EffectType /\ e \in On(k) /\ Has(effects, On(k))
  <2>1. e \in EffectType
    BY DEF Types
  <2>2. QED
    BY <2>1 DEF On, Has
<1>2. /\ ~Has(inbox, In(k)) /\ Of(unsent, k) = {} /\ For(chosen, k) = {}
      /\ Once(effects, On(k)) /\ Doing(e, apps, w) /\ Agrees(apps, w, k)
  BY <1>1 DEF InOrder, Alone, Caused
<1>3. k \in DOMAIN apps => Launch(apps[k]) # None
  <2>1. ASSUME k \in DOMAIN apps PROVE Launch(apps[k]) # None
    <3>1. apps[k] \in AppType /\ 0 \notin Port
      BY <2>1, AppsAssumption DEF Types, Port
    <3>2. apps[k].port # 0
      BY <3>1 DEF AppType
    <3>3. QED
      BY <3>2 DEF Launch, None
  <2>2. QED
    BY <2>1
\* The effect moves on.
<1>4. ASSUME NEW pc \in {"start", "remove"}, f = [effects EXCEPT ![i].pc = pc], s = inbox,
             NEW y \in EffectType, y.pc = pc, y.name = k, y = [e EXCEPT !.pc = pc],
             Doing(y, apps, v), Agrees(apps, v, k)
      PROVE  InOrder(s, f, unsent, chosen, apps, v, k)
  <2>1. Moved(f, i, pc)
    BY <1>4, MovedFacts
  <2>2. f[i] = y
    BY <1>4, <2>1 DEF Moved
  <2>3. \A j \in DOMAIN effects : j # i => effects[j] \notin On(k)
    BY <1>1, <1>2 DEF Once
  <2>4. Once(f, On(k)) /\ \A j \in DOMAIN f : f[j] \in On(k) => f[j] = y
    BY <2>1, <2>2, <2>3 DEF Moved, Once
  <2>5. Alone(s, f, unsent, chosen, k)
    BY <1>2, <1>4, <2>4 DEF Alone, Has, Once, One
  <2>6. Caused(s, f, unsent, apps, v, k)
    BY <1>2, <1>4, <2>4 DEF Caused, Has
  <2>7. QED
    BY <1>4, <2>5, <2>6 DEF InOrder
\* The effect is over.
<1>5. ASSUME f = Over(i) PROVE ~Has(f, On(k))
  <2>1. Less(f, effects, i)
    BY <1>5, OverFacts
  <2>2. effects[i] \in On(k)
    BY <1>1
  <2>3. QED
    BY <1>2, <2>1, <2>2, LessHas
<1>6. ASSUME f = Over(i), s = inbox, Agrees(apps, v, k)
      PROVE  InOrder(s, f, unsent, chosen, apps, v, k)
  <2>1. Quiet(s, f, unsent, chosen, k)
    BY <1>2, <1>5, <1>6 DEF Quiet
  <2>2. Alone(s, f, unsent, chosen, k)
    BY <2>1, OneUnderWay
  <2>3. Caused(s, f, unsent, apps, v, k)
    BY <2>1 DEF Quiet, Caused, Has
  <2>4. QED
    BY <1>6, <2>2, <2>3 DEF InOrder
\* The effect is over and reports.
<1>7. ASSUME f = Over(i), NEW m \in MessageType, m.name = k, s = Append(inbox, m),
             Meant(m, apps, v), Agrees(apps, v, k)
      PROVE  InOrder(s, f, unsent, chosen, apps, v, k)
  <2>1. Quiet(inbox, f, unsent, chosen, k)
    BY <1>2, <1>5, <1>7 DEF Quiet
  <2>2. PICK S : S = MessageType
    OBVIOUS
  <2>3. inbox \in Seq(S) /\ m \in S
    BY <1>7, <2>2 DEF Types
  <2>4. Once(inbox, In(k))
    BY <1>2 DEF Has, Once
  <2>5. Once(s, In(k))
    BY <1>2, <1>7, <2>3, <2>4, AppendHas
  <2>6. \A j \in DOMAIN s : s[j] = m \/ (j \in DOMAIN inbox /\ s[j] = inbox[j])
    BY <1>7, <2>3
  <2>7. Alone(s, f, unsent, chosen, k)
    BY <2>1, <2>5, OneUnderWay
  <2>8. Caused(s, f, unsent, apps, v, k)
    BY <1>7, <2>1, <2>6 DEF Quiet, Caused, Has
  <2>9. QED
    BY <1>7, <2>7, <2>8 DEF InOrder
<1>8. CASE /\ e.pc = "install" /\ v = [w EXCEPT !.file = Launch(e)]
           /\ f = [effects EXCEPT ![i].pc = "start"] /\ s = inbox
  <2>1. Is(apps, k, "registered") /\ Launch(e) = Launch(apps[k])
    BY <1>2, <1>8 DEF Doing
  <2>2. v.file = Launch(apps[k])
    BY <1>8, <2>1 DEF UnitType
  <2>3. PICK y : y = [e EXCEPT !.pc = "start"]
    OBVIOUS
  <2>4. y \in EffectType /\ y.pc = "start" /\ y.name = k
    BY <1>1, <2>3 DEF EffectType
  <2>5. Doing(y, apps, v)
    BY <2>1, <2>2, <2>4 DEF Doing
  <2>6. Agrees(apps, v, k)
    BY <2>1 DEF Agrees, Is
  <2>7. QED
    BY <1>4, <1>8, <2>3, <2>4, <2>5, <2>6
<1>9. CASE /\ e.pc = "start" /\ w.file # None
           /\ v = [w EXCEPT !.up = IF @ = None THEN w.file ELSE @]
           /\ f = Over(i) /\ Tells("mark-app-running", e.name, s)
  <2>1. Is(apps, k, "registered") /\ w.file = Launch(apps[k])
    BY <1>2, <1>9 DEF Doing
  <2>2. v.file = w.file /\ v.up # None
    BY <1>9 DEF UnitType
  <2>3. PICK m \in MessageType : m.tag = "mark-app-running" /\ m.name = k /\ s = Append(inbox, m)
    BY <1>9 DEF Tells
  <2>4. Meant(m, apps, v)
    BY <2>1, <2>2, <2>3 DEF Meant
  <2>5. Agrees(apps, v, k)
    BY <2>1 DEF Agrees, Is
  <2>6. QED
    BY <1>7, <1>9, <2>3, <2>4, <2>5
<1>10. CASE /\ e.pc = "stop" /\ v = [w EXCEPT !.up = None]
            /\ f = [effects EXCEPT ![i].pc = "remove"] /\ s = inbox
  <2>1. Is(apps, k, "removing")
    BY <1>2, <1>10 DEF Doing
  <2>2. PICK y : y = [e EXCEPT !.pc = "remove"]
    OBVIOUS
  <2>3. y \in EffectType /\ y.pc = "remove" /\ y.name = k
    BY <1>1, <2>2 DEF EffectType
  <2>4. Doing(y, apps, v) /\ Agrees(apps, v, k)
    BY <2>1, <2>3 DEF Doing, Agrees, Is
  <2>5. QED
    BY <1>4, <1>10, <2>2, <2>3, <2>4
<1>11. CASE e.pc = "remove" /\ v = Bare /\ f = Over(i) /\ Tells("mark-app-removed", e.name, s)
  <2>1. Is(apps, k, "removing")
    BY <1>2, <1>11 DEF Doing
  <2>2. PICK m \in MessageType : m.tag = "mark-app-removed" /\ m.name = k /\ s = Append(inbox, m)
    BY <1>11 DEF Tells
  <2>3. Meant(m, apps, v) /\ Agrees(apps, v, k)
    BY <1>11, <2>1, <2>2 DEF Meant, Agrees, Is
  <2>4. QED
    BY <1>7, <1>11, <2>2, <2>3
<1>12. CASE e.pc = "restart" /\ v = [w EXCEPT !.up = w.file] /\ f = Over(i) /\ s = inbox
  <2>1. k \in DOMAIN apps
    BY <1>2, <1>12 DEF Doing
  <2>2. v.file = w.file /\ v.up = w.file
    BY <1>12 DEF UnitType
  <2>3. Agrees(apps, v, k)
    BY <1>2, <1>3, <2>1, <2>2 DEF Agrees, Is
  <2>4. QED
    BY <1>6, <1>12, <2>3
<1>13. CASE v = w /\ f = Over(i) /\ s = inbox
  BY <1>2, <1>6, <1>13
<1>14. QED
  BY <1>8, <1>9, <1>10, <1>11, <1>12, <1>13 DEF Acts

\* A message about app k, sent when it is all that is then under way for it.
LEMMA TellInOrder ==
  ASSUME Types, NEW f, NEW U, NEW C, NEW a, NEW w, NEW m \in MessageType, NEW s, s = Append(inbox, m),
         NEW n, IF m.name = n
                THEN /\ Quiet(inbox, f, U, C, n) /\ Agrees(a, w, n) /\ Meant(m, a, w)
                ELSE InOrder(inbox, f, U, C, a, w, n)
  PROVE  InOrder(s, f, U, C, a, w, n)
<1>1. PICK S : S = MessageType
  OBVIOUS
<1>2. inbox \in Seq(S) /\ m \in S
  BY <1>1 DEF Types
<1>3. CASE m.name = n
  <2>1. Quiet(inbox, f, U, C, n) /\ Agrees(a, w, n) /\ Meant(m, a, w)
    BY <1>3
  <2>2. ~Has(inbox, In(n)) /\ Once(inbox, In(n))
    BY <2>1 DEF Quiet, Has, Once
  <2>3. Once(s, In(n))
    BY <1>2, <2>2, AppendHas
  <2>4. \A j \in DOMAIN s : s[j] = m \/ (j \in DOMAIN inbox /\ s[j] = inbox[j])
    BY <1>2
  <2>5. Alone(s, f, U, C, n)
    BY <2>1, <2>3, OneUnderWay
  <2>6. Caused(s, f, U, a, w, n)
    BY <2>1, <2>4 DEF Quiet, Caused, Has
  <2>7. QED
    BY <2>1, <2>5, <2>6 DEF InOrder
<1>4. CASE m.name # n
  <2>1. InOrder(inbox, f, U, C, a, w, n)
    BY <1>4
  <2>2. m \notin In(n)
    BY <1>4 DEF In
  <2>3. Within(s, inbox, In(n))
    BY <1>2, <2>2, WithinFacts
  <2>4. Within(f, f, On(n))
    BY DEF Within
  <2>5. QED
    BY <2>1, <2>3, <2>4, Elsewhere
<1>5. QED
  BY <1>3, <1>4

\* A source emits.
LEMMA FireInOrder ==
  ASSUME Types, NEW x \in unsent, Fire(x), NEW n \in Names, NEW w,
         InOrder(inbox, effects, unsent, chosen, apps, w, n)
  PROVE  InOrder(inbox', effects, unsent', chosen, apps, w, n)
<1>1. x.source \in Sources /\ unsent' = unsent \ {x}
  BY FireFacts
<1>2. PICK m \in MessageType : m.tag = x.source.of /\ m.name = x.source.name /\ inbox' = Append(inbox, m)
  BY FireFacts DEF Tells
<1>3. PICK U, s : U = unsent' /\ s = inbox'
  OBVIOUS
<1>4. CASE m.name = n
  <2>1. x \in Of(unsent, n)
    BY <1>2, <1>4 DEF Of
  <2>2. /\ ~Has(inbox, In(n)) /\ ~Has(effects, On(n)) /\ For(chosen, n) = {} /\ Wanted(x, apps)
        /\ One(Of(unsent, n)) /\ Agrees(apps, w, n)
    BY <2>1 DEF InOrder, Alone, Caused
  <2>3. Of(U, n) = {}
    BY <1>1, <1>3, <2>1, <2>2 DEF Of, One
  <2>4. Quiet(inbox, effects, U, chosen, n)
    BY <2>2, <2>3 DEF Quiet
  <2>5. x.source.of \in {"run-app", "retire-app"}
    BY <1>1 DEF Sources
  <2>6. Meant(m, apps, w)
    BY <1>2, <2>2, <2>5 DEF Meant, Wanted
  <2>7. InOrder(s, effects, U, chosen, apps, w, n)
    BY <1>2, <1>3, <1>4, <2>2, <2>4, <2>6, TellInOrder
  <2>8. QED
    BY <1>3, <2>7
<1>5. CASE m.name # n
  <2>1. Of(U, n) \subseteq Of(unsent, n)
    BY <1>1, <1>3 DEF Of
  <2>2. Within(inbox, inbox, In(n)) /\ Within(effects, effects, On(n))
    BY DEF Within
  <2>3. InOrder(inbox, effects, U, chosen, apps, w, n)
    BY <2>1, <2>2, Elsewhere
  <2>4. InOrder(s, effects, U, chosen, apps, w, n)
    BY <1>2, <1>3, <1>5, <2>3, TellInOrder
  <2>5. QED
    BY <1>3, <2>4
<1>6. QED
  BY <1>4, <1>5

\* An add request sends what it has chosen.
LEMMA RegisterInOrder ==
  ASSUME Types, NEW m \in chosen, Register(m), NEW n \in Names, NEW w,
         InOrder(inbox, effects, unsent, chosen, apps, w, n)
  PROVE  InOrder(inbox', effects, unsent, chosen', apps, w, n)
<1>1. m \in MessageType /\ m.tag = "register-app" /\ inbox' = Append(inbox, m) /\ chosen' = chosen \ {m}
  BY RegisterFacts
<1>2. PICK C, s : C = chosen' /\ s = inbox'
  OBVIOUS
<1>3. CASE m.name = n
  <2>1. m \in For(chosen, n)
    BY <1>3 DEF For
  <2>2. /\ ~Has(inbox, In(n)) /\ ~Has(effects, On(n)) /\ Of(unsent, n) = {}
        /\ One(For(chosen, n)) /\ Agrees(apps, w, n)
    BY <2>1 DEF InOrder, Alone
  <2>3. For(C, n) = {}
    BY <1>1, <1>2, <2>1, <2>2 DEF For, One
  <2>4. Quiet(inbox, effects, unsent, C, n)
    BY <2>2, <2>3 DEF Quiet
  <2>5. Meant(m, apps, w)
    BY <1>1 DEF Meant
  <2>6. InOrder(s, effects, unsent, C, apps, w, n)
    BY <1>1, <1>2, <1>3, <2>2, <2>4, <2>5, TellInOrder
  <2>7. QED
    BY <1>2, <2>6
<1>4. CASE m.name # n
  <2>1. For(C, n) \subseteq For(chosen, n)
    BY <1>1, <1>2 DEF For
  <2>2. Within(inbox, inbox, In(n)) /\ Within(effects, effects, On(n))
    BY DEF Within
  <2>3. InOrder(inbox, effects, unsent, C, apps, w, n)
    BY <2>1, <2>2, Elsewhere
  <2>4. InOrder(s, effects, unsent, C, apps, w, n)
    BY <1>1, <1>2, <1>4, <2>3, TellInOrder
  <2>5. QED
    BY <1>2, <2>4
<1>5. QED
  BY <1>3, <1>4

\* A request that waited for the one before it finds nothing under way.
LEMMA SettledQuiet ==
  ASSUME Settled, NEW n
  PROVE  Quiet(inbox, effects, unsent, chosen, n)
BY DEF Settled, Quiet, Has, Of, For

\* Choosing a port for a new registration keeps the order of the ports of every app.
LEMMA ChooseInOrder ==
  ASSUME Types, NEW k \in Names, ChoosePort(k), ~overlap', NEW n \in Names, NEW w,
         InOrder(inbox, effects, unsent, chosen, apps, w, n)
  PROVE  InOrder(inbox, effects, unsent, chosen', apps, w, n)
<1>1. Settled
  BY DEF ChoosePort, Asked
<1>2. PICK m \in MessageType : chosen' = chosen \cup {m}
  BY ChooseFacts
<1>3. chosen = {} /\ inbox = <<>> /\ effects = <<>> /\ unsent = {}
  BY <1>1 DEF Settled
<1>4. One(For(chosen', n))
  BY <1>2, <1>3 DEF One, For
<1>5. PICK C : C = chosen'
  OBVIOUS
<1>6. Alone(inbox, effects, unsent, C, n)
  BY <1>1, <1>4, <1>5, SettledQuiet, OneUnderWay
<1>7. Caused(inbox, effects, unsent, apps, w, n) /\ Agrees(apps, w, n)
  BY DEF InOrder
<1>8. QED
  BY <1>5, <1>6, <1>7 DEF InOrder

\* A request to unregister or to restart keeps the order of the ports of every app.
LEMMA OrderInOrder ==
  ASSUME Types, NEW k \in Names, NEW tag \in {"unregister-app", "restart-app"}, Order(tag, k), ~overlap',
         NEW n \in Names, NEW w, InOrder(inbox, effects, unsent, chosen, apps, w, n)
  PROVE  InOrder(inbox', effects, unsent, chosen, apps, w, n)
<1>1. Settled
  BY DEF Order, Asked
<1>2. PICK m \in MessageType : m.tag = tag /\ inbox' = Append(inbox, m)
  BY OrderFacts
<1>3. Meant(m, apps, w) /\ Agrees(apps, w, n)
  BY <1>2 DEF Meant, InOrder
<1>4. Quiet(inbox, effects, unsent, chosen, n)
  BY <1>1, SettledQuiet
<1>5. PICK s : s = inbox'
  OBVIOUS
<1>6. InOrder(s, effects, unsent, chosen, apps, w, n)
  BY <1>2, <1>3, <1>4, <1>5, TellInOrder
<1>7. QED
  BY <1>5, <1>6

\* A process that starts anew has a source at most for each app.
LEMMA RestartInOrder ==
  ASSUME Types, Restart, NEW n \in Names, NEW w, Agrees(apps, w, n)
  PROVE  InOrder(inbox', effects', unsent', chosen', apps, w, n)
<1>1. PICK U : U = unsent'
  OBVIOUS
<1>2. /\ inbox' = <<>> /\ effects' = <<>> /\ chosen' = {}
      /\ U = {[source |-> i, cmd |-> apps[i.name].cmd] : i \in Desired(apps)}
  BY <1>1, RestartFacts
<1>3. ASSUME NEW x \in Of(U, n)
      PROVE  /\ x = [source |-> [of |-> IF apps[n].status = "registered" THEN "run-app" ELSE "retire-app",
                                 name |-> n], cmd |-> apps[n].cmd]
             /\ Wanted(x, apps)
  <2>1. PICK i \in Desired(apps) : x = [source |-> i, cmd |-> apps[i.name].cmd]
    BY <1>2, <1>3 DEF Of
  <2>2. i.name = n
    BY <1>3, <2>1 DEF Of
  <2>3. PICK k \in DOMAIN apps : \/ apps[k].status = "registered" /\ i = [of |-> "run-app", name |-> k]
                                 \/ apps[k].status = "removing" /\ i = [of |-> "retire-app", name |-> k]
    BY DesiredFacts
  <2>4. k = n
    BY <2>2, <2>3
  <2>5. QED
    BY <2>1, <2>3, <2>4 DEF Wanted, Is
<1>4. One(Of(U, n)) /\ \A x \in Of(U, n) : Wanted(x, apps)
  BY <1>3 DEF One
<1>5. Quiet(<<>>, <<>>, {}, {}, n)
  BY DEF Quiet, Has, Of, For
<1>6. Alone(<<>>, <<>>, U, {}, n)
  BY <1>4, <1>5, OneUnderWay
<1>7. InOrder(<<>>, <<>>, U, {}, apps, w, n)
  BY <1>4, <1>6 DEF InOrder, Caused
<1>8. QED
  BY <1>1, <1>2, <1>7

\* Every step keeps one thing at a time under way for an app.
LEMMA OrderedStep ==
  ASSUME Types, Ordered, [Next]_vars
  PROVE  Ordered'
<1>1. SUFFICES ASSUME ~overlap', NEW n \in Names
               PROVE  InOrder(inbox', effects', unsent', chosen', apps', units'[n], n)
  BY DEF Ordered
<1>2. ~overlap
  <2>1. SUFFICES ASSUME overlap PROVE overlap'
    BY <1>1
  <2>2. CASE Reduce
    BY <2>1, <2>2, ReduceFacts DEF budget
  <2>3. CASE UNCHANGED vars
    BY <2>1, <2>3 DEF vars
  <2>4. ASSUME NEW i \in DOMAIN effects, EffectStep(i) \/ EffectFails(i) PROVE overlap'
    BY <2>1, <2>4, EffectFacts
  <2>5. ASSUME NEW k \in Names, ChoosePort(k) \/ Order("unregister-app", k) \/ Order("restart-app", k)
        PROVE  overlap'
    BY <2>1, <2>5 DEF ChoosePort, Order, Asked
  <2>6. QED
    BY <2>1, <2>2, <2>3, <2>4, <2>5, FireFacts, RegisterFacts, RestartFacts DEF Next
<1>3. PICK w : w = units[n]
  OBVIOUS
<1>4. InOrder(inbox, effects, unsent, chosen, apps, w, n)
  BY <1>2, <1>3 DEF Ordered
<1>5. CASE Reduce
  <2>1. PICK m : Turn(m, inbox', effects', apps', unsent')
    BY <1>5, ReduceFacts
  <2>2. chosen' = chosen /\ units' = units
    BY <1>5, ReduceFacts
  <2>3. PICK t, f, u, U : t = inbox' /\ f = effects' /\ u = apps' /\ U = unsent'
    OBVIOUS
  <2>4. Turn(m, t, f, u, U)
    BY <2>1, <2>3
  <2>5. InOrder(t, f, U, chosen, u, w, n)
    <3>1. CASE n = m.name
      BY <1>4, <2>4, <3>1, ReduceOwn
    <3>2. CASE n # m.name
      BY <1>4, <2>4, <3>2, ReduceOther
    <3>3. QED
      BY <3>1, <3>2
  <2>6. QED
    BY <1>3, <2>2, <2>3, <2>5
<1>6. ASSUME NEW x \in unsent, Fire(x)
      PROVE  InOrder(inbox', effects', unsent', chosen', apps', units'[n], n)
  <2>1. InOrder(inbox', effects, unsent', chosen, apps, w, n)
    BY <1>4, <1>6, FireInOrder
  <2>2. QED
    BY <1>3, <1>6, <2>1, FireFacts
<1>7. ASSUME NEW k \in Names, ChoosePort(k)
      PROVE  InOrder(inbox', effects', unsent', chosen', apps', units'[n], n)
  <2>1. InOrder(inbox, effects, unsent, chosen', apps, w, n)
    BY <1>1, <1>4, <1>7, ChooseInOrder
  <2>2. QED
    BY <1>3, <1>7, <2>1, ChooseFacts
<1>8. ASSUME NEW k \in Names, NEW tag \in {"unregister-app", "restart-app"}, Order(tag, k)
      PROVE  InOrder(inbox', effects', unsent', chosen', apps', units'[n], n)
  <2>1. InOrder(inbox', effects, unsent, chosen, apps, w, n)
    BY <1>1, <1>4, <1>8, OrderInOrder
  <2>2. QED
    BY <1>3, <1>8, <2>1, OrderFacts
<1>9. ASSUME NEW m \in chosen, Register(m)
      PROVE  InOrder(inbox', effects', unsent', chosen', apps', units'[n], n)
  <2>1. InOrder(inbox', effects, unsent, chosen', apps, w, n)
    BY <1>4, <1>9, RegisterInOrder
  <2>2. QED
    BY <1>3, <1>9, <2>1, RegisterFacts
<1>10. ASSUME NEW i \in DOMAIN effects, EffectStep(i) \/ EffectFails(i)
       PROVE  InOrder(inbox', effects', unsent', chosen', apps', units'[n], n)
  <2>1. PICK e, k : e = effects[i] /\ k = e.name
    OBVIOUS
  <2>2. PICK f, s : f = effects' /\ s = inbox'
    OBVIOUS
  <2>3. PICK v \in UnitType : Acts(i, e, units[k], v, f, s) /\ units' = [units EXCEPT ![k] = v]
    BY <1>10, <2>1, <2>2, EffectFacts
  <2>4. unsent' = unsent /\ chosen' = chosen /\ apps' = apps
    BY <1>10, EffectFacts
  <2>5. InOrder(s, f, unsent, chosen, apps, units'[n], n)
    <3>1. CASE n = k
      <4>1. w \in UnitType /\ units'[n] = v
        BY <1>3, <2>3, <3>1 DEF Types
      <4>2. InOrder(s, f, unsent, chosen, apps, v, n)
        BY <1>3, <1>4, <2>1, <2>3, <3>1, <4>1, EffectOwn
      <4>3. QED
        BY <4>1, <4>2
    <3>2. CASE n # k
      <4>1. units'[n] = w
        BY <1>3, <2>3, <3>2 DEF Types
      <4>2. InOrder(s, f, unsent, chosen, apps, w, n)
        BY <1>4, <2>1, <2>3, <3>2, EffectOther
      <4>3. QED
        BY <4>1, <4>2
    <3>3. QED
      BY <3>1, <3>2
  <2>6. QED
    BY <2>2, <2>4, <2>5
<1>11. CASE Restart
  <2>1. Agrees(apps, w, n)
    BY <1>4 DEF InOrder
  <2>2. InOrder(inbox', effects', unsent', chosen', apps, w, n)
    BY <1>11, <2>1, RestartInOrder
  <2>3. QED
    BY <1>3, <1>11, <2>2, RestartFacts
<1>12. CASE UNCHANGED vars
  BY <1>3, <1>4, <1>12 DEF vars
<1>13. QED
  BY <1>5, <1>6, <1>7, <1>8, <1>9, <1>10, <1>11, <1>12 DEF Next

-----------------------------------------------------------------------------
(***************************************************************************)
(* An app has its port to itself.                                          *)
(***************************************************************************)
\* One registration at most is asked for and not yet applied, and its port is free
\* or the app's own.
Asks == {m \in MessageType : m.tag = "register-app"}
Fits(m, a) == \A n \in DOMAIN a : a[n].port = m.port => n = m.name
Apart(a) == \A m, n \in DOMAIN a : a[m].port = a[n].port => m = n
PortOrder(s, C, a) ==
  /\ Apart(a)
  /\ Once(s, Asks) /\ One(C) /\ (Has(s, Asks) => C = {})
  /\ \A i \in DOMAIN s : s[i] \in Asks => Fits(s[i], a)
  /\ \A m \in C : Fits(m, a)
Ports == ~overlap => PortOrder(inbox, chosen, apps)

\* The registration applied takes a port that no other app has; nothing else
\* changes a port.
LEMMA PortsReduce ==
  ASSUME Types, NEW m, NEW t, NEW f, NEW u, NEW U, Turn(m, t, f, u, U),
         PortOrder(inbox, chosen, apps)
  PROVE  PortOrder(t, chosen, u)
<1>1. /\ Less(t, inbox, 1) /\ m \in MessageType /\ Registered(u, m) /\ m.name \in Names
      /\ 1 \in DOMAIN inbox /\ m = inbox[1]
  BY DEF Turn, MessageType
<1>2. Once(t, Asks) /\ (Has(t, Asks) => Has(inbox, Asks))
  BY <1>1, LessHas DEF PortOrder
<1>3. CASE m.tag = "register-app"
  <2>1. m \in Asks /\ Has(inbox, Asks)
    BY <1>1, <1>3 DEF Asks, Has
  <2>2. chosen = {} /\ Fits(m, apps) /\ Apart(apps) /\ Once(inbox, Asks)
    BY <1>1, <2>1 DEF PortOrder
  <2>3. ~Has(t, Asks)
    BY <1>1, <2>1, <2>2, LessHas
  <2>4. /\ u[m.name].port = m.port
        /\ \A n \in DOMAIN u : n = m.name \/ (n \in DOMAIN apps /\ u[n] = apps[n])
    BY <1>1, <1>3 DEF Registered
  <2>5. ASSUME NEW k \in DOMAIN u, NEW n \in DOMAIN u, u[k].port = u[n].port PROVE k = n
    BY <2>2, <2>4, <2>5 DEF Apart, Fits
  <2>6. Apart(u)
    BY <2>5 DEF Apart
  <2>7. QED
    BY <1>2, <2>2, <2>3, <2>6 DEF PortOrder, Has, One
<1>4. CASE m.tag # "register-app"
  <2>1. ASSUME NEW n \in DOMAIN u PROVE n \in DOMAIN apps /\ u[n].port = apps[n].port
    <3>1. n \in Names
      BY <1>1 DEF Registered
    <3>2. CASE n # m.name
      BY <1>1, <3>1, <3>2 DEF Registered
    <3>3. CASE n = m.name
      <4>1. n \in DOMAIN apps /\ \E status : u[n] = [apps[n] EXCEPT !.status = status]
        BY <1>1, <1>4, <3>3 DEF Registered
      <4>2. apps[n] \in AppType
        BY <4>1 DEF Types
      <4>3. QED
        BY <4>1, <4>2 DEF AppType
    <3>4. QED
      BY <3>2, <3>3
  <2>2. Apart(u)
    BY <2>1 DEF PortOrder, Apart
  <2>3. \A x : Fits(x, apps) => Fits(x, u)
    BY <2>1 DEF Fits
  <2>4. \A j \in DOMAIN t : t[j] \in Asks => Fits(t[j], u)
    BY <1>1, <2>3 DEF PortOrder, Less
  <2>5. \A x \in chosen : Fits(x, u)
    BY <2>3 DEF PortOrder
  <2>6. QED
    BY <1>2, <2>2, <2>4, <2>5 DEF PortOrder
<1>5. QED
  BY <1>3, <1>4

\* A message more leaves the ports in order, unless it is a second registration.
LEMMA PortsTell ==
  ASSUME Types, NEW C, PortOrder(inbox, C, apps), NEW m \in MessageType, NEW s, s = Append(inbox, m),
         m \in Asks => ~Has(inbox, Asks) /\ C = {} /\ Fits(m, apps)
  PROVE  PortOrder(s, C, apps)
<1>1. PICK S : S = MessageType
  OBVIOUS
<1>2. inbox \in Seq(S) /\ m \in S
  BY <1>1 DEF Types
<1>3. /\ Has(s, Asks) <=> Has(inbox, Asks) \/ m \in Asks
      /\ Once(inbox, Asks) /\ (m \notin Asks \/ ~Has(inbox, Asks)) => Once(s, Asks)
  BY <1>2, AppendHas
<1>4. \A j \in DOMAIN s : s[j] = m \/ (j \in DOMAIN inbox /\ s[j] = inbox[j])
  BY <1>2
<1>5. QED
  BY <1>3, <1>4 DEF PortOrder

\* Every step leaves an app its port to itself.
LEMMA PortsStep ==
  ASSUME Types, Ports, [Next]_vars
  PROVE  Ports'
<1>1. SUFFICES ASSUME ~overlap' PROVE PortOrder(inbox', chosen', apps')
  BY DEF Ports
<1>2. CASE Reduce
  <2>1. PICK m : Turn(m, inbox', effects', apps', unsent')
    BY <1>2, ReduceFacts
  <2>2. chosen' = chosen /\ overlap' = overlap
    BY <1>2, ReduceFacts DEF budget
  <2>3. PICK t, f, u, U : t = inbox' /\ f = effects' /\ u = apps' /\ U = unsent'
    OBVIOUS
  <2>4. PortOrder(t, chosen, u)
    BY <1>1, <2>1, <2>2, <2>3, PortsReduce DEF Ports
  <2>5. QED
    BY <2>2, <2>3, <2>4
<1>3. ASSUME NEW x \in unsent, Fire(x) PROVE PortOrder(inbox', chosen', apps')
  <2>1. /\ x.source \in Sources /\ Tells(x.source.of, x.source.name, inbox')
        /\ chosen' = chosen /\ apps' = apps /\ overlap' = overlap
    BY <1>3, FireFacts
  <2>2. PICK m \in MessageType : m.tag = x.source.of /\ inbox' = Append(inbox, m)
    BY <2>1 DEF Tells
  <2>3. m \notin Asks
    BY <2>1, <2>2 DEF Sources, Asks
  <2>4. PICK s : s = inbox'
    OBVIOUS
  <2>5. PortOrder(s, chosen, apps)
    BY <1>1, <2>1, <2>2, <2>3, <2>4, PortsTell DEF Ports
  <2>6. QED
    BY <2>1, <2>4, <2>5
<1>4. ASSUME NEW k \in Names, ChoosePort(k) PROVE PortOrder(inbox', chosen', apps')
  <2>1. Settled /\ ~overlap
    BY <1>1, <1>4 DEF ChoosePort, Asked
  <2>2. PICK m \in MessageType :
          /\ m.name = k /\ chosen' = chosen \cup {m}
          /\ IF k \in DOMAIN apps THEN m.port = apps[k].port ELSE m.port \notin UsedPorts(apps)
    BY <1>4, ChooseFacts
  <2>3. inbox' = inbox /\ apps' = apps
    BY <1>4, ChooseFacts
  <2>4. PortOrder(inbox, chosen, apps) /\ ~Has(inbox, Asks) /\ chosen = {}
    BY <2>1 DEF Ports, Settled, Has
  <2>5. Fits(m, apps)
    BY <2>2, <2>4 DEF PortOrder, Apart, Fits, UsedPorts
  <2>6. QED
    BY <2>2, <2>3, <2>4, <2>5 DEF PortOrder, One
<1>5. ASSUME NEW k \in Names, NEW tag \in {"unregister-app", "restart-app"}, Order(tag, k)
      PROVE  PortOrder(inbox', chosen', apps')
  <2>1. ~overlap
    BY <1>1, <1>5 DEF Order, Asked
  <2>2. PICK m \in MessageType : m.tag = tag /\ inbox' = Append(inbox, m)
    BY <1>5, OrderFacts
  <2>3. chosen' = chosen /\ apps' = apps
    BY <1>5, OrderFacts
  <2>4. m \notin Asks
    BY <2>2 DEF Asks
  <2>5. PICK s : s = inbox'
    OBVIOUS
  <2>6. PortOrder(s, chosen, apps)
    BY <2>1, <2>2, <2>4, <2>5, PortsTell DEF Ports
  <2>7. QED
    BY <2>3, <2>5, <2>6
<1>6. ASSUME NEW m \in chosen, Register(m) PROVE PortOrder(inbox', chosen', apps')
  <2>1. /\ m \in MessageType /\ inbox' = Append(inbox, m) /\ chosen' = chosen \ {m}
        /\ apps' = apps /\ overlap' = overlap
    BY <1>6, RegisterFacts
  <2>2. PICK s, C : s = inbox' /\ C = chosen'
    OBVIOUS
  <2>3. PortOrder(inbox, chosen, apps) /\ Fits(m, apps) /\ C = {} /\ ~Has(inbox, Asks)
    BY <1>1, <1>6, <2>1, <2>2 DEF Ports, PortOrder, One
  <2>4. PortOrder(inbox, C, apps)
    BY <2>3 DEF PortOrder, One
  <2>5. PortOrder(s, C, apps)
    BY <2>1, <2>2, <2>3, <2>4, PortsTell
  <2>6. QED
    BY <2>1, <2>2, <2>5
<1>7. ASSUME NEW i \in DOMAIN effects, EffectStep(i) \/ EffectFails(i)
      PROVE  PortOrder(inbox', chosen', apps')
  <2>1. chosen' = chosen /\ apps' = apps /\ overlap' = overlap
    BY <1>7, EffectFacts
  <2>2. PICK v, s : Acts(i, effects[i], units[effects[i].name], v, effects', s) /\ s = inbox'
    BY <1>7, EffectFacts
  <2>3. s = inbox \/ \E m \in MessageType : m \notin Asks /\ s = Append(inbox, m)
    BY <2>2 DEF Acts, Tells, Asks
  <2>4. PortOrder(s, chosen, apps)
    BY <1>1, <2>1, <2>3, PortsTell DEF Ports
  <2>5. QED
    BY <2>1, <2>2, <2>4
<1>8. CASE Restart
  <2>1. inbox' = <<>> /\ chosen' = {} /\ apps' = apps /\ overlap' = overlap
    BY <1>8, RestartFacts
  <2>2. Apart(apps)
    BY <1>1, <2>1 DEF Ports, PortOrder
  <2>3. PortOrder(<<>>, {}, apps)
    BY <2>2 DEF PortOrder, Once, Has, One
  <2>4. QED
    BY <2>1, <2>3
<1>9. CASE UNCHANGED vars
  BY <1>1, <1>9 DEF vars, Ports
<1>10. QED
  BY <1>2, <1>3, <1>4, <1>5, <1>6, <1>7, <1>8, <1>9 DEF Next

-----------------------------------------------------------------------------
(***************************************************************************)
(* The registry and the machine.                                           *)
(***************************************************************************)
\* At the start nothing is registered, told or under way.
LEMMA InvariantInit ==
  ASSUME Init
  PROVE  Told /\ Ordered /\ Ports
<1>1. /\ DOMAIN apps = {} /\ inbox = <<>> /\ effects = <<>> /\ unsent = {} /\ chosen = {}
      /\ \A n \in Names : units[n] = Bare
  BY DEF Init, Bare
<1>2. Bare.file = None
  BY DEF Bare
<1>3. Told
  BY <1>1, <1>2 DEF Told
<1>4. ASSUME NEW n \in Names PROVE InOrder(inbox, effects, unsent, chosen, apps, units[n], n)
  <2>1. Quiet(inbox, effects, unsent, chosen, n)
    BY <1>1 DEF Quiet, Has, Of, For
  <2>2. Alone(inbox, effects, unsent, chosen, n)
    BY <2>1, OneUnderWay
  <2>3. QED
    BY <1>1, <2>2 DEF InOrder, Caused, Agrees, Is, Of
<1>5. PortOrder(inbox, chosen, apps)
  BY <1>1 DEF PortOrder, Apart, Once, Has, One
<1>6. QED
  BY <1>3, <1>4, <1>5 DEF Ordered, Ports

\* The registry and the machine agree, whatever the requests, the deaths and the
\* effects that fail: a unit file is of a registration in the log; and as long as
\* requests waited for one another an app has its port to itself, and once all is
\* settled an app that is not registered has no unit and a running one the unit file
\* of its registration and a process.
THEOREM AppsMatch ==
  Spec => []UnitMatches
<1>1. Types /\ Told /\ Ordered /\ Ports => UnitMatches
  <2>1. SUFFICES ASSUME Types, Told, Ordered, Ports PROVE UnitMatches
    OBVIOUS
  <2>2. \A n \in Names : units[n].file # None => [name |-> n, launch |-> units[n].file] \in ordered
    BY <2>1 DEF Told, Entry
  <2>3. ~overlap => \A m, n \in DOMAIN apps : apps[m].port = apps[n].port => m = n
    BY <2>1 DEF Ports, PortOrder, Apart
  <2>4. ASSUME ~overlap, NEW n \in Names
        PROVE  /\ n \notin DOMAIN apps => units[n] = [file |-> None, up |-> None]
               /\ n \in DOMAIN apps /\ apps[n].status = "running" =>
                    units[n].file = Launch(apps[n]) /\ units[n].up # None
    BY <2>1, <2>4 DEF Ordered, InOrder, Agrees, Is, Bare
  <2>5. QED
    BY <2>2, <2>3, <2>4 DEF UnitMatches
<1>2. Init => Types /\ Told /\ Ordered /\ Ports
  BY TypesInit, InvariantInit
<1>3. Types /\ Told /\ Ordered /\ Ports /\ [Next]_vars => (Types /\ Told /\ Ordered /\ Ports)'
  <2>1. Types /\ [Next]_vars => Types'
    BY TypesStep
  <2>2. Types /\ Told /\ [Next]_vars => Told'
    BY ToldStep
  <2>3. Types /\ Ordered /\ [Next]_vars => Ordered'
    BY OrderedStep
  <2>4. Types /\ Ports /\ [Next]_vars => Ports'
    BY PortsStep
  <2>5. QED
    BY <2>1, <2>2, <2>3, <2>4
<1>4. QED
  BY <1>1, <1>2, <1>3, PTL DEF Spec

\* What an app under removal is safe from: an installation that runs or has reported.
Starting(f, s, n) ==
  \/ \E i \in DOMAIN f : f[i].name = n /\ f[i].pc \in {"install", "start"}
  \/ \E k \in DOMAIN s : s[k].name = n /\ s[k].tag = "mark-app-running"

\* Another message on the channel is no installation's report.
LEMMA TellStarts ==
  ASSUME Types, NEW n, ~Starting(effects, inbox, n), NEW m \in MessageType,
         m.name # n \/ m.tag # "mark-app-running", NEW s, s = Append(inbox, m)
  PROVE  ~Starting(effects, s, n)
<1>1. PICK S : S = MessageType
  OBVIOUS
<1>2. inbox \in Seq(S) /\ m \in S
  BY <1>1 DEF Types
<1>3. \A k \in DOMAIN s : s[k] = m \/ (k \in DOMAIN inbox /\ s[k] = inbox[k])
  BY <1>2
<1>4. QED
  BY <1>3 DEF Starting

\* The reducer starts an installation only of an app that is registered, and reads a
\* report only if there is one.
LEMMA ReduceStarts ==
  ASSUME Types, Reduce, NEW n \in DOMAIN apps, apps[n].status = "removing",
         ~Starting(effects, inbox, n), NEW u, u = apps', n \in DOMAIN u
  PROVE  \/ u[n].status = "registered"
         \/ u[n].status = "removing" /\ ~Starting(effects', inbox', n)
<1>1. PICK m, t, f : /\ Turn(m, t, f, u, unsent') /\ t = inbox' /\ f = effects'
  BY ReduceFacts
<1>2. n \in Names /\ apps[n] \in AppType
  BY DEF Types
<1>3. ~(m.name = n /\ m.tag = "mark-app-running")
  BY <1>1 DEF Turn, Starting
<1>4. u[n].status \in {"registered", "removing"}
  <2>1. CASE m.name # n
    BY <1>1, <1>2, <2>1 DEF Turn, Registered
  <2>2. CASE m.name = n /\ m.tag = "register-app"
    BY <1>1, <2>2 DEF Turn, Registered
  <2>3. CASE m.name = n /\ m.tag # "register-app"
    <3>1. u[n] = [apps[n] EXCEPT !.status = IF m.tag = "unregister-app" THEN "removing" ELSE @]
      BY <1>1, <1>3, <2>3 DEF Turn, Registered
    <3>2. QED
      BY <1>2, <3>1 DEF AppType
  <2>4. QED
    BY <2>1, <2>2, <2>3
<1>5. ~\E k \in DOMAIN t : t[k].name = n /\ t[k].tag = "mark-app-running"
  BY <1>1 DEF Turn, Less, Starting
<1>6. ~\E i \in DOMAIN f : f[i].name = n /\ f[i].pc \in {"install", "start"}
  <2>1. CASE f = effects
    BY <2>1 DEF Starting
  <2>2. ASSUME NEW e \in EffectType, Starts(e, m), f = Append(effects, e)
        PROVE  ~\E i \in DOMAIN f : f[i].name = n /\ f[i].pc \in {"install", "start"}
    <3>1. ~(e.name = n /\ e.pc \in {"install", "start"})
      BY <2>2 DEF Starts, Effect
    <3>2. PICK S : S = EffectType
      OBVIOUS
    <3>3. effects \in Seq(S) /\ e \in S
      BY <2>2, <3>2 DEF Types
    <3>4. \A i \in DOMAIN f : f[i] = e \/ (i \in DOMAIN effects /\ f[i] = effects[i])
      BY <2>2, <3>3
    <3>5. QED
      BY <3>1, <3>4 DEF Starting
  <2>3. QED
    BY <1>1, <2>1, <2>2 DEF Turn
<1>7. QED
  BY <1>1, <1>4, <1>5, <1>6 DEF Starting

\* A step of an effect goes on with an installation, but begins none.
LEMMA EffectStarts ==
  ASSUME Types, NEW i \in DOMAIN effects, EffectStep(i) \/ EffectFails(i),
         NEW n, ~Starting(effects, inbox, n)
  PROVE  ~Starting(effects', inbox', n)
<1>1. PICK f, s, e, v : /\ f = effects' /\ s = inbox' /\ e = effects[i]
                        /\ Acts(i, e, units[e.name], v, f, s)
  BY EffectFacts
<1>2. ~(e.name = n /\ e.pc \in {"install", "start"})
  BY <1>1 DEF Starting
<1>3. ~\E j \in DOMAIN f : f[j].name = n /\ f[j].pc \in {"install", "start"}
  <2>1. CASE e.pc = "install" /\ f = [effects EXCEPT ![i].pc = "start"]
    <3>1. Moved(f, i, "start") /\ f[i].name = e.name
      BY <1>1, <2>1, MovedFacts
    <3>2. QED
      BY <1>1, <1>2, <2>1, <3>1 DEF Moved, Starting
  <2>2. CASE f = [effects EXCEPT ![i].pc = "remove"]
    <3>1. Moved(f, i, "remove") /\ f[i].pc = "remove"
      <4>1. effects[i] \in EffectType
        BY DEF Types
      <4>2. Moved(f, i, "remove")
        BY <2>2, MovedFacts
      <4>3. QED
        BY <4>1, <4>2 DEF Moved, EffectType
    <3>2. QED
      BY <3>1 DEF Moved, Starting
  <2>3. CASE f = Over(i)
    <3>1. Less(f, effects, i)
      BY <2>3, OverFacts
    <3>2. QED
      BY <3>1 DEF Less, Starting
  <2>4. QED
    BY <1>1, <2>1, <2>2, <2>3 DEF Acts
<1>4. ~\E k \in DOMAIN s : s[k].name = n /\ s[k].tag = "mark-app-running"
  <2>1. s = inbox \/ \E m \in MessageType : /\ s = Append(inbox, m)
                                            /\ m.name # n \/ m.tag # "mark-app-running"
    BY <1>1, <1>2 DEF Acts, Tells
  <2>2. QED
    BY <2>1, TellStarts DEF Starting
<1>5. QED
  BY <1>1, <1>3, <1>4 DEF Starting

\* For any requests, overlapping ones included, and through every death and failure:
\* once no installation of an app that is being removed is under way, none begins, and
\* the app stays removing until it is gone or registered anew.
THEOREM RemovalKept ==
  Spec => RemovalStands
<1>1. ASSUME Types, [Next]_vars, NEW n \in DOMAIN apps, apps[n].status = "removing",
             ~Starting(effects, inbox, n)
      PROVE  \/ n \notin DOMAIN apps'
             \/ apps'[n].status = "registered"
             \/ apps'[n].status = "removing" /\ ~Starting(effects', inbox', n)
  <2>1. CASE Reduce
    BY <1>1, <2>1, ReduceStarts
  <2>2. ASSUME apps' = apps, ~Starting(effects', inbox', n)
        PROVE  apps'[n].status = "removing" /\ ~Starting(effects', inbox', n)
    BY <1>1, <2>2
  <2>3. ASSUME NEW s, s = inbox', effects' = effects, NEW m \in MessageType,
               s = Append(inbox, m), m.tag # "mark-app-running"
        PROVE  ~Starting(effects', inbox', n)
    BY <1>1, <2>3, TellStarts
  <2>4. ASSUME NEW u \in unsent, Fire(u)
        PROVE  ~Starting(effects', inbox', n) /\ apps' = apps
    <3>1. PICK s, tag : s = inbox' /\ tag = u.source.of
      OBVIOUS
    <3>2. /\ Tells(tag, u.source.name, s) /\ tag # "mark-app-running"
          /\ effects' = effects /\ apps' = apps
      BY <1>1, <2>4, <3>1, FireFacts DEF Sources
    <3>3. QED
      BY <2>3, <3>1, <3>2 DEF Tells
  <2>5. ASSUME NEW k \in Names, ChoosePort(k)
        PROVE  ~Starting(effects', inbox', n) /\ apps' = apps
    BY <1>1, <2>5, ChooseFacts
  <2>6. ASSUME NEW k \in Names, NEW tag \in {"unregister-app", "restart-app"}, Order(tag, k)
        PROVE  ~Starting(effects', inbox', n) /\ apps' = apps
    <3>1. PICK s : s = inbox'
      OBVIOUS
    <3>2. /\ \E m \in MessageType : m.tag = tag /\ s = Append(inbox, m)
          /\ effects' = effects /\ apps' = apps
      BY <1>1, <2>6, <3>1, OrderFacts
    <3>3. QED
      BY <2>3, <3>1, <3>2
  <2>7. ASSUME NEW m \in chosen, Register(m)
        PROVE  ~Starting(effects', inbox', n) /\ apps' = apps
    <3>1. PICK s : s = inbox'
      OBVIOUS
    <3>2. /\ m \in MessageType /\ m.tag = "register-app" /\ s = Append(inbox, m)
          /\ effects' = effects /\ apps' = apps
      BY <1>1, <2>7, <3>1, RegisterFacts
    <3>3. QED
      BY <2>3, <3>1, <3>2
  <2>8. ASSUME NEW i \in DOMAIN effects, EffectStep(i) \/ EffectFails(i)
        PROVE  ~Starting(effects', inbox', n) /\ apps' = apps
    BY <1>1, <2>8, EffectStarts, EffectFacts
  <2>9. CASE Restart
    <3>1. effects' = <<>> /\ inbox' = <<>> /\ apps' = apps
      BY <1>1, <2>9, RestartFacts
    <3>2. QED
      BY <2>2, <3>1 DEF Starting
  <2>10. CASE UNCHANGED vars
    BY <1>1, <2>2, <2>10 DEF vars
  <2>11. QED
    BY <1>1, <2>1, <2>2, <2>4, <2>5, <2>6, <2>7, <2>8, <2>9, <2>10 DEF Next
<1>2. ASSUME Types, [Next]_vars
      PROVE  [\A n \in DOMAIN apps :
                apps[n].status = "removing" /\ ~Installing(n)
                  => \/ n \notin DOMAIN apps'
                     \/ apps'[n].status = "registered"
                     \/ apps'[n].status = "removing" /\ ~Installing(n)']_vars
  <2>1. \A n : /\ Installing(n) <=> Starting(effects, inbox, n)
               /\ Installing(n)' <=> Starting(effects', inbox', n)
    BY DEF Installing, Starting
  <2>2. QED
    BY <1>1, <1>2, <2>1
<1>3. QED
  BY <1>2, TypesInit, TypesStep, PTL DEF Spec, RemovalStands
=============================================================================
