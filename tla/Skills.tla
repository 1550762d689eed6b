-------------------------------- MODULE Skills --------------------------------
(***************************************************************************)
(* A skill has two homes (decision-010, decision-026): its tree, a row of  *)
(* the content store's skill table, which start-agent-run provisions from, *)
(* and its entry in the registry, a slice of the model folded from         *)
(* register-skill and unregister-skill, which the pages show.  store-skill *)
(* writes the first and emits the second for every skill a run authored;   *)
(* the owner's Remove on /skills deletes the first and then sends the      *)
(* second.  Nothing holds both at once.                                    *)
(*                                                                         *)
(* The store is SQLiteContent, where AddSkill is a SELECT followed by an   *)
(* UPDATE or INSERT, or its in-memory twin, where a mutex makes it one     *)
(* step.  Abstracted: trees, descriptions and origins are left out.        *)
(***************************************************************************)
EXTENDS Naturals, Sequences, FiniteSets, FiniteSetsExt

CONSTANTS
  SkillNames,  \* names of skills
  Authors,     \* finished runs that authored skills
  MaxRemovals, \* bound: presses of Remove
  MaxStops     \* bound: process deaths and failing effects together

\* A skill without a name is passed over: nothing is stored or emitted for it.
ASSUME SkillsAssumption == "" \notin SkillNames

VARIABLES
  twin,     \* "sqlite" or "memory"
  table,    \* skill rows by name: id and version
  nextSkill,\* MemoryContent.nextSkill
  registry, \* skills.Model: entries by name
  owed,     \* for each author the names whose skill job is pending
  effect,   \* store-skill of each author
  removal,  \* deleteSkill of the web server
  inbox,    \* register-skill and unregister-skill on the reducer's channel
  unsettled,     \* history: names whose last operation was cut short or overlapped
  stops     \* removals, and deaths and failures, so far

skillVars == <<twin, table, nextSkill, registry, owed, effect, removal, inbox, unsettled, stops>>
-----------------------------------------------------------------------------
NoEffect == [pc |-> "idle", rest |-> {}, name |-> "", id |-> 0, version |-> 0]
Over(pc) == [NoEffect EXCEPT !.pc = pc]
NoRemoval == [pc |-> "idle", name |-> ""]
NoRow == [id |-> 0, version |-> 0]

SkillsInit ==
  /\ twin \in {"sqlite", "memory"}
  /\ table = <<>> /\ registry = <<>> /\ nextSkill = 0
  /\ owed \in [Authors -> (SUBSET SkillNames) \ {{}}]
  /\ effect = [a \in Authors |-> NoEffect]
  /\ removal = NoRemoval /\ inbox = <<>> /\ unsettled = {}
  /\ stops = [removals |-> 0, faults |-> 0]

-----------------------------------------------------------------------------
Put(f, x, y) == [z \in DOMAIN f \cup {x} |-> IF z = x THEN y ELSE f[z]]
Drop(f, x) == [z \in DOMAIN f \ {x} |-> f[z]]
Named(id) == {n \in DOMAIN table : table[n].id = id}

\* The next rowid of SQLite is one above the greatest in the table: the id of a
\* deleted last row is given out again.  The twin only counts up.
FreshId == IF twin = "memory" THEN nextSkill + 1
           ELSE Max({0} \cup {table[n].id : n \in DOMAIN table}) + 1

\* An operation on n has touched one home and not yet both.
Open(n) ==
  \/ \E a \in Authors : effect[a].name = n /\ effect[a].pc \in {"add", "readBack", "emit"}
  \/ \E i \in DOMAIN inbox : inbox[i].name = n
  \/ removal.pc # "idle" /\ removal.name = n

Begins(n) == unsettled' = IF Open(n) THEN unsettled \cup {n} ELSE unsettled \ {n}
-----------------------------------------------------------------------------
\* The source of a pending skill job fires once per process: the effect reads the
\* authored trees and takes them in the order of their names.
FireStoreSkill(a) ==
  /\ effect[a].pc = "idle" /\ owed[a] # {}
  /\ effect' = [effect EXCEPT ![a] = [NoEffect EXCEPT !.pc = "next", !.rest = owed[a]]]
  /\ UNCHANGED <<twin, table, nextSkill, registry, owed, removal, inbox, unsettled, stops>>

\* The next skill of the run, in a fixed order.
Upcoming(a) == CHOOSE n \in effect[a].rest : TRUE
Storing(a) == effect[a].pc = "next" /\ effect[a].rest # {}

\* AddSkill.  In SQLite: SELECT id, version WHERE name.
LookupSkill(a) ==
  /\ Storing(a) /\ twin = "sqlite"
  /\ LET n   == Upcoming(a)
         row == IF n \in DOMAIN table THEN table[n] ELSE NoRow
     IN /\ effect' = [effect EXCEPT ![a] = [pc |-> "add", rest |-> @.rest \ {n}, name |-> n,
                                            id |-> row.id, version |-> row.version]]
        /\ Begins(n)
  /\ UNCHANGED <<twin, table, nextSkill, registry, owed, removal, inbox, stops>>

\* UPDATE ... WHERE id, whatever row that is by now, and however many there are.
UpdateSkill(a) ==
  /\ effect[a].pc = "add" /\ effect[a].id # 0
  /\ LET hit == Named(effect[a].id)
     IN /\ table' = [n \in DOMAIN table |->
                       IF n \in hit THEN [table[n] EXCEPT !.version = effect[a].version + 1]
                       ELSE table[n]]
        /\ unsettled' = unsettled \cup (hit \ {effect[a].name})
  /\ effect' = [effect EXCEPT ![a] = [@ EXCEPT !.pc = "readBack", !.version = 0]]
  /\ UNCHANGED <<twin, nextSkill, registry, owed, removal, inbox, stops>>

\* INSERT fails when the name has appeared meanwhile (UNIQUE).
InsertSkill(a) ==
  /\ effect[a].pc = "add" /\ effect[a].id = 0
  /\ IF effect[a].name \in DOMAIN table
     THEN effect' = [effect EXCEPT ![a] = Over("failed")] /\ UNCHANGED table
     ELSE /\ table' = Put(table, effect[a].name, [id |-> FreshId, version |-> 1])
          /\ effect' = [effect EXCEPT ![a] = [@ EXCEPT !.pc = "readBack", !.id = FreshId]]
  /\ UNCHANGED <<twin, nextSkill, registry, owed, removal, inbox, unsettled, stops>>

\* MemoryContent.AddSkill, under its mutex.
MemoryAddSkill(a) ==
  /\ Storing(a) /\ twin = "memory"
  /\ LET n    == Upcoming(a)
         old  == n \in DOMAIN table
         row  == [id      |-> IF old THEN table[n].id ELSE FreshId,
                  version |-> IF old THEN table[n].version + 1 ELSE 1]
     IN /\ table' = Put(table, n, row)
        /\ nextSkill' = IF old THEN nextSkill ELSE FreshId
        /\ effect' = [effect EXCEPT ![a] = [pc |-> "readBack", rest |-> @.rest \ {n}, name |-> n,
                                            id |-> row.id, version |-> 0]]
        /\ Begins(n)
  /\ UNCHANGED <<twin, registry, owed, removal, inbox, stops>>

ReadBackSkipped(a) ==
  /\ effect[a].pc = "readBack"
  /\ effect' = [effect EXCEPT ![a] = [@ EXCEPT !.pc = "emit", !.version = 1]]
  /\ UNCHANGED <<twin, table, nextSkill, registry, owed, removal, inbox, unsettled, stops>>

\* SkillByID for the version; that the row is gone is not looked at: version 0.
ReadBack(a) ==
  /\ effect[a].pc = "readBack"
  /\ LET found == {table[n].version : n \in Named(effect[a].id)}
     IN effect' = [effect EXCEPT ![a] =
                     [@ EXCEPT !.pc = "emit",
                               !.version = IF found = {} THEN 0 ELSE CHOOSE v \in found : TRUE]]
  /\ UNCHANGED <<twin, table, nextSkill, registry, owed, removal, inbox, unsettled, stops>>

\* WriteSkills into the workspace, then emit register-skill; the next skill.
EmitRegister(a) ==
  /\ effect[a].pc = "emit"
  /\ inbox' = Append(inbox, [kind |-> "register", name |-> effect[a].name,
                             id |-> effect[a].id, version |-> effect[a].version])
  /\ effect' = [effect EXCEPT ![a] = [NoEffect EXCEPT !.pc = "next", !.rest = effect[a].rest]]
  /\ UNCHANGED <<twin, table, nextSkill, registry, owed, removal, unsettled, stops>>

\* mark-harvested last: until it is logged a restart stores everything again.
EmitHarvested(a) ==
  /\ effect[a].pc = "next" /\ effect[a].rest = {}
  /\ inbox' = Append(inbox, [kind |-> "harvested", name |-> "", id |-> a, version |-> 0])
  /\ effect' = [effect EXCEPT ![a] = Over("done")]
  /\ UNCHANGED <<twin, table, nextSkill, registry, owed, removal, unsettled, stops>>

\* Any call of the effect may fail: the job stays pending and nothing fires it
\* again before a restart.
StoreSkillFails(a) ==
  /\ effect[a].pc \notin {"idle", "done", "failed"} /\ stops.faults < MaxStops
  /\ stops' = [stops EXCEPT !.faults = @ + 1]
  /\ unsettled' = unsettled \cup (IF effect[a].pc \in {"add", "readBack", "emit"}
                                 THEN {effect[a].name} ELSE {})
  /\ effect' = [effect EXCEPT ![a] = Over("failed")]
  /\ UNCHANGED <<twin, table, nextSkill, registry, owed, removal, inbox>>
-----------------------------------------------------------------------------
\* deleteSkill: the row first; if that fails the request fails and nothing is sent.
DeleteAfterUnregister(n) ==
  /\ removal.pc = "idle" /\ stops.removals < MaxRemovals
  /\ stops' = [stops EXCEPT !.removals = @ + 1]
  /\ Begins(n)
  /\ removal' = [pc |-> "deleted", name |-> n]
  /\ UNCHANGED <<twin, nextSkill, registry, owed, effect, inbox, table>>

DeleteSkill(n) ==
  /\ removal.pc = "idle" /\ stops.removals < MaxRemovals
  /\ stops' = [stops EXCEPT !.removals = @ + 1]
  /\ \/ /\ Begins(n)
        /\ table' = Drop(table, n)
        /\ removal' = [pc |-> "deleted", name |-> n]
     \/ UNCHANGED <<table, unsettled, removal>>
  /\ UNCHANGED <<twin, nextSkill, registry, owed, effect, inbox>>

\* Send waits until the message is applied.
SendUnregister ==
  /\ removal.pc = "deleted"
  /\ inbox' = Append(inbox, [kind |-> "unregister", name |-> removal.name, id |-> 0, version |-> 0])
  /\ removal' = [removal EXCEPT !.pc = "sent"]
  /\ UNCHANGED <<twin, table, nextSkill, registry, owed, effect, unsettled, stops>>

\* handleRegisterSkill replaces the entry of that name; handleUnregisterSkill drops
\* it; mark-harvested clears the job.
Apply ==
  /\ inbox # <<>>
  /\ inbox' = Tail(inbox)
  /\ LET m == Head(inbox)
     IN /\ registry' = CASE m.kind = "register" ->
                              Put(registry, m.name, [id |-> m.id, version |-> m.version])
                         [] m.kind = "unregister" -> Drop(registry, m.name)
                         [] OTHER -> registry
        /\ owed' = IF m.kind = "harvested" THEN [owed EXCEPT ![m.id] = {}] ELSE owed
        /\ removal' = IF m.kind = "unregister" THEN NoRemoval ELSE removal
  /\ UNCHANGED <<twin, table, nextSkill, effect, unsettled, stops>>

\* The process dies: the table and the logged model remain.
SkillsCrash ==
  /\ stops.faults < MaxStops
  /\ stops' = [stops EXCEPT !.faults = @ + 1]
  /\ unsettled' = unsettled \cup {n \in SkillNames : Open(n)}
  /\ effect' = [a \in Authors |-> NoEffect]
  /\ removal' = NoRemoval /\ inbox' = <<>>
  /\ UNCHANGED <<twin, table, nextSkill, registry, owed>>

SkillsNext ==
  \/ \E a \in Authors : \/ FireStoreSkill(a) \/ LookupSkill(a) \/ UpdateSkill(a)
                        \/ InsertSkill(a) \/ MemoryAddSkill(a) \/ ReadBack(a) \/ EmitRegister(a)
                        \/ EmitHarvested(a) \/ StoreSkillFails(a)
  \/ \E n \in SkillNames : DeleteSkill(n)
  \/ SendUnregister \/ Apply \/ SkillsCrash

SkillsSpec == SkillsInit /\ [][SkillsNext]_skillVars
-----------------------------------------------------------------------------
\* The two homes agree (command_store_skill.go:113, "so the registry entry matches
\* the table"): once everything under way is through, a skill has an entry exactly
\* if it has a row, with the row's id and version.  That is so of every name whose
\* last operation ran to its end and met no other; a crash's leftovers are made good
\* by the store-skill that is fired again, or by pressing Remove again.
SkillHomesAgree ==
  \A n \in SkillNames \ unsettled : ~Open(n) =>
    /\ n \in DOMAIN registry <=> n \in DOMAIN table
    /\ n \in DOMAIN table => registry[n] = table[n]
=============================================================================
