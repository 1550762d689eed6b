----------------------------- MODULE MCHarvest -----------------------------
(***************************************************************************)
(* Harvest on small tasks.  Every kind of work is owed by some outcome,    *)
(* and each outcome below is one the harness reports: a crashed run, a     *)
(* plain reply, a request with a reply beside it, a run that only learns   *)
(* and drops a note, one that leaves everything behind.                    *)
(***************************************************************************)
EXTENDS Harvest

Ended(ok, has, drops) == [ok |-> ok, has |-> has, drops |-> drops]

Failed == Ended(FALSE, {"reply"}, {})
Replied == Ended(TRUE, {"reply"}, {})
Silent == Ended(TRUE, {}, {})
Asked == Ended(TRUE, {"request"}, {})
AskedAndReplied == Ended(TRUE, {"request", "reply"}, {})
Taught == Ended(TRUE, {"reply", "skill", "note"}, {})
Dropped == Ended(TRUE, {"note"}, {"name"})

MCNotes == {"name"}
Planned(followed, outcomes, finishes, deaths, failures) ==
  [followed |-> followed, outcomes |-> outcomes, finishes |-> finishes,
   crashes |-> deaths, faults |-> failures]

Replies ==
  Planned({"reply", "request"}, {Failed, Replied, Asked, AskedAndReplied}, 0,
          2, 1)
Learning ==
  Planned({"transcript", "memory", "skill"}, {Failed, Silent, Taught, Dropped}, 1, 1, 0)

MCTurns == {Replies, Learning}
MCMail == {Replies}
MCFinished == {Planned({"reply"}, {Replied}, 1, 0, 0)}
MCTranscript == {Planned({"transcript"}, {Silent}, 1, 0, 0)}
MCUndisturbed == {Planned({"reply", "request"}, {Replied}, 0, 0, 0)}
============================================================================
