------------------------------ MODULE MCRuntime ------------------------------
(***************************************************************************)
(* Runtime with a small application that has one of everything the real    *)
(* modules have: an edge message whose handler sends another message       *)
(* (route-email, create-task), an effect without a report (lay-in), a      *)
(* long-lived source that reports an event (agent-watch), a one-shot Await *)
(* source that drives an effect which reports back (outbox-reconcile,      *)
(* send-email), and a tag no module handles.                               *)
(***************************************************************************)
EXTENDS Runtime

MCMsg == {"route-email", "create-task", "finish-agent-run", "send-outbox",
          "mark-email-sent", "unknown"}
MCHandled == MCMsg \ {"unknown"}
MCState == {"none", "working", "queued", "sent"}

MCStep(s, m) ==
  CASE m = "create-task" /\ s = "none" -> "working"
    [] m = "finish-agent-run" /\ s = "working" -> "queued"
    [] m = "mark-email-sent" /\ s = "queued" -> "sent"
    [] OTHER -> s

MCCmds(s, m) ==
  CASE m = "route-email" /\ s = "none" -> <<[kind |-> "send", arg |-> "create-task"]>>
    [] m = "create-task" /\ s = "none" ->
         <<[kind |-> "effect", arg |-> "lay-in"], [kind |-> "effect", arg |-> "lay-in"]>>
    [] m = "send-outbox" /\ s = "queued" -> <<[kind |-> "effect", arg |-> "send-email"]>>
    [] OTHER -> <<>>

MCEffect == {"lay-in", "send-email"}
MCSource == {"agent-watch", "outbox-reconcile"}
MCDesired(s) == CASE s = "working" -> {"agent-watch"}
                  [] s = "queued" -> {"outbox-reconcile"}
                  [] OTHER -> {}
MCPrompt(i) == IF i = "agent-watch" THEN "finish-agent-run" ELSE "send-outbox"
MCReports(e) == IF e = "send-email" THEN <<"mark-email-sent">> ELSE <<>>
MCExternal == {"route-email", "unknown"}
MCAwait == {"outbox-reconcile"}

\* Two edges at once while nobody dies, one edge when a process may: the second
\* edge sends only in a process that is never to die.
MCCallers == {"edge", "other edge"}
MCBound ==
  /\ caller'["other edge"] # "idle" => crashes' = 0
  /\ crashes' > crashes => caller["other edge"] = "idle"
MCSpec == Init /\ [][Next /\ MCBound]_vars /\ Fairness
==============================================================================
