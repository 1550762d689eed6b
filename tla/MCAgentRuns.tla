----------------------------- MODULE MCAgentRuns -----------------------------
(***************************************************************************)
(* AgentRuns with two tasks and a cap of one, so that runs queue behind    *)
(* one another and a task is resumed.  The operator may lift the cap.      *)
(***************************************************************************)
EXTENDS AgentRuns

MCTasks == {1, 2}
MCLifted == {0}
=============================================================================
