------------------------------ MODULE MCOutside ------------------------------
(***************************************************************************)
(* What kasi keeps beside its log, or reads from outside: the workspaces,  *)
(* the skill table, the vault, the content store, the mailboxes it polls   *)
(* and the cassettes of its tests.  The components share no variable and   *)
(* no step, so one run checks them side by side: each behaviour is one of  *)
(* one component, part, and the others stay where they started.            *)
(***************************************************************************)
EXTENDS Workspace, Skills, Codex, ContentStore, Mailbox, Cassettes, TLC

VARIABLE part

outsideVars == <<part, workspaceVars, skillVars, codexVars, storeVars, mailboxVars, tapeVars>>

Attachments == (1 :> "a.pdf" @@ 2 :> "b.pdf")
MCMailKeys == {<<>>, <<"m">>}
MCFileKeys == {<<1, "f">>, <<2, "f">>}

\* The components that are not the part stay at one initial state each, and one of
\* the two authors has a single skill, always the same (a bound).
OutsideInit ==
  /\ part \in {"workspace", "skills", "codex", "store", "mailbox", "rings"}
  /\ WorkspaceInit /\ SkillsInit /\ CodexInit /\ StoreInit /\ MailboxInit /\ TapeInit
  /\ part = "skills" => owed[CHOOSE a \in Authors : TRUE] = {CHOOSE n \in SkillNames : TRUE}
  /\ part # "skills" => twin = "memory" /\ owed = [a \in Authors |-> SkillNames]
  /\ part # "store" => old = {}
  /\ part # "mailbox" => protocol = "jmap"
  /\ part # "rings" => ring = "sim" /\ ~noted /\ ~earlier

OutsideNext ==
  /\ UNCHANGED part
  /\ \/ /\ part = "workspace" /\ WorkspaceNext
        /\ UNCHANGED <<skillVars, codexVars, storeVars, mailboxVars, tapeVars>>
     \/ /\ part = "skills" /\ SkillsNext
        /\ UNCHANGED <<workspaceVars, codexVars, storeVars, mailboxVars, tapeVars>>
     \/ /\ part = "codex" /\ CodexNext
        /\ UNCHANGED <<workspaceVars, skillVars, storeVars, mailboxVars, tapeVars>>
     \/ /\ part = "store" /\ StoreNext
        /\ UNCHANGED <<workspaceVars, skillVars, codexVars, mailboxVars, tapeVars>>
     \/ /\ part = "mailbox" /\ MailboxNext
        /\ UNCHANGED <<workspaceVars, skillVars, codexVars, storeVars, tapeVars>>
     \/ /\ part = "rings" /\ TapeNext
        /\ UNCHANGED <<workspaceVars, skillVars, codexVars, storeVars, mailboxVars>>

OutsideSpec == OutsideInit /\ [][OutsideNext]_outsideVars
=============================================================================
