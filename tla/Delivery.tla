------------------------------ MODULE Delivery ------------------------------
(***************************************************************************)
(* What delivery promises about the reply of each agent run (docs/03,      *)
(* decision-013): once owed it is queued, once queued it is handed to the  *)
(* provider, perhaps more than once and under more than one Message-ID,    *)
(* and only then marked sent, after which it is never handed over again.   *)
(* No stage is skipped, left backwards or forgotten; crashes and re-driven *)
(* effects do not show.                                                    *)
(***************************************************************************)
EXTENDS Naturals

CONSTANTS Run, Copy  \* Copy: what tells the Message-IDs of one reply apart

VARIABLES stage,    \* each run's reply: none, owed, queued or sent
          accepted  \* how often the provider has accepted each copy of it

vars == <<stage, accepted>>

Init == /\ stage = [r \in Run |-> "none"]
        /\ accepted = [r \in Run |-> [c \in Copy |-> 0]]

Moves(r, from, to) == stage[r] = from /\ stage' = [stage EXCEPT ![r] = to]

Owe(r) == Moves(r, "none", "owed") /\ UNCHANGED accepted
Queue(r) == Moves(r, "owed", "queued") /\ UNCHANGED accepted
Accept(r, c) == /\ stage[r] = "queued"
                /\ accepted' = [accepted EXCEPT ![r][c] = @ + 1]
                /\ UNCHANGED stage
MarkSent(r) == /\ \E c \in Copy : accepted[r][c] > 0
               /\ Moves(r, "queued", "sent")
               /\ UNCHANGED accepted

Next == \E r \in Run :
          Owe(r) \/ Queue(r) \/ (\E c \in Copy : Accept(r, c)) \/ MarkSent(r)

Spec == Init /\ [][Next]_vars
=============================================================================
