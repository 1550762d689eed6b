------------------------------ MODULE MCInbound ------------------------------
(***************************************************************************)
(* Inbound with the owner, who may open tasks, a guest who may only take   *)
(* part in those the owner puts him on, and kasi's own mail coming back.   *)
(***************************************************************************)
EXTENDS Inbound

From(who, others) == [from |-> who, cc |-> others]
MCEnvelopes == {From("owner", {"guest"}), From("guest", {}), From(Self, {})}
=============================================================================
