------------------------------- MODULE MCApps -------------------------------
(***************************************************************************)
(* Apps with two names competing for a band of two ports, so that the band *)
(* fills up, a port is given back, and a name comes and goes.              *)
(***************************************************************************)
EXTENDS Apps

MCNames == {"balance", "notes"}
MCOne == {"balance"}
=============================================================================
