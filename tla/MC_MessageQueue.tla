-------------------------- MODULE MC_MessageQueue --------------------------
(***************************************************************************)
(* MessageQueue for TLC: two consumers share a queue of two.               *)
(***************************************************************************)
EXTENDS MessageQueue

CONSTANTS c1, c2

MCConsumers == {c1, c2}

=============================================================================
