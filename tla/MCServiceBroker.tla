--------------------------- MODULE MCServiceBroker ---------------------------
(***************************************************************************)
(* ServiceBroker and its properties for TLC.                               *)
(***************************************************************************)
EXTENDS ServiceBrokerProperties, TLC

Symmetry == Permutations(Requests) \cup Permutations(Pollers)
=============================================================================
