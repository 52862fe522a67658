--------------------------- MODULE MCSessionTurn ---------------------------
(***************************************************************************)
(* SessionTurn for TLC.  Workers and messages are interchangeable in the   *)
(* runs that check no liveness property.                                   *)
(***************************************************************************)
EXTENDS SessionTurn, TLC

Symmetry == Permutations(Workers) \cup Permutations(Inbound)
=============================================================================
