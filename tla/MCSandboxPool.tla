--------------------------- MODULE MCSandboxPool ---------------------------
(***************************************************************************)
(* SandboxPool for TLC: versions that all differ in size, or that all have *)
(* the same.                                                               *)
(***************************************************************************)
EXTENDS SandboxPool

Grows == [v \in Versions |-> v]
Equal == [v \in Versions |-> 1]
=============================================================================
