---------------------------- MODULE MCRequestWire ----------------------------
EXTENDS RequestWire, TLC

\* The ids of the calls are interchangeable.
Symmetry == Permutations(Calls)
=============================================================================
