---------------------------- MODULE MCTaskQueue ----------------------------
(* Small instances of TaskQueue for TLC.                                   *)
EXTENDS TaskQueue
CONSTANTS c1, c2, c3, gw
TwoChats   == {c1, c2}
ThreeChats == {c1, c2, c3}
=============================================================================
