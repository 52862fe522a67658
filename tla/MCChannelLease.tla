--------------------------- MODULE MCChannelLease ---------------------------
(***************************************************************************)
(* ChannelLease for TLC: the timing constants in ticks of 2.5 s (30 s,     *)
(* 10 s, 10 s), two replicas, and either a runner each or two in the       *)
(* first, as after a second registerAndStart of one account.               *)
(***************************************************************************)
EXTENDS ChannelLease, TLC

CONSTANTS g1, g2, g3, p1, p2

OneEach  == g1 :> p1 @@ g2 :> p2
Reloaded == g1 :> p1 @@ g3 :> p1 @@ g2 :> p2
=============================================================================
