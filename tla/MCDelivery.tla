----------------------------- MODULE MCDelivery -----------------------------
(***************************************************************************)
(* Delivery for TLC: two bots of one owner in one group, the first not     *)
(* paired yet, one agent bound to each and the second to every bot; two    *)
(* direct messages with one id, the second an edit, and the pairing code.  *)
(***************************************************************************)
EXTENDS Delivery, TLC

CONSTANTS b1, b2, a1, a2, dm, edit, code, hello, p1, p2

OwnThenAny == << [agent |-> a1, bot |-> b1], [agent |-> a2, bot |-> b2],
                 [agent |-> a2, bot |-> AnyBot] >>
Recipients == dm :> b2 @@ edit :> b2 @@ code :> b1
SharedIds  == dm :> 1 @@ edit :> 1 @@ code :> 2
OneEach    == b1 :> {p1} @@ b2 :> {p2}
NoRepeats  == [m \in Posts |-> 0]

\* The group post is a person's or the first bot's, and mentions the second bot.
MCInit == Init /\ writer[hello] \in {Person, b1} /\ named[hello] = {b2}
MCSpec == MCInit /\ [][Next]_vars /\ Fairness
=============================================================================
