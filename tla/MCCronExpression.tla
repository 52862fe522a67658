-------------------------- MODULE MCCronExpression --------------------------
(***************************************************************************)
(* CronExpression for TLC: hours of 4 minutes, days of 3 hours, months of  *)
(* 5 days, years of 2 months, weeks of 4 days; every expression built from *)
(* a few fields of each kind.                                              *)
(***************************************************************************)
EXTENDS CronExpression

SmallCalendar == <<4, 3, 5, 2, 4>>

\* None, within the minute, beyond it, beyond the hour and beyond the two days.
AnyLateness == {0, 1, 3, 10, 50}

Any    == [op |-> "any", n |-> 0]
At(v)  == [op |-> "number", n |-> v]
Each(v) == [op |-> "step", n |-> v]
Span   == [op |-> "other", n |-> 0]

Dates  == {<<Any, Any, Any>>, <<At(2), Any, Any>>, <<Each(2), Any, Any>>, <<At(5), At(2), Any>>,
           <<Any, Any, At(1)>>, <<Any, Any, Each(3)>>, <<Any, Any, Span>>}
Times  == {Any, At(0), At(2), Each(2), Each(3), Span}
Everything == {<<m, h, d[1], d[2], d[3]>> : m \in Times, h \in Times, d \in Dates}
Weekly == {<<At(0), At(2), Any, Any, At(1)>>}
=============================================================================
