--------------------------- MODULE GoalLoopProofs ---------------------------
(***************************************************************************)
(* Theorems about GoalLoop: its types with the turn counter, the budget of *)
(* a goal, and writes after a clear.                                       *)
(***************************************************************************)
EXTENDS GoalLoop, SequenceTheorems, TLAPS

Words == Commands \cup Turns

\* The queues hold messages; the row and its copies are goals, their numbers
\* those of the inserts.
Typed ==
  /\ goal \in Goals \cup {NoGoal} /\ made \in 0 .. MaxGoals
  /\ copy \in [Actors -> Goals \cup {NoGoal}]
  /\ bus \in Seq(Words) /\ queue \in Seq(Words) /\ steer \in Seq(Words)
  /\ pc \in [Actors -> Places] /\ msg \in [Actors -> Words]
  /\ round \in [Actors -> 0 .. MaxRounds] /\ sent \in 0 .. MaxSent

\* Goroutine a is between BeginTurn and the EndTurn of its flush.
InTurn(a) ==
  \/ pc[a] \in {"plan", "call", "bill", "wrap", "reply", "tools", "markdone", "end"}
  \/ pc[a] \in {"post", "fire"} /\ msg[a] \notin Commands

\* The shape of goroutine a: a turn that may call the model has a round left, a
\* turn starts at round zero, and a command has places of its own.
Shaped(a) ==
  /\ pc[a] \in {"call", "bill", "wrap", "reply", "tools", "markdone"} => round[a] < MaxRounds
  /\ ~InTurn(a) => round[a] = 0
  /\ pc[a] \in {"start", "probe", "plan", "call", "bill", "wrap", "reply", "tools", "markdone", "end"}
       => msg[a] \notin Commands
  /\ pc[a] \in {"insert", "check", "flip", "erase", "erased"} => msg[a] \in Commands

Tally(a) == IF InTurn(a) THEN 1 ELSE 0

\* s.turnDepth counts the turns that run.
Counted == depth = Tally("queue") + Tally("web")

IInv == Typed /\ (\A a \in Actors : Shaped(a)) /\ Counted

-----------------------------------------------------------------------------
(* The row and its copies.                                                 *)

\* A goal with another status is a goal.
LEMMA Restated ==
  ASSUME NEW g \in Goals, NEW s \in Statuses
  PROVE  /\ [g EXCEPT !.status = s] \in Goals
         /\ [g EXCEPT !.status = s].status = s
         /\ [g EXCEPT !.status = s].used = g.used
         /\ [g EXCEPT !.status = s].id = g.id
  BY DEF Goals

\* A goal billed for tokens is a goal.
LEMMA Billed ==
  ASSUME NEW g \in Goals, NEW n \in Nat, NEW s \in Statuses
  PROVE  [g EXCEPT !.used = n, !.status = s] \in Goals
  BY DEF Goals

\* The row with no goal has a status no goal has.
LEMMA NotNoGoal ==
  ASSUME NEW g \in Goals \cup {NoGoal}, g.status \in Statuses
  PROVE  g \in Goals
  BY DEF NoGoal, Statuses

\* An update leaves a row, the old one or the writer's copy.
LEMMA Updated ==
  ASSUME NEW g \in Goals \cup {NoGoal}, goal \in Goals \cup {NoGoal}, UpdateGoal(g)
  PROVE  goal' \in Goals \cup {NoGoal} /\ (goal' = goal \/ goal' = g)
  BY DEF UpdateGoal

-----------------------------------------------------------------------------
(* Types.                                                                  *)

\* What a command or a message leaves of the queues.
LEMMA Queues ==
  ASSUME NEW q \in Seq(Words)
  PROVE  /\ \A m \in Words : Append(q, m) \in Seq(Words)
         /\ q # <<>> => Head(q) \in Words /\ Tail(q) \in Seq(Words)
         /\ <<>> \in Seq(Words)
  BY HeadTailProperties, AppendProperties, EmptySeq

\* Messages come, and are routed and taken.
LEMMA TypedArrivals ==
  ASSUME Typed,
         \/ \E m \in Commands \cup {"text", "plan", "cron"} : Send(m)
         \/ \E m \in Commands \cup {"text", "plan"} : Post(m)
         \/ Route \/ TakeTask
  PROVE  Typed'
<1> USE DEF Typed
<1>1. ASSUME NEW m \in Commands \cup {"text", "plan", "cron"}, Send(m) PROVE Typed'
  <2>1. m \in Words
    BY DEF Words, Turns
  <2>2. bus' \in Seq(Words)
    BY <1>1, <2>1, Queues DEF Send
  <2>3. sent' \in 0 .. MaxSent
    BY <1>1, GoalAssumption DEF Send
  <2> QED
    BY <1>1, <2>2, <2>3 DEF Send
<1>2. ASSUME NEW a \in Actors, NEW m \in Words, Handle(a, m)
      PROVE  pc' \in [Actors -> Places] /\ msg' \in [Actors -> Words]
  BY <1>2 DEF Handle, Go, Entry, Places
<1>3. ASSUME NEW m \in Commands \cup {"text", "plan"}, Post(m) PROVE Typed'
  <2>1. m \in Words
    BY DEF Words, Turns
  <2>2. pc' \in [Actors -> Places] /\ msg' \in [Actors -> Words]
    BY <1>2, <1>3, <2>1 DEF Post, Actors
  <2>3. sent' \in 0 .. MaxSent
    BY <1>3, GoalAssumption DEF Post
  <2> QED
    BY <1>3, <2>2, <2>3 DEF Post
<1>4. ASSUME Route PROVE Typed'
  <2>1. bus # <<>> /\ Head(bus) \in Words /\ Tail(bus) \in Seq(Words)
    BY <1>4, Queues DEF Route
  <2>2. Append(queue, Head(bus)) \in Seq(Words) /\ Append(steer, Head(bus)) \in Seq(Words)
    BY <2>1, Queues
  <2> QED
    BY <1>4, <2>1, <2>2 DEF Route
<1>5. ASSUME TakeTask PROVE Typed'
  <2>1. Head(queue) \in Words /\ queue' \in Seq(Words)
    BY <1>5, Queues DEF TakeTask, Words
  <2>2. pc' \in [Actors -> Places] /\ msg' \in [Actors -> Words]
    BY <1>2, <1>5, <2>1 DEF TakeTask, Actors
  <2> QED
    BY <1>5, <2>1, <2>2 DEF TakeTask
<1> QED
  BY <1>1, <1>3, <1>4, <1>5

\* A command keeps the types.
LEMMA TypedCommands ==
  ASSUME Typed, NEW a \in Actors, Insert(a) \/ Check(a) \/ Flip(a) \/ Erase(a) \/ Erased(a)
  PROVE  Typed'
<1> USE DEF Typed
<1>0. NoGoal \in Goals \cup {NoGoal} /\ goal \in Goals \cup {NoGoal}
         /\ copy[a] \in Goals \cup {NoGoal}
  OBVIOUS
<1>1. CASE Insert(a)
  <2>1. goal' \in Goals \cup {NoGoal} /\ made' \in 0 .. MaxGoals
    BY <1>1, GoalAssumption DEF Insert, Goals, Statuses
  <2> QED
    BY <1>1, <2>1 DEF Insert, Go, Places, Same, Rest, turns
<1>2. CASE Check(a)
  <2>0. PICK g \in Seen :
           LET s == IF msg[a] = "pause" THEN "paused" ELSE "active"
           IN  IF g.status \in {"active", "paused"} /\ g.status # s
               THEN copy' = [copy EXCEPT ![a] = [g EXCEPT !.status = s]] /\ Go(a, "flip")
               ELSE Go(a, "idle") /\ UNCHANGED copy
    BY <1>2 DEF Check
  <2>1. ASSUME g.status \in {"active", "paused"}, NEW s \in {"active", "paused"}
        PROVE  [g EXCEPT !.status = s] \in Goals
    <3>1. g \in Goals
      BY <2>1, NotNoGoal DEF Seen, NoGoal, Statuses
    <3> QED
      BY <3>1, Restated DEF Statuses
  <2>2. copy' \in [Actors -> Goals \cup {NoGoal}]
    <3> DEFINE s == IF msg[a] = "pause" THEN "paused" ELSE "active"
    <3>1. CASE copy' = copy
      BY <3>1
    <3>2. CASE /\ g.status \in {"active", "paused"}
               /\ copy' = [copy EXCEPT ![a] = [g EXCEPT !.status = s]]
      <4>1. [g EXCEPT !.status = s] \in Goals
        BY <2>1, <3>2
      <4> HIDE DEF s
      <4> QED
        BY <3>2, <4>1
    <3> QED
      BY <2>0, <3>1, <3>2
  <2> QED
    BY <1>2, <2>2 DEF Check, Go, Places, Same, Rest, turns
<1>3. CASE Flip(a)
  <2>1. goal' \in Goals \cup {NoGoal}
    BY <1>0, <1>3, Updated DEF Flip, StoreFails, Unanswered
  <2>2. copy' \in [Actors -> Goals \cup {NoGoal}] /\ pc' \in [Actors -> Places]
    BY <1>0, <1>3 DEF Flip, Forget, Go, Places
  <2> QED
    BY <1>3, <2>1, <2>2 DEF Flip, Same, Rest, turns
<1>4. CASE Erase(a)
  BY <1>4 DEF Erase, Read, Go, Places, Same, Rest, turns
<1>5. CASE Erased(a)
  <2>1. goal' \in Goals \cup {NoGoal}
    BY <1>5 DEF Erased, DeleteGoal, StoreFails
  <2>2. copy' \in [Actors -> Goals \cup {NoGoal}] /\ pc' \in [Actors -> Places]
    BY <1>0, <1>5 DEF Erased, Forget, Go, Places
  <2> QED
    BY <1>5, <2>1, <2>2 DEF Erased, Same, Rest, turns
<1> QED
  BY <1>1, <1>2, <1>3, <1>4, <1>5

\* What Publish leaves of the bus.
LEMMA Published ==
  ASSUME bus \in Seq(Words), NEW m \in Words, Publish(m)
  PROVE  bus' \in Seq(Words)
  BY Queues DEF Publish

\* The next round is a round.
LEMMA Rounds ==
  ASSUME Typed, NEW a \in Actors, round[a] < MaxRounds, NextRound(a)
  PROVE  /\ round' = [round EXCEPT ![a] = round[a] + 1]
         /\ round' \in [Actors -> 0 .. MaxRounds]
         /\ pc' \in [Actors -> Places]
  BY GoalAssumption DEF Typed, NextRound, Go, Places

\* A step of a turn keeps the types.
LEMMA TypedTurn ==
  ASSUME Typed, NEW a \in Actors, Shaped(a),
         \/ Probe(a) \/ Begin(a) \/ Refuse(a) \/ Plan(a) \/ Call(a) \/ CallFails(a)
         \/ Bill(a) \/ Wrap(a) \/ Reply(a) \/ Tools(a) \/ MarkDone(a)
         \/ TryFire(a) \/ Fire(a) \/ End(a)
  PROVE  Typed'
<1> USE DEF Typed
<1>0. copy[a] \in Goals \cup {NoGoal} /\ "text" \in Words /\ "wrapup" \in Words
         /\ "continue" \in Words /\ <<>> \in Seq(Words)
  BY Queues DEF Words, Turns
<1>1. CASE Probe(a)
  BY <1>0, <1>1 DEF Probe, Go, Places, turns
<1>2. CASE Begin(a)
  BY <1>2 DEF Begin, Go, Places, Same, Rest
<1>3. CASE Refuse(a)
  BY <1>3 DEF Refuse, Go, Places, Same, Rest, turns
<1>4. CASE Plan(a)
  BY <1>4 DEF Plan, Go, Places, Same, Rest, turns
<1>5. CASE Call(a)
  <2>1. PICK tokens \in 0 .. Cost :
          IF tokens > 0 /\ Active(goal)
          THEN LET used == goal.used + tokens
               IN  /\ copy' = [copy EXCEPT ![a] =
                        [goal EXCEPT !.used = used,
                                     !.status = IF used >= Budget THEN "budget_limited" ELSE @]]
                   /\ Go(a, "bill")
          ELSE Go(a, "reply") /\ UNCHANGED copy
    BY <1>5 DEF Call
  <2>2. CASE tokens > 0 /\ Active(goal)
    <3>1. goal \in Goals /\ goal.used \in Nat
      BY <2>2, NotNoGoal DEF Active, Statuses, Goals
    <3>2. tokens \in Nat
      BY GoalAssumption
    <3> DEFINE n == goal.used + tokens
               s == IF n >= Budget THEN "budget_limited" ELSE goal.status
    <3>3. n \in Nat /\ s \in Statuses
      BY <2>2, <3>1, <3>2 DEF Statuses, Active
    <3>4. copy' = [copy EXCEPT ![a] = [goal EXCEPT !.used = n, !.status = s]]
      BY <2>1, <2>2, <3>1 DEF Goals
    <3> HIDE DEF n, s
    <3>5. [goal EXCEPT !.used = n, !.status = s] \in Goals
      BY <3>1, <3>3, Billed
    <3>6. copy' \in [Actors -> Goals \cup {NoGoal}]
      BY <3>4, <3>5
    <3> QED
      BY <1>5, <2>1, <2>2, <3>6 DEF Call, Go, Places, Same, Rest, turns
  <2>3. CASE ~(tokens > 0 /\ Active(goal))
    BY <1>5, <2>1, <2>3 DEF Call, Go, Places, Same, Rest, turns
  <2> QED
    BY <2>2, <2>3
<1>6. CASE CallFails(a)
  BY <1>6 DEF CallFails, Go, Places, Same, Rest, turns
<1>7. CASE Bill(a)
  <2>1. goal' \in Goals \cup {NoGoal}
    BY <1>0, <1>7, Updated DEF Bill, StoreFails, Unanswered
  <2>2. copy' \in [Actors -> Goals \cup {NoGoal}] /\ pc' \in [Actors -> Places]
    BY <1>7 DEF Bill, Forget, Go, Places
  <2> QED
    BY <1>7, <2>1, <2>2 DEF Bill, Same, Rest, turns
<1>8. CASE Wrap(a)
  <2>1. bus' \in Seq(Words)
    BY <1>0, <1>8, Published DEF Wrap
  <2> QED
    BY <1>8, <2>1 DEF Wrap, Go, Places, Same, Rest, turns
<1>9. CASE Reply(a)
  <2>1. round[a] < MaxRounds
    BY <1>9 DEF Reply, Shaped
  <2>2. /\ steer' \in Seq(Words) /\ pc' \in [Actors -> Places]
        /\ round' \in [Actors -> 0 .. MaxRounds]
    <3>1. CASE steer # <<>> /\ steer' = <<>> /\ NextRound(a)
      BY <1>0, <2>1, <3>1, Rounds
    <3>2. CASE (Go(a, "tools") \/ Go(a, "post")) /\ UNCHANGED <<steer, round>>
      BY <3>2 DEF Go, Places
    <3> QED
      BY <1>9, <3>1, <3>2 DEF Reply
  <2> QED
    BY <1>9, <2>2 DEF Reply, Rest
<1>10. CASE Tools(a)
  <2>1. round[a] < MaxRounds
    BY <1>10 DEF Tools, Shaped
  <2>2. CASE steer' = <<>> /\ NextRound(a) /\ UNCHANGED copy
    <3>1. round' \in [Actors -> 0 .. MaxRounds] /\ pc' \in [Actors -> Places]
      BY <2>1, <2>2, Rounds
    <3> QED
      BY <1>0, <1>10, <2>2, <3>1 DEF Tools, Rest
  <2>3. CASE /\ Active(goal)
             /\ copy' = [copy EXCEPT ![a] = [goal EXCEPT !.status = "complete"]]
             /\ Go(a, "markdone") /\ UNCHANGED <<steer, round>>
    <3>1. [goal EXCEPT !.status = "complete"] \in Goals
      BY <2>3, NotNoGoal, Restated DEF Active, Statuses
    <3>2. copy' \in [Actors -> Goals \cup {NoGoal}]
      BY <2>3, <3>1
    <3> QED
      BY <1>10, <2>3, <3>2 DEF Tools, Rest, Go, Places
  <2>4. CASE Go(a, "post") /\ UNCHANGED <<steer, round, copy>>
    BY <1>10, <2>4 DEF Tools, Rest, Go, Places
  <2> QED
    BY <1>10, <2>2, <2>3, <2>4 DEF Tools
<1>11. CASE MarkDone(a)
  <2>1. round' \in [Actors -> 0 .. MaxRounds] /\ pc' \in [Actors -> Places]
    BY <1>11, Rounds DEF MarkDone, Shaped
  <2>2. goal' \in Goals \cup {NoGoal}
    BY <1>0, <1>11, Updated DEF MarkDone, StoreFails
  <2>3. copy' \in [Actors -> Goals \cup {NoGoal}]
    BY <1>11 DEF MarkDone, Forget
  <2> QED
    BY <1>0, <1>11, <2>1, <2>2, <2>3 DEF MarkDone, Rest
<1>12. CASE TryFire(a)
  BY <1>12 DEF TryFire, After, Go, Places, Same, Rest, turns
<1>13. CASE Fire(a)
  <2>1. bus' \in Seq(Words)
    BY <1>0, <1>13, Published DEF Fire
  <2> QED
    BY <1>13, <2>1 DEF Fire, After, Go, Places, Same, Rest, turns
<1>14. CASE End(a)
  <2>1. steer' \in Seq(Words) /\ round' \in [Actors -> 0 .. MaxRounds]
    BY <1>0, <1>14, GoalAssumption DEF End
  <2> QED
    BY <1>14, <2>1 DEF End, Go, Places, Rest
<1> QED
  BY <1>1, <1>2, <1>3, <1>4, <1>5, <1>6, <1>7, <1>8, <1>9, <1>10, <1>11, <1>12, <1>13, <1>14

-----------------------------------------------------------------------------
(* The turns and their counter.                                            *)

\* Only goroutine a moves.
Alone(a) ==
  /\ pc'    = [pc EXCEPT ![a] = pc'[a]]
  /\ msg'   = [msg EXCEPT ![a] = msg'[a]]
  /\ round' = [round EXCEPT ![a] = round'[a]]

\* It is enough to look at the goroutine that moves.
LEMMA OneMoves ==
  ASSUME IInv, NEW a \in Actors, Alone(a), Shaped(a)',
         depth' = depth + Tally(a)' - Tally(a)
  PROVE  (\A b \in Actors : Shaped(b))' /\ Counted'
<1>1. ASSUME NEW b \in Actors, b # a
      PROVE  pc'[b] = pc[b] /\ msg'[b] = msg[b] /\ round'[b] = round[b]
  BY <1>1 DEF IInv, Typed, Alone
<1>2. ASSUME NEW b \in Actors, b # a PROVE Shaped(b)' /\ Tally(b)' = Tally(b)
  BY <1>1, <1>2 DEF IInv, Shaped, Tally, InTurn
<1>3. \A b \in Actors : Shaped(b)'
  BY <1>2
<1>4. Tally("queue") \in Nat /\ Tally("web") \in Nat
         /\ Tally("queue")' \in Nat /\ Tally("web")' \in Nat
  BY DEF Tally
<1>5. Counted'
  BY <1>2, <1>4 DEF Actors, Counted, IInv
<1> QED
  BY <1>3, <1>5

\* What a step leaves of the shape of its goroutine.
LEMMA ShapedStep ==
  ASSUME IInv, NEW a \in Actors, Step(a) \/ Refuse(a) \/ CallFails(a)
  PROVE  /\ Alone(a) /\ Shaped(a)'
         /\ depth' = depth + Tally(a)' - Tally(a)
<1> DEFINE Good == /\ Alone(a) /\ Shaped(a)' /\ depth' = depth + Tally(a)' - Tally(a)
<1>0. /\ pc \in [Actors -> Places] /\ msg \in [Actors -> Words]
      /\ round \in [Actors -> 0 .. MaxRounds] /\ depth \in Nat /\ Shaped(a)
  BY DEF IInv, Typed, Counted, Tally
<1> USE <1>0 DEF Alone, Shaped, InTurn, Tally, Go
<1>1. CASE Insert(a) \/ Check(a) \/ Flip(a) \/ Erase(a) \/ Erased(a)
  BY <1>1 DEF Insert, Check, Flip, Erase, Erased, Same, Rest, turns
<1>2. CASE Probe(a) \/ Begin(a) \/ Refuse(a) \/ Plan(a)
  BY <1>2, GoalAssumption DEF Probe, Begin, Refuse, Plan, Same, Rest, turns, Commands
<1>3. CASE Call(a) \/ CallFails(a) \/ Bill(a) \/ Wrap(a)
  <2>1. /\ pc[a] \in {"call", "bill", "wrap", "reply"}
        /\ \E p \in {"bill", "wrap", "reply", "end"} : pc' = [pc EXCEPT ![a] = p]
        /\ UNCHANGED <<msg, round, depth>>
    BY <1>3 DEF Call, CallFails, Bill, Wrap, Same, Rest, turns
  <2> QED
    BY <2>1
<1>4. CASE Reply(a) \/ Tools(a) \/ MarkDone(a)
  BY <1>4 DEF Reply, Tools, MarkDone, NextRound, Same, Rest, turns
<1>5. CASE TryFire(a) \/ Fire(a) \/ End(a)
  BY <1>5, GoalAssumption DEF TryFire, Fire, After, End, Same, Rest, turns
<1> QED
  BY <1>1, <1>2, <1>3, <1>4, <1>5 DEF Step

\* What an arriving message leaves of it.
LEMMA ShapedArrivals ==
  ASSUME IInv,
         \/ \E m \in Commands \cup {"text", "plan", "cron"} : Send(m)
         \/ \E m \in Commands \cup {"text", "plan"} : Post(m)
         \/ Route \/ TakeTask
  PROVE  (\A b \in Actors : Shaped(b))' /\ Counted'
<1>1. ASSUME NEW a \in Actors, NEW m \in Words, Handle(a, m), UNCHANGED <<depth, round>>
      PROVE  (\A b \in Actors : Shaped(b))' /\ Counted'
  <2>1. Alone(a) /\ Shaped(a)' /\ Tally(a)' = Tally(a)
    BY <1>1 DEF IInv, Typed, Alone, Shaped, InTurn, Tally, Handle, Go, Entry,
                Words, Commands, Turns
  <2> QED
    BY <1>1, <2>1, OneMoves DEF IInv, Counted, Tally
<1>2. ASSUME UNCHANGED <<pc, msg, round, depth>>
      PROVE  (\A b \in Actors : Shaped(b))' /\ Counted'
  BY <1>2 DEF IInv, Shaped, InTurn, Counted, Tally
<1>3. ASSUME TakeTask PROVE (\A b \in Actors : Shaped(b))' /\ Counted'
  <2>1. Head(queue) \in Words /\ "queue" \in Actors
    BY <1>3, Queues DEF TakeTask, IInv, Typed, Actors
  <2> QED
    BY <1>1, <1>3, <2>1 DEF TakeTask
<1>4. ASSUME NEW m \in Commands \cup {"text", "plan"}, Post(m)
      PROVE  (\A b \in Actors : Shaped(b))' /\ Counted'
  BY <1>1, <1>4 DEF Post, Words, Turns, Actors
<1> QED
  BY <1>2, <1>3, <1>4 DEF Send, Route

-----------------------------------------------------------------------------
(* The theorems.                                                           *)

\* The invariant holds at first,
LEMMA Initial == Init => IInv
<1> SUFFICES ASSUME Init PROVE IInv
  OBVIOUS
<1>1. <<>> \in Seq(Words)
  BY EmptySeq
<1>2. Typed
  BY <1>1, GoalAssumption DEF Init, Typed, Places, Words, Turns
<1> QED
  BY <1>2 DEF Init, IInv, Shaped, InTurn, Counted, Tally, Actors

\* is kept by every step,
LEMMA Preserved == IInv /\ [Next]_vars => IInv'
<1> SUFFICES ASSUME IInv, [Next]_vars PROVE IInv'
  OBVIOUS
<1> DEFINE Arrivals ==
      \/ \E m \in Commands \cup {"text", "plan", "cron"} : Send(m)
      \/ \E m \in Commands \cup {"text", "plan"} : Post(m)
      \/ Route \/ TakeTask
<1>1. CASE Arrivals
  BY <1>1, TypedArrivals, ShapedArrivals DEF IInv
<1>2. ASSUME NEW a \in Actors, Step(a) \/ Refuse(a) \/ CallFails(a) PROVE IInv'
  <2>1. Typed'
    BY <1>2, TypedCommands, TypedTurn DEF IInv, Step
  <2>2. (\A b \in Actors : Shaped(b))' /\ Counted'
    BY <1>2, ShapedStep, OneMoves
  <2> QED
    BY <2>1, <2>2 DEF IInv
<1>3. CASE UNCHANGED vars
  BY <1>3 DEF vars, IInv, Typed, Shaped, InTurn, Counted, Tally
<1> QED
  BY <1>1, <1>2, <1>3 DEF Next

\* and so holds always.
LEMMA Invariance == Spec => []IInv
  BY Initial, Preserved, PTL DEF Spec

\* Every variable of the goal loop keeps its type; s.turnDepth is the number of
\* turns that run and never negative, whatever returns a turn takes.
THEOREM TypeCorrect == Spec => []TypeOK
<1>1. IInv => TypeOK
  BY DEF IInv, Typed, Counted, Tally, TypeOK, Words
<1> QED
  BY <1>1, Invariance, PTL

\* A goal that may still run has not spent its budget.
Affords(g) == g.status \in {"active", "paused"} => g.used < Budget

\* Neither the row nor a copy of it that is to be written is spent.
AllAfford == Affords(goal) /\ \A a \in Actors : Affords(copy[a])

\* An update with a copy that affords its status leaves such a row.
LEMMA UpdateAffords ==
  ASSUME NEW g, Affords(g), Affords(goal), UpdateGoal(g)
  PROVE  Affords(goal')
  BY DEF UpdateGoal

\* No goal has nothing to afford.
LEMMA NoGoalAffords == Affords(NoGoal)
  BY DEF Affords, NoGoal

\* A copy billed in time affords its status.
LEMMA BilledAffords ==
  ASSUME NEW g \in Goals, NEW n \in Nat, NEW s \in Statuses,
         s \in {"active", "paused"} => n < Budget
  PROVE  Affords([g EXCEPT !.used = n, !.status = s])
<1>1. /\ [g EXCEPT !.used = n, !.status = s].status = s
      /\ [g EXCEPT !.used = n, !.status = s].used = n
  BY DEF Goals
<1> QED
  BY <1>1 DEF Affords

\* No step spends the budget of a goal that may still run.
LEMMA AffordsPreserved ==
  ASSUME Typed, Typed', AllAfford, [Next]_vars
  PROVE  AllAfford'
<1>0. /\ goal \in Goals \cup {NoGoal} /\ copy \in [Actors -> Goals \cup {NoGoal}]
      /\ Affords(goal) /\ \A b \in Actors : Affords(copy[b])
  BY DEF Typed, AllAfford
<1>1. ASSUME NEW a \in Actors, NEW g, Affords(g), copy' = [copy EXCEPT ![a] = g]
      PROVE  \A b \in Actors : Affords(copy'[b])
  BY <1>0, <1>1
<1>2. ASSUME UNCHANGED copy PROVE \A b \in Actors : Affords(copy'[b])
  BY <1>0, <1>2
<1>3. ASSUME UNCHANGED <<goal, copy>> PROVE AllAfford'
  BY <1>0, <1>3 DEF AllAfford, Affords
<1>4. ASSUME NEW a \in Actors, Forget(a), UpdateGoal(copy[a]) \/ StoreFails
      PROVE  AllAfford'
  <2>1. Affords(goal')
    BY <1>0, <1>4, UpdateAffords DEF StoreFails
  <2>2. \A b \in Actors : Affords(copy'[b])
    BY <1>1, <1>4, NoGoalAffords DEF Forget
  <2> QED
    BY <2>1, <2>2 DEF AllAfford, Affords
<1>5. ASSUME NEW a \in Actors, Insert(a) PROVE AllAfford'
  <2>1. Affords(goal')
    BY <1>0, <1>5, GoalAssumption DEF Insert, Affords
  <2> QED
    BY <1>2, <1>5, <2>1 DEF Insert, AllAfford, Affords
<1>6. ASSUME NEW a \in Actors, Check(a) PROVE AllAfford'
  <2> DEFINE s == IF msg[a] = "pause" THEN "paused" ELSE "active"
  <2>0. PICK g \in Seen :
           IF g.status \in {"active", "paused"} /\ g.status # s
           THEN copy' = [copy EXCEPT ![a] = [g EXCEPT !.status = s]] /\ Go(a, "flip")
           ELSE Go(a, "idle") /\ UNCHANGED copy
    BY <1>6 DEF Check
  <2>1. CASE UNCHANGED copy
    BY <1>3, <1>6, <2>1 DEF Check
  <2>2. CASE /\ g.status \in {"active", "paused"}
             /\ copy' = [copy EXCEPT ![a] = [g EXCEPT !.status = s]]
    <3>0. g = goal
      BY <2>2 DEF Seen, NoGoal
    <3>1. g \in Goals /\ s \in Statuses
      BY <1>0, <2>2, <3>0, NotNoGoal DEF Statuses
    <3>2. [g EXCEPT !.status = s].used = g.used
      BY <3>1, Restated
    <3>3. Affords([g EXCEPT !.status = s])
      BY <1>0, <2>2, <3>0, <3>2 DEF Affords
    <3> HIDE DEF s
    <3>4. \A b \in Actors : Affords(copy'[b])
      BY <1>1, <2>2, <3>3
    <3> QED
      BY <1>0, <1>6, <3>4 DEF Check, AllAfford, Affords
  <2> QED
    BY <2>0, <2>1, <2>2
<1>7. ASSUME NEW a \in Actors, Erase(a) PROVE AllAfford'
  <2>1. \A b \in Actors : Affords(copy'[b])
    BY <1>0, <1>1, <1>2, <1>7 DEF Erase, Read
  <2> QED
    BY <1>0, <1>7, <2>1 DEF Erase, AllAfford, Affords
<1>8. ASSUME NEW a \in Actors, Erased(a) PROVE AllAfford'
  <2>1. Affords(goal')
    BY <1>0, <1>8, NoGoalAffords DEF Erased, DeleteGoal, StoreFails
  <2>2. \A b \in Actors : Affords(copy'[b])
    BY <1>1, <1>8, NoGoalAffords DEF Erased, Forget
  <2> QED
    BY <2>1, <2>2 DEF AllAfford, Affords
<1>9. ASSUME NEW a \in Actors, Call(a) PROVE AllAfford'
  <2>1. CASE UNCHANGED copy
    BY <1>3, <1>9, <2>1 DEF Call
  <2>2. CASE copy' # copy
    <3>1. PICK tokens \in 0 .. Cost :
            /\ Active(goal)
            /\ LET used == goal.used + tokens
               IN  copy' = [copy EXCEPT ![a] =
                        [goal EXCEPT !.used = used,
                                     !.status = IF used >= Budget THEN "budget_limited" ELSE @]]
      BY <1>9, <2>2 DEF Call
    <3>2. goal \in Goals /\ goal.used \in Nat /\ tokens \in Nat
      BY <1>0, <3>1, NotNoGoal, GoalAssumption DEF Active, Statuses, Goals
    <3> DEFINE n == goal.used + tokens
               s == IF n >= Budget THEN "budget_limited" ELSE goal.status
               g == [goal EXCEPT !.used = n, !.status = s]
    <3>3. n \in Nat /\ s \in Statuses
      BY <3>1, <3>2 DEF Statuses, Active
    <3>4. s \in {"active", "paused"} => n < Budget
      BY <3>3, GoalAssumption
    <3>5. copy' = [copy EXCEPT ![a] = g]
      BY <3>1, <3>2 DEF Goals
    <3> HIDE DEF n, s
    <3>6. Affords([goal EXCEPT !.used = n, !.status = s])
      BY <3>2, <3>3, <3>4, BilledAffords
    <3>7. Affords(g)
      BY <3>6
    <3> HIDE DEF g
    <3>8. \A b \in Actors : Affords(copy'[b])
      BY <1>1, <3>5, <3>7
    <3> QED
      BY <1>0, <1>9, <3>8 DEF Call, AllAfford, Affords
  <2> QED
    BY <2>1, <2>2
<1>10. ASSUME NEW a \in Actors, Tools(a) PROVE AllAfford'
  <2>1. CASE UNCHANGED copy
    BY <1>3, <1>10, <2>1 DEF Tools
  <2>2. CASE Active(goal) /\ copy' = [copy EXCEPT ![a] = [goal EXCEPT !.status = "complete"]]
    <3>1. goal \in Goals
      BY <1>0, <2>2, NotNoGoal DEF Active, Statuses
    <3>2. [goal EXCEPT !.status = "complete"].status = "complete"
      BY <3>1, Restated DEF Statuses
    <3>3. Affords([goal EXCEPT !.status = "complete"])
      BY <3>2 DEF Affords
    <3>4. \A b \in Actors : Affords(copy'[b])
      BY <1>1, <2>2, <3>3
    <3> QED
      BY <1>0, <1>10, <3>4 DEF Tools, AllAfford, Affords
  <2> QED
    BY <1>10, <2>1, <2>2 DEF Tools
<1>11. ASSUME NEW a \in Actors,
              \/ Probe(a) \/ Begin(a) \/ Refuse(a) \/ Plan(a) \/ CallFails(a) \/ Wrap(a)
              \/ Reply(a) \/ TryFire(a) \/ Fire(a) \/ End(a)
       PROVE  AllAfford'
  <2>1. UNCHANGED <<goal, copy>>
    BY <1>11 DEF Probe, Begin, Refuse, Plan, CallFails, Wrap, Reply, TryFire, Fire, End
  <2> QED
    BY <1>3, <2>1
<1>12. ASSUME NEW a \in Actors, Flip(a) \/ Bill(a) \/ MarkDone(a) PROVE AllAfford'
  BY <1>4, <1>12 DEF Flip, Bill, MarkDone, Unanswered
<1>13. CASE UNCHANGED vars \/ Route \/ TakeTask
            \/ (\E m \in Commands \cup {"text", "plan", "cron"} : Send(m))
            \/ \E m \in Commands \cup {"text", "plan"} : Post(m)
  BY <1>3, <1>13 DEF vars, Route, TakeTask, Send, Post
<1> QED
  BY <1>5, <1>6, <1>7, <1>8, <1>9, <1>10, <1>11, <1>12, <1>13 DEF Next, Step

\* A goal that may still run has budget left, for every budget and whatever the
\* model reports: both goroutines write copies that are out of date, but a copy
\* has the tokens and the status of one read.
THEOREM BudgetHolds == Spec => []ActiveWithinBudget
<1>1. Init => AllAfford
  <2> SUFFICES ASSUME Init PROVE AllAfford
    OBVIOUS
  <2>1. goal = NoGoal /\ \A a \in Actors : copy[a] = NoGoal
    BY DEF Init
  <2> QED
    BY <2>1, NoGoalAffords DEF AllAfford
<1>2. IInv /\ IInv' /\ AllAfford /\ [Next]_vars => AllAfford'
  BY AffordsPreserved DEF IInv
<1>3. AllAfford => ActiveWithinBudget
  BY DEF AllAfford, Affords, ActiveWithinBudget
<1> QED
  BY <1>1, <1>2, <1>3, Invariance, PTL DEF Spec

\* A write or a delete from a read before a clear leaves the row alone: no goal
\* comes back, and none made since is touched, for any number of goals.
THEOREM ClearedForGood == Spec => ClearedStaysCleared
<1>1. ASSUME IInv, [Next]_vars, NEW a \in Actors, Writing(a), pc'[a] # pc[a],
             copy[a].id # goal.id
      PROVE  goal' = goal
  <2>0. pc \in [Actors -> Places]
    BY <1>1 DEF IInv, Typed
  <2>1. ASSUME NEW b \in Actors, Step(b) \/ Refuse(b) \/ CallFails(b) PROVE b = a
    <3>1. Alone(b)
      BY <1>1, <2>1, ShapedStep
    <3> QED
      BY <1>1, <2>0, <3>1 DEF Alone
  <2>2. ASSUME NEW b \in Actors, NEW m, Handle(b, m) PROVE FALSE
    BY <1>1, <2>0, <2>2 DEF Handle, Go, Writing
  <2>3. Flip(a) \/ Bill(a) \/ MarkDone(a) \/ Erased(a)
    <3>1. Step(a) \/ Refuse(a) \/ CallFails(a)
      BY <1>1, <2>1, <2>2 DEF Next, Send, Post, Route, TakeTask, vars, Actors
    <3> QED
      BY <1>1, <3>1 DEF Writing, Step, Refuse, CallFails, Insert, Check, Erase, Probe,
           Begin, Plan, Call, Wrap, Reply, Tools, TryFire, Fire, End
  <2> QED
    BY <1>1, <2>3 DEF Flip, Bill, MarkDone, Erased, UpdateGoal, DeleteGoal, StoreFails, Unanswered
<1>2. IInv /\ [Next]_vars
        => [\A a \in Actors :
              Writing(a) /\ pc'[a] # pc[a] /\ copy[a].id # goal.id => goal' = goal]_vars
  BY <1>1
<1> QED
  BY <1>2, Invariance, PTL DEF Spec, ClearedStaysCleared
=============================================================================
