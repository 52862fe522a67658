------------------------------ MODULE GoalLoop ------------------------------
(***************************************************************************)
(* The /goal loop of one session (internal/agent/goal, goal_hook.go,       *)
(* slash_goal.go): a goal row, the continuation prompt that every turn     *)
(* publishes when it ends, the bus and the router that bring the prompt    *)
(* back, the hook that bills each model call, and the commands of a person.*)
(*                                                                         *)
(* Two goroutines run HandleMessage on the session: the task queue's       *)
(* worker, one task after another, and the web handler, for a page that    *)
(* has the same conversation open.  The row is read and written by         *)
(* statements of their own; between the two the other goroutine runs.      *)
(***************************************************************************)
EXTENDS Naturals, Sequences

CONSTANTS
  Web,        \* the conversation is open on a web page too
  Faults,     \* statements and model calls may fail
  Budget,     \* token_budget of the row
  Cost,       \* the most tokens a model call reports
  BusCap,     \* capacity of mb.Inbound
  MaxRounds,  \* toolIterationLimit
  MaxSent,    \* bound on the messages people send
  MaxGoals    \* bound on the goals they create

ASSUME GoalAssumption ==
  /\ Web \in BOOLEAN /\ Faults \in BOOLEAN
  /\ Budget \in Nat \ {0} /\ Cost \in Nat /\ BusCap \in Nat
  /\ MaxRounds \in Nat \ {0} /\ MaxSent \in Nat /\ MaxGoals \in Nat

Actors   == {"queue", "web"}
Commands == {"create", "pause", "resume", "clear"}
Turns    == {"text", "plan", "cron", "continue", "wrapup"}   \* "text" is SourceUser
Statuses == {"active", "paused", "budget_limited", "complete"}

Goals  == [id : 1 .. MaxGoals, status : Statuses, used : Nat]
NoGoal == [id |-> 0, status |-> "none", used |-> 0]

VARIABLES
  goal,    \* the row of (agent, session), or NoGoal
  made,    \* goals inserted so far
  bus,     \* mb.Inbound
  queue,   \* the tasks of the chat
  depth,   \* s.turnDepth
  steer,   \* s.steerBuf
  pc,      \* the place of each goroutine
  msg,     \* the message it handles
  round,   \* the round of its turn
  copy,    \* the row as it read it, with its changes
  sent     \* messages people sent

turns == <<depth, steer>>
vars  == <<goal, made, bus, queue, depth, steer, pc, msg, round, copy, sent>>

Places == {"idle", "insert", "check", "flip", "erase", "erased", "probe", "start", "plan",
           "call", "bill", "wrap", "reply", "tools", "markdone", "post", "fire", "end"}

TypeOK ==
  /\ goal \in Goals \cup {NoGoal}
  /\ made \in 0 .. MaxGoals
  /\ bus \in Seq(Commands \cup Turns)
  /\ queue \in Seq(Commands \cup Turns)
  /\ depth \in Nat
  /\ steer \in Seq(Commands \cup Turns)
  /\ pc \in [Actors -> Places]
  /\ msg \in [Actors -> Commands \cup Turns]
  /\ round \in [Actors -> 0 .. MaxRounds]
  /\ copy \in [Actors -> Goals \cup {NoGoal}]
  /\ sent \in 0 .. MaxSent

Init ==
  /\ goal = NoGoal /\ made = 0
  /\ bus = <<>> /\ queue = <<>> /\ depth = 0 /\ steer = <<>>
  /\ pc = [a \in Actors |-> "idle"]
  /\ msg = [a \in Actors |-> "text"]
  /\ round = [a \in Actors |-> 0]
  /\ copy = [a \in Actors |-> NoGoal]
  /\ sent = 0

Go(a, p)  == pc' = [pc EXCEPT ![a] = p]
Read(a)   == copy' = [copy EXCEPT ![a] = goal]
Forget(a) == copy' = [copy EXCEPT ![a] = NoGoal]
Active(g) == g.status = "active"

-----------------------------------------------------------------------------
(* The store.                                                              *)

\* Mutant: the row is found by its session, as GetGoalBySession finds it.
UpdateBySession(g) ==
  goal' = IF goal # NoGoal THEN [g EXCEPT !.id = goal.id] ELSE goal

\* Mutant: the tokens never go back, the status is the writer's.
UpdateGreatest(g) ==
  goal' = IF goal = NoGoal \/ goal.id # g.id THEN goal
          ELSE IF g.used >= goal.used THEN g ELSE [g EXCEPT !.used = goal.used]

\* UpdateGoal writes status and tokens together, WHERE id.
UpdateGoal(g) == goal' = IF goal # NoGoal /\ goal.id = g.id THEN g ELSE goal

\* A failed statement is logged, and the caller goes on.  It may have been made,
\* and only its answer lost.
StoreFails == Faults /\ UNCHANGED goal
Unanswered(g) == Faults /\ UpdateGoal(g)

\* The goal is read, or the read fails and there seems to be none.
Seen == {goal} \cup (IF Faults THEN {NoGoal} ELSE {})

DeleteGoal(g) == goal' = IF goal.id = g.id THEN NoGoal ELSE goal

-----------------------------------------------------------------------------
(* People, other triggers, and the router.                                 *)

\* A message on the chat's channel; a cron job is one too.
Send(m) ==
  /\ sent < MaxSent /\ Len(bus) < BusCap
  /\ bus' = Append(bus, m) /\ sent' = sent + 1
  /\ UNCHANGED <<goal, made, queue, depth, steer, pc, msg, round, copy>>

\* processInbound: a message for a session with a running turn is steered
\* into it, a command and a goal prompt too; else it is a task of its own.
Route ==
  /\ bus # <<>> /\ bus' = Tail(bus)
  /\ IF depth > 0
     THEN steer' = Append(steer, Head(bus)) /\ UNCHANGED queue
     ELSE queue' = Append(queue, Head(bus)) /\ UNCHANGED steer
  /\ UNCHANGED <<goal, made, depth, pc, msg, round, copy, sent>>

\* The first look of HandleMessage at a message.
Entry(m) ==
  CASE m = "create" -> "insert"
    [] m \in {"pause", "resume"} -> "check"
    [] m = "clear" -> "erase"
    [] m = "plan" -> "probe"
    [] OTHER -> "start"

Handle(a, m) ==
  /\ pc[a] = "idle"
  /\ Go(a, Entry(m))
  /\ msg' = [msg EXCEPT ![a] = m]

TakeTask ==
  /\ queue # <<>> /\ Handle("queue", Head(queue))
  /\ queue' = Tail(queue)
  /\ UNCHANGED <<goal, made, bus, depth, steer, round, copy, sent>>

Post(m) ==
  /\ Web /\ sent < MaxSent /\ Handle("web", m)
  /\ sent' = sent + 1
  /\ UNCHANGED <<goal, made, bus, queue, depth, steer, round, copy>>

-----------------------------------------------------------------------------
(* The commands.                                                           *)

Rest  == UNCHANGED <<queue, msg, sent>>
Same  == Rest /\ UNCHANGED round

\* slashGoalCreate: the unique index refuses a second goal.  An insert that
\* fails, or is made and not answered, fires no continuation.
Insert(a) ==
  /\ pc[a] = "insert"
  /\ \/ /\ goal = NoGoal /\ made < MaxGoals
        /\ goal' = [id |-> made + 1, status |-> "active", used |-> 0]
        /\ made' = made + 1
        /\ Go(a, "post") \/ (Faults /\ Go(a, "idle"))
     \/ /\ goal # NoGoal \/ made = MaxGoals \/ Faults
        /\ Go(a, "idle") /\ UNCHANGED <<goal, made>>
  /\ UNCHANGED <<bus, turns, copy>> /\ Same

\* transitionGoal reads, checks and flips its copy ...
Check(a) ==
  /\ pc[a] = "check"
  /\ \E g \in Seen :
       IF g.status = (IF msg[a] = "pause" THEN "active" ELSE "paused")
       THEN /\ copy' = [copy EXCEPT ![a] =
                          [g EXCEPT !.status = IF msg[a] = "pause" THEN "paused" ELSE "active"]]
            /\ Go(a, "flip")
       ELSE Go(a, "idle") /\ UNCHANGED copy
  /\ UNCHANGED <<goal, made, bus, turns>> /\ Same

\* ... and writes it.  A resume then fires the next continuation.
Flip(a) ==
  /\ pc[a] = "flip"
  /\ \/ /\ UpdateGoal(copy[a])
        /\ Go(a, IF msg[a] = "resume" /\ goal.id = copy[a].id THEN "post" ELSE "idle")
     \/ (StoreFails \/ Unanswered(copy[a])) /\ Go(a, "idle")
  /\ UNCHANGED <<made, bus, turns>> /\ Same /\ Forget(a)

\* slashGoalClear and /new read the row, and delete it by its id.
Erase(a) ==
  /\ pc[a] = "erase"
  /\ \/ goal # NoGoal /\ Read(a) /\ Go(a, "erased")
     \/ NoGoal \in Seen /\ Go(a, "idle") /\ UNCHANGED copy
  /\ UNCHANGED <<goal, made, bus, turns>> /\ Same

Erased(a) ==
  /\ pc[a] = "erased"
  /\ DeleteGoal(copy[a]) \/ StoreFails
  /\ Go(a, "idle")
  /\ UNCHANGED <<made, bus, turns>> /\ Same /\ Forget(a)

-----------------------------------------------------------------------------
(* A turn.                                                                 *)

\* sessionHasActiveGoal: an active goal strips the plan-mode flag, and the
\* turn is a person's like any other.
Probe(a) ==
  /\ pc[a] = "probe"
  /\ Go(a, "start")
  /\ \E g \in Seen : msg' = IF Active(g) THEN [msg EXCEPT ![a] = "text"] ELSE msg
  /\ UNCHANGED <<goal, made, bus, queue, turns, round, copy, sent>>

\* Mutant: plan mode does not count its turn.
BeginUncounted(a) ==
  /\ pc[a] = "start"
  /\ depth' = IF msg[a] = "plan" THEN depth ELSE depth + 1
  /\ Go(a, IF msg[a] = "plan" THEN "plan" ELSE "call")
  /\ UNCHANGED <<goal, made, bus, steer, copy>> /\ Same

Begin(a) ==
  /\ pc[a] = "start"
  /\ depth' = depth + 1
  /\ Go(a, IF msg[a] = "plan" THEN "plan" ELSE "call")
  /\ UNCHANGED <<goal, made, bus, steer, copy>> /\ Same

\* The quota gate answers instead of a turn.
Refuse(a) ==
  /\ pc[a] = "start" /\ Faults
  /\ Go(a, "idle")
  /\ UNCHANGED <<goal, made, bus, turns, copy>> /\ Same

\* handlePlanMode: one call without hooks.
Plan(a) ==
  /\ pc[a] = "plan"
  /\ Go(a, "end")
  /\ UNCHANGED <<goal, made, bus, turns, copy>> /\ Same

\* The model answered; the hook reads the goal and folds the usage in.
Call(a) ==
  /\ pc[a] = "call"
  /\ \E tokens \in 0 .. Cost :
       IF tokens > 0 /\ Active(goal)
       THEN LET used == goal.used + tokens
            IN  /\ copy' = [copy EXCEPT ![a] =
                     [goal EXCEPT !.used = used,
                                  !.status = IF used >= Budget THEN "budget_limited" ELSE @]]
                /\ Go(a, "bill")
       ELSE Go(a, "reply") /\ UNCHANGED copy
  /\ UNCHANGED <<goal, made, bus, turns>> /\ Same

\* The call failed or was cancelled, or its reply, billed already, is empty:
\* the turn returns, and runs no PostTurn.
CallFails(a) ==
  /\ pc[a] \in {"call", "reply"} /\ Faults
  /\ Go(a, "end")
  /\ UNCHANGED <<goal, made, bus, turns, copy>> /\ Same

Bill(a) ==
  /\ pc[a] = "bill"
  /\ \/ /\ UpdateGoal(copy[a])
        /\ Go(a, IF ~Active(copy[a]) /\ goal.id = copy[a].id THEN "wrap" ELSE "reply")
     \/ (StoreFails \/ Unanswered(copy[a])) /\ Go(a, "reply")
  /\ UNCHANGED <<made, bus, turns>> /\ Same /\ Forget(a)

\* Publish never waits: on a full bus the prompt is dropped.
Publish(m) == bus' = IF Len(bus) < BusCap THEN Append(bus, m) ELSE bus

Wrap(a) ==
  /\ pc[a] = "wrap"
  /\ Publish("wrapup")
  /\ Go(a, "reply")
  /\ UNCHANGED <<goal, made, turns, copy>> /\ Same

\* The next round, or at the limit the forced final delivery, whose call has
\* no hooks and no drain after it.
NextRound(a) ==
  /\ round' = [round EXCEPT ![a] = @ + 1]
  /\ Go(a, IF round[a] + 1 < MaxRounds THEN "call" ELSE "post")

\* The reply asks for tools, or ends the turn unless the last drain finds
\* something.
Reply(a) ==
  /\ pc[a] = "reply"
  /\ \/ Go(a, "tools") /\ UNCHANGED <<steer, round>>
     \/ steer # <<>> /\ steer' = <<>> /\ NextRound(a)
     \/ steer = <<>> /\ Go(a, "post") /\ UNCHANGED <<steer, round>>
  /\ UNCHANGED <<goal, made, bus, depth, copy>> /\ Rest

\* A round of tools and the drain after it, or a card or a repeated call that
\* cuts the turn off without one; update_goal reads the row and takes an active
\* goal.
Tools(a) ==
  /\ pc[a] = "tools"
  /\ \/ steer' = <<>> /\ NextRound(a) /\ UNCHANGED copy
     \/ Go(a, "post") /\ UNCHANGED <<steer, round, copy>>
     \/ /\ Active(goal)
        /\ copy' = [copy EXCEPT ![a] = [goal EXCEPT !.status = "complete"]]
        /\ Go(a, "markdone") /\ UNCHANGED <<steer, round>>
  /\ UNCHANGED <<goal, made, bus, depth>> /\ Rest

MarkDone(a) ==
  /\ pc[a] = "markdone"
  /\ UpdateGoal(copy[a]) \/ StoreFails
  /\ steer' = <<>> /\ NextRound(a)
  /\ UNCHANGED <<made, bus, depth>> /\ Rest /\ Forget(a)

-----------------------------------------------------------------------------
(* TryFireContinuation, of a turn's PostTurn hook or of a command.         *)

Triggers == {"text", "continue", "wrapup"} \cup Commands

After(a) == IF msg[a] \in Commands THEN "idle" ELSE "end"

\* Mutant: the status of the goal is not looked at.
FireAlways(a) ==
  /\ pc[a] = "post"
  /\ Go(a, IF msg[a] \in Triggers THEN "fire" ELSE After(a))
  /\ UNCHANGED <<goal, made, bus, turns, copy>> /\ Same

TryFire(a) ==
  /\ pc[a] = "post"
  /\ \E g \in Seen : Go(a, IF msg[a] \in Triggers /\ Active(g) THEN "fire" ELSE After(a))
  /\ UNCHANGED <<goal, made, bus, turns, copy>> /\ Same

Fire(a) ==
  /\ pc[a] = "fire"
  /\ Publish("continue")
  /\ Go(a, After(a))
  /\ UNCHANGED <<goal, made, turns, copy>> /\ Same

\* flushLeftoverSteer: the last turn to end parks the buffer in the history.
End(a) ==
  /\ pc[a] = "end"
  /\ depth' = depth - 1
  /\ steer' = IF depth = 1 THEN <<>> ELSE steer
  /\ round' = [round EXCEPT ![a] = 0]
  /\ Go(a, "idle")
  /\ UNCHANGED <<goal, made, bus, copy>> /\ Rest

-----------------------------------------------------------------------------
Step(a) ==
  \/ Insert(a) \/ Check(a) \/ Flip(a) \/ Erase(a) \/ Erased(a)
  \/ Probe(a) \/ Begin(a) \/ Plan(a) \/ Call(a) \/ Bill(a) \/ Wrap(a) \/ Reply(a)
  \/ Tools(a) \/ MarkDone(a) \/ TryFire(a) \/ Fire(a) \/ End(a)

Next ==
  \/ \E m \in Commands \cup {"text", "plan", "cron"} : Send(m)
  \/ \E m \in Commands \cup {"text", "plan"} : Post(m)
  \/ Route \/ TakeTask
  \/ \E a \in Actors : Step(a) \/ Refuse(a) \/ CallFails(a)

Spec == Init /\ [][Next]_vars

\* The router and the workers run; nobody has to send anything.
FairSpec == Spec /\ WF_vars(Route) /\ WF_vars(TakeTask) /\ \A a \in Actors : WF_vars(Step(a))

-----------------------------------------------------------------------------
(* Properties.                                                             *)

\* A goal that may still run has budget left, whatever stale copies a pause, a
\* resume and two billing hooks write over one another: status and tokens are
\* one write.
ActiveWithinBudget == goal.status \in {"active", "paused"} => goal.used < Budget

\* A cleared goal stays cleared: a write or delete based on an old read neither
\* brings it back nor touches the goal created after it.
Writing(a) == pc[a] \in {"flip", "bill", "markdone", "erased"}
ClearedStaysCleared ==
  [][\A a \in Actors :
       Writing(a) /\ pc'[a] # pc[a] /\ copy[a].id # goal.id => goal' = goal]_vars

\* A goal that is no longer active stops the loop: the prompts in flight run
\* out, and no turn starts another.
InFlight == \E i \in DOMAIN bus : bus[i] = "continue"
Continuing ==
  InFlight \/ (\E i \in DOMAIN queue : queue[i] = "continue")
    \/ \E a \in Actors : pc[a] # "idle" /\ msg[a] = "continue"
StoppedGoalRunsDry == <>[](~Active(goal)) => <>[](~Continuing)

\* "The runtime keeps injecting continuation prompts until the model marks the
\* goal complete, the token budget runs out, or the user pauses or clears it"
\* (goal/goal.go:2-5): an active goal has a turn, or a message that becomes one.
Drives(m) == m \in Triggers
ChainAlive ==
  Active(goal) =>
    \/ \E i \in DOMAIN bus : Drives(bus[i])
    \/ \E i \in DOMAIN queue : Drives(queue[i])
    \/ \E a \in Actors : pc[a] \notin {"idle", "end"} /\ Drives(msg[a])
=============================================================================
