--------------------------- MODULE CronScheduler ---------------------------
(***************************************************************************)
(* The scheduler of stored jobs: pollStore and processDueJobs              *)
(* (internal/cron/scheduler.go) in every replica, over the rows of         *)
(* cron_jobs (internal/store/database.go), with the agent's tools that     *)
(* create and delete a job (internal/agent/tools/cron.go) and the          *)
(* dashboard's toggle and delete (internal/setup/handlers_cron.go).        *)
(*                                                                         *)
(* Time is relative, so it never runs out: a row keeps the ticks to its    *)
(* next_run and the age of its lock, a poll the age of its `now'.  What is *)
(* overdue is 0 and an age stops at the last value that is compared.  Jobs *)
(* that are overdue are therefore tried in any order.                      *)
(***************************************************************************)
EXTENDS Integers, FiniteSets, FiniteSetsExt

CONSTANTS
  Pods, Jobs,
  Kind,        \* the type of each job
  Direct,      \* jobs with channel web, api or none: always deliverable
  Period,      \* length of an interval, and of the hour of other types
  LockTTL,     \* the 5 minutes of LockCronJob
  Idle,        \* the sleep when no job is pending
  Prompt,      \* a replica finishes with a job before its lock goes stale
  MaxCrashes, MaxFaults, MaxToggles

Far == 1000    \* a hundred years
NoRow == [next |-> -1, enabled |-> FALSE, failures |-> 0, lock |-> -1]
Free == -1      \* locked_by IS NULL
NoJob == "none"
cronMaxConsecutiveFailures == 3

ASSUME JobAssumption ==
  /\ Kind \in [Jobs -> {"once", "interval", "cron", "other"}]
  /\ Direct \subseteq Jobs /\ NoJob \notin Jobs
ASSUME TimeAssumption ==
  /\ Period \in Nat \ {0} /\ LockTTL \in Nat \ {0} /\ Idle \in Nat \ {0} /\ Prompt \in BOOLEAN
  /\ Period < Far /\ MaxCrashes \in Nat /\ MaxFaults \in Nat /\ MaxToggles \in Nat

VARIABLES
  row,      \* the table
  made,     \* jobs ever created: an id is not used twice
  has,      \* channels.Manager.Has: jobs each replica has the adapter of
  pc, due, job, age, wake,  \* pollStore of each replica; age of its `now'
  notify,   \* globalNotify, capacity 1
  edit,     \* a toggle between its read and its save
  pushed,           \* once jobs that were pushed
  misses, missAge,  \* misses of each job since its last push, ticks since the first
  crashes, faults, toggles

poll == <<pc, due, job, age, wake>>
record == <<pushed, misses, missAge>>
budget == <<crashes, faults, toggles>>
vars == <<row, made, has, poll, notify, edit, record, budget>>

Rows == [next : 0 .. Period \cup {Far}, enabled : BOOLEAN, failures : 0 .. cronMaxConsecutiveFailures,
           lock : Free .. LockTTL + 1]
NoEdit == [job |-> NoJob, next |-> 0, enabled |-> FALSE]
Places == {"poll", "next", "check", "push", "settle", "reap", "rest", "asleep", "down"}

TypeOK ==
  /\ row \in [Jobs -> Rows \cup {NoRow}]
  /\ made \subseteq Jobs
  /\ has \in [Pods -> SUBSET Jobs]
  /\ pc \in [Pods -> Places]
  /\ due \in [Pods -> SUBSET Jobs]
  /\ job \in [Pods -> Jobs \cup {NoJob}]
  /\ age \in [Pods -> 0 .. Period]
  /\ wake \in [Pods -> 0 .. Idle \cup 0 .. Period \cup {Far}]
  /\ notify \in [Pods -> BOOLEAN]
  /\ edit \in [job : Jobs \cup {NoJob}, next : 0 .. Period \cup {Far}, enabled : BOOLEAN]
  /\ pushed \subseteq Jobs
  /\ misses \in [Jobs -> 0 .. cronMaxConsecutiveFailures]
  /\ missAge \in [Jobs -> 0 .. cronMaxConsecutiveFailures]
  /\ crashes \in 0 .. MaxCrashes /\ faults \in 0 .. MaxFaults /\ toggles \in 0 .. MaxToggles

Init ==
  /\ row = [j \in Jobs |-> NoRow]
  /\ made = {}
  /\ has \in [Pods -> SUBSET (Jobs \ Direct)]
  /\ pc = [p \in Pods |-> "poll"]
  /\ due = [p \in Pods |-> {}]
  /\ job = [p \in Pods |-> NoJob]
  /\ age = [p \in Pods |-> 0]
  /\ wake = [p \in Pods |-> 0]
  /\ notify = [p \in Pods |-> FALSE]
  /\ edit = NoEdit
  /\ pushed = {} /\ misses = [j \in Jobs |-> 0] /\ missAge = [j \in Jobs |-> 0]
  /\ crashes = 0 /\ faults = 0 /\ toggles = 0

Least(a, b) == IF a < b THEN a ELSE b

-----------------------------------------------------------------------------
(* The statements of the store.                                            *)

Exists(j) == row[j] # NoRow
(* Faulty: rounds the list up to the next tick.                            *)
DueSoon == {j \in Jobs : Exists(j) /\ row[j].enabled /\ row[j].next <= 1}
Due == {j \in Jobs : Exists(j) /\ row[j].enabled /\ row[j].next = 0}
Pending == {row[j].next : j \in {k \in Jobs : Exists(k) /\ row[k].enabled}}
(* Faulty: locks whoever holds the lock; never takes over a stale one.     *)
LockableAlways(j) == Exists(j)
LockableOnce(j) == Exists(j) /\ row[j].lock = Free
Lockable(j) == Exists(j) /\ (row[j].lock = Free \/ row[j].lock > LockTTL)
WithRow(j, r) == row' = [row EXCEPT ![j] = r]
DeleteCronJob(j) == WithRow(j, NoRow)
(* Faulty: a delivery does not clear the failures.                         *)
UpdateRunOnly(j, next) ==
  IF Exists(j) THEN WithRow(j, [row[j] EXCEPT !.next = next, !.lock = Free]) ELSE UNCHANGED row
UpdateCronJobRun(j, next) ==
  IF Exists(j)
  THEN WithRow(j, [row[j] EXCEPT !.next = next, !.failures = 0, !.lock = Free])
  ELSE UNCHANGED row

-----------------------------------------------------------------------------
(* pollStore and processDueJobs.  A failing store is a fault.              *)

Goto(p, place) == pc' = [pc EXCEPT ![p] = place]
Fault == faults < MaxFaults /\ faults' = faults + 1 /\ UNCHANGED <<crashes, toggles>>
Done(p) == job' = [job EXCEPT ![p] = NoJob]
Step == UNCHANGED <<made, has, notify, edit>>
At(p, place) == pc[p] = place /\ Step

List(p) ==
  /\ At(p, "poll") /\ Goto(p, "next")
  /\ due' = [due EXCEPT ![p] = Due] /\ age' = [age EXCEPT ![p] = 0]
  /\ UNCHANGED <<row, job, wake, record, budget>>

ListFails(p) ==
  /\ At(p, "poll") /\ Fault /\ Goto(p, "rest")
  /\ UNCHANGED <<row, due, job, age, wake, record>>

(* The row is locked whatever its next_run is by now.                      *)
Lock(p) == \E j \in due[p] :
  /\ At(p, "next")
  /\ due' = [due EXCEPT ![p] = @ \ {j}]
  /\ IF Lockable(j)
     THEN /\ WithRow(j, [row[j] EXCEPT !.lock = 0])
          /\ job' = [job EXCEPT ![p] = j] /\ Goto(p, "check")
     ELSE UNCHANGED <<row, job, pc>>
  /\ UNCHANGED <<age, wake, record, budget>>

(* The row is locked and the replica does not learn of it.                 *)
LockLost(p) == \E j \in due[p] :
  /\ At(p, "next") /\ Fault /\ Lockable(j)
  /\ due' = [due EXCEPT ![p] = @ \ {j}]
  /\ WithRow(j, [row[j] EXCEPT !.lock = 0])
  /\ UNCHANGED <<pc, job, age, wake, record>>

LockFails(p) == \E j \in due[p] :
  /\ At(p, "next") /\ Fault
  /\ due' = [due EXCEPT ![p] = @ \ {j}]
  /\ UNCHANGED <<row, pc, job, age, wake, record>>

NoneLeft(p) ==
  /\ At(p, "next") /\ due[p] = {} /\ Goto(p, "rest")
  /\ age' = [age EXCEPT ![p] = 0]
  /\ UNCHANGED <<row, due, job, wake, record, budget>>

Deliverable(p, j) == j \in Direct \cup has[p]

Reachable(p) ==
  /\ At(p, "check") /\ Deliverable(p, job[p]) /\ Goto(p, "push")
  /\ UNCHANGED <<row, due, job, age, wake, record, budget>>

(* IncrementCronJobFailure counts the miss and frees the row; next_run     *)
(* stays where it is.                                                      *)
Failures(j) == Least(row[j].failures + 1, cronMaxConsecutiveFailures)
CountMiss(j) ==
  /\ WithRow(j, [row[j] EXCEPT !.failures = Failures(j), !.lock = Free])
  /\ misses' = [misses EXCEPT ![j] = Least(@ + 1, cronMaxConsecutiveFailures)]
  /\ missAge' = [missAge EXCEPT ![j] = IF misses[j] = 0 THEN 0 ELSE @]

Miss(p) ==
  LET j == job[p] IN
  /\ At(p, "check") /\ ~Deliverable(p, j)
  /\ IF Exists(j)
     THEN /\ CountMiss(j)
          /\ IF Failures(j) >= cronMaxConsecutiveFailures
             THEN Goto(p, "reap") /\ UNCHANGED job
             ELSE Goto(p, "next") /\ Done(p)
     ELSE Goto(p, "next") /\ Done(p) /\ UNCHANGED <<row, misses, missAge>>
  /\ UNCHANGED <<due, age, wake, pushed, budget>>

(* The miss is counted but the count not read back: nothing is given up.   *)
MissUnread(p) ==
  /\ At(p, "check") /\ ~Deliverable(p, job[p]) /\ Exists(job[p]) /\ Fault
  /\ CountMiss(job[p]) /\ Goto(p, "next") /\ Done(p)
  /\ UNCHANGED <<due, age, wake, pushed>>

MissFails(p) ==
  /\ At(p, "check") /\ ~Deliverable(p, job[p]) /\ Fault /\ Goto(p, "next") /\ Done(p)
  /\ UNCHANGED <<row, due, age, wake, record>>

Reap(p) ==
  /\ At(p, "reap") /\ DeleteCronJob(job[p]) /\ Goto(p, "next") /\ Done(p)
  /\ UNCHANGED <<due, age, wake, record, budget>>

ReapFails(p) ==
  /\ At(p, "reap") /\ Fault /\ Goto(p, "next") /\ Done(p)
  /\ UNCHANGED <<row, due, age, wake, record>>

(* The send on bus.Inbound; a full bus delays it.                          *)
Push(p) ==
  /\ At(p, "push") /\ Goto(p, "settle")
  /\ pushed' = IF Kind[job[p]] = "once" THEN pushed \cup {job[p]} ELSE pushed
  /\ misses' = [misses EXCEPT ![job[p]] = 0] /\ missAge' = [missAge EXCEPT ![job[p]] = 0]
  /\ UNCHANGED <<row, due, job, age, wake, budget>>

(* The next run counts from the `now' of the poll.  An expression of type  *)
(* cron gives some later minute (CronExpression says which).               *)
(* Faulty: adds what the poll took.                                        *)
NextRunsLater(p, j) == {Period + age[p]}
NextRuns(p, j) ==
  IF Kind[j] = "cron" THEN {IF d > age[p] THEN d - age[p] ELSE 0 : d \in 1 .. Period}
                      ELSE {Period - age[p]}

Settle(p) ==
  /\ At(p, "settle") /\ Goto(p, "next") /\ Done(p)
  /\ IF Kind[job[p]] = "once"
     THEN DeleteCronJob(job[p])
     ELSE \E next \in NextRuns(p, job[p]) : UpdateCronJobRun(job[p], next)
  /\ UNCHANGED <<due, age, wake, record, budget>>

(* A once job that could not be deleted is put off for a hundred years; an *)
(* error of UpdateCronJobRun is ignored.                                   *)
SettleFails(p) ==
  /\ At(p, "settle") /\ Fault /\ Goto(p, "next") /\ Done(p)
  /\ \/ UNCHANGED row
     \/ Kind[job[p]] = "once" /\ UpdateCronJobRun(job[p], Far)
  /\ UNCHANGED <<due, age, wake, record>>

Rest(p) ==
  /\ At(p, "rest")
  /\ IF 0 \in Pending
     THEN Goto(p, "poll") /\ UNCHANGED wake
     ELSE /\ Goto(p, "asleep")
          /\ wake' = [wake EXCEPT ![p] = IF Pending = {} THEN Idle ELSE Min(Pending)]
  /\ UNCHANGED <<row, due, job, age, record, budget>>

RestFails(p) ==
  /\ At(p, "rest") /\ Fault /\ Goto(p, "asleep")
  /\ wake' = [wake EXCEPT ![p] = Idle]
  /\ UNCHANGED <<row, due, job, age, record>>

Wake(p) ==
  /\ pc[p] = "asleep" /\ Goto(p, "poll") /\ wake' = [wake EXCEPT ![p] = 0]
  /\ \/ wake[p] = 0 /\ UNCHANGED notify
     \/ notify[p] /\ notify' = [notify EXCEPT ![p] = FALSE]
  /\ UNCHANGED <<row, made, has, due, job, age, edit, record, budget>>

-----------------------------------------------------------------------------
(* Around the scheduler.                                                   *)

FirstRuns(j) == CASE Kind[j] = "once" -> 0 .. Period
                  [] Kind[j] = "interval" -> {Period}
                  [] OTHER -> 1 .. Period

(* Faulty: wakes nobody.                                                   *)
CreateQuietly(p, j) ==
  /\ pc[p] # "down" /\ j \notin made
  /\ made' = made \cup {j}
  /\ \E next \in FirstRuns(j) :
       WithRow(j, [next |-> next, enabled |-> TRUE, failures |-> 0, lock |-> Free])
  /\ UNCHANGED <<has, poll, notify, edit, record, budget>>

(* create_cron_job, in a turn replica p runs: it wakes that replica only.  *)
Create(p, j) ==
  /\ pc[p] # "down" /\ j \notin made
  /\ made' = made \cup {j}
  /\ \E next \in FirstRuns(j) :
       WithRow(j, [next |-> next, enabled |-> TRUE, failures |-> 0, lock |-> Free])
  /\ notify' = [notify EXCEPT ![p] = TRUE]
  /\ UNCHANGED <<has, poll, edit, record, budget>>

(* delete_cron_job and handleDeleteAgentCronJob.                           *)
Delete(j) ==
  /\ Exists(j) /\ DeleteCronJob(j)
  /\ UNCHANGED <<made, has, poll, notify, edit, record, budget>>

(* handleToggleAgentCronJob reads the whole row and saves the whole row.   *)
ToggleRead(j) == \E on \in BOOLEAN :
  /\ Exists(j) /\ edit = NoEdit /\ toggles < MaxToggles
  /\ edit' = [job |-> j, next |-> row[j].next, enabled |-> on]
  /\ toggles' = toggles + 1
  /\ UNCHANGED <<row, made, has, poll, notify, record, crashes, faults>>

ToggleSave ==
  LET j == edit.job IN
  /\ edit # NoEdit /\ edit' = NoEdit
  /\ WithRow(j, IF Exists(j)
                THEN [row[j] EXCEPT !.next = edit.next, !.enabled = edit.enabled]
                ELSE [next |-> edit.next, enabled |-> edit.enabled, failures |-> 0, lock |-> Free])
  /\ UNCHANGED <<made, has, poll, notify, record, budget>>

(* The adapter of a job's channel is registered or torn down.              *)
Attach(p, j) ==
  /\ pc[p] # "down" /\ j \notin Direct \cup has[p]
  /\ has' = [has EXCEPT ![p] = @ \cup {j}]
  /\ UNCHANGED <<row, made, poll, notify, edit, record, budget>>

Detach(p, j) ==
  /\ j \in has[p]
  /\ has' = [has EXCEPT ![p] = @ \ {j}]
  /\ UNCHANGED <<row, made, poll, notify, edit, record, budget>>

Crash(p) ==
  /\ pc[p] # "down" /\ crashes < MaxCrashes /\ Goto(p, "down")
  /\ crashes' = crashes + 1
  /\ has' = [has EXCEPT ![p] = {}]
  /\ notify' = [notify EXCEPT ![p] = FALSE]
  /\ due' = [due EXCEPT ![p] = {}] /\ Done(p)
  /\ age' = [age EXCEPT ![p] = 0] /\ wake' = [wake EXCEPT ![p] = 0]
  /\ UNCHANGED <<row, made, edit, record, faults, toggles>>

Restart(p) ==
  /\ pc[p] = "down" /\ Goto(p, "poll")
  /\ UNCHANGED <<row, made, has, due, job, age, wake, notify, edit, record, budget>>

Working(p, j) == pc[p] \in {"check", "push", "settle"} /\ job[p] = j

Polling(p) == pc[p] \in {"next", "check", "push", "settle", "reap"}
Earlier(t) == IF t \in {0, Far} THEN t ELSE t - 1

Tick ==
  /\ Prompt => \A p \in Pods, j \in Jobs : Working(p, j) /\ Exists(j) => row[j].lock < LockTTL
  /\ row' = [j \in Jobs |->
       IF Exists(j)
       THEN [row[j] EXCEPT !.next = Earlier(@),
                           !.lock = IF @ = Free THEN @ ELSE Least(@ + 1, LockTTL + 1)]
       ELSE NoRow]
  /\ age' = [p \in Pods |-> IF Polling(p) THEN Least(age[p] + 1, Period) ELSE 0]
  /\ wake' = [p \in Pods |-> Earlier(wake[p])]
  /\ edit' = [edit EXCEPT !.next = Earlier(@)]
  /\ missAge' = [j \in Jobs |->
       IF misses[j] = 0 THEN 0 ELSE Least(missAge[j] + 1, cronMaxConsecutiveFailures - 1)]
  /\ UNCHANGED <<made, has, pc, due, job, notify, pushed, misses, budget>>

(* What a replica does without a fault.                                    *)
Run(p) == \/ List(p) \/ Lock(p) \/ NoneLeft(p) \/ Reachable(p) \/ Miss(p) \/ Reap(p)
          \/ Push(p) \/ Settle(p) \/ Rest(p) \/ Wake(p) \/ Restart(p)

Fails(p) == \/ ListFails(p) \/ LockFails(p) \/ LockLost(p) \/ MissFails(p) \/ MissUnread(p)
            \/ ReapFails(p) \/ SettleFails(p) \/ RestFails(p) \/ Crash(p)

Next ==
  \/ \E p \in Pods : Run(p) \/ Fails(p)
  \/ \E p \in Pods, j \in Jobs : Create(p, j) \/ Attach(p, j) \/ Detach(p, j)
  \/ \E j \in Jobs : Delete(j) \/ ToggleRead(j)
  \/ ToggleSave
  \/ Tick

Spec == Init /\ [][Next]_vars
FairSpec == Spec /\ \A p \in Pods : WF_vars(Run(p)) /\ WF_vars(ToggleSave) /\ WF_vars(Tick)

-----------------------------------------------------------------------------
(* Two replicas never work on one job: the lock is what keeps a reminder   *)
(* from going out twice.                                                   *)
WorksAlone == \A p, q \in Pods, j \in Jobs : Working(p, j) /\ Working(q, j) => p = q

(* A one-shot job is delivered at most once, also when two replicas list   *)
(* it together.                                                            *)
OnceFiresOnce ==
  [][\A p \in Pods : pc[p] = "push" /\ pc'[p] = "settle" => job[p] \notin pushed]_vars

(* A job is pushed only while it is due: not a second time in its period,  *)
(* however its list, lock and delivery interleave.                         *)
FiresWhenDue ==
  [][\A p \in Pods : pc[p] = "push" /\ pc'[p] = "settle" /\ Exists(job[p])
       => row[job[p]].next = 0]_vars

(* No crash, failing statement or toggle so far.                           *)
Undisturbed == crashes = 0 /\ faults = 0 /\ toggles = 0

(* The scheduler gives up on a job only after three misses in a row, with  *)
(* no delivery in between.                                                 *)
ReapedAfterMisses ==
  [][\A p \in Pods : pc[p] = "reap" /\ pc'[p] = "next" /\ row'[job[p]] = NoRow /\ Undisturbed
       => misses[job[p]] >= cronMaxConsecutiveFailures]_vars

(* It gives the channel some time to come back before it does: two ticks   *)
(* lie between the first and the third of a minute's attempts.             *)
GracePeriod ==
  [][\A p \in Pods : pc[p] = "reap" /\ pc'[p] = "next" /\ row'[job[p]] = NoRow
       => missAge[job[p]] >= cronMaxConsecutiveFailures - 1]_vars

(* A sleeping scheduler wakes no later than the next job is due.           *)
SleepsUntilDue ==
  Undisturbed =>
    \A p \in Pods : pc[p] = "asleep" /\ ~notify[p] => \A t \in Pending : wake[p] <= t

(* A due job that every replica can deliver is pushed, through crashes,     *)
(* failing statements and locks left behind.                               *)
Deliver(j) == j \in Due /\ \A p \in Pods : Deliverable(p, j)
Pushed(j)  == \E p \in Pods : pc[p] = "settle" /\ job[p] = j
DueJobServed == \A j \in Jobs : Deliver(j) ~> (Pushed(j) \/ ~Deliver(j))
=============================================================================
