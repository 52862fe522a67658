------------------------ MODULE CronSchedulerProofs ------------------------
(***************************************************************************)
(* Theorems about CronScheduler and CronExpression.                        *)
(*                                                                         *)
(* Its types, for any number of replicas.                                  *)
(*                                                                         *)
(* The timing of one replica: it fires only what is due, whatever crashes, *)
(* fails or is toggled, and, undisturbed, three misses come before it      *)
(* gives a job up and it does not sleep past one.                          *)
(*                                                                         *)
(* The lock, for any number of replicas, jobs and types, with crashes and  *)
(* failing statements: as long as a replica finishes with a job before its *)
(* lock goes stale and no row is saved over by a toggle, two replicas      *)
(* never work on one job; and what that is for, without faults: a one-shot *)
(* job is pushed once.                                                     *)
(*                                                                         *)
(* The minute that an expression gives next, for every calendar and every  *)
(* expression and lateness: no minute is served twice, only lateness lets  *)
(* a minute that matches pass, and an expression without a date fires on   *)
(* its minutes only.                                                       *)
(***************************************************************************)
EXTENDS CronScheduler, CronExpression, WellFoundedInduction, TLAPS

\* What next_run may be.
Nexts == 0 .. Period \cup {Far}

\* A replica at a job has one.
Placed == \A p \in Pods : pc[p] \in {"check", "push", "settle", "reap"} => job[p] \in Jobs

\* A toggle under way is of a job.
Edited == edit = NoEdit \/ edit.job \in Jobs

Typed == TypeOK /\ Placed /\ Edited

-----------------------------------------------------------------------------
(* Values.                                                                 *)

LEMMA NextsNat == \A t \in Nexts : t \in 0 .. Far
  BY TimeAssumption DEF Nexts, Far

LEMMA EarlierNext == \A t \in Nexts : Earlier(t) \in Nexts
  BY TimeAssumption DEF Nexts, Far, Earlier

LEMMA NextRunsNext ==
  ASSUME NEW p \in Pods, age[p] \in 0 .. Period, NEW j
  PROVE  \A next \in NextRuns(p, j) : next \in Nexts
<1>1. CASE Kind[j] = "cron"
  BY <1>1, TimeAssumption DEF NextRuns, Nexts
<1>2. CASE Kind[j] # "cron"
  BY <1>2, TimeAssumption DEF NextRuns, Nexts
<1> QED
  BY <1>1, <1>2

LEMMA FirstRunsNext ==
  ASSUME NEW j \in Jobs
  PROVE  \A next \in FirstRuns(j) : next \in Nexts
  BY TimeAssumption DEF FirstRuns, Nexts

\* The statements on one row give a row.
LEMMA RowUpdates ==
  ASSUME NEW r \in Rows, NEW next \in Nexts, NEW n \in 0 .. cronMaxConsecutiveFailures,
         NEW l \in Free .. LockTTL + 1, NEW on \in BOOLEAN
  PROVE  /\ [r EXCEPT !.lock = l] \in Rows
         /\ [r EXCEPT !.failures = n, !.lock = l] \in Rows
         /\ [r EXCEPT !.next = next, !.failures = n, !.lock = l] \in Rows
         /\ [r EXCEPT !.next = next, !.lock = l] \in Rows
         /\ [r EXCEPT !.next = next, !.enabled = on] \in Rows
         /\ [next |-> next, enabled |-> on, failures |-> n, lock |-> l] \in Rows
  BY DEF Rows, Nexts

\* The least of some instants is one of them, and there is none before it.
LEMMA MinInstant ==
  ASSUME NEW S \in SUBSET Nat, S # {}
  PROVE  Min(S) \in S /\ \A t \in S : Min(S) <= t
<1> DEFINE less == OpToRel(<, Nat)
<1>1. \A x, y \in Nat : x < y => <<x, y>> \in less
  BY Zenon DEF OpToRel
<1>2. \E x \in S : \A y \in S : ~(<<y, x>> \in less)
  BY NatLessThanWellFounded, WFMin
<1> HIDE DEF less
<1>3. PICK x \in S : \A y \in S : ~(<<y, x>> \in less)
  BY <1>2
<1>4. ASSUME NEW y \in S PROVE x <= y
  <2>1. x \in Nat /\ y \in Nat /\ ~(y < x)
    BY <1>1, <1>3, Zenon
  <2> QED
    BY <2>1
<1> QED
  BY <1>4 DEF Min

\* The least of the pending times is one of them, and there is none before it.
LEMMA MinNext ==
  ASSUME NEW S \in SUBSET Nexts, S # {}
  PROVE  Min(S) \in S /\ \A t \in S : Min(S) <= t
<1>1. S \in SUBSET Nat
  BY NextsNat DEF Far
<1> QED
  BY <1>1, MinInstant

LEMMA SmallNumbers ==
  /\ 0 \in 0 .. cronMaxConsecutiveFailures /\ Free \in Free .. LockTTL + 1
  /\ 0 \in Free .. LockTTL + 1 /\ Far \in Nexts /\ 0 \in Nexts /\ 0 \in 0 .. Period
  BY TimeAssumption DEF cronMaxConsecutiveFailures, Free, Nexts, Far

-----------------------------------------------------------------------------
(* Types.                                                                  *)

LEMMA RowsTyped ==
  ASSUME TypeOK, NEW j \in Jobs, Exists(j)
  PROVE  row[j] \in Rows /\ row[j].next \in Nexts
  BY DEF TypeOK, Exists, Rows, Nexts

LEMMA TableTyped ==
  ASSUME TypeOK, NEW j, NEW r \in Rows \cup {NoRow}, WithRow(j, r)
  PROVE  row' \in [Jobs -> Rows \cup {NoRow}]
  BY DEF WithRow, TypeOK

LEMMA RunTyped ==
  ASSUME TypeOK, NEW j, NEW next \in Nexts, UpdateCronJobRun(j, next)
  PROVE  row' \in [Jobs -> Rows \cup {NoRow}]
<1>1. CASE j \in Jobs /\ Exists(j)
  <2>1. [row[j] EXCEPT !.next = next, !.failures = 0, !.lock = Free] \in Rows
    BY <1>1, RowsTyped, RowUpdates, SmallNumbers
  <2> QED
    BY <1>1, <2>1, TableTyped DEF UpdateCronJobRun
<1>2. CASE j \notin Jobs \/ ~Exists(j)
  BY <1>2 DEF UpdateCronJobRun, WithRow, TypeOK
<1> QED
  BY <1>1, <1>2

LEMMA TypedInit == Init => Typed
<1> SUFFICES ASSUME Init PROVE Typed
  OBVIOUS
<1>1. NoEdit \in [job : Jobs \cup {NoJob}, next : 0 .. Period \cup {Far}, enabled : BOOLEAN]
  BY SmallNumbers DEF NoEdit, Nexts
<1>2. has \in [Pods -> SUBSET Jobs]
  BY DEF Init
<1>3. TypeOK
  BY <1>1, <1>2, SmallNumbers, TimeAssumption DEF Init, TypeOK, Places
<1> QED
  BY <1>3 DEF Init, Typed, Placed, Edited

\* Steps of replica p that leave the rows, the jobs known and the toggle alone.
LEMMA TypedPoll ==
  ASSUME Typed, NEW p \in Pods,
         \/ List(p) \/ NoneLeft(p) \/ Reachable(p) \/ Push(p) \/ Wake(p) \/ Restart(p)
         \/ ListFails(p) \/ LockFails(p) \/ MissFails(p) \/ ReapFails(p)
  PROVE  Typed'
<1> USE DEF At, Step, Goto, Done
<1>1. row' = row /\ made' = made /\ has' = has /\ edit' = edit /\ notify' \in [Pods -> BOOLEAN]
  BY DEF List, NoneLeft, Reachable, Push, Wake, Restart, ListFails, LockFails, MissFails, ReapFails,
         Typed, TypeOK
<1>2. pc' \in [Pods -> Places] /\ due' \in [Pods -> SUBSET Jobs] /\ job' \in [Pods -> Jobs \cup {NoJob}]
  BY DEF List, NoneLeft, Reachable, Push, Wake, Restart, ListFails, LockFails, MissFails, ReapFails,
         Typed, TypeOK, Places, Due
<1>3. age' \in [Pods -> 0 .. Period] /\ wake' \in [Pods -> 0 .. Idle \cup 0 .. Period \cup {Far}]
  BY SmallNumbers
  DEF List, NoneLeft, Reachable, Push, Wake, Restart, ListFails, LockFails, MissFails, ReapFails,
         Typed, TypeOK
<1>4. /\ pushed' \subseteq Jobs /\ misses' \in [Jobs -> 0 .. cronMaxConsecutiveFailures]
      /\ missAge' \in [Jobs -> 0 .. cronMaxConsecutiveFailures]
  BY SmallNumbers
  DEF List, NoneLeft, Reachable, Push, Wake, Restart, ListFails, LockFails, MissFails, ReapFails,
         Typed, TypeOK, Placed, record
<1>5. crashes' = crashes /\ toggles' = toggles /\ faults' \in 0 .. MaxFaults
  BY TimeAssumption
  DEF List, NoneLeft, Reachable, Push, Wake, Restart, ListFails, LockFails, MissFails, ReapFails,
         Fault, budget, Typed, TypeOK
<1>6. Placed'
  BY DEF List, NoneLeft, Reachable, Push, Wake, Restart, ListFails, LockFails, MissFails, ReapFails,
         Typed, TypeOK, Placed
<1> QED
  BY <1>1, <1>2, <1>3, <1>4, <1>5, <1>6 DEF Typed, TypeOK, Edited

\* The steps that change the row of a job.
LEMMA TypedRow ==
  ASSUME Typed, NEW p \in Pods,
         \/ Lock(p) \/ LockLost(p) \/ Miss(p) \/ MissUnread(p) \/ Reap(p)
         \/ Settle(p) \/ SettleFails(p)
  PROVE  Typed'
<1> DEFINE k == job[p]
<1> USE DEF At, Step, Goto, Done
<1>1. /\ made' = made /\ has' = has /\ edit' = edit /\ notify' = notify /\ age' = age
      /\ wake' = wake /\ pushed' = pushed /\ crashes' = crashes /\ toggles' = toggles
  BY DEF Lock, LockLost, Miss, CountMiss, Failures, MissUnread, Reap, Settle, SettleFails, Fault,
         record, budget
<1>2. faults' \in 0 .. MaxFaults
  <2>1. faults' = faults \/ (faults < MaxFaults /\ faults' = faults + 1)
    BY DEF Lock, LockLost, Miss, CountMiss, Failures, MissUnread, Reap, Settle, SettleFails, Fault,
           budget
  <2>2. faults \in 0 .. MaxFaults
    BY DEF Typed, TypeOK
  <2> QED
    BY <2>1, <2>2, TimeAssumption
<1>3. CASE Lock(p)
  <2> PICK j \in due[p] : Lock(p)!(j)
    BY <1>3 DEF Lock
  <2>1. j \in Jobs /\ due' \in [Pods -> SUBSET Jobs] /\ UNCHANGED <<misses, missAge>>
    BY DEF Typed, TypeOK, record
  <2>2. CASE Lockable(j)
    <3>1. [row[j] EXCEPT !.lock = 0] \in Rows
      BY <2>1, <2>2, RowsTyped, SmallNumbers DEF Lockable, Typed, Rows
    <3>2. row' \in [Jobs -> Rows \cup {NoRow}]
      BY <2>2, <3>1, TableTyped DEF Typed
    <3>3. /\ pc' \in [Pods -> Places] /\ job' \in [Pods -> Jobs \cup {NoJob}]
          /\ Placed'
      BY <2>1, <2>2 DEF Typed, TypeOK, Places, Placed
    <3> QED
      BY <1>1, <1>2, <2>1, <3>2, <3>3 DEF Typed, TypeOK, Edited
  <2>3. CASE ~Lockable(j)
    <3>1. row' = row /\ pc' = pc /\ job' = job
      BY <2>3
    <3> QED
      BY <1>1, <1>2, <2>1, <3>1 DEF Typed, TypeOK, Edited, Placed
  <2> QED
    BY <2>2, <2>3
<1>4. CASE Miss(p) \/ MissUnread(p)
  <2>1. k \in Jobs /\ due' = due
    BY <1>4 DEF Miss, CountMiss, Failures, MissUnread, Typed, Placed
  <2>2. /\ pc' \in [Pods -> Places] /\ job' \in [Pods -> Jobs \cup {NoJob}]
        /\ Placed'
    BY <1>4, <2>1 DEF Miss, CountMiss, Failures, MissUnread, Typed, TypeOK, Places, Placed
  <2>3. CASE Exists(k)
    <3> DEFINE n == Least(row[k].failures + 1, cronMaxConsecutiveFailures)
    <3>1. row[k] \in Rows /\ n \in 0 .. cronMaxConsecutiveFailures
      BY <2>1, <2>3, RowsTyped DEF Typed, Rows, Least, cronMaxConsecutiveFailures
    <3>2. [row[k] EXCEPT !.failures = n, !.lock = Free] \in Rows
      BY <3>1, RowUpdates, SmallNumbers
    <3>3. WithRow(k, [row[k] EXCEPT !.failures = n, !.lock = Free])
      BY <1>4, <2>3 DEF Miss, CountMiss, Failures, MissUnread
    <3> HIDE DEF n
    <3>4. row' \in [Jobs -> Rows \cup {NoRow}]
      BY <3>2, <3>3, TableTyped DEF Typed
    <3>5. \A m \in 0 .. cronMaxConsecutiveFailures :
            Least(m + 1, cronMaxConsecutiveFailures) \in 0 .. cronMaxConsecutiveFailures
      BY DEF Least, cronMaxConsecutiveFailures
    <3>6. /\ misses' \in [Jobs -> 0 .. cronMaxConsecutiveFailures]
          /\ missAge' \in [Jobs -> 0 .. cronMaxConsecutiveFailures]
      BY <1>4, <2>1, <2>3, <3>5, SmallNumbers DEF Miss, CountMiss, Failures, MissUnread, Typed,
                                                  TypeOK
    <3> QED
      BY <1>1, <1>2, <2>1, <2>2, <3>4, <3>6 DEF Typed, TypeOK, Edited
  <2>4. CASE ~Exists(k)
    <3>1. UNCHANGED <<row, misses, missAge>>
      BY <1>4, <2>4 DEF Miss, CountMiss, Failures, MissUnread
    <3> QED
      BY <1>1, <1>2, <2>1, <2>2, <3>1 DEF Typed, TypeOK, Edited
  <2> QED
    BY <2>3, <2>4
<1>5. CASE Reap(p) \/ Settle(p) \/ SettleFails(p)
  <2>1. row' = row \/ DeleteCronJob(k) \/ \E next \in Nexts : UpdateCronJobRun(k, next)
    <3>1. \A next \in NextRuns(p, k) : next \in Nexts
      BY NextRunsNext DEF Typed, TypeOK
    <3> QED
      BY <1>5, <3>1, SmallNumbers DEF Reap, Settle, SettleFails
  <2>2. row' \in [Jobs -> Rows \cup {NoRow}]
    BY <2>1, RunTyped DEF DeleteCronJob, WithRow, Typed, TypeOK
  <2>3. /\ pc' \in [Pods -> Places] /\ job' \in [Pods -> Jobs \cup {NoJob}]
        /\ due' = due /\ UNCHANGED <<misses, missAge>> /\ Placed'
    BY <1>5 DEF Reap, Settle, SettleFails, Typed, TypeOK, Places, Placed, record
  <2> QED
    BY <1>1, <1>2, <2>2, <2>3 DEF Typed, TypeOK, Edited
<1>6. CASE LockLost(p)
  <2> PICK j \in due[p] : LockLost(p)!(j)
    BY <1>6 DEF LockLost
  <2>1. j \in Jobs /\ due' \in [Pods -> SUBSET Jobs] /\ UNCHANGED <<misses, missAge>>
    BY DEF Typed, TypeOK, record
  <2>2. [row[j] EXCEPT !.lock = 0] \in Rows
    BY <2>1, RowsTyped, SmallNumbers DEF Lockable, Typed, Rows
  <2>3. row' \in [Jobs -> Rows \cup {NoRow}]
    BY <2>2, TableTyped DEF Typed
  <2> QED
    BY <1>1, <1>2, <2>1, <2>3 DEF Typed, TypeOK, Edited, Placed
<1> QED
  BY <1>3, <1>4, <1>5, <1>6

\* Sleep and crash.
LEMMA TypedRest ==
  ASSUME Typed, NEW p \in Pods, Rest(p) \/ RestFails(p) \/ Crash(p)
  PROVE  Typed'
<1> USE DEF At, Step, Goto, Done
<1>1. /\ row' = row /\ made' = made /\ edit' = edit
      /\ UNCHANGED <<pushed, misses, missAge, toggles>>
  BY DEF Rest, RestFails, Crash, Fault, record, budget
<1>2. wake' \in [Pods -> 0 .. Idle \cup 0 .. Period \cup {Far}]
  <2>1. Pending \subseteq Nexts
    BY RowsTyped DEF Pending, Typed
  <2>2. Pending # {} => Min(Pending) \in Nexts
    BY <2>1, MinNext
  <2>3. Idle \in 0 .. Idle
    BY TimeAssumption
  <2> QED
    BY <2>2, <2>3, SmallNumbers DEF Rest, RestFails, Crash, Typed, TypeOK, Nexts
<1>3. /\ pc' \in [Pods -> Places] /\ due' \in [Pods -> SUBSET Jobs]
      /\ job' \in [Pods -> Jobs \cup {NoJob}] /\ Placed'
  BY DEF Rest, RestFails, Crash, Typed, TypeOK, Places, Placed
<1>4. /\ age' \in [Pods -> 0 .. Period] /\ has' \in [Pods -> SUBSET Jobs]
      /\ notify' \in [Pods -> BOOLEAN]
  <2>1. CASE Rest(p) \/ RestFails(p)
    BY <2>1 DEF Rest, RestFails, Typed, TypeOK
  <2>2. CASE Crash(p)
    <3>1. age' \in [Pods -> 0 .. Period]
      BY <2>2, SmallNumbers DEF Crash, Typed, TypeOK
    <3>2. has' \in [Pods -> SUBSET Jobs]
      BY <2>2 DEF Crash, Typed, TypeOK
    <3>3. notify' \in [Pods -> BOOLEAN]
      BY <2>2 DEF Crash, Typed, TypeOK
    <3> QED
      BY <3>1, <3>2, <3>3
  <2> QED
    BY <2>1, <2>2
<1>5. crashes' \in 0 .. MaxCrashes /\ faults' \in 0 .. MaxFaults
  BY TimeAssumption DEF Rest, RestFails, Crash, Fault, budget, Typed, TypeOK
<1> QED
  BY <1>1, <1>2, <1>3, <1>4, <1>5 DEF Typed, TypeOK, Edited

\* Jobs are created, deleted and toggled, adapters come and go.
LEMMA TypedAround ==
  ASSUME Typed,
         \/ \E p \in Pods, j \in Jobs : Create(p, j) \/ Attach(p, j) \/ Detach(p, j)
         \/ \E j \in Jobs : Delete(j) \/ ToggleRead(j)
         \/ ToggleSave
  PROVE  Typed'
<1> USE DEF poll, record, budget
<1>1. ASSUME NEW p \in Pods, NEW j \in Jobs, Create(p, j) PROVE Typed'
  <2> PICK next \in FirstRuns(j) :
        WithRow(j, [next |-> next, enabled |-> TRUE, failures |-> 0, lock |-> Free])
    BY <1>1 DEF Create
  <2>1. [next |-> next, enabled |-> TRUE, failures |-> 0, lock |-> Free] \in Rows
    <3>1. next \in Nexts
      BY FirstRunsNext
    <3> QED
      BY <3>1, SmallNumbers DEF Rows, Nexts
  <2>2. row' \in [Jobs -> Rows \cup {NoRow}]
    BY <2>1, TableTyped DEF Typed
  <2> QED
    BY <1>1, <2>2 DEF Create, Typed, TypeOK, Placed, Edited
<1>2. ASSUME NEW p \in Pods, NEW j \in Jobs, Attach(p, j) \/ Detach(p, j) PROVE Typed'
  BY <1>2 DEF Attach, Detach, Typed, TypeOK, Placed, Edited
<1>3. ASSUME NEW j \in Jobs, Delete(j) PROVE Typed'
  <2>1. row' \in [Jobs -> Rows \cup {NoRow}]
    BY <1>3 DEF Delete, DeleteCronJob, WithRow, Typed, TypeOK
  <2> QED
    BY <1>3, <2>1 DEF Delete, Typed, TypeOK, Placed, Edited
<1>4. ASSUME NEW j \in Jobs, ToggleRead(j) PROVE Typed'
  <2>1. row[j].next \in 0 .. Period \cup {Far}
    BY <1>4, RowsTyped DEF ToggleRead, Typed, Nexts
  <2>2. /\ edit' \in [job : Jobs \cup {NoJob}, next : 0 .. Period \cup {Far}, enabled : BOOLEAN]
        /\ edit'.job \in Jobs
    BY <1>4, <2>1 DEF ToggleRead
  <2>3. toggles' \in 0 .. MaxToggles
    BY <1>4, TimeAssumption DEF ToggleRead, Typed, TypeOK
  <2> QED
    BY <1>4, <2>2, <2>3 DEF ToggleRead, Typed, TypeOK, Placed, Edited
<1>5. CASE ToggleSave
  <2> DEFINE j == edit.job
  <2>1. j \in Jobs /\ edit.next \in Nexts /\ edit.enabled \in BOOLEAN
    BY <1>5 DEF ToggleSave, Typed, TypeOK, Edited, Nexts
  <2>2. PICK r \in Rows : WithRow(j, r)
    <3>1. CASE Exists(j)
      <4>1. [row[j] EXCEPT !.next = edit.next, !.enabled = edit.enabled] \in Rows
        BY <2>1, <3>1, RowsTyped DEF Typed, Rows, Nexts
      <4> QED
        BY <1>5, <3>1, <4>1 DEF ToggleSave
    <3>2. CASE ~Exists(j)
      <4>1. [next |-> edit.next, enabled |-> edit.enabled, failures |-> 0, lock |-> Free] \in Rows
        BY <2>1, SmallNumbers DEF Rows, Nexts
      <4> QED
        BY <1>5, <3>2, <4>1 DEF ToggleSave
    <3> QED
      BY <3>1, <3>2
  <2>3. row' \in [Jobs -> Rows \cup {NoRow}]
    BY <2>2, TableTyped DEF Typed
  <2>4. NoEdit \in [job : Jobs \cup {NoJob}, next : 0 .. Period \cup {Far}, enabled : BOOLEAN]
    BY SmallNumbers DEF NoEdit, Nexts
  <2> QED
    BY <1>5, <2>3, <2>4 DEF ToggleSave, Typed, TypeOK, Placed, Edited
<1> QED
  BY <1>1, <1>2, <1>3, <1>4, <1>5

LEMMA TypedTick ==
  ASSUME Typed, Tick
  PROVE  Typed'
<1>1. row' \in [Jobs -> Rows \cup {NoRow}]
  <2>1. ASSUME NEW j \in Jobs, Exists(j)
        PROVE  [row[j] EXCEPT !.next = Earlier(@),
                              !.lock = IF @ = Free THEN @ ELSE Least(@ + 1, LockTTL + 1)] \in Rows
    <3> DEFINE next == Earlier(row[j].next)
               lock == IF row[j].lock = Free THEN row[j].lock ELSE Least(row[j].lock + 1,
               LockTTL + 1)
    <3>1. row[j] \in Rows /\ next \in Nexts
      BY <2>1, RowsTyped, EarlierNext DEF Typed
    <3>2. lock \in Free .. LockTTL + 1
      BY <3>1, TimeAssumption DEF Rows, Least, Free
    <3> HIDE DEF next, lock
    <3>3. [row[j] EXCEPT !.next = next, !.lock = lock] \in Rows
      BY <3>1, <3>2 DEF Rows, Nexts
    <3> QED
      BY <3>3 DEF next, lock
  <2> QED
    BY <2>1 DEF Tick
<1>2. age' \in [Pods -> 0 .. Period] /\ wake' \in [Pods -> 0 .. Idle \cup 0 .. Period \cup {Far}]
  <2>1. \A n \in 0 .. Period : Least(n + 1, Period) \in 0 .. Period
    BY TimeAssumption DEF Least
  <2>2. \A n \in 0 .. Idle \cup 0 .. Period \cup {Far} : Earlier(n) \in 0 .. Idle \cup 0 .. Period \cup {Far}
    BY TimeAssumption DEF Earlier, Far
  <2> QED
    BY <2>1, <2>2, SmallNumbers DEF Tick, Typed, TypeOK
<1>3. missAge' \in [Jobs -> 0 .. cronMaxConsecutiveFailures]
  <2>1. \A n \in 0 .. cronMaxConsecutiveFailures :
          Least(n + 1, cronMaxConsecutiveFailures - 1) \in 0 .. cronMaxConsecutiveFailures
    BY DEF Least, cronMaxConsecutiveFailures
  <2> QED
    BY <2>1, SmallNumbers DEF Tick, Typed, TypeOK
<1>4. /\ edit' \in [job : Jobs \cup {NoJob}, next : 0 .. Period \cup {Far}, enabled : BOOLEAN]
      /\ Edited'
  <2>1. edit.next \in Nexts /\ Earlier(edit.next) \in 0 .. Period \cup {Far}
    BY EarlierNext DEF Typed, TypeOK, Nexts
  <2>2. edit' = [edit EXCEPT !.next = Earlier(edit.next)]
    BY DEF Tick
  <2>3. edit = NoEdit => edit' = NoEdit
    <3>1. edit = NoEdit => Earlier(edit.next) = edit.next
      BY DEF NoEdit, Earlier
    <3>2. [edit EXCEPT !.next = edit.next] = edit
      BY DEF Typed, TypeOK
    <3> QED
      BY <2>2, <3>1, <3>2
  <2> QED
    BY <2>1, <2>2, <2>3 DEF Typed, TypeOK, Edited
<1>5. UNCHANGED <<made, has, pc, due, job, notify, pushed, misses, crashes, faults, toggles>>
  BY DEF Tick, budget
<1> QED
  BY <1>1, <1>2, <1>3, <1>4, <1>5 DEF Typed, TypeOK, Placed

LEMMA TypedStep == Typed /\ [Next]_vars => Typed'
<1> SUFFICES ASSUME Typed, [Next]_vars PROVE Typed'
  OBVIOUS
<1>1. ASSUME NEW p \in Pods, Run(p) \/ Fails(p) PROVE Typed'
  BY <1>1, TypedPoll, TypedRow, TypedRest DEF Run, Fails
<1>2. CASE UNCHANGED vars
  BY <1>2 DEF vars, poll, record, budget, Typed, TypeOK, Placed, Edited
<1> QED
  BY <1>1, <1>2, TypedAround, TypedTick DEF Next

\* Every variable keeps its type: a next_run lies in the period or a hundred years
\* away, no count passes its limit, and a lock ages to LockTTL + 1 at most.
THEOREM TypeCorrect == Spec => []TypeOK
<1>1. Typed => TypeOK
  BY DEF Typed
<1> QED
  BY <1>1, TypedInit, TypedStep, PTL DEF Spec

-----------------------------------------------------------------------------
(* What one replica fires.                                                 *)

InHand(p, j) == j \in due[p] \/ Working(p, j)

\* Only an id that was used has a row, a toggle or a replica at it, and no replica
\* has the job it works on in its list as well.
Known ==
  /\ \A j \in Jobs : Exists(j) => j \in made
  /\ edit # NoEdit => edit.job \in made
  /\ \A p \in Pods, j \in Jobs : InHand(p, j) => j \in made
  /\ \A p \in Pods, j \in Jobs : Working(p, j) => j \notin due[p]

\* What the replica has listed and not settled is due, and stays so if the toggle
\* under way saves what it read.
Fresh ==
  /\ \A p \in Pods, j \in Jobs : InHand(p, j) /\ Exists(j) => row[j].next = 0
  /\ edit # NoEdit /\ Exists(edit.job) => edit.next <= row[edit.job].next
  /\ \A p \in Pods : edit # NoEdit /\ InHand(p, edit.job) => edit.next = 0

Timely == Typed /\ Known /\ Fresh

LEMMA TimelyInit == Init => Timely
<1> SUFFICES ASSUME Init PROVE Timely
  OBVIOUS
<1>1. \A p \in Pods, j \in Jobs : ~InHand(p, j) /\ ~Exists(j)
  BY DEF Init, InHand, Working, Exists
<1>2. edit = NoEdit
  BY DEF Init
<1>4. Known
  BY DEF Init, Known, InHand, Working, Exists
<1>5. Fresh
  BY <1>1, <1>2 DEF Fresh
<1> QED
  BY <1>4, <1>5, TypedInit DEF Timely

\* A step that takes no job in hand, and moves no next_run.
LEMMA TimelyStays ==
  ASSUME Timely, Typed', made' = made, edit' = edit,
         \A q \in Pods, j \in Jobs : InHand(q, j)' => InHand(q, j),
         \A q \in Pods, j \in Jobs : Working(q, j)' => j \notin due'[q],
         \A j \in Jobs : row'[j] # NoRow => Exists(j) /\ row'[j].next = row[j].next
  PROVE  Timely'
<1>1. edit # NoEdit => edit.job \in Jobs
  BY DEF Timely, Typed, Edited
<1>2. Known'
  BY DEF Timely, Known, Exists
<1>3. Fresh'
  BY <1>1 DEF Timely, Fresh, Exists
<1> QED
  BY <1>2, <1>3 DEF Timely

\* Steps of the replica that list nothing and leave the table alone.
LEMMA TimelyQuiet ==
  ASSUME Timely, Typed', NEW p \in Pods,
         \/ NoneLeft(p) \/ Reachable(p) \/ Push(p) \/ Rest(p) \/ Wake(p) \/ Restart(p)
         \/ ListFails(p) \/ LockFails(p) \/ MissFails(p) \/ ReapFails(p) \/ RestFails(p) \/ Crash(p)
  PROVE  Timely'
<1> USE DEF At, Step, Goto, Done
<1>1. row' = row /\ made' = made /\ edit' = edit
  BY DEF NoneLeft, Reachable, Push, Rest, Wake, Restart, ListFails, LockFails, MissFails, ReapFails,
         RestFails, Crash
<1>2. \A q \in Pods : due'[q] \subseteq due[q]
  BY DEF NoneLeft, Reachable, Push, Rest, Wake, Restart, ListFails, LockFails, MissFails, ReapFails,
         RestFails, Crash, Timely, Typed, TypeOK
<1>3. \A q \in Pods, j \in Jobs : Working(q, j)' => Working(q, j)
  BY JobAssumption
  DEF NoneLeft, Reachable, Push, Rest, Wake, Restart, ListFails, LockFails, MissFails, ReapFails,
      RestFails, Crash, Timely, Typed, TypeOK, Working
<1>4. \A q \in Pods, j \in Jobs : InHand(q, j)' => InHand(q, j)
  BY <1>2, <1>3 DEF InHand
<1>5. \A q \in Pods, j \in Jobs : Working(q, j)' => j \notin due'[q]
  BY <1>2, <1>3 DEF Timely, Known
<1> QED
  BY <1>1, <1>4, <1>5, TimelyStays DEF Exists

\* What the replica lists is due, whatever a toggle read before.
LEMMA TimelyList ==
  ASSUME Timely, Typed', NEW p \in Pods, List(p)
  PROVE  Timely'
<1>1. /\ row' = row /\ made' = made /\ edit' = edit /\ job' = job
      /\ due' = [due EXCEPT ![p] = Due] /\ pc' = [pc EXCEPT ![p] = "next"]
  BY DEF List, At, Step, Goto
<1>2. ASSUME NEW q \in Pods, NEW j \in Jobs, InHand(q, j)' PROVE InHand(q, j) \/ j \in Due
  BY <1>1, <1>2 DEF InHand, Working, Timely, Typed, TypeOK
<1>3. ASSUME NEW q \in Pods, NEW j \in Jobs, Working(q, j)' PROVE j \notin due'[q]
  BY <1>1, <1>3 DEF Working, Timely, Typed, TypeOK, Known
<1>4. Known'
  BY <1>1, <1>2, <1>3 DEF Timely, Known, Exists, Due
<1>5. ASSUME edit # NoEdit, edit.job \in Due PROVE edit.next = 0
  <2>1. edit.next <= 0 /\ edit.next \in Nexts
    BY <1>5 DEF Timely, Fresh, Due, Typed, TypeOK, Nexts
  <2> QED
    BY <2>1, TimeAssumption DEF Nexts, Far
<1>6. edit # NoEdit => edit.job \in Jobs
  BY DEF Timely, Typed, Edited
<1>7. Fresh'
  BY <1>1, <1>2, <1>5, <1>6 DEF Timely, Fresh, Exists, Due
<1> QED
  BY <1>4, <1>7 DEF Timely

LEMMA TimelyLock ==
  ASSUME Timely, Typed', NEW p \in Pods, Lock(p)
  PROVE  Timely'
<1> PICK j \in due[p] : Lock(p)!(j)
  BY DEF Lock
<1>1. /\ j \in Jobs /\ made' = made /\ edit' = edit /\ pc[p] = "next"
      /\ due' = [due EXCEPT ![p] = @ \ {j}]
  BY DEF At, Step, Timely, Typed, TypeOK
<1>2. CASE Lockable(j)
  <2>1. /\ row' = [row EXCEPT ![j] = [row[j] EXCEPT !.lock = 0]]
        /\ job' = [job EXCEPT ![p] = j] /\ pc' = [pc EXCEPT ![p] = "check"]
    BY <1>2 DEF WithRow, Goto
  <2>2. row[j] \in Rows /\ Exists(j)
    BY <1>1, <1>2, RowsTyped DEF Timely, Typed, Lockable
  <2>3. \A k \in Jobs : row'[k] # NoRow => Exists(k) /\ row'[k].next = row[k].next
    BY <1>1, <2>1, <2>2 DEF Timely, Typed, TypeOK, Exists, Rows
  <2>4. \A q \in Pods, k \in Jobs : InHand(q, k)' => InHand(q, k)
    BY <1>1, <2>1 DEF Timely, Typed, TypeOK, InHand, Working
  <2>5. \A q \in Pods, k \in Jobs : Working(q, k)' => k \notin due'[q]
    BY <1>1, <2>1 DEF Timely, Typed, TypeOK, Known, Working
  <2> QED
    BY <1>1, <2>3, <2>4, <2>5, TimelyStays
<1>3. CASE ~Lockable(j)
  <2>1. row' = row /\ job' = job /\ pc' = pc
    BY <1>3
  <2>2. \A q \in Pods, k \in Jobs : InHand(q, k)' => InHand(q, k)
    BY <1>1, <2>1 DEF Timely, Typed, TypeOK, InHand, Working
  <2>3. \A q \in Pods, k \in Jobs : Working(q, k)' => k \notin due'[q]
    BY <1>1, <2>1 DEF Timely, Typed, TypeOK, Known, Working
  <2> QED
    BY <1>1, <2>1, <2>2, <2>3, TimelyStays DEF Exists
<1> QED
  BY <1>2, <1>3

LEMMA TimelyLockLost ==
  ASSUME Timely, Typed', NEW p \in Pods, LockLost(p)
  PROVE  Timely'
<1> PICK j \in due[p] : LockLost(p)!(j)
  BY DEF LockLost
<1>1. /\ j \in Jobs /\ made' = made /\ edit' = edit /\ job' = job /\ pc' = pc
      /\ due' = [due EXCEPT ![p] = @ \ {j}]
      /\ row' = [row EXCEPT ![j] = [row[j] EXCEPT !.lock = 0]]
  BY DEF At, Step, WithRow, Timely, Typed, TypeOK
<1>2. row[j] \in Rows /\ Exists(j)
  BY <1>1, RowsTyped DEF Timely, Typed, Lockable
<1>3. \A k \in Jobs : row'[k] # NoRow => Exists(k) /\ row'[k].next = row[k].next
  BY <1>1, <1>2 DEF Timely, Typed, TypeOK, Exists, Rows
<1>4. \A q \in Pods, k \in Jobs : InHand(q, k)' => InHand(q, k)
  BY <1>1 DEF Timely, Typed, TypeOK, InHand, Working
<1>5. \A q \in Pods, k \in Jobs : Working(q, k)' => k \notin due'[q]
  BY <1>1 DEF Timely, Typed, TypeOK, Known, Working
<1> QED
  BY <1>1, <1>3, <1>4, <1>5, TimelyStays

\* The replica lets go of its job k and writes at most that row.
LEMMA TimelyLetsGo ==
  ASSUME Timely, Typed', \A p, q \in Pods : p = q, NEW p \in Pods, NEW k, job[p] = k,
         ~InHand(p, k)' \/ row'[k] = NoRow \/ k \notin Jobs,
         made' = made, edit' = edit, due' = due,
         pc'[p] \notin {"check", "push", "settle"},
         \A j \in Jobs : j # k => row'[j] = row[j],
         \A j \in Jobs : row'[j] # NoRow => Exists(j),
         k \in Jobs /\ row'[k] # NoRow => Working(p, k) \/ row'[k].next = row[k].next
  PROVE  Timely'
<1>1. \A j \in Jobs : row'[j] # NoRow => row'[j].next \in Nexts
  BY DEF Typed, TypeOK, Rows, Nexts
<1>2. \A q \in Pods, j \in Jobs : ~Working(q, j)'
  BY DEF Working
<1>3. Known'
  BY <1>2 DEF Timely, Known, InHand, Exists
<1>4. edit # NoEdit => edit.job \in Jobs
  BY DEF Timely, Typed, Edited
<1>5. ASSUME edit # NoEdit, row'[edit.job] # NoRow PROVE edit.next <= row'[edit.job].next
  <2>1. CASE edit.job = k /\ Working(p, k)
    <3>1. edit.next = 0
      BY <1>5, <2>1 DEF Timely, Fresh, InHand
    <3>2. \A t \in Nexts : 0 <= t
      BY TimeAssumption DEF Nexts, Far
    <3> QED
      BY <1>1, <1>4, <1>5, <3>1, <3>2
  <2>2. CASE ~(edit.job = k /\ Working(p, k))
    BY <1>4, <1>5, <2>2 DEF Timely, Fresh, Exists
  <2> QED
    BY <2>1, <2>2
<1>6. \A q \in Pods, j \in Jobs : InHand(q, j)' /\ row'[j] # NoRow => InHand(q, j) /\ j # k
  BY <1>2 DEF InHand
<1>7. Fresh'
  BY <1>2, <1>4, <1>5, <1>6 DEF Timely, Fresh, Exists, InHand
<1> QED
  BY <1>3, <1>7 DEF Timely

LEMMA TimelyClose ==
  ASSUME Timely, Typed', \A p, q \in Pods : p = q, NEW p \in Pods,
         Miss(p) \/ MissUnread(p) \/ Reap(p) \/ Settle(p) \/ SettleFails(p)
  PROVE  Timely'
<1> PICK k : k = job[p]
  OBVIOUS
<1> USE DEF At, Step, Goto, Done
<1>1. /\ made' = made /\ edit' = edit /\ due' = due /\ pc'[p] \in {"next", "reap"}
      /\ pc[p] \in {"check", "settle", "reap"}
  BY DEF Miss, CountMiss, Failures, MissUnread, Reap, Settle, SettleFails, Timely, Typed, TypeOK
<1>2. k \in Jobs
  BY <1>1 DEF Timely, Typed, Placed
<1>3. /\ \A j \in Jobs : j # k => row'[j] = row[j]
      /\ \A j \in Jobs : row'[j] # NoRow => Exists(j)
  <2>1. CASE Miss(p) \/ MissUnread(p)
    BY <1>2, <2>1 DEF Miss, CountMiss, Failures, MissUnread, WithRow, Exists, Timely, Typed, TypeOK
  <2>2. CASE Reap(p) \/ Settle(p) \/ SettleFails(p)
    <3>1. row' = row \/ DeleteCronJob(k) \/ \E next : UpdateCronJobRun(k, next)
      BY <2>2 DEF Reap, Settle, SettleFails
    <3>2. CASE DeleteCronJob(k)
      BY <1>2, <3>2 DEF DeleteCronJob, WithRow, Exists, Timely, Typed, TypeOK
    <3>3. CASE \E next : UpdateCronJobRun(k, next)
      BY <1>2, <3>3 DEF UpdateCronJobRun, WithRow, Exists, Timely, Typed, TypeOK
    <3>4. CASE row' = row
      BY <3>4 DEF Exists
    <3> QED
      BY <3>1, <3>2, <3>3, <3>4
  <2> QED
    BY <2>1, <2>2
<1>4. pc[p] # "reap" => Working(p, k) /\ k \notin due[p]
  BY <1>1, <1>2 DEF Working, Timely, Known
<1>5. pc[p] = "reap" => row'[k] = NoRow
  BY <1>2 DEF Miss, CountMiss, Failures, MissUnread, Reap, Settle, SettleFails, DeleteCronJob,
              WithRow, Timely, Typed, TypeOK
<1>6. pc[p] # "reap" => ~InHand(p, k)'
  BY <1>1, <1>4 DEF InHand, Working
<1> QED
  BY <1>1, <1>3, <1>4, <1>5, <1>6, TimelyLetsGo

LEMMA TimelyToggle ==
  ASSUME Timely, Typed', ToggleSave \/ \E j \in Jobs : ToggleRead(j)
  PROVE  Timely'
<1> USE DEF poll
<1>1. made' = made /\ pc' = pc /\ due' = due /\ job' = job
  BY DEF ToggleSave, ToggleRead
<1>2. \A p \in Pods, j \in Jobs : InHand(p, j)' = InHand(p, j) /\ Working(p, j)' = Working(p, j)
  BY <1>1 DEF InHand, Working
<1>3. CASE ToggleSave
  <2> DEFINE j == edit.job
  <2>1. edit # NoEdit /\ edit' = NoEdit /\ j \in Jobs /\ j \in made
    BY <1>3 DEF ToggleSave, Timely, Typed, Edited, Known
  <2>2. row'[j].next = edit.next /\ \A k \in Jobs : k # j => row'[k] = row[k]
    <3>1. CASE Exists(j)
      <4>1. row[j] \in Rows
        BY <2>1, <3>1, RowsTyped DEF Timely, Typed
      <4> QED
        BY <1>3, <2>1, <3>1, <4>1 DEF ToggleSave, WithRow, Timely, Typed, TypeOK, Rows
    <3>2. CASE ~Exists(j)
      BY <1>3, <2>1, <3>2 DEF ToggleSave, WithRow, Timely, Typed, TypeOK
    <3> QED
      BY <3>1, <3>2
  <2>3. Known'
    BY <1>1, <1>2, <2>1, <2>2 DEF Timely, Known, Exists
  <2>4. Fresh'
    BY <1>2, <2>1, <2>2 DEF Timely, Fresh, Exists
  <2> QED
    BY <2>3, <2>4 DEF Timely
<1>4. ASSUME NEW j \in Jobs, ToggleRead(j) PROVE Timely'
  <2>1. row' = row /\ Exists(j) /\ edit'.job = j /\ edit'.next = row[j].next
    BY <1>4 DEF ToggleRead
  <2>2. row[j].next \in Nexts
    BY <2>1, RowsTyped DEF Timely, Typed
  <2>3. Known'
    BY <1>1, <1>2, <2>1 DEF Timely, Known, Exists
  <2>4. edit'.next <= row'[edit'.job].next
    <3>1. \A t \in Nexts : t <= t
      BY TimeAssumption DEF Nexts, Far
    <3> QED
      BY <2>1, <2>2, <3>1
  <2>5. \A p \in Pods : InHand(p, j) => row[j].next = 0
    BY <2>1 DEF Timely, Fresh
  <2>6. Fresh'
    BY <1>2, <2>1, <2>4, <2>5 DEF Timely, Fresh, Exists
  <2> QED
    BY <2>3, <2>6 DEF Timely
<1> QED
  BY <1>3, <1>4

LEMMA TimelyAround ==
  ASSUME Timely, Typed',
         \/ \E p \in Pods, j \in Jobs : Create(p, j) \/ Attach(p, j) \/ Detach(p, j)
         \/ \E j \in Jobs : Delete(j)
         \/ UNCHANGED vars
  PROVE  Timely'
<1> USE DEF poll
<1>1. edit' = edit /\ pc' = pc /\ due' = due /\ job' = job
  BY DEF Create, Attach, Detach, Delete, vars
<1>2. \A p \in Pods, j \in Jobs : InHand(p, j)' = InHand(p, j) /\ Working(p, j)' = Working(p, j)
  BY <1>1 DEF InHand, Working
<1>3. ASSUME NEW p \in Pods, NEW j \in Jobs, Create(p, j) PROVE Timely'
  <2>1. j \notin made /\ made' = made \cup {j} /\ \A k \in Jobs : k # j => row'[k] = row[k]
    BY <1>3 DEF Create, WithRow, Timely, Typed, TypeOK
  <2>2. edit # NoEdit => edit.job \in Jobs /\ edit.job # j
    BY <2>1 DEF Timely, Typed, Edited, Known
  <2>3. Known'
    BY <1>1, <1>2, <2>1 DEF Timely, Known, Exists
  <2>4. Fresh'
    BY <1>1, <1>2, <2>1, <2>2 DEF Timely, Known, Fresh, Exists
  <2> QED
    BY <2>3, <2>4 DEF Timely
<1>4. CASE \/ \E p \in Pods, j \in Jobs : Attach(p, j) \/ Detach(p, j)
           \/ \E j \in Jobs : Delete(j)
           \/ UNCHANGED vars
  <2>1. made' = made /\ \A k \in Jobs : row'[k] # NoRow => Exists(k) /\ row'[k].next = row[k].next
    BY <1>4 DEF Attach, Detach, Delete, DeleteCronJob, WithRow, vars, Exists, Timely, Typed, TypeOK
  <2>2. \A q \in Pods, j \in Jobs : Working(q, j)' => j \notin due'[q]
    BY <1>1, <1>2 DEF Timely, Known
  <2> QED
    BY <1>1, <1>2, <2>1, <2>2, TimelyStays
<1> QED
  BY <1>3, <1>4

\* Time brings what is read and what is stored closer alike.
LEMMA TimelyTick ==
  ASSUME Timely, Typed', Tick
  PROVE  Timely'
<1>1. made' = made /\ pc' = pc /\ due' = due /\ job' = job
  BY DEF Tick
<1>2. \A p \in Pods, j \in Jobs : InHand(p, j)' = InHand(p, j) /\ Working(p, j)' = Working(p, j)
  BY <1>1 DEF InHand, Working
<1>3. ASSUME NEW j \in Jobs, row'[j] # NoRow
      PROVE  Exists(j) /\ row'[j].next = Earlier(row[j].next)
  <2>1. Exists(j)
    BY <1>3 DEF Tick
  <2>2. row[j] \in Rows
    BY <2>1, RowsTyped DEF Timely, Typed
  <2> QED
    BY <2>1, <2>2 DEF Tick, Rows
<1>4. edit'.job = edit.job /\ edit'.next = Earlier(edit.next) /\ (edit' # NoEdit => edit # NoEdit)
  <2>1. edit' = [edit EXCEPT !.next = Earlier(edit.next)]
    BY DEF Tick
  <2>2. edit'.job = edit.job /\ edit'.next = Earlier(edit.next)
    BY <2>1 DEF Timely, Typed, TypeOK
  <2>3. edit = NoEdit => Earlier(edit.next) = edit.next
    BY DEF NoEdit, Earlier
  <2>4. [edit EXCEPT !.next = edit.next] = edit
    BY DEF Timely, Typed, TypeOK
  <2> QED
    BY <2>1, <2>2, <2>3, <2>4
<1>5. Earlier(0) = 0 /\ \A t, u \in Nexts : t <= u => Earlier(t) <= Earlier(u)
  BY TimeAssumption DEF Earlier, Nexts, Far
<1>6. edit.next \in Nexts /\ (edit # NoEdit => edit.job \in Jobs)
  BY DEF Timely, Typed, TypeOK, Edited, Nexts
<1>7. \A j \in Jobs : Exists(j) => row[j].next \in Nexts
  BY RowsTyped DEF Timely, Typed
<1>8. Known'
  BY <1>1, <1>2, <1>3, <1>4 DEF Timely, Known, Exists
<1>9. Fresh'
  BY <1>2, <1>3, <1>4, <1>5, <1>6, <1>7 DEF Timely, Fresh, Exists
<1> QED
  BY <1>8, <1>9 DEF Timely

LEMMA TimelyStep ==
  ASSUME \A p, q \in Pods : p = q, Timely, [Next]_vars
  PROVE  Timely'
<1>1. Typed'
  BY TypedStep DEF Timely
<1>2. ASSUME NEW p \in Pods, Run(p) \/ Fails(p) PROVE Timely'
  BY <1>1, <1>2, TimelyQuiet, TimelyList, TimelyLock, TimelyLockLost, TimelyClose DEF Run, Fails
<1> QED
  BY <1>1, <1>2, TimelyToggle, TimelyAround, TimelyTick DEF Next

(***************************************************************************)
(* One replica fires what is due and nothing else, whatever crashes, fails *)
(* or is toggled: between its list and its delivery no one moves the       *)
(* next_run of a listed job, the save of a toggle's older copy included    *)
(* (scheduler.go:214-336, handlers_cron.go).                               *)
(***************************************************************************)
THEOREM FiredWhenDue ==
  ASSUME \A p, q \in Pods : p = q
  PROVE  Spec => FiresWhenDue
<1>1. Timely /\ [Next]_vars => Timely'
  BY TimelyStep
<1>2. Timely => \A p \in Pods : pc[p] = "push" /\ pc'[p] = "settle" /\ Exists(job[p])
                                  => row[job[p]].next = 0
  BY DEF Timely, Fresh, InHand, Working, Typed, Placed
<1> QED
  BY TimelyInit, <1>1, <1>2, PTL DEF Spec, FiresWhenDue

-----------------------------------------------------------------------------
(* What one replica gives up, and how long it sleeps.                      *)

Settling(j) == \E p \in Pods : pc[p] = "settle" /\ job[p] = j

\* The row of a job counts no miss that was not one since its last delivery, but for
\* the moment between a delivery and its statement; and three came before a delete.
Counted ==
  /\ \A j \in Jobs : Exists(j) /\ ~Settling(j) => row[j].failures <= misses[j]
  /\ \A p \in Pods : pc[p] = "reap" => misses[job[p]] >= cronMaxConsecutiveFailures

\* Asleep and not woken, it sleeps past no row.
Rested ==
  \A p \in Pods, j \in Jobs :
    pc[p] = "asleep" /\ ~notify[p] /\ Exists(j) /\ row[j].enabled => wake[p] <= row[j].next

Patient == Typed /\ (toggles = 0 => edit = NoEdit) /\ (Undisturbed => Counted /\ Rested)

LEMMA PatientInit == Init => Patient
<1> SUFFICES ASSUME Init PROVE Patient
  OBVIOUS
<1>1. Counted /\ Rested
  BY DEF Init, Counted, Rested, Exists
<1>2. edit = NoEdit
  BY DEF Init
<1> QED
  BY <1>1, <1>2, TypedInit DEF Patient

LEMMA CountedStays ==
  ASSUME Typed', Counted, misses' = misses,
         \A j \in Jobs : row'[j] # NoRow => Exists(j) /\ row'[j].failures = row[j].failures,
         \A q \in Pods : pc[q] = "settle" => pc'[q] = "settle" /\ job'[q] = job[q],
         \A q \in Pods : pc'[q] = "reap" => pc[q] = "reap" /\ job'[q] = job[q]
  PROVE  Counted'
<1>1. \A j \in Jobs : Settling(j) => Settling(j)'
  BY DEF Settling
<1> QED
  BY <1>1 DEF Counted, Exists

LEMMA CountedQuiet ==
  ASSUME Typed, Typed', Counted, NEW p \in Pods,
         List(p) \/ NoneLeft(p) \/ Reachable(p) \/ Rest(p) \/ Wake(p) \/ Restart(p)
  PROVE  Counted'
<1> USE DEF At, Step, Goto, record
<1>1. row' = row /\ misses' = misses /\ job' = job
  BY DEF List, NoneLeft, Reachable, Rest, Wake, Restart
<1>2. /\ \A q \in Pods : q # p => pc'[q] = pc[q]
      /\ pc[p] # "settle" /\ pc'[p] # "reap"
  BY DEF List, NoneLeft, Reachable, Rest, Wake, Restart, Typed, TypeOK
<1> QED
  BY <1>1, <1>2, CountedStays DEF Exists

LEMMA CountedLock ==
  ASSUME Typed, Typed', Counted, NEW p \in Pods, Lock(p)
  PROVE  Counted'
<1> PICK j \in due[p] : Lock(p)!(j)
  BY DEF Lock
<1>1. j \in Jobs /\ misses' = misses /\ pc[p] = "next"
  BY DEF At, Step, record, Typed, TypeOK
<1>2. CASE Lockable(j)
  <2>1. /\ row' = [row EXCEPT ![j] = [row[j] EXCEPT !.lock = 0]]
        /\ job' = [job EXCEPT ![p] = j] /\ pc' = [pc EXCEPT ![p] = "check"]
    BY <1>2 DEF WithRow, Goto
  <2>2. row[j] \in Rows /\ Exists(j)
    BY <1>1, <1>2, RowsTyped DEF Typed, Lockable
  <2>3. \A k \in Jobs : row'[k] # NoRow => Exists(k) /\ row'[k].failures = row[k].failures
    BY <1>1, <2>1, <2>2 DEF Typed, TypeOK, Exists, Rows
  <2> QED
    BY <1>1, <2>1, <2>3, CountedStays DEF Typed, TypeOK
<1>3. CASE ~Lockable(j)
  BY <1>1, <1>3, CountedStays DEF Exists
<1> QED
  BY <1>2, <1>3

\* A delivery clears the misses, and the failures only in its statement.
LEMMA CountedPush ==
  ASSUME Typed, Typed', Counted, \A p, q \in Pods : p = q, NEW p \in Pods, Push(p)
  PROVE  Counted'
<1> PICK k : k = job[p]
  OBVIOUS
<1>1. /\ row' = row /\ job' = job /\ pc' = [pc EXCEPT ![p] = "settle"]
      /\ misses' = [misses EXCEPT ![k] = 0]
  BY DEF Push, At, Step, Goto
<1>2. pc'[p] = "settle" /\ job'[p] = k
  BY <1>1 DEF Typed, TypeOK
<1>3. Settling(k)' /\ \A q \in Pods : pc'[q] # "reap"
  BY <1>2 DEF Settling
<1>4. \A j \in Jobs : ~Settling(j)' => j # k /\ ~Settling(j)
  <2>1. pc[p] # "settle"
    BY DEF Push, At
  <2> QED
    BY <1>3, <2>1 DEF Settling
<1> QED
  BY <1>1, <1>3, <1>4 DEF Counted, Exists, Typed, TypeOK

\* The failures cleared, or the row gone: the others stand as they are.
LEMMA CountedClose ==
  ASSUME Typed, Typed', Counted, \A p, q \in Pods : p = q, NEW p \in Pods, Reap(p) \/ Settle(p)
  PROVE  Counted'
<1> PICK k : k = job[p]
  OBVIOUS
<1> USE DEF At, Step, Goto, Done, record
<1>1. misses' = misses /\ pc'[p] = "next" /\ pc[p] \in {"reap", "settle"}
  BY DEF Reap, Settle, Typed, TypeOK
<1>2. k \in Jobs
  BY <1>1 DEF Typed, Placed
<1>3. \A j \in Jobs : j # k => row'[j] = row[j] /\ ~Settling(j)
  <2>1. DeleteCronJob(k) \/ \E next : UpdateCronJobRun(k, next)
    BY DEF Reap, Settle
  <2>2. \A j \in Jobs : j # k => row'[j] = row[j]
    BY <1>2, <2>1 DEF DeleteCronJob, UpdateCronJobRun, WithRow, Typed, TypeOK
  <2>3. \A j \in Jobs : j # k => ~Settling(j)
    BY <1>1 DEF Settling
  <2> QED
    BY <2>2, <2>3
<1>4. row'[k] = NoRow \/ row'[k].failures = 0
  <2>1. CASE Exists(k)
    <3>1. row[k] \in Rows
      BY <1>2, <2>1, RowsTyped DEF Typed
    <3>2. CASE DeleteCronJob(k)
      BY <1>2, <3>2 DEF DeleteCronJob, WithRow, Typed, TypeOK
    <3>3. ASSUME NEW next, UpdateCronJobRun(k, next) PROVE row'[k].failures = 0
      <4> DEFINE new == [row[k] EXCEPT !.next = next, !.failures = 0, !.lock = Free]
      <4>1. new.failures = 0
        BY <3>1 DEF Rows
      <4>2. row' = [row EXCEPT ![k] = new]
        BY <2>1, <3>3 DEF UpdateCronJobRun, WithRow
      <4> HIDE DEF new
      <4> QED
        BY <1>2, <4>1, <4>2 DEF Typed, TypeOK
    <3>4. DeleteCronJob(k) \/ \E next : UpdateCronJobRun(k, next)
      BY DEF Reap, Settle
    <3> QED
      BY <3>2, <3>3, <3>4
  <2>2. CASE ~Exists(k)
    BY <1>2, <2>2
    DEF Reap, Settle, DeleteCronJob, UpdateCronJobRun, WithRow, Exists, Typed, TypeOK
  <2> QED
    BY <2>1, <2>2
<1>5. \A q \in Pods : pc'[q] # "reap"
  BY <1>1
<1>6. 0 <= misses[k]
  <2>1. misses[k] \in 0 .. cronMaxConsecutiveFailures
    BY <1>2 DEF Typed, TypeOK
  <2> QED
    BY <2>1 DEF cronMaxConsecutiveFailures
<1> QED
  BY <1>1, <1>3, <1>4, <1>5, <1>6 DEF Counted, Exists

\* The row and the record count a miss together.
LEMMA CountedMiss ==
  ASSUME Typed, Typed', Counted, \A p, q \in Pods : p = q, NEW p \in Pods, Miss(p)
  PROVE  Counted'
<1> PICK k : k = job[p]
  OBVIOUS
<1> USE DEF At, Step, Goto, Done
<1>1. k \in Jobs /\ pc[p] = "check" /\ \A j \in Jobs : ~Settling(j)
  BY DEF Miss, CountMiss, Failures, Typed, Placed, Settling
<1>2. CASE ~Exists(k)
  <2>1. row' = row /\ misses' = misses /\ pc'[p] = "next"
    BY <1>2 DEF Miss, CountMiss, Failures, Typed, TypeOK
  <2> QED
    BY <1>1, <2>1 DEF Counted, Exists
<1>3. CASE Exists(k)
  <2> DEFINE n == Least(row[k].failures + 1, cronMaxConsecutiveFailures)
             m == Least(misses[k] + 1, cronMaxConsecutiveFailures)
  <2>1. /\ row[k] \in Rows /\ row[k].failures \in 0 .. 3 /\ misses[k] \in 0 .. 3
        /\ row[k].failures <= misses[k]
    BY <1>1, <1>3, RowsTyped DEF Typed, TypeOK, Rows, Counted, cronMaxConsecutiveFailures
  <2>2. n <= m /\ n \in 0 .. 3 /\ m \in 0 .. 3 /\ (n >= 3 => m >= 3)
    BY <2>1 DEF Least, cronMaxConsecutiveFailures
  <2>3. /\ row' = [row EXCEPT ![k] = [row[k] EXCEPT !.failures = n, !.lock = Free]]
        /\ misses' = [misses EXCEPT ![k] = m]
    BY <1>3 DEF Miss, CountMiss, Failures, WithRow
  <2>4. /\ n >= cronMaxConsecutiveFailures => job'[p] = k
        /\ ~(n >= cronMaxConsecutiveFailures) => pc'[p] = "next"
    BY <1>3 DEF Miss, CountMiss, Failures, Typed, TypeOK
  <2> HIDE DEF n, m
  <2>5. row'[k].failures = n /\ misses'[k] = m
    BY <1>1, <2>1, <2>3 DEF Typed, TypeOK, Rows
  <2>6. \A j \in Jobs : j # k => row'[j] = row[j] /\ misses'[j] = misses[j]
    BY <1>1, <2>3 DEF Typed, TypeOK
  <2>7. \A j \in Jobs : Exists(j)' => row'[j].failures <= misses'[j]
    BY <1>1, <2>2, <2>5, <2>6 DEF Counted, Exists
  <2>8. ASSUME NEW q \in Pods, pc'[q] = "reap" PROVE misses'[job'[q]] >= 3
    <3>1. q = p /\ n >= 3 /\ job'[q] = k
      BY <2>4, <2>8 DEF cronMaxConsecutiveFailures
    <3> QED
      BY <2>2, <2>5, <3>1
  <2> QED
    BY <2>7, <2>8 DEF Counted, cronMaxConsecutiveFailures
<1> QED
  BY <1>2, <1>3

LEMMA CountedAround ==
  ASSUME Typed, Typed', Counted,
         \/ \E p \in Pods, j \in Jobs : Create(p, j) \/ Attach(p, j) \/ Detach(p, j)
         \/ \E j \in Jobs : Delete(j)
         \/ Tick \/ UNCHANGED vars
  PROVE  Counted'
<1> USE DEF poll, record
<1>1. pc' = pc /\ job' = job /\ misses' = misses
  BY DEF Create, Attach, Detach, Delete, Tick, vars
<1>2. ASSUME NEW p \in Pods, NEW j \in Jobs, Create(p, j) PROVE Counted'
  <2>1. row'[j].failures = 0 /\ \A k \in Jobs : k # j => row'[k] = row[k]
    BY <1>2 DEF Create, WithRow, Typed, TypeOK
  <2>2. 0 <= misses[j]
    BY SMTT(30) DEF Typed, TypeOK, cronMaxConsecutiveFailures
  <2>3. \A k \in Jobs : Settling(k)' = Settling(k)
    BY <1>1 DEF Settling
  <2> QED
    BY <1>1, <2>1, <2>2, <2>3 DEF Counted, Exists
<1>3. CASE Tick
  <2>1. ASSUME NEW j \in Jobs, row'[j] # NoRow
        PROVE  Exists(j) /\ row'[j].failures = row[j].failures
    <3>1. Exists(j)
      BY <1>3, <2>1 DEF Tick
    <3>2. row[j] \in Rows
      BY <3>1, RowsTyped DEF Typed
    <3> QED
      BY <1>3, <3>1, <3>2 DEF Tick, Rows
  <2> QED
    BY <1>1, <2>1, CountedStays
<1>4. CASE \/ \E p \in Pods, j \in Jobs : Attach(p, j) \/ Detach(p, j)
           \/ \E j \in Jobs : Delete(j)
           \/ UNCHANGED vars
  <2>1. \A k \in Jobs : row'[k] # NoRow => Exists(k) /\ row'[k].failures = row[k].failures
    BY <1>4 DEF Attach, Detach, Delete, DeleteCronJob, WithRow, vars, Exists, Typed, TypeOK
  <2> QED
    BY <1>1, <2>1, CountedStays
<1> QED
  BY <1>2, <1>3, <1>4

\* What it falls asleep for is the least of what is pending.
LEMMA RestedRun ==
  ASSUME Typed, Typed', Rested, \A p, q \in Pods : p = q, NEW p \in Pods, Run(p)
  PROVE  Rested'
<1> USE DEF At, Step, Goto
<1>1. CASE Rest(p)
  <2>1. row' = row /\ (0 \in Pending => pc'[p] = "poll")
    BY <1>1 DEF Rest, Typed, TypeOK
  <2>2. ASSUME 0 \notin Pending, NEW j \in Jobs, Exists(j), row[j].enabled
        PROVE  wake'[p] <= row[j].next
    <3>1. Pending \subseteq Nexts /\ row[j].next \in Pending
      BY <2>2, RowsTyped DEF Pending, Typed
    <3>2. wake'[p] = Min(Pending)
      BY <1>1, <2>2, <3>1 DEF Rest, Typed, TypeOK
    <3> QED
      BY <3>1, <3>2, MinNext
  <2> QED
    BY <2>1, <2>2 DEF Rested, Exists
<1>2. CASE ~Rest(p)
  <2>1. pc'[p] # "asleep"
    BY <1>2, ZenonT(40) DEF Run, List, Lock, NoneLeft, Reachable, Miss, CountMiss, Failures, Reap,
                            Push, Settle, Wake, Restart,
               Typed, TypeOK
  <2> QED
    BY <2>1 DEF Rested
<1> QED
  BY <1>1, <1>2

\* A new job wakes the replica; time passes for its sleep as for the rows.
LEMMA RestedAround ==
  ASSUME Typed, Typed', Rested, \A p, q \in Pods : p = q,
         \/ \E p \in Pods, j \in Jobs : Create(p, j) \/ Attach(p, j) \/ Detach(p, j)
         \/ \E j \in Jobs : Delete(j)
         \/ Tick \/ UNCHANGED vars
  PROVE  Rested'
<1> USE DEF poll
<1>1. ASSUME NEW p \in Pods, NEW j \in Jobs, Create(p, j) PROVE Rested'
  <2>1. \A q \in Pods : notify'[q] = TRUE
    BY <1>1 DEF Create, Typed, TypeOK
  <2> QED
    BY <2>1 DEF Rested
<1>2. CASE \/ \E p \in Pods, j \in Jobs : Attach(p, j) \/ Detach(p, j)
           \/ \E j \in Jobs : Delete(j)
           \/ UNCHANGED vars
  <2>1. pc' = pc /\ notify' = notify /\ wake' = wake
    BY <1>2 DEF Attach, Detach, Delete, vars
  <2>2. \A k \in Jobs : row'[k] # NoRow => Exists(k) /\ row'[k] = row[k]
    BY <1>2 DEF Attach, Detach, Delete, DeleteCronJob, WithRow, vars, Exists, Typed, TypeOK
  <2> QED
    BY <2>1, <2>2 DEF Rested, Exists
<1>3. CASE Tick
  <2>1. /\ pc' = pc /\ notify' = notify
        /\ \A p \in Pods : wake'[p] = Earlier(wake[p])
    BY <1>3 DEF Tick
  <2>2. ASSUME NEW j \in Jobs, row'[j] # NoRow
        PROVE  /\ Exists(j) /\ row[j].next \in Nexts
               /\ row'[j].next = Earlier(row[j].next) /\ row'[j].enabled = row[j].enabled
    <3>1. Exists(j)
      BY <1>3, <2>2 DEF Tick
    <3>2. row[j] \in Rows
      BY <3>1, RowsTyped DEF Typed
    <3> QED
      BY <1>3, <3>1, <3>2 DEF Tick, Rows, Nexts
  <2>3. \A w \in Nat, t \in Nexts : w <= t => Earlier(w) <= Earlier(t)
    BY TimeAssumption DEF Earlier, Nexts, Far
  <2>4. \A p \in Pods : wake[p] \in Nat
    BY TimeAssumption DEF Typed, TypeOK, Far
  <2> QED
    BY <2>1, <2>2, <2>3, <2>4 DEF Rested, Exists
<1> QED
  BY <1>1, <1>2, <1>3

LEMMA PatientStep ==
  ASSUME \A p, q \in Pods : p = q, Patient, [Next]_vars
  PROVE  Patient'
<1>1. Typed'
  BY TypedStep DEF Patient
<1>2. /\ crashes \in Nat /\ faults \in Nat /\ toggles \in Nat
  BY TimeAssumption DEF Patient, Typed, TypeOK
<1>3. CASE \E p \in Pods : Fails(p)
  <2> PICK p \in Pods : Fails(p)
    BY <1>3
  <2>1. edit' = edit /\ toggles' = toggles
    BY DEF Fails, ListFails, LockFails, LockLost, MissFails, MissUnread, ReapFails, SettleFails,
           RestFails,
           Crash, At, Step,
           Fault
  <2>2. crashes' = crashes + 1 \/ faults' = faults + 1
    BY DEF Fails, ListFails, LockFails, LockLost, MissFails, MissUnread, ReapFails, SettleFails,
           RestFails,
           Crash, Fault
  <2>3. ~Undisturbed'
    BY <1>2, <2>2 DEF Undisturbed
  <2> QED
    BY <1>1, <2>1, <2>3 DEF Patient
<1>4. CASE \E p \in Pods : Run(p)
  <2> PICK p \in Pods : Run(p)
    BY <1>4
  <2>1. edit' = edit /\ budget' = budget
    BY DEF Run, List, Lock, NoneLeft, Reachable, Miss, CountMiss, Failures, Reap, Push, Settle,
           Rest, Wake, Restart, At,
           Step, budget
  <2>2. Undisturbed' = Undisturbed /\ toggles' = toggles
    BY <2>1 DEF budget, Undisturbed
  <2>3. Counted => Counted'
    BY <1>1, CountedQuiet, CountedLock, CountedPush, CountedClose, CountedMiss DEF Run, Patient
  <2>4. Rested => Rested'
    BY <1>1, RestedRun DEF Patient
  <2> QED
    BY <1>1, <2>1, <2>2, <2>3, <2>4 DEF Patient
<1>5. CASE \/ \E p \in Pods, j \in Jobs : Create(p, j) \/ Attach(p, j) \/ Detach(p, j)
           \/ \E j \in Jobs : Delete(j)
           \/ Tick \/ UNCHANGED vars
  <2>1. crashes' = crashes /\ faults' = faults /\ toggles' = toggles
    BY <1>5 DEF Create, Attach, Detach, Delete, Tick, vars, budget
  <2>2. edit = NoEdit => edit' = NoEdit
    <3>1. CASE Tick
      <4>1. edit = NoEdit => Earlier(edit.next) = edit.next
        BY DEF NoEdit, Earlier
      <4>2. [edit EXCEPT !.next = edit.next] = edit
        BY DEF Patient, Typed, TypeOK
      <4>3. edit' = [edit EXCEPT !.next = Earlier(edit.next)]
        BY <3>1 DEF Tick
      <4> QED
        BY <4>1, <4>2, <4>3
    <3>2. CASE ~Tick
      BY <1>5, <3>2 DEF Create, Attach, Detach, Delete, vars
    <3> QED
      BY <3>1, <3>2
  <2>3. Counted => Counted'
    BY <1>1, <1>5, CountedAround DEF Patient
  <2>4. Rested => Rested'
    BY <1>1, <1>5, RestedAround DEF Patient
  <2> QED
    BY <1>1, <2>1, <2>2, <2>3, <2>4 DEF Patient, Undisturbed
<1>6. CASE ToggleSave \/ \E j \in Jobs : ToggleRead(j)
  <2>1. toggles' # 0
    BY <1>2, <1>6 DEF ToggleSave, ToggleRead, budget, Patient
  <2> QED
    BY <1>1, <2>1 DEF Patient, Undisturbed
<1> QED
  BY <1>3, <1>4, <1>5, <1>6 DEF Next

(***************************************************************************)
(* One replica gives a job up only after three misses since its last       *)
(* delivery, while nothing crashes, fails or is toggled: the count of the  *)
(* row never runs ahead of them (scheduler.go:226-336, and                 *)
(* IncrementCronJobFailure and UpdateCronJobRun of database.go).           *)
(***************************************************************************)
THEOREM GivenUpAfterMisses ==
  ASSUME \A p, q \in Pods : p = q
  PROVE  Spec => ReapedAfterMisses
<1>1. Patient /\ [Next]_vars => Patient'
  BY PatientStep
<1>2. Patient =>
        \A p \in Pods : pc[p] = "reap" /\ pc'[p] = "next" /\ row'[job[p]] = NoRow /\ Undisturbed
          => misses[job[p]] >= cronMaxConsecutiveFailures
  BY DEF Patient, Counted
<1> QED
  BY PatientInit, <1>1, <1>2, PTL DEF Spec, ReapedAfterMisses

(***************************************************************************)
(* One replica does not sleep past a job: its sleep ends with the least    *)
(* next_run it knew of, and a job created meanwhile wakes it, while        *)
(* nothing crashes, fails or is toggled (scheduler.go:106-224).            *)
(***************************************************************************)
THEOREM WokenInTime ==
  ASSUME \A p, q \in Pods : p = q
  PROVE  Spec => []SleepsUntilDue
<1>1. Patient /\ [Next]_vars => Patient'
  BY PatientStep
<1>2. Patient => SleepsUntilDue
  BY DEF Patient, Rested, SleepsUntilDue, Pending
<1> QED
  BY PatientInit, <1>1, <1>2, PTL DEF Spec

-----------------------------------------------------------------------------
(* The lock.                                                              *)

AnyRow == [next : Int, enabled : BOOLEAN, failures : Int, lock : Int]

\* What of the type invariant the argument needs.
Columns ==
  /\ row \in [Jobs -> AnyRow]
  /\ made \subseteq Jobs
  /\ pc \in [Pods -> Places]
  /\ due \in [Pods -> SUBSET Jobs]
  /\ job \in [Pods -> Jobs \cup {NoJob}]
  /\ age \in [Pods -> Int]

\* No toggle has begun.
Untouched == toggles = 0 /\ edit = NoEdit

\* Only an id that was used has a row or a replica at work.
Used ==
  /\ \A j \in Jobs : Exists(j) => j \in made
  /\ \A p \in Pods, j \in Jobs : Working(p, j) => j \in made

\* A job someone works on is locked, and not for too long.
Locked ==
  \A p \in Pods, j \in Jobs : Working(p, j) /\ Exists(j) => row[j].lock \in 0 .. LockTTL

Guarded == Columns /\ Untouched /\ Used /\ Locked /\ WorksAlone

LEMMA GuardedInit == Init => Guarded
  BY TimeAssumption DEF Init, Guarded, Columns, AnyRow, NoRow, Free, Places, Untouched, Used,
                        Locked,
     WorksAlone, Working, Exists

LEMMA RowTyped ==
  ASSUME NEW r \in AnyRow, NEW next \in Int, NEW n \in Int, NEW l \in Int
  PROVE  /\ [r EXCEPT !.next = next] \in AnyRow
         /\ [r EXCEPT !.failures = n] \in AnyRow
         /\ [r EXCEPT !.lock = l] \in AnyRow
  BY DEF AnyRow

\* A statement on one row keeps the table a table.
LEMMA UpdateTyped ==
  ASSUME Columns, NEW j \in Jobs, NEW next \in Int, UpdateCronJobRun(j, next)
  PROVE  /\ row' \in [Jobs -> AnyRow]
         /\ \A k \in Jobs : k # j => row'[k] = row[k]
         /\ \A k \in Jobs : row'[k] # NoRow => Exists(k)
<1>1. CASE ~Exists(j)
  BY <1>1 DEF Columns, Exists, UpdateCronJobRun
<1>2. CASE Exists(j)
  <2> DEFINE new == [row[j] EXCEPT !.next = next, !.failures = 0, !.lock = Free]
  <2>1. row[j] \in AnyRow
    BY DEF Columns
  <2>2. new \in AnyRow
    BY <2>1, RowTyped, 0 \in Int, Free \in Int DEF Free
  <2>3. row' = [row EXCEPT ![j] = new]
    BY <1>2 DEF UpdateCronJobRun, WithRow
  <2> HIDE DEF new
  <2> QED
    BY <1>2, <2>2, <2>3 DEF Columns, Exists
<1> QED
  BY <1>1, <1>2

LEMMA NextRunsInt ==
  ASSUME NEW p \in Pods, age[p] \in Int, NEW j
  PROVE  \A next \in NextRuns(p, j) : next \in Int
<1>2. CASE Kind[j] = "cron"
  BY <1>2, TimeAssumption DEF NextRuns
<1>3. CASE Kind[j] # "cron"
  BY <1>3, TimeAssumption DEF NextRuns
<1> QED
  BY <1>2, <1>3

\* A replica that stops working, and at most changes the row of its job,
\* leaves the others as they are.
LEMMA LeavesAlone ==
  ASSUME Guarded, NEW p \in Pods, NEW k \in Jobs \cup {NoJob}, job[p] = k,
         Working(p, k) \/ \A j \in Jobs : row'[j] \in {row[j], NoRow}, row' \in [Jobs -> AnyRow],
         \A j \in Jobs : j # k => row'[j] = row[j],
         \A j \in Jobs : row'[j] # NoRow => Exists(j),
         pc' \in [Pods -> Places], ~(pc'[p] \in {"check", "push", "settle"}),
         job' \in [Pods -> Jobs \cup {NoJob}],
         \A q \in Pods \ {p} : pc'[q] = pc[q] /\ job'[q] = job[q],
         made' = made, due' = due, age' \in [Pods -> Int], toggles' = toggles, edit' = edit
  PROVE  Guarded'
<1>1. Columns' /\ Untouched'
  BY DEF Guarded, Columns, Untouched
<1>2. \A q \in Pods, j \in Jobs : Working(q, j)' => q # p /\ Working(q, j)
  BY DEF Working
<1>3. Used'
  BY <1>2 DEF Guarded, Used, Exists
<1>4. ASSUME NEW q \in Pods, NEW j \in Jobs, Working(q, j)', Exists(j)'
      PROVE  row'[j].lock \in 0 .. LockTTL
  <2>1. q # p /\ Working(q, j) /\ Exists(j)
    BY <1>2, <1>4 DEF Exists
  <2>2. row'[j] = row[j]
    BY <1>4, <2>1 DEF Guarded, WorksAlone, Working, Exists
  <2> QED
    BY <2>1, <2>2 DEF Guarded, Locked
<1>5. Locked'
  BY <1>4 DEF Locked
<1>6. WorksAlone'
  BY <1>2 DEF Guarded, WorksAlone
<1> QED
  BY <1>1, <1>3, <1>5, <1>6 DEF Guarded

\* A step that touches neither the table nor what makes a replica work.
LEMMA StaysOff ==
  ASSUME Guarded, row' = row, made' = made, toggles' = toggles, edit' = edit,
         pc' \in [Pods -> Places], due' \in [Pods -> SUBSET Jobs],
         job' \in [Pods -> Jobs \cup {NoJob}], age' \in [Pods -> Int],
         \A q \in Pods, j \in Jobs : Working(q, j)' => Working(q, j)
  PROVE  Guarded'
  BY DEF Guarded, Columns, Untouched, Used, Locked, WorksAlone, Exists

LEMMA LockStep ==
  ASSUME Guarded, NEW p \in Pods, Lock(p)
  PROVE  Guarded'
<1>1. PICK j \in due[p] : Lock(p)!(j)
  BY DEF Lock
<1>2. j \in Jobs
  BY DEF Guarded, Columns
<1>3. CASE ~Lockable(j)
  <2>1. row' = row /\ job' = job /\ pc' = pc
    BY <1>1, <1>3
  <2> QED
    BY <1>1, <1>2, <2>1, StaysOff DEF At, Step, budget, Guarded, Columns, Working
<1>4. CASE Lockable(j)
  <2>1. /\ pc[p] = "next" /\ row' = [row EXCEPT ![j] = [row[j] EXCEPT !.lock = 0]]
        /\ job' = [job EXCEPT ![p] = j] /\ pc' = [pc EXCEPT ![p] = "check"]
        /\ due' = [due EXCEPT ![p] = @ \ {j}]
        /\ made' = made /\ edit' = edit /\ age' = age /\ toggles' = toggles
    BY <1>1, <1>4 DEF At, Step, WithRow, Goto, budget
  <2>2. Exists(j) /\ \A q \in Pods : ~Working(q, j)
    <3>1. row[j].lock = Free \/ row[j].lock > LockTTL
      BY <1>4 DEF Lockable
    <3>2. row[j].lock \notin 0 .. LockTTL
      BY <1>2, <3>1, TimeAssumption DEF Free, Guarded, Columns, AnyRow
    <3> QED
      BY <1>2, <1>4, <3>2 DEF Lockable, Guarded, Locked
  <2>3. Columns' /\ Untouched'
    BY <1>2, <2>1 DEF Guarded, Columns, Untouched, AnyRow, Places
  <2>4. \A q \in Pods, k \in Jobs : Working(q, k)' => (q = p /\ k = j) \/ (k # j /\ Working(q, k))
    BY <2>1, <2>2 DEF Working, Guarded, Columns
  <2>5. Used'
    BY <1>2, <2>1, <2>2, <2>4 DEF Guarded, Columns, Used, Exists
  <2>6. Locked'
    <3>1. row'[j].lock = 0 /\ \A k \in Jobs : k # j => row'[k] = row[k]
      BY <1>2, <2>1 DEF Guarded, Columns, AnyRow
    <3> QED
      BY <2>4, <3>1, TimeAssumption DEF Guarded, Locked, Exists
  <2>7. WorksAlone'
    BY <2>4 DEF Guarded, WorksAlone
  <2> QED
    BY <2>3, <2>5, <2>6, <2>7 DEF Guarded
<1> QED
  BY <1>3, <1>4

LEMMA LockLostStep ==
  ASSUME Guarded, NEW p \in Pods, LockLost(p)
  PROVE  Guarded'
<1>1. PICK j \in due[p] : LockLost(p)!(j)
  BY DEF LockLost
<1>2. /\ j \in Jobs /\ row' = [row EXCEPT ![j] = [row[j] EXCEPT !.lock = 0]]
      /\ job' = job /\ pc' = pc /\ due' = [due EXCEPT ![p] = @ \ {j}]
      /\ made' = made /\ edit' = edit /\ age' = age /\ toggles' = toggles
  BY <1>1 DEF At, Step, WithRow, Fault, Guarded, Columns
<1>3. Exists(j) /\ \A q \in Pods : ~Working(q, j)
  <2>1. row[j].lock = Free \/ row[j].lock > LockTTL
    BY <1>1 DEF Lockable
  <2>2. row[j].lock \notin 0 .. LockTTL
    BY <1>2, <2>1, TimeAssumption DEF Free, Guarded, Columns, AnyRow
  <2> QED
    BY <1>1, <1>2, <2>2 DEF Lockable, Guarded, Locked
<1>4. Columns' /\ Untouched'
  BY <1>2 DEF Guarded, Columns, Untouched, AnyRow
<1>5. \A q \in Pods, k \in Jobs : Working(q, k)' <=> Working(q, k)
  BY <1>2 DEF Working
<1>6. Used' /\ WorksAlone'
  BY <1>2, <1>3, <1>5 DEF Guarded, Columns, Used, WorksAlone, Exists
<1>7. Locked'
  BY <1>2, <1>3, <1>5 DEF Guarded, Columns, Locked, Exists
<1> QED
  BY <1>4, <1>6, <1>7 DEF Guarded

\* The steps of a replica that leave the table alone and let go of its job.
LEMMA QuietStep ==
  ASSUME Guarded, NEW p \in Pods,
         \/ List(p) \/ ListFails(p) \/ LockFails(p) \/ NoneLeft(p) \/ Reachable(p)
         \/ MissFails(p) \/ ReapFails(p) \/ Push(p) \/ Rest(p) \/ RestFails(p) \/ Wake(p)
         \/ Restart(p) \/ Crash(p)
  PROVE  Guarded'
<1> USE DEF At, Step, Goto, Done, Fault, budget, poll, Places
<1>1. row' = row /\ made' = made /\ toggles' = toggles /\ edit' = edit
  BY DEF List, ListFails, LockFails, NoneLeft, Reachable, MissFails, ReapFails, Push, Rest,
         RestFails, Wake, Restart, Crash
<1>2. /\ pc' \in [Pods -> Places] /\ due' \in [Pods -> SUBSET Jobs]
      /\ job' \in [Pods -> Jobs \cup {NoJob}] /\ age' \in [Pods -> Int]
  BY DEF Guarded, Columns, List, ListFails, LockFails, NoneLeft, Reachable, MissFails, ReapFails,
         Push,
         Rest, RestFails, Wake, Restart, Crash, Due
<1>3. ASSUME NEW q \in Pods, NEW j \in Jobs, Working(q, j)' PROVE Working(q, j)
  BY <1>3, JobAssumption
     DEF Guarded, Columns, Working, List, ListFails, LockFails, NoneLeft, Reachable, MissFails,
         ReapFails, Push, Rest, RestFails, Wake, Restart, Crash
<1> QED
  BY <1>1, <1>2, <1>3, StaysOff

\* The steps that end the work on a job and change its row.
LEMMA ClosingStep ==
  ASSUME Guarded, NEW p \in Pods,
         Miss(p) \/ MissUnread(p) \/ Reap(p) \/ Settle(p) \/ SettleFails(p)
  PROVE  Guarded'
<1> DEFINE k == job[p]
<1>1. k \in Jobs \cup {NoJob}
  BY DEF Guarded, Columns
<1>2. CASE Miss(p) \/ MissUnread(p)
  <2> DEFINE n == Least(row[k].failures + 1, cronMaxConsecutiveFailures)
             new == [row[k] EXCEPT !.failures = n, !.lock = Free]
  <2>1. Working(p, k)
    BY <1>2 DEF Miss, CountMiss, Failures, MissUnread, Fault, At, Working
  <2>2. /\ pc' \in [Pods -> Places] /\ pc'[p] \in {"reap", "next"}
        /\ job' \in [Pods -> Jobs \cup {NoJob}]
        /\ \A q \in Pods \ {p} : pc'[q] = pc[q] /\ job'[q] = job[q]
        /\ made' = made /\ due' = due /\ age' = age /\ toggles' = toggles /\ edit' = edit
    BY <1>2 DEF Miss, CountMiss, Failures, MissUnread, Fault, At, Step, Goto, Done, budget, Places,
                Guarded, Columns
  <2>3. CASE k \notin Jobs \/ ~Exists(k)
    <3>1. CASE ~Exists(k)
      BY <1>1, <1>2, <2>1, <2>2, <3>1, LeavesAlone DEF Miss, CountMiss, Failures, MissUnread,
                                                       Fault, Guarded, Columns, Exists
    <3>2. CASE k \notin Jobs /\ Exists(k)
      <4>1. row' = row
        BY <1>2, <3>2 DEF Miss, CountMiss, Failures, MissUnread, Fault, WithRow, Guarded, Columns
      <4> QED
        BY <1>1, <2>1, <2>2, <4>1, LeavesAlone DEF Guarded, Columns, Exists
    <3> QED
      BY <2>3, <3>1, <3>2
  <2>4. CASE k \in Jobs /\ Exists(k)
    <3>1. row' = [row EXCEPT ![k] = new]
      BY <1>2, <2>4 DEF Miss, CountMiss, Failures, MissUnread, Fault, WithRow
    <3>2. new \in AnyRow
      <4>1. row[k] \in AnyRow
        BY <2>4 DEF Guarded, Columns
      <4>2. n \in Int
        BY <4>1 DEF AnyRow, Least, cronMaxConsecutiveFailures
      <4> HIDE DEF n
      <4> QED
        BY <4>1, <4>2, RowTyped, Free \in Int DEF Free
    <3> HIDE DEF new
    <3>3. row' \in [Jobs -> AnyRow] /\ \A j \in Jobs : j # k => row'[j] = row[j]
      BY <3>1, <3>2 DEF Guarded, Columns
    <3>4. \A j \in Jobs : row'[j] # NoRow => Exists(j)
      BY <2>4, <3>3 DEF Exists
    <3> QED
      BY <1>1, <2>1, <2>2, <3>3, <3>4, LeavesAlone DEF Guarded, Columns
  <2> QED
    BY <1>1, <2>3, <2>4
<1>3. ASSUME Reap(p) \/ Settle(p) \/ SettleFails(p) PROVE Guarded'
  <2>1. /\ pc' \in [Pods -> Places] /\ pc'[p] = "next"
        /\ job' \in [Pods -> Jobs \cup {NoJob}]
        /\ \A q \in Pods \ {p} : pc'[q] = pc[q] /\ job'[q] = job[q]
        /\ made' = made /\ due' = due /\ age' = age /\ toggles' = toggles /\ edit' = edit
    BY <1>3 DEF Reap, Settle, SettleFails, At, Step, Goto, Done, Fault, budget, Places, Guarded,
                Columns
  <2>2. /\ row' \in [Jobs -> AnyRow]
        /\ \A j \in Jobs : j # k => row'[j] = row[j]
        /\ \A j \in Jobs : row'[j] # NoRow => Exists(j)
    <3>1. CASE row' = row
      BY <3>1 DEF Guarded, Columns, Exists
    <3>2. CASE DeleteCronJob(k)
      <4>1. row' = [row EXCEPT ![k] = NoRow] /\ NoRow \in AnyRow
        BY <3>2 DEF DeleteCronJob, WithRow, NoRow, AnyRow
      <4> QED
        BY <4>1 DEF Guarded, Columns, Exists
    <3>3. CASE \E next \in Int : UpdateCronJobRun(k, next)
      <4>1. PICK next \in Int : UpdateCronJobRun(k, next)
        BY <3>3
      <4>2. CASE k \in Jobs
        BY <4>1, <4>2, UpdateTyped DEF Guarded
      <4>3. CASE k \notin Jobs
        BY <4>1, <4>3 DEF UpdateCronJobRun, WithRow, Guarded, Columns, Exists
      <4> QED
        BY <4>2, <4>3
    <3>4. row' = row \/ DeleteCronJob(k) \/ \E next \in Int : UpdateCronJobRun(k, next)
      <4>1. CASE Reap(p) \/ SettleFails(p)
        BY <4>1, Far \in Int DEF Far, Reap, SettleFails
      <4>2. CASE Settle(p)
        <5>1. age[p] \in Int
          BY DEF Guarded, Columns
        <5>2. \A next \in NextRuns(p, k) : next \in Int
          BY <5>1, NextRunsInt
        <5> QED
          BY <4>2, <5>2 DEF Settle
      <4> QED
        BY <1>3, <4>1, <4>2
    <3> QED
      BY <3>1, <3>2, <3>3, <3>4
  <2>3. Working(p, k) \/ \A j \in Jobs : row'[j] \in {row[j], NoRow}
    BY <1>3 DEF Settle, SettleFails, Reap, At, Working, DeleteCronJob, WithRow, Guarded, Columns
  <2> QED
    BY <1>1, <2>1, <2>2, <2>3, LeavesAlone DEF Guarded, Columns
<1> QED
  BY <1>2, <1>3

\* What happens around the scheduler.
LEMMA OutsideStep ==
  ASSUME Guarded, NEW p \in Pods, NEW j \in Jobs,
         Create(p, j) \/ Attach(p, j) \/ Detach(p, j)
  PROVE  Guarded'
<1> USE DEF poll, budget
<1>1. CASE Create(p, j)
  <2>1. PICK next \in FirstRuns(j) :
          WithRow(j, [next |-> next, enabled |-> TRUE, failures |-> 0, lock |-> Free])
    BY <1>1 DEF Create
  <2>2. next \in Int
    BY <2>1, TimeAssumption DEF FirstRuns
  <2>3. row' \in [Jobs -> AnyRow] /\ \A k \in Jobs : k # j => row'[k] = row[k]
    BY <2>1, <2>2 DEF WithRow, AnyRow, Free, Guarded, Columns
  <2>4. /\ j \notin made /\ made' = made \cup {j} /\ pc' = pc /\ job' = job
        /\ due' = due /\ age' = age /\ edit' = edit /\ toggles' = toggles
    BY <1>1 DEF Create
  <2>5. Columns' /\ Untouched'
    BY <2>3, <2>4 DEF Guarded, Columns, Untouched
  <2>6. Used'
    BY <2>3, <2>4 DEF Guarded, Used, Working, Exists
  <2>7. Locked' /\ WorksAlone'
    BY <2>3, <2>4 DEF Guarded, Used, Locked, WorksAlone, Working, Exists
  <2> QED
    BY <2>5, <2>6, <2>7 DEF Guarded
<1>2. CASE Attach(p, j) \/ Detach(p, j)
  BY <1>2, StaysOff DEF Attach, Detach, Guarded, Columns, Working
<1> QED
  BY <1>1, <1>2

LEMMA DeleteStep ==
  ASSUME Guarded, NEW j \in Jobs, Delete(j)
  PROVE  Guarded'
<1>1. /\ row' = [row EXCEPT ![j] = NoRow] /\ NoRow \in AnyRow
      /\ made' = made /\ pc' = pc /\ job' = job
      /\ due' = due /\ age' = age /\ edit' = edit /\ toggles' = toggles
  BY DEF Delete, DeleteCronJob, WithRow, NoRow, AnyRow, poll, budget
<1>2. Columns' /\ Untouched'
  BY <1>1 DEF Guarded, Columns, Untouched
<1>3. Used' /\ Locked' /\ WorksAlone'
  BY <1>1 DEF Guarded, Columns, Used, Locked, WorksAlone, Working, Exists
<1> QED
  BY <1>2, <1>3 DEF Guarded

\* The lock ages only as far as its holder may take.
LEMMA TickStep ==
  ASSUME Guarded, Prompt = TRUE, Tick
  PROVE  Guarded'
<1>1. /\ made' = made /\ pc' = pc /\ job' = job /\ due' = due /\ toggles' = toggles
  BY DEF Tick, budget
<1>2. edit' = edit
  BY DEF Tick, Guarded, Untouched, NoEdit, Earlier
<1>3. ASSUME NEW j \in Jobs
      PROVE  /\ row'[j] \in AnyRow
             /\ ~Exists(j) => row'[j] = NoRow
             /\ row[j].lock \in 0 .. LockTTL - 1 => row'[j].lock \in 0 .. LockTTL
  <2>1. row[j] \in AnyRow /\ NoRow \in AnyRow
    BY DEF Guarded, Columns, NoRow, AnyRow
  <2>2. CASE ~Exists(j)
    <3>1. row'[j] = NoRow
      BY <2>2 DEF Tick
    <3>2. row[j].lock = -1
      BY <2>2 DEF Exists, NoRow
    <3> QED
      BY <2>1, <2>2, <3>1, <3>2
  <2>3. CASE Exists(j)
    <3> DEFINE next == Earlier(row[j].next)
               lock == IF row[j].lock = Free THEN Free ELSE Least(row[j].lock + 1, LockTTL + 1)
    <3>1. row'[j] = [row[j] EXCEPT !.next = next, !.lock = lock]
      BY <2>3 DEF Tick
    <3>2. next \in Int /\ lock \in Int
      BY <2>1, TimeAssumption DEF AnyRow, Earlier, Far, Least, Free
    <3>3. row[j].lock \in 0 .. LockTTL - 1 => lock \in 0 .. LockTTL
      BY TimeAssumption DEF Least, Free
    <3> HIDE DEF next, lock
    <3>4. row'[j] \in AnyRow /\ row'[j].lock = lock
      BY <2>1, <3>1, <3>2 DEF AnyRow
    <3> QED
      BY <2>3, <3>3, <3>4
  <2> QED
    BY <2>2, <2>3
<1>4. row' = [j \in Jobs |-> row'[j]]
  BY DEF Tick
<1>5. age' \in [Pods -> Int]
  <2>1. \A p \in Pods : (IF Polling(p) THEN Least(age[p] + 1, Period) ELSE 0) \in Int
    BY TimeAssumption DEF Least, Guarded, Columns
  <2> QED
    BY <2>1 DEF Tick
<1>6. Columns' /\ Untouched'
  BY <1>1, <1>2, <1>3, <1>4, <1>5 DEF Guarded, Columns, Untouched
<1>7. Used' /\ WorksAlone'
  BY <1>1, <1>3 DEF Guarded, Used, WorksAlone, Working, Exists
<1>8. ASSUME NEW p \in Pods, NEW j \in Jobs, Working(p, j)', Exists(j)'
      PROVE  row'[j].lock \in 0 .. LockTTL
  <2>1. Working(p, j) /\ Exists(j)
    BY <1>1, <1>3, <1>8 DEF Working, Exists
  <2>2. row[j].lock \in 0 .. LockTTL /\ row[j].lock < LockTTL
    BY <2>1 DEF Guarded, Locked, Tick
  <2> QED
    BY <1>3, <2>2, TimeAssumption
<1> QED
  BY <1>6, <1>7, <1>8 DEF Guarded, Locked

LEMMA GuardedStep ==
  ASSUME Prompt = TRUE, MaxToggles = 0, Guarded, [Next]_vars
  PROVE  Guarded'
<1>1. CASE UNCHANGED vars
  BY <1>1, StaysOff DEF vars, poll, budget, Guarded, Columns, Working
<1>2. ASSUME NEW p \in Pods, Run(p) \/ Fails(p) PROVE Guarded'
  BY <1>2, LockStep, LockLostStep, QuietStep, ClosingStep DEF Run, Fails
<1>3. ASSUME NEW p \in Pods, NEW j \in Jobs, Create(p, j) \/ Attach(p, j) \/ Detach(p, j)
      PROVE  Guarded'
  BY <1>3, OutsideStep
<1>4. ASSUME NEW j \in Jobs, Delete(j) \/ ToggleRead(j) PROVE Guarded'
  <2>1. ~ToggleRead(j)
    BY DEF ToggleRead, Guarded, Untouched
  <2>2. Delete(j)
    BY <1>4, <2>1
  <2> QED
    BY <2>2, DeleteStep
<1>5. ~ToggleSave
  BY DEF ToggleSave, Guarded, Untouched
<1> QED
  BY <1>1, <1>2, <1>3, <1>4, <1>5, TickStep DEF Next

(***************************************************************************)
(* However many replicas share the table, and whatever crashes or fails,   *)
(* the lock lets one of them at a time work on a job, if each finishes     *)
(* before its lock goes stale and no toggle saves over a row.              *)
(***************************************************************************)
THEOREM LockExcludes ==
  ASSUME Prompt = TRUE, MaxToggles = 0
  PROVE  Spec => []WorksAlone
<1>1. Guarded /\ [Next]_vars => Guarded'
  BY GuardedStep
<1>2. Guarded => WorksAlone
  BY DEF Guarded
<1> QED
  BY GuardedInit, <1>1, <1>2, PTL DEF Spec

-----------------------------------------------------------------------------
(* One-shot jobs, when no statement fails and no replica crashes.          *)

\* No crash and no failing statement so far.
Unharmed == crashes = 0 /\ faults = 0

\* A replica at work has a job.  A job that was pushed is a one-shot, no replica
\* is about to push it again, and its row is gone unless the one that pushed it is
\* about to delete it.
Spent ==
  /\ pushed \subseteq made
  /\ \A p \in Pods : pc[p] \in {"check", "push", "settle"} => job[p] \in Jobs
  /\ \A j \in pushed : Kind[j] = "once"
  /\ \A j \in pushed, p \in Pods : ~(pc[p] \in {"check", "push"} /\ job[p] = j)
  /\ \A j \in pushed : Exists(j) => \E p \in Pods : pc[p] = "settle" /\ job[p] = j

OnceInv == Guarded /\ Unharmed /\ Spent

\* A step that pushes nothing, brings no spent row back, and takes nobody from
\* settling a row that stays.
LEMMA SpentStays ==
  ASSUME OnceInv, pushed' = pushed, made \subseteq made',
         \A q \in Pods : pc'[q] \in {"check", "push"} => job'[q] \in Jobs /\ job'[q] \notin pushed,
         \A q \in Pods : pc'[q] = "settle" => pc[q] = "settle" /\ job'[q] = job[q],
         \A j \in pushed : Exists(j)' =>
           /\ Exists(j)
           /\ \A q \in Pods : pc[q] = "settle" /\ job[q] = j => pc'[q] = "settle" /\ job'[q] = j
  PROVE  Spent'
  BY DEF OnceInv, Spent

\* Steps of a replica that leave the table alone and push nothing.
LEMMA SpentQuiet ==
  ASSUME OnceInv, NEW p \in Pods,
         List(p) \/ NoneLeft(p) \/ Reachable(p) \/ Rest(p) \/ Wake(p) \/ Restart(p)
  PROVE  Spent'
<1> USE DEF At, Step, Goto, record
<1>1. row' = row /\ made' = made /\ pushed' = pushed /\ job' = job
  BY DEF List, NoneLeft, Reachable, Rest, Wake, Restart
<1>2. /\ \A q \in Pods : q # p => pc'[q] = pc[q]
      /\ pc[p] \notin {"push", "settle"} /\ pc'[p] \notin {"check", "settle"}
      /\ pc'[p] = "push" => pc[p] = "check"
  BY DEF List, NoneLeft, Reachable, Rest, Wake, Restart, OnceInv, Guarded, Columns
<1> QED
  BY <1>1, <1>2, SpentStays DEF Exists, OnceInv, Spent

\* A spent job has no row, or a fresh lock.
LEMMA SpentLock ==
  ASSUME OnceInv, NEW p \in Pods, Lock(p)
  PROVE  Spent'
<1>1. PICK j \in due[p] : Lock(p)!(j)
  BY DEF Lock
<1>2. j \in Jobs
  BY DEF OnceInv, Guarded, Columns
<1>3. made' = made /\ pushed' = pushed /\ pc[p] = "next"
  BY <1>1 DEF At, Step, record
<1>4. CASE ~Lockable(j)
  <2>1. row' = row /\ job' = job /\ pc' = pc
    BY <1>1, <1>4
  <2> QED
    BY <1>3, <2>1, SpentStays DEF Exists, OnceInv, Spent
<1>5. CASE Lockable(j)
  <2>1. /\ row' = [row EXCEPT ![j] = [row[j] EXCEPT !.lock = 0]]
        /\ job' = [job EXCEPT ![p] = j] /\ pc' = [pc EXCEPT ![p] = "check"]
    BY <1>1, <1>5 DEF WithRow, Goto
  <2>2. j \notin pushed
    <3>1. row[j].lock \notin 0 .. LockTTL
      BY <1>2, <1>5, TimeAssumption DEF Lockable, Free, OnceInv, Guarded, Columns, AnyRow
    <3>2. \A q \in Pods : ~Working(q, j)
      BY <1>2, <1>5, <3>1 DEF Lockable, OnceInv, Guarded, Locked
    <3> QED
      BY <1>5, <3>2 DEF Lockable, OnceInv, Spent, Working
  <2>3. \A k \in pushed : row'[k] = row[k]
    BY <1>2, <2>1, <2>2 DEF OnceInv, Spent, Guarded, Columns
  <2> QED
    BY <1>2, <1>3, <2>1, <2>2, <2>3, SpentStays DEF Exists, OnceInv, Spent, Guarded, Columns
<1> QED
  BY <1>4, <1>5

\* Nobody else works on the job that is pushed.
LEMMA SpentPush ==
  ASSUME OnceInv, NEW p \in Pods, Push(p)
  PROVE  Spent'
<1> DEFINE k == job[p]
<1>1. /\ pc[p] = "push" /\ pc' = [pc EXCEPT ![p] = "settle"] /\ job' = job
      /\ row' = row /\ made' = made
      /\ pushed' = IF Kind[k] = "once" THEN pushed \cup {k} ELSE pushed
  BY DEF Push, At, Step, Goto
<1>2. k \in Jobs /\ k \notin pushed /\ Working(p, k) /\ pc' \in [Pods -> Places]
  BY <1>1 DEF OnceInv, Spent, Working, Guarded, Columns, Places
<1>3. pc'[p] = "settle" /\ \A q \in Pods : q # p => pc'[q] = pc[q]
  BY <1>1 DEF OnceInv, Guarded, Columns
<1>4. k \in made /\ \A q \in Pods : q # p => ~Working(q, k)
  BY <1>2 DEF OnceInv, Guarded, Used, WorksAlone
<1> QED
  BY <1>1, <1>2, <1>3, <1>4 DEF OnceInv, Spent, Working, Exists

\* The replica that pushed a one-shot deletes its row.
LEMMA SpentClose ==
  ASSUME OnceInv, NEW p \in Pods, Miss(p) \/ Reap(p) \/ Settle(p)
  PROVE  Spent'
<1> DEFINE k == job[p]
<1>1. /\ made' = made /\ pushed' = pushed /\ pc'[p] \in {"next", "reap"}
      /\ \A q \in Pods : q # p => pc'[q] = pc[q] /\ job'[q] = job[q]
  BY DEF Miss, CountMiss, Failures, Reap, Settle, At, Step, Goto, Done, record, OnceInv, Guarded,
         Columns
<1>2. \A j \in Jobs : j # k => row'[j] = row[j]
  <2>1. CASE Miss(p)
    BY <2>1 DEF Miss, CountMiss, Failures, WithRow, OnceInv, Guarded, Columns
  <2>2. CASE Reap(p)
    BY <2>2 DEF Reap, DeleteCronJob, WithRow, OnceInv, Guarded, Columns
  <2>3. CASE Settle(p)
    BY <2>3 DEF Settle, DeleteCronJob, UpdateCronJobRun, WithRow, OnceInv, Guarded, Columns
  <2> QED
    BY <2>1, <2>2, <2>3
<1>3. pushed \subseteq Jobs
  BY DEF OnceInv, Spent, Guarded, Columns
<1>4. CASE Miss(p)
  <2>1. pc[p] = "check" /\ k \notin pushed
    BY <1>4 DEF Miss, CountMiss, Failures, At, OnceInv, Spent
  <2> QED
    BY <1>1, <1>2, <1>3, <2>1, SpentStays DEF Exists, OnceInv, Spent
<1>5. CASE Reap(p)
  <2>1. pc[p] = "reap" /\ row' = [row EXCEPT ![k] = NoRow]
    BY <1>5 DEF Reap, At, DeleteCronJob, WithRow
  <2>2. \A j \in pushed : row'[j] \in {row[j], NoRow}
    BY <1>3, <2>1 DEF OnceInv, Guarded, Columns
  <2> QED
    BY <1>1, <2>1, <2>2, SpentStays DEF Exists, OnceInv, Spent
<1>6. CASE Settle(p)
  <2>1. pc[p] = "settle" /\ k \in Jobs
    BY <1>6 DEF Settle, At, OnceInv, Spent
  <2>2. Kind[k] = "once" => row'[k] = NoRow
    BY <1>6, <2>1 DEF Settle, DeleteCronJob, WithRow, OnceInv, Guarded, Columns
  <2>3. k \in pushed => row'[k] = NoRow
    BY <2>2 DEF OnceInv, Spent
  <2> QED
    BY <1>1, <1>2, <1>3, <2>1, <2>3, SpentStays DEF Exists, OnceInv, Spent
<1> QED
  BY <1>4, <1>5, <1>6

\* No new row has the id of a spent one.
LEMMA SpentAround ==
  ASSUME OnceInv,
         \/ \E p \in Pods, j \in Jobs : Create(p, j) \/ Attach(p, j) \/ Detach(p, j)
         \/ \E j \in Jobs : Delete(j)
         \/ Tick \/ UNCHANGED vars
  PROVE  Spent'
<1>0. pushed \subseteq Jobs /\ pushed \subseteq made
  BY DEF OnceInv, Spent, Guarded, Columns
<1>1. pc' = pc /\ job' = job /\ pushed' = pushed /\ made \subseteq made'
  BY DEF Create, Attach, Detach, Delete, Tick, vars, poll, record
<1>2. \A j \in pushed : row'[j] # NoRow => Exists(j)
  <2>1. ASSUME NEW p \in Pods, NEW j \in Jobs, Create(p, j)
        PROVE  \A k \in pushed : row'[k] = row[k]
    <3>1. j \notin pushed /\ \A k \in Jobs : k # j => row'[k] = row[k]
      BY <1>0, <2>1 DEF Create, WithRow, OnceInv, Guarded, Columns
    <3> QED
      BY <1>0, <3>1
  <2>2. ASSUME NEW j \in Jobs, Delete(j)
        PROVE  \A k \in pushed : row'[k] \in {row[k], NoRow}
    BY <1>0, <2>2 DEF Delete, DeleteCronJob, WithRow, OnceInv, Guarded, Columns
  <2>3. CASE Tick
    BY <1>0, <2>3 DEF Tick, Exists
  <2>4. CASE \/ \E p \in Pods, j \in Jobs : Attach(p, j) \/ Detach(p, j)
             \/ UNCHANGED vars
    BY <2>4 DEF Attach, Detach, vars, Exists
  <2> QED
    BY <2>1, <2>2, <2>3, <2>4 DEF Exists
<1> QED
  BY <1>1, <1>2, SpentStays DEF Exists, OnceInv, Spent

LEMMA OnceStep ==
  ASSUME Prompt = TRUE, MaxToggles = 0, MaxFaults = 0, MaxCrashes = 0, OnceInv, [Next]_vars
  PROVE  OnceInv'
<1>1. Guarded'
  BY GuardedStep DEF OnceInv
<1>2. ~Fault /\ \A p \in Pods : ~Crash(p)
  BY DEF Fault, Crash, OnceInv, Unharmed
<1>3. \A p \in Pods : ~Fails(p)
  BY <1>2 DEF Fails, ListFails, LockFails, LockLost, MissFails, MissUnread, ReapFails, SettleFails,
           RestFails
<1>4. ~ToggleSave /\ \A j \in Jobs : ~ToggleRead(j)
  BY DEF ToggleSave, ToggleRead, OnceInv, Guarded, Untouched
<1>5. CASE \E p \in Pods : Run(p)
  <2> PICK p \in Pods : Run(p)
    BY <1>5
  <2>1. Spent'
    BY SpentQuiet, SpentLock, SpentPush, SpentClose DEF Run
  <2>2. Unharmed'
    BY DEF OnceInv, Unharmed, Run, List, Lock, NoneLeft, Reachable, Miss, CountMiss, Failures,
           Reap, Push, Settle, Rest,
           Wake, Restart, budget
  <2> QED
    BY <1>1, <2>1, <2>2 DEF OnceInv
<1>6. CASE \/ \E p \in Pods, j \in Jobs : Create(p, j) \/ Attach(p, j) \/ Detach(p, j)
           \/ \E j \in Jobs : Delete(j)
           \/ Tick \/ UNCHANGED vars
  <2>1. Spent'
    BY <1>6, SpentAround
  <2>2. Unharmed'
    BY <1>6 DEF OnceInv, Unharmed, Create, Attach, Detach, Delete, Tick, vars, budget
  <2> QED
    BY <1>1, <2>1, <2>2 DEF OnceInv
<1> QED
  BY <1>3, <1>4, <1>5, <1>6 DEF Next

(***************************************************************************)
(* However many replicas list a one-shot job together, it is pushed once:  *)
(* the row is locked until the replica that pushed it deletes it, and its  *)
(* id is not used again (scheduler.go:226-336, database.go:4729-4785).     *)
(***************************************************************************)
THEOREM PushedOnce ==
  ASSUME Prompt = TRUE, MaxToggles = 0, MaxFaults = 0, MaxCrashes = 0
  PROVE  Spec => OnceFiresOnce
<1>1. Init => OnceInv
  <2>1. Init => Unharmed /\ Spent
    BY DEF Init, Unharmed, Spent, Exists
  <2> QED
    BY <2>1, GuardedInit DEF OnceInv
<1>2. OnceInv /\ [Next]_vars => OnceInv'
  BY OnceStep
<1>3. OnceInv => (\A p \in Pods : pc[p] = "push" /\ pc'[p] = "settle" => job[p] \notin pushed)
  BY DEF OnceInv, Spent
<1> QED
  BY <1>1, <1>2, <1>3, PTL DEF Spec, OnceFiresOnce

-----------------------------------------------------------------------------
(* CronExpression: division, for its calendar.                             *)

LEMMA ProductPositive ==
  ASSUME NEW m \in Nat, NEW n \in Nat \ {0}
  PROVE  m * n \in Nat /\ m * n >= m
  OBVIOUS

\* r units and q whole ones are q whole ones, and r units.
LEMMA Divides ==
  ASSUME NEW n \in Nat \ {0}, NEW q \in Nat, NEW r \in 0 .. n - 1
  PROVE  (q * n + r) \div n = q /\ (q * n + r) % n = r
  OBVIOUS

LEMMA Digits ==
  ASSUME NEW n \in Nat \ {0}, NEW t \in Nat
  PROVE  t = (t \div n) * n + (t % n) /\ t \div n \in Nat /\ t % n \in 0 .. n - 1
  OBVIOUS

-----------------------------------------------------------------------------
(* The calendar.                                                           *)

LEMMA Units ==
  /\ Minute \in Nat \ {0} /\ Hour \in Nat \ {0} /\ Day \in Nat \ {0}
  /\ Length[1] \in Nat \ {0} /\ Length[2] \in Nat \ {0} /\ Hour <= Day
<1>1. Length[1] \in Nat \ {0} /\ Length[2] \in Nat \ {0}
  BY CalendarAssumption DEF Fields
<1>2. Hour \in Nat \ {0}
  BY <1>1 DEF Hour, Minute
<1>3. Day \in Nat \ {0} /\ Hour <= Day
  BY <1>1, <1>2, ProductPositive DEF Day
<1> QED
  BY <1>1, <1>2, <1>3 DEF Minute

\* What the loop finds, or an hour.
LEMMA NextFound ==
  ASSUME NEW fields, NEW after \in Nat
  PROVE  LET next == NextOccurrenceIn(fields, after)
         IN  /\ next \in Nat
             /\ \A t \in (after + 1) .. (next - 1) : t % Minute = 0 => ~cronMatch(fields, t)
             /\ (\E t \in Scan(after) : cronMatch(fields, t)) => cronMatch(fields, next)
<1> DEFINE found == {t \in Scan(after) : cronMatch(fields, t)}
<1> DEFINE next  == NextOccurrenceIn(fields, after)
<1>1. found \subseteq Nat /\ Limit(after) \in Nat /\ Limit(after) >= after + 2 * Hour
  BY Units DEF Scan, Limit
<1>2. CASE found = {}
  <2>1. next = after + Hour
    BY <1>2 DEF NextOccurrenceIn
  <2>2. ASSUME NEW t \in (after + 1) .. (next - 1), t % Minute = 0
        PROVE  ~cronMatch(fields, t)
    <3>1. t \in Scan(after)
      BY <1>1, <2>1, <2>2, Units DEF Scan
    <3> QED
      BY <1>2, <3>1
  <2> QED
    BY <1>2, <2>1, <2>2, Units
<1>3. CASE found # {}
  <2>1. next = Min(found)
    BY <1>3 DEF NextOccurrenceIn
  <2>2. next \in found /\ \A t \in found : next <= t
    BY <1>1, <1>3, <2>1, MinInstant
  <2>3. next \in Nat /\ next <= Limit(after) - 1 /\ cronMatch(fields, next)
    BY <1>1, <2>2 DEF Scan
  <2>4. ASSUME NEW t \in (after + 1) .. (next - 1), t % Minute = 0
        PROVE  ~cronMatch(fields, t)
    <3>1. t \in Scan(after)
      BY <1>1, <2>3, <2>4 DEF Scan
    <3>2. ~(next <= t)
      BY <2>3
    <3> QED
      BY <2>2, <3>1, <3>2
  <2> QED
    BY <2>3, <2>4
<1> QED
  BY <1>2, <1>3

\* It is in a later minute.
LEMMA NextMinute ==
  ASSUME NEW fields, NEW after \in Nat
  PROVE  NextOccurrenceIn(fields, after) \div Minute > after \div Minute
<1> DEFINE found == {t \in Scan(after) : cronMatch(fields, t)}
<1> DEFINE next  == NextOccurrenceIn(fields, after)
<1>1. CASE found = {}
  <2>1. next = after + Hour
    BY <1>1 DEF NextOccurrenceIn
  <2>2. Hour >= 2 /\ Hour \in Nat
    BY CalendarAssumption DEF Hour, Minute, Fields
  <2> QED
    BY <2>1, <2>2 DEF Minute
<1>2. CASE found # {}
  <2>1. next = Min(found) /\ found \subseteq Nat
    BY <1>2, Units DEF NextOccurrenceIn, Scan, Limit
  <2>2. next \in found
    BY <1>2, <2>1, MinInstant
  <2>3. Limit(after) \in Nat
    BY Units DEF Limit
  <2>4. next \in Nat /\ next > after /\ next % Minute = 0
    BY <2>2, <2>3 DEF Scan
  <2>5. PICK m \in Nat : m = next
    BY <2>4
  <2>6. m > after /\ m % 2 = 0 => m \div 2 > after \div 2
    OBVIOUS
  <2> QED
    BY <2>4, <2>5, <2>6 DEF Minute
<1> QED
  BY <1>1, <1>2

\* The minute v1 of the hour v2 comes within two days.
LEMMA WithinTwoDays ==
  ASSUME NEW after \in Nat, NEW v1 \in 0 .. Length[1] - 1, NEW v2 \in 0 .. Length[2] - 1
  PROVE  \E t \in Scan(after) : Value(t)[1] = v1 /\ Value(t)[2] = v2
<1>1. PICK n1 \in Nat \ {0}, n2 \in Nat \ {0} : n1 = Length[1] /\ n2 = Length[2]
  BY Units
<1>2. PICK q \in Nat : after < (q + 1) * Day /\ q * Day <= after
  <2>1. /\ after = (after \div Day) * Day + (after % Day)
        /\ after \div Day \in Nat /\ after % Day \in 0 .. Day - 1
    BY Units, Digits
  <2>2. PICK q \in Nat, r \in 0 .. Day - 1 : after = q * Day + r
    BY <2>1
  <2>3. (q + 1) * Day = q * Day + Day /\ q * Day \in Nat
    BY Units
  <2>4. after < (q + 1) * Day /\ q * Day <= after
    BY <2>2, <2>3, Units
  <2> QED
    BY <2>4
<1> DEFINE h == (q + 1) * n2 + v2
<1> DEFINE u == h * n1 + v1
<1> DEFINE t == u * Minute
<1>3. h \in Nat /\ u \in Nat /\ t \in Nat
  BY <1>1 DEF Minute
<1>4. t \div Minute = u /\ t % Minute = 0 /\ u % n1 = v1
  <2>1. t \div Minute = u /\ t % Minute = 0
    BY <1>3 DEF Minute
  <2>2. u % n1 = v1
    BY <1>1, <1>3, Divides
  <2> QED
    BY <2>1, <2>2
<1>5. t = h * Hour + 2 * v1 /\ 2 * v1 \in 0 .. Hour - 1
  BY <1>1, <1>3 DEF Hour, Minute
<1>6. t \div Hour = h /\ h % n2 = v2
  <2>1. PICK k \in Nat, m \in Nat \ {0}, r \in Nat : k = h /\ m = Hour /\ r = 2 * v1
    BY <1>3, <1>5, Units
  <2>2. (k * m + r) \div m = k
    BY <1>5, <2>1, Divides
  <2>3. PICK d \in Nat : d = q + 1
    BY <1>2
  <2>4. v2 \in 0 .. n2 - 1
    BY <1>1
  <2>5. (d * n2 + v2) % n2 = v2
    BY ONLY <2>3, <2>4, <1>1, Divides
  <2>6. h % n2 = v2
    BY <2>3, <2>5
  <2> HIDE DEF t, h
  <2> QED
    BY <1>5, <2>1, <2>2, <2>6
<1>7. t \in Scan(after)
  <2>1. h * Hour = (q + 1) * Day + v2 * Hour
    BY <1>1, <1>2, Units DEF Day
  <2>2. v2 * Hour + Hour <= Day /\ v2 * Hour >= 0
    BY <1>1, Units DEF Day
  <2>3. (q + 1) * Day = q * Day + Day /\ q * Day \in Nat
    BY <1>2, Units
  <2>4. t > after /\ t < Limit(after)
    BY <1>2, <1>3, <1>5, <2>1, <2>2, <2>3, Units DEF Limit
  <2> QED
    BY <1>3, <1>4, <2>4, Units DEF Scan, Limit
<1>8. Value(t)[1] = v1 /\ Value(t)[2] = v2
  BY <1>1, <1>4, <1>6 DEF Value, Fields
<1> HIDE DEF t
<1> QED
  BY <1>7, <1>8

-----------------------------------------------------------------------------
(* A job that is rescheduled.                                              *)

Scheduled ==
  schedule \in Schedules /\ polled \in Nat /\ next_run = NextOccurrenceIn(schedule, polled)

LEMMA CreatedOk == Created => Scheduled
  BY CalendarAssumption DEF Created, Scheduled

\* It is rescheduled from the instant it was taken up at.
LEMMA Fired ==
  ASSUME Scheduled, Fire
  PROVE  Scheduled' /\ schedule' = schedule /\ next_run \in Nat /\ next_run <= polled'
<1>1. next_run \in Nat
  BY NextFound DEF Scheduled
<1>2. PICK late \in Nat : polled' = next_run + late /\ next_run' = NextOccurrenceIn(schedule,
polled')
  BY LatenessAssumption DEF Fire, Reschedule
<1> QED
  BY <1>1, <1>2 DEF Fire, Scheduled

\* An expression without a date finds a match.
LEMMA DailyMatches ==
  ASSUME Scheduled, Dateless, NEW after \in Nat
  PROVE  \E t \in Scan(after) : cronMatch(schedule, t)
<1>1. /\ \A i \in 3 .. 5 : schedule[i].op = "any"
      /\ Satisfiable(1) /\ Satisfiable(2)
  BY DEF Dateless
<1>2. PICK v1 \in 0 .. Length[1] - 1 : fieldMatch(schedule[1], v1)
  BY <1>1 DEF Satisfiable
<1>3. PICK v2 \in 0 .. Length[2] - 1 : fieldMatch(schedule[2], v2)
  BY <1>1 DEF Satisfiable
<1>4. PICK t \in Scan(after) : Value(t)[1] = v1 /\ Value(t)[2] = v2
  BY WithinTwoDays
<1>5. \A i \in Fields : fieldMatch(schedule[i], Value(t)[i])
  <2> TAKE i \in Fields
  <2>1. CASE i = 1 \/ i = 2
    BY <1>2, <1>3, <1>4, <2>1
  <2>2. CASE i \in 3 .. 5
    BY <1>1, <2>2 DEF fieldMatch
  <2> QED
    BY <2>1, <2>2 DEF Fields
<1> QED
  BY <1>5 DEF cronMatch

\* An expression without a date, such as every day at nine, fires on its minutes
\* and on no other, on every calendar and however late each push is: the loop of
\* NextOccurrenceIn looks two days ahead (scheduler.go:544-562).
THEOREM FiresOnTime == Rescheduling => []DailyOnTime
<1>1. Created => Scheduled
  BY CreatedOk
<1>2. Scheduled /\ [Fire]_state => Scheduled'
  BY Fired DEF state, Scheduled
<1>3. Scheduled => DailyOnTime
  BY DailyMatches, NextFound DEF Scheduled, DailyOnTime
<1> QED
  BY <1>1, <1>2, <1>3, PTL DEF Rescheduling

\* However late a poll takes a job up, and whatever the expression and the calendar,
\* the next run is in a later minute than the poll, and only the lateness of the
\* poll lets a minute that matches pass: a date too far for the loop is walked up
\* to an hour at a time (scheduler.go:227, 331, 544-562).
THEOREM ServesEachMinuteOnce == Rescheduling => OneRunPerMinute
<1>1. Created => Scheduled
  BY CreatedOk
<1>2. Scheduled /\ [Fire]_state => Scheduled'
  BY Fired DEF state, Scheduled
<1> DEFINE A == /\ next_run' \div Minute > polled' \div Minute
                /\ \A t \in Matches(schedule, next_run, next_run' - 1) : t <= polled'
<1>3. Scheduled /\ [Fire]_state => [A]_state
  <2> SUFFICES ASSUME Scheduled, Fire PROVE A
    OBVIOUS
  <2>1. Scheduled' /\ schedule' = schedule /\ next_run \in Nat /\ next_run <= polled'
    BY Fired
  <2>2. PICK after \in Nat : after = polled'
    BY <2>1 DEF Scheduled
  <2>3. PICK m \in Nat : m = NextOccurrenceIn(schedule, after) /\ m = next_run'
    BY <2>1, <2>2, NextFound DEF Scheduled
  <2>4. \A t \in (after + 1) .. (m - 1) : t % Minute = 0 => ~cronMatch(schedule, t)
    BY <2>3, NextFound
  <2>5. ASSUME NEW t \in next_run .. m - 1, t % Minute = 0, cronMatch(schedule, t)
        PROVE  t <= after
    <3>1. PICK n \in Nat : n = next_run /\ t \in n .. m - 1
      BY <2>1, <2>5
    <3>2. t \in (after + 1) .. (m - 1) \/ t <= after
      BY ONLY <3>1, n \in Nat, m \in Nat, after \in Nat
    <3> QED
      BY <2>4, <2>5, <3>2
  <2>6. m \div Minute > after \div Minute
    BY <2>3, NextMinute
  <2> QED
    BY <2>2, <2>3, <2>5, <2>6 DEF Matches
<1> QED
  BY <1>1, <1>2, <1>3, PTL DEF Rescheduling, OneRunPerMinute

=============================================================================
