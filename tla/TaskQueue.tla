----------------------------- MODULE TaskQueue -----------------------------
(***************************************************************************)
(* The task queue of the gateway (internal/taskqueue/queue.go): every      *)
(* chat has a FIFO queue with a worker goroutine of its own, a counting    *)
(* semaphore bounds the tasks that run at once, and a cleanup goroutine    *)
(* removes the queue of a chat that has been idle for IdleTimeout.         *)
(*                                                                         *)
(* A queue instance is a chatQueue struct: its channel, its lastUsed stamp *)
(* and its worker.  It is named by the task whose Submit created it, so a  *)
(* chat whose queue was removed gets an instance with another name.        *)
(*                                                                         *)
(* Time is counted in periods of the cleanup ticker, and only as the ages  *)
(* the code compares: the time since lastUsed and since StartedAt.  Tick is *)
(* urgent: time passes only when no goroutine has an instantaneous step    *)
(* left, and a handler returns within TaskTimeout of its start, as its     *)
(* context asks.                                                           *)
(***************************************************************************)
EXTENDS Naturals, Sequences, FiniteSets

CONSTANTS
  Chats,          \* the chat keys, channel:account:chat
  Submitters,     \* the goroutines that call Submit
  MaxTasks,       \* bound on the tasks ever submitted
  MaxConcurrent,  \* capacity of the semaphore
  ChanCap,        \* capacity of a chat's channel
  IdleTimeout,    \* q.idleTimeout
  TaskTimeout,    \* q.taskTimeout
  Retain          \* tasks kept for observability

ASSUME BoundsAssumption ==
  /\ MaxTasks \in Nat \ {0}
  /\ MaxConcurrent \in Nat \ {0}
  /\ ChanCap \in Nat \ {0}
  /\ IdleTimeout \in Nat
  /\ TaskTimeout \in Nat
  /\ Retain \in Nat
ASSUME ChatsAssumption == IsFiniteSet(Chats) /\ IsFiniteSet(Submitters)

\* A sizing under which no task waits for a slot and no handler outlives the
\* idle limit of its chat's queue.
Sized == TaskTimeout <= IdleTimeout /\ Cardinality(Chats) <= MaxConcurrent

TaskIds  == 1 .. MaxTasks
QueueIds == TaskIds
None     == 0

VARIABLES
  seq,         \* q.seq, the tasks submitted so far
  chatOf,      \* the ChatKey of each task
  status,      \* the Status of each task in q.tasks
  chatQueues,  \* q.chatQueues: the instance a chat maps to, or None
  ch,          \* the channel of each queue instance
  closed,      \* whether that channel is closed
  unused,      \* the time since the lastUsed stamp of each instance
  sending,     \* the task a submitter is about to send, and where to
  worker,      \* the goroutine of each instance: its place and its task
  ran,         \* the time since the StartedAt of that task
  sem,         \* taken slots of the semaphore
  cancelled,   \* q.ctx is done
  panicked     \* a goroutine sent on a closed channel

taskVars  == <<seq, chatOf, status>>
queueVars == <<chatQueues, ch, closed, unused>>
vars == <<taskVars, queueVars, sending, worker, ran, sem, cancelled, panicked>>

Statuses == {"absent", "pending", "running", "finished", "pruned"}
Places   == {"none", "recv", "acquire", "run", "release", "stamp", "exited"}

NotSending == [task |-> None, queue |-> None]

TypeOK ==
  /\ seq \in 0 .. MaxTasks
  /\ chatOf \in [TaskIds -> Chats \cup {None}]
  /\ status \in [TaskIds -> Statuses]
  /\ chatQueues \in [Chats -> QueueIds \cup {None}]
  /\ ch \in [QueueIds -> Seq(TaskIds)]
  /\ closed \in [QueueIds -> BOOLEAN]
  /\ unused \in [QueueIds -> 0 .. IdleTimeout + 1]
  /\ sending \in [Submitters -> [task : TaskIds \cup {None}, queue : QueueIds \cup {None}]]
  /\ worker \in [QueueIds -> [at : Places, task : TaskIds \cup {None}]]
  /\ ran \in [QueueIds -> 0 .. TaskTimeout]
  /\ sem \in 0 .. MaxConcurrent
  /\ cancelled \in BOOLEAN
  /\ panicked \in BOOLEAN

Init ==
  /\ seq = 0
  /\ chatOf = [t \in TaskIds |-> None]
  /\ status = [t \in TaskIds |-> "absent"]
  /\ chatQueues = [c \in Chats |-> None]
  /\ ch = [q \in QueueIds |-> <<>>]
  /\ closed = [q \in QueueIds |-> FALSE]
  /\ unused = [q \in QueueIds |-> 0]
  /\ sending = [s \in Submitters |-> NotSending]
  /\ worker = [q \in QueueIds |-> [at |-> "none", task |-> None]]
  /\ ran = [q \in QueueIds |-> 0]
  /\ sem = 0
  /\ cancelled = FALSE
  /\ panicked = FALSE

At(q, p) == worker[q].at = p
Holders  == {q \in QueueIds : worker[q].at \in {"run", "release"}}

\* The places of a worker that has a task in hand.
Busy == {"acquire", "run", "release", "stamp"}

\* No task keeps its worker busy beyond the idle limit: its wait for a slot and
\* its run together end within IdleTimeout of the last stamp.
Quick == \A q \in QueueIds : worker[q].at \in Busy => unused[q] <= IdleTimeout

-----------------------------------------------------------------------------
(* Submit: the part under q.mu, then the send on the chat's channel.       *)

\* Mutant: an existing instance is not stamped.
SubmitWithoutStamp(s, c) ==
  /\ ~panicked
  /\ sending[s] = NotSending
  /\ seq < MaxTasks
  /\ LET t == seq + 1
         q == IF chatQueues[c] = None THEN t ELSE chatQueues[c]
     IN  /\ seq' = t
         /\ chatOf' = [chatOf EXCEPT ![t] = c]
         /\ status' = [status EXCEPT ![t] = "pending"]
         /\ chatQueues' = [chatQueues EXCEPT ![c] = q]
         /\ worker' = IF chatQueues[c] = None
                      THEN [worker EXCEPT ![q] = [at |-> "recv", task |-> None]]
                      ELSE worker
         /\ sending' = [sending EXCEPT ![s] = [task |-> t, queue |-> q]]
  /\ UNCHANGED <<ch, closed, unused, ran, sem, cancelled, panicked>>

Submit(s, c) ==
  /\ ~panicked
  /\ sending[s] = NotSending
  /\ seq < MaxTasks
  /\ LET t == seq + 1
         q == IF chatQueues[c] = None THEN t ELSE chatQueues[c]
     IN  /\ seq' = t
         /\ chatOf' = [chatOf EXCEPT ![t] = c]
         /\ status' = [status EXCEPT ![t] = "pending"]
         /\ chatQueues' = [chatQueues EXCEPT ![c] = q]
         /\ worker' = IF chatQueues[c] = None
                      THEN [worker EXCEPT ![q] = [at |-> "recv", task |-> None]]
                      ELSE worker
         /\ unused' = [unused EXCEPT ![q] = 0]
         /\ sending' = [sending EXCEPT ![s] = [task |-> t, queue |-> q]]
  /\ UNCHANGED <<ch, closed, ran, sem, cancelled, panicked>>

SendReady(s) ==
  /\ sending[s] # NotSending
  /\ \/ closed[sending[s].queue]
     \/ Len(ch[sending[s].queue]) < ChanCap

Send(s) ==
  /\ ~panicked
  /\ SendReady(s)
  /\ LET q == sending[s].queue
     IN  IF closed[q]
         THEN panicked' = TRUE /\ UNCHANGED ch
         ELSE /\ ch' = [ch EXCEPT ![q] = Append(@, sending[s].task)]
              /\ UNCHANGED panicked
  /\ sending' = [sending EXCEPT ![s] = NotSending]
  /\ UNCHANGED <<taskVars, chatQueues, closed, unused, worker, ran, sem, cancelled>>

-----------------------------------------------------------------------------
(* processChatQueue and executeTask, run by the worker of instance q.      *)

Move(q, p) == worker' = [worker EXCEPT ![q].at = p]

Receive(q) ==
  /\ ~panicked
  /\ At(q, "recv") /\ ch[q] # <<>>
  /\ worker' = [worker EXCEPT ![q] = [at |-> "acquire", task |-> Head(ch[q])]]
  /\ ch' = [ch EXCEPT ![q] = Tail(@)]
  /\ UNCHANGED <<taskVars, chatQueues, closed, unused, sending, ran, sem, cancelled, panicked>>

\* The channel is closed and drained, or the queue's context is done.
Exit(q) ==
  /\ ~panicked
  /\ At(q, "recv")
  /\ cancelled \/ (closed[q] /\ ch[q] = <<>>)
  /\ Move(q, "exited")
  /\ UNCHANGED <<taskVars, queueVars, sending, ran, sem, cancelled, panicked>>

\* Mutant: the task runs without a slot being free.
StartUnbounded(q) ==
  /\ ~panicked
  /\ At(q, "acquire")
  /\ sem' = sem + 1
  /\ status' = [status EXCEPT ![worker[q].task] = "running"]
  /\ ran' = [ran EXCEPT ![q] = 0]
  /\ Move(q, "run")
  /\ UNCHANGED <<seq, chatOf, queueVars, sending, cancelled, panicked>>

\* Mutant: the worker lets a burst gather before it takes a slot.
StartAfterBurst(q) ==
  /\ ~panicked
  /\ At(q, "acquire") /\ Len(ch[q]) = ChanCap
  /\ sem < MaxConcurrent
  /\ sem' = sem + 1
  /\ status' = [status EXCEPT ![worker[q].task] = "running"]
  /\ ran' = [ran EXCEPT ![q] = 0]
  /\ Move(q, "run")
  /\ UNCHANGED <<seq, chatOf, queueVars, sending, cancelled, panicked>>

Start(q) ==
  /\ ~panicked
  /\ At(q, "acquire")
  /\ sem < MaxConcurrent
  /\ sem' = sem + 1
  /\ status' = [status EXCEPT ![worker[q].task] = "running"]
  /\ ran' = [ran EXCEPT ![q] = 0]
  /\ Move(q, "run")
  /\ UNCHANGED <<seq, chatOf, queueVars, sending, cancelled, panicked>>

\* Mutant: the release is deferred before the select that takes the slot.
AbandonReleases(q) ==
  /\ ~panicked
  /\ At(q, "acquire")
  /\ cancelled
  /\ sem' = IF sem > 0 THEN sem - 1 ELSE sem
  /\ Move(q, "stamp")
  /\ UNCHANGED <<taskVars, queueVars, sending, ran, cancelled, panicked>>

\* Mutant: a worker gives up when no slot is free at once.
AbandonWhenBusy(q) ==
  /\ ~panicked
  /\ At(q, "acquire")
  /\ cancelled \/ sem = MaxConcurrent
  /\ Move(q, "stamp")
  /\ UNCHANGED <<taskVars, queueVars, sending, ran, sem, cancelled, panicked>>

\* executeTask gives up waiting for a slot: the task stays pending.
Abandon(q) ==
  /\ ~panicked
  /\ At(q, "acquire")
  /\ cancelled
  /\ Move(q, "stamp")
  /\ UNCHANGED <<taskVars, queueVars, sending, ran, sem, cancelled, panicked>>

\* The handler returns; TaskDone and TaskFailed are both "finished".
Finish(q) ==
  /\ ~panicked
  /\ At(q, "run")
  /\ status' = [status EXCEPT ![worker[q].task] = "finished"]
  /\ ran' = [ran EXCEPT ![q] = 0]
  /\ Move(q, "release")
  /\ UNCHANGED <<seq, chatOf, queueVars, sending, sem, cancelled, panicked>>

Release(q) ==
  /\ ~panicked
  /\ At(q, "release")
  /\ sem' = sem - 1
  /\ Move(q, "stamp")
  /\ UNCHANGED <<taskVars, queueVars, sending, ran, cancelled, panicked>>

\* Mutant: lastUsed is not stamped after a task.
StampSkipped(q) ==
  /\ ~panicked
  /\ At(q, "stamp")
  /\ worker' = [worker EXCEPT ![q] = [at |-> "recv", task |-> None]]
  /\ UNCHANGED <<taskVars, queueVars, sending, ran, sem, cancelled, panicked>>

Stamp(q) ==
  /\ ~panicked
  /\ At(q, "stamp")
  /\ unused' = [unused EXCEPT ![q] = 0]
  /\ worker' = [worker EXCEPT ![q] = [at |-> "recv", task |-> None]]
  /\ UNCHANGED <<taskVars, chatQueues, ch, closed, sending, ran, sem, cancelled, panicked>>

-----------------------------------------------------------------------------
(* The other goroutines: cleanup, pruning, shutdown, and the clock.        *)

\* Mutant: the idle limit is off by one.
IsIdleEarly(q) == unused[q] >= IdleTimeout /\ ch[q] = <<>>

IsIdle(q) == unused[q] > IdleTimeout /\ ch[q] = <<>>

Idle == {c \in Chats : chatQueues[c] # None /\ IsIdle(chatQueues[c])}

Cleanup ==
  /\ ~panicked /\ ~cancelled
  /\ Idle # {}
  /\ closed' = [q \in QueueIds |-> closed[q] \/ \E c \in Idle : chatQueues[c] = q]
  /\ chatQueues' = [c \in Chats |-> IF c \in Idle THEN None ELSE chatQueues[c]]
  /\ UNCHANGED <<taskVars, ch, unused, sending, worker, ran, sem, cancelled, panicked>>

Kept == {t \in TaskIds : status[t] \notin {"absent", "pruned"}}

\* The oldest finished tasks beyond the retention limit.
Excess ==
  {t \in Kept : /\ status[t] = "finished"
                /\ Cardinality({u \in Kept : status[u] = "finished" /\ u < t})
                     < Cardinality(Kept) - Retain}

\* RecentTasks finds more than Retain tasks and starts pruneOldTasks.
Prune ==
  /\ ~panicked
  /\ Cardinality(Kept) > Retain
  /\ Excess # {}
  /\ status' = [t \in TaskIds |-> IF t \in Excess THEN "pruned" ELSE status[t]]
  /\ UNCHANGED <<seq, chatOf, queueVars, sending, worker, ran, sem, cancelled, panicked>>

Stop ==
  /\ ~panicked /\ ~cancelled
  /\ cancelled' = TRUE
  /\ UNCHANGED <<taskVars, queueVars, sending, worker, ran, sem, panicked>>

\* A goroutine has a step to take before any time passes.
Urgent ==
  \/ \E s \in Submitters : SendReady(s)
  \/ \E q \in QueueIds :
       \/ At(q, "recv") /\ (ch[q] # <<>> \/ closed[q] \/ cancelled)
       \/ At(q, "acquire") /\ (sem < MaxConcurrent \/ cancelled)
       \/ At(q, "run") /\ ran[q] >= TaskTimeout
       \/ worker[q].at \in {"release", "stamp"}

Live(q) == worker[q].at \notin {"none", "exited"}

Tick ==
  /\ ~panicked
  /\ ~Urgent
  /\ unused' = [q \in QueueIds |->
                  IF Live(q) /\ unused[q] <= IdleTimeout THEN unused[q] + 1 ELSE unused[q]]
  /\ ran' = [q \in QueueIds |-> IF At(q, "run") THEN ran[q] + 1 ELSE ran[q]]
  /\ UNCHANGED <<taskVars, chatQueues, ch, closed, sending, worker, sem, cancelled, panicked>>

-----------------------------------------------------------------------------
WorkerStep(q) ==
  Receive(q) \/ Exit(q) \/ Start(q) \/ Abandon(q) \/ Finish(q) \/ Release(q) \/ Stamp(q)

Next ==
  \/ \E s \in Submitters : Send(s) \/ \E c \in Chats : Submit(s, c)
  \/ \E q \in QueueIds : WorkerStep(q)
  \/ Cleanup \/ Prune \/ Stop \/ Tick

Spec == Init /\ [][Next]_vars

\* The Go scheduler runs every goroutine that can move, and a slot of the
\* semaphore goes to its waiters in the order they came (a channel send
\* blocks in FIFO order), so a worker that waits for one gets it.
Fairness ==
  /\ \A s \in Submitters : WF_vars(Send(s))
  /\ \A q \in QueueIds :
       /\ WF_vars(Receive(q) \/ Exit(q) \/ Finish(q) \/ Release(q) \/ Stamp(q))
       /\ SF_vars(Start(q) \/ Abandon(q))

FairSpec == Spec /\ Fairness

-----------------------------------------------------------------------------
(* Properties.                                                             *)

\* executeTask takes and returns its slot around the handler: the slots taken
\* are those of the workers between Start and Release, so never more than
\* MaxConcurrent handlers run (queue.go:162-168).
SlotsBounded ==
  /\ sem = Cardinality(Holders)
  /\ Cardinality(Holders) <= MaxConcurrent

\* Submit sends after it unlocked q.mu, while cleanupIdleQueues may close the
\* channel of an idle queue: the stamp Submit leaves must keep the channel open
\* until the task is in it (queue.go:116-138, 234-240).
NoSendOnClosed ==
  /\ ~panicked
  /\ \A s \in Submitters : sending[s] # NotSending => ~closed[sending[s].queue]

Places_(t) ==
  {<<"sender", s>> : s \in {s \in Submitters : sending[s].task = t}}
    \cup {<<"channel", q>> : q \in {q \in QueueIds : \E i \in DOMAIN ch[q] : ch[q][i] = t}}
    \cup {<<"worker", q>> : q \in {q \in QueueIds : At(q, "acquire") /\ worker[q].task = t}}

\* Closing a queue, replacing it and blocking on a full channel never strand a
\* task: until shutdown a pending task is in exactly one place, and the
\* instance it is queued on has a live worker.
NoTaskStranded ==
  ~cancelled =>
    \A t \in TaskIds :
      status[t] = "pending" =>
        /\ Cardinality(Places_(t)) = 1
        /\ \A q \in QueueIds :
             (\E i \in DOMAIN ch[q] : ch[q][i] = t) =>
               Live(q)

Executing(t) == status[t] = "running"

\* "processChatQueue drains tasks for a single chat, running them serially"
\* (queue.go:142), the promise routing.go:17-22 gives for one chat key.
SerialPerChat ==
  \A t, u \in TaskIds :
    Executing(t) /\ Executing(u) /\ chatOf[t] = chatOf[u] => t = u

\* A task that is waiting ends, whatever the other chats do, unless the queue
\* stops: the semaphore starves no chat and no worker is left asleep.
EveryTaskEnds ==
  \A t \in TaskIds :
    (status[t] = "pending") ~> (status[t] \in {"finished", "pruned"} \/ cancelled)

-----------------------------------------------------------------------------
(* The queue implements ChatSerial: the line of a chat is what its worker  *)
(* took but has not started, its channel, and what a submitter still holds *)
(* (one submitter: with more, their sends may overtake each other).        *)

InFlight(q) ==
  LET s == CHOOSE s \in Submitters : TRUE
  IN  IF sending[s].queue = q THEN <<sending[s].task>> ELSE <<>>

Line(c) ==
  LET q == chatQueues[c]
  IN  IF q = None THEN <<>>
      ELSE (IF At(q, "acquire") THEN <<worker[q].task>> ELSE <<>>) \o ch[q] \o InFlight(q)

Runs(c) ==
  LET q == chatQueues[c]
  IN  IF q # None /\ At(q, "run") THEN worker[q].task ELSE None

Serial == INSTANCE ChatSerial
  WITH accepted <- seq,
       waiting  <- [c \in Chats |-> Line(c)],
       current  <- [c \in Chats |-> Runs(c)],
       stopped  <- cancelled

\* As long as no task keeps its worker busy beyond the idle limit, the queue
\* runs the tasks of each chat one at a time, in order, losing none
\* (queue.go:142-159; routing.go:17-22).
ImplementsChatSerial == Serial!Spec
=============================================================================
