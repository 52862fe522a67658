-------------------------- MODULE TaskQueueProofs --------------------------
(***************************************************************************)
(* Proofs about TaskQueue.  The inductive invariant comes in four parts:   *)
(* Shape (types, the count of the semaphore, instances not created yet),   *)
(* Sends (why a channel with a send under way is never closed), Placed     *)
(* (why each pending task is in one place) and, while the queue is Quick,  *)
(* Served (the instance a chat maps to serves all its tasks).  A Quick     *)
(* queue is serial and implements ChatSerial, whatever its sizing; Ages    *)
(* shows one sizing under which every queue is Quick.                      *)
(***************************************************************************)
EXTENDS TaskQueue, FiniteSetTheorems, TLAPS

\* The parts of the inductive invariant that hold for every sizing.
SlotsCounted == sem = Cardinality(Holders)

SendersNamed ==
  \A s \in Submitters :
    sending[s] # NotSending => sending[s].task # None /\ sending[s].queue # None

Fresh ==
  /\ \A q \in QueueIds : q > seq => At(q, "none") /\ ~closed[q]
  /\ \A c \in Chats : chatQueues[c] <= seq

WorkersNamed == \A q \in QueueIds : worker[q].at \in Busy => worker[q].task # None

Shape == TypeOK /\ SlotsCounted /\ SendersNamed /\ Fresh /\ WorkersNamed

LEMMA HoldersFinite == IsFiniteSet(QueueIds) /\ IsFiniteSet(Holders)
<1>1. IsFiniteSet(QueueIds)
  BY FS_Interval, BoundsAssumption DEF QueueIds, TaskIds
<1> QED
  BY <1>1, FS_Subset DEF Holders

\* The set of slot holders follows the move of one worker.
LEMMA HoldersStep ==
  ASSUME TypeOK, NEW q \in QueueIds, NEW w \in [at : Places, task : TaskIds \cup {None}],
         worker' = [worker EXCEPT ![q] = w]
  PROVE  Holders' = IF w.at \in {"run", "release"} THEN Holders \cup {q} ELSE Holders \ {q}
  BY DEF Holders, TypeOK

LEMMA HoldersSame ==
  ASSUME TypeOK, SlotsCounted,
         NEW q \in QueueIds, NEW w \in [at : Places, task : TaskIds \cup {None}],
         worker' = [worker EXCEPT ![q] = w],
         w.at \in {"run", "release"} <=> worker[q].at \in {"run", "release"},
         UNCHANGED sem
  PROVE  SlotsCounted'
<1>1. Holders' = Holders
  BY HoldersStep DEF Holders
<1> QED
  BY <1>1 DEF SlotsCounted

LEMMA ShapeInit == Init => Shape
<1> SUFFICES ASSUME Init PROVE Shape
  OBVIOUS
<1>1. TypeOK
  <2> USE BoundsAssumption DEF Init, TaskIds, QueueIds, Statuses, Places, NotSending, None
  <2>1. /\ seq \in 0 .. MaxTasks
        /\ chatOf \in [TaskIds -> Chats \cup {None}]
        /\ status \in [TaskIds -> Statuses]
    OBVIOUS
  <2>2. chatQueues \in [Chats -> QueueIds \cup {None}]
    OBVIOUS
  <2>3. ch \in [QueueIds -> Seq(TaskIds)]
    OBVIOUS
  <2>4. closed \in [QueueIds -> BOOLEAN] /\ unused \in [QueueIds -> 0 .. IdleTimeout + 1]
    OBVIOUS
  <2>5. sending \in [Submitters -> [task : TaskIds \cup {None}, queue : QueueIds \cup {None}]]
    OBVIOUS
  <2>6. worker \in [QueueIds -> [at : Places, task : TaskIds \cup {None}]]
    OBVIOUS
  <2>7. ran \in [QueueIds -> 0 .. TaskTimeout] /\ sem \in 0 .. MaxConcurrent
    OBVIOUS
  <2> QED
    BY <2>1, <2>2, <2>3, <2>4, <2>5, <2>6, <2>7 DEF TypeOK
<1>2. Holders = {}
  BY DEF Init, Holders, QueueIds
<1>3. SlotsCounted
  BY <1>2, FS_EmptySet DEF Init, SlotsCounted
<1>4. SendersNamed /\ Fresh /\ WorkersNamed
  BY DEF Init, SendersNamed, Fresh, WorkersNamed, At, Busy, None
<1> QED
  BY <1>1, <1>3, <1>4 DEF Shape

LEMMA ShapeNext == Shape /\ [Next]_vars => Shape'
<1> SUFFICES ASSUME Shape, [Next]_vars PROVE Shape'
  OBVIOUS
<1> USE BoundsAssumption DEF None, QueueIds
<1>t. TypeOK /\ SlotsCounted
  BY DEF Shape
<1>0. CASE UNCHANGED vars
  BY <1>0 DEF vars, taskVars, queueVars, Shape, TypeOK, SlotsCounted, Holders,
              SendersNamed, Fresh, WorkersNamed, At
<1>1. ASSUME NEW s \in Submitters, NEW c \in Chats, Submit(s, c) PROVE Shape'
  <2> DEFINE idle == [at |-> "recv", task |-> None]
  <2> PICK q \in TaskIds :
        /\ q = chatQueues[c] \/ (q = seq + 1 /\ worker' = [worker EXCEPT ![q] = idle])
        /\ q = chatQueues[c] => UNCHANGED worker
        /\ chatQueues' = [chatQueues EXCEPT ![c] = q]
        /\ unused' = [unused EXCEPT ![q] = 0]
        /\ sending' = [sending EXCEPT ![s] = [task |-> seq + 1, queue |-> q]]
    <3>1. CASE chatQueues[c] = None
      <4>1. seq + 1 \in TaskIds /\ seq + 1 # None
        BY <1>1 DEF Submit, Shape, TypeOK, TaskIds
      <4> QED
        BY <1>1, <3>1, <4>1 DEF Submit
    <3>2. CASE chatQueues[c] # None
      <4>1. chatQueues[c] \in TaskIds
        BY <3>2 DEF Shape, TypeOK
      <4> QED
        BY <1>1, <3>2, <4>1 DEF Submit
    <3> QED
      BY <3>1, <3>2
  <2>1. /\ seq < MaxTasks /\ seq' = seq + 1 /\ seq + 1 \in TaskIds /\ q <= seq + 1
        /\ chatOf' = [chatOf EXCEPT ![seq + 1] = c]
        /\ status' = [status EXCEPT ![seq + 1] = "pending"]
        /\ UNCHANGED <<ch, closed, ran, sem, cancelled, panicked>>
        /\ idle \in [at : Places, task : TaskIds \cup {None}]
    BY <1>1 DEF Submit, Shape, TypeOK, TaskIds, Places, Fresh
  <2>2. UNCHANGED worker \/ (q = seq + 1 /\ worker' = [worker EXCEPT ![q] = idle])
    OBVIOUS
  <2>3. TypeOK'
    <3>1. chatOf' \in [TaskIds -> Chats \cup {None}] /\ status' \in [TaskIds -> Statuses]
      BY <2>1 DEF Shape, TypeOK, Statuses
    <3>2. /\ chatQueues' \in [Chats -> QueueIds \cup {None}]
          /\ unused' \in [QueueIds -> 0 .. IdleTimeout + 1]
      BY DEF Shape, TypeOK
    <3>3. sending' \in [Submitters -> [task : TaskIds \cup {None}, queue : QueueIds \cup {None}]]
      BY <2>1 DEF Shape, TypeOK
    <3>4. worker' \in [QueueIds -> [at : Places, task : TaskIds \cup {None}]]
      BY <2>1, <2>2 DEF Shape, TypeOK
    <3>5. seq' \in 0 .. MaxTasks
      BY <2>1 DEF Shape, TypeOK
    <3> QED
      BY <2>1, <3>1, <3>2, <3>3, <3>4, <3>5 DEF Shape, TypeOK
  <2>4. SlotsCounted'
    <3>1. CASE UNCHANGED worker
      BY <2>1, <3>1 DEF Shape, SlotsCounted, Holders
    <3>2. CASE q = seq + 1 /\ worker' = [worker EXCEPT ![q] = idle]
      <4>1. worker[q].at = "none"
        BY <3>2 DEF Shape, Fresh, At, TypeOK, TaskIds
      <4> QED
        BY <1>t, <2>1, <3>2, <4>1, HoldersSame
    <3> QED
      BY <2>2, <3>1, <3>2
  <2>5. SendersNamed'
    <3>1. seq + 1 # None /\ q # None
      <4> \A t \in TaskIds : t # None
        BY DEF TaskIds
      <4> QED
        BY <2>1
    <3>2. ASSUME NEW r \in Submitters
          PROVE  sending'[r] = sending[r] \/ sending'[r] = [task |-> seq + 1, queue |-> q]
      BY DEF Shape, TypeOK
    <3> QED
      BY <3>1, <3>2 DEF Shape, SendersNamed
  <2>6. Fresh'
    <3>0. seq \in Nat /\ MaxTasks \in Nat
      BY DEF Shape, TypeOK
    <3>1. ASSUME NEW d \in Chats PROVE chatQueues'[d] <= seq'
      <4>1. chatQueues'[d] = q \/ chatQueues'[d] = chatQueues[d]
        BY DEF Shape, TypeOK
      <4>2. chatQueues[d] \in Nat /\ chatQueues[d] <= seq
        <5>1. chatQueues[d] \in TaskIds \cup {0} /\ chatQueues[d] <= seq
          BY DEF Shape, TypeOK, Fresh
        <5> QED
          BY <3>0, <5>1 DEF TaskIds
      <4> QED
        BY <2>1, <3>0, <4>1, <4>2 DEF TaskIds
    <3>2. ASSUME NEW r \in QueueIds, r > seq' PROVE worker'[r].at = "none" /\ ~closed'[r]
      <4>1. r > seq /\ r # q
        BY <2>1, <3>0, <3>2 DEF TaskIds
      <4>2. worker[r].at = "none" /\ ~closed[r]
        BY <4>1 DEF Shape, Fresh, At
      <4>3. worker'[r] = worker[r]
        BY <2>2, <4>1 DEF Shape, TypeOK
      <4> QED
        BY <2>1, <4>2, <4>3
    <3> QED
      BY <3>1, <3>2 DEF Fresh, At
  <2>7. WorkersNamed'
    <3>1. CASE UNCHANGED worker
      BY <3>1 DEF Shape, WorkersNamed
    <3>2. CASE worker' = [worker EXCEPT ![q] = idle]
      BY <3>2 DEF Shape, TypeOK, WorkersNamed, Busy
    <3> QED
      BY <2>2, <3>1, <3>2
  <2> QED
    BY <2>3, <2>4, <2>5, <2>6, <2>7 DEF Shape
<1>2. ASSUME NEW s \in Submitters, Send(s) PROVE Shape'
  <2>1. ch' \in [QueueIds -> Seq(TaskIds)]
    <3>1. sending[s].task \in TaskIds /\ sending[s].queue \in TaskIds
      BY <1>2 DEF Send, SendReady, Shape, TypeOK, SendersNamed
    <3>2. ch[sending[s].queue] \in Seq(TaskIds)
      BY <3>1 DEF Shape, TypeOK
    <3>3. Append(ch[sending[s].queue], sending[s].task) \in Seq(TaskIds)
      BY <3>1, <3>2
    <3> QED
      BY <1>2, <3>1, <3>3 DEF Send, Shape, TypeOK
  <2>2. sending' \in [Submitters -> [task : TaskIds \cup {None}, queue : QueueIds \cup {None}]]
    BY <1>2 DEF Send, Shape, TypeOK, NotSending
  <2>3. TypeOK'
    BY <1>2, <2>1, <2>2 DEF Send, Shape, TypeOK, taskVars
  <2> QED
    BY <1>2, <2>3 DEF Send, Shape, SlotsCounted, Holders, SendersNamed, Fresh, WorkersNamed,
                      At, TypeOK, NotSending, taskVars
<1>3. ASSUME NEW q \in QueueIds, Receive(q) PROVE Shape'
  <2> DEFINE w == [at |-> "acquire", task |-> Head(ch[q])]
  <2>1. Head(ch[q]) \in TaskIds /\ Tail(ch[q]) \in Seq(TaskIds)
    BY <1>3 DEF Receive, Shape, TypeOK
  <2>2. w \in [at : Places, task : TaskIds \cup {None}] /\ worker' = [worker EXCEPT ![q] = w]
    BY <1>3, <2>1 DEF Receive, Places
  <2>3. TypeOK'
    <3>1. ch' \in [QueueIds -> Seq(TaskIds)]
      BY <1>3, <2>1 DEF Receive, Shape, TypeOK
    <3>2. worker' \in [QueueIds -> [at : Places, task : TaskIds \cup {None}]]
      BY <2>2 DEF Shape, TypeOK
    <3> QED
      BY <1>3, <3>1, <3>2 DEF Receive, Shape, TypeOK, taskVars
  <2>4. SlotsCounted'
    BY <1>3, <1>t, <2>2, HoldersSame DEF Receive, At
  <2>5. SendersNamed' /\ Fresh'
    <3>1. SendersNamed'
      BY <1>3 DEF Receive, Shape, SendersNamed
    <3>2. ASSUME NEW r \in QueueIds, r > seq PROVE worker'[r].at = "none" /\ ~closed'[r]
      <4>1. worker[r].at = "none" /\ ~closed[r]
        BY <3>2 DEF Shape, Fresh, At
      <4>2. r # q
        BY <1>3, <4>1 DEF Receive, At
      <4> QED
        BY <1>3, <2>2, <4>1, <4>2 DEF Receive, Shape, TypeOK
    <3> QED
      BY <1>3, <3>1, <3>2 DEF Receive, Shape, Fresh, At, taskVars
  <2>6. WorkersNamed'
    <3>1. w.task # None
      <4> \A t \in TaskIds : t # None
        BY DEF TaskIds
      <4> QED
        BY <2>1
    <3>2. ASSUME NEW r \in QueueIds PROVE worker'[r] = worker[r] \/ worker'[r] = w
      BY <2>2 DEF Shape, TypeOK
    <3> QED
      BY <3>1, <3>2 DEF Shape, WorkersNamed
  <2> QED
    BY <2>3, <2>4, <2>5, <2>6 DEF Shape
<1>4. ASSUME NEW q \in QueueIds, Exit(q) \/ Abandon(q) \/ Finish(q) PROVE Shape'
  <2> PICK p \in {"exited", "stamp", "release"} :
        /\ Move(q, p)
        /\ p \in {"run", "release"} <=> worker[q].at \in {"run", "release"}
        /\ p \in Busy => worker[q].at \in Busy
    BY <1>4 DEF Exit, Abandon, Finish, At, Busy
  <2> DEFINE w == [worker[q] EXCEPT !.at = p]
  <2>1. /\ w \in [at : Places, task : TaskIds \cup {None}]
        /\ w.at = p
        /\ worker' = [worker EXCEPT ![q] = w]
    BY DEF Move, Shape, TypeOK, Places
  <2>2. TypeOK'
    <3>1. worker' \in [QueueIds -> [at : Places, task : TaskIds \cup {None}]]
      BY <2>1 DEF Shape, TypeOK
    <3>2. status' \in [TaskIds -> Statuses]
      BY <1>4 DEF Exit, Abandon, Finish, Shape, TypeOK, taskVars, Statuses
    <3>3. ran' \in [QueueIds -> 0 .. TaskTimeout]
      <4>1. ran' = ran \/ ran' = [ran EXCEPT ![q] = 0]
        BY <1>4 DEF Exit, Abandon, Finish
      <4>2. ran \in [QueueIds -> 0 .. TaskTimeout] /\ 0 \in 0 .. TaskTimeout
        BY DEF Shape, TypeOK
      <4> QED
        BY <4>1, <4>2
    <3> QED
      BY <1>4, <3>1, <3>2, <3>3 DEF Exit, Abandon, Finish, Shape, TypeOK, taskVars, queueVars
  <2>3. SlotsCounted'
    BY <1>4, <1>t, <2>1, HoldersSame DEF Exit, Abandon, Finish
  <2>4. SendersNamed' /\ Fresh'
    BY <1>4, <2>1
    DEF Exit, Abandon, Finish, Shape, TypeOK, SendersNamed, Fresh, At, taskVars, queueVars
  <2>5. WorkersNamed'
    BY <2>1 DEF Shape, WorkersNamed, TypeOK
  <2> QED
    BY <2>2, <2>3, <2>4, <2>5 DEF Shape
<1>5. ASSUME NEW q \in QueueIds, Start(q) PROVE Shape'
  <2> DEFINE w == [worker[q] EXCEPT !.at = "run"]
  <2>1. /\ w \in [at : Places, task : TaskIds \cup {None}]
        /\ w.at = "run"
        /\ worker' = [worker EXCEPT ![q] = w]
    BY <1>5 DEF Start, Move, Shape, TypeOK, Places
  <2>2. TypeOK'
    <3>1. worker' \in [QueueIds -> [at : Places, task : TaskIds \cup {None}]]
      BY <2>1 DEF Shape, TypeOK
    <3>2. status' \in [TaskIds -> Statuses]
      BY <1>5 DEF Start, Shape, TypeOK, Statuses
    <3>3. ran' \in [QueueIds -> 0 .. TaskTimeout]
      BY <1>5 DEF Start, Shape, TypeOK
    <3>4. sem' \in 0 .. MaxConcurrent
      BY <1>5 DEF Start, Shape, TypeOK
    <3> QED
      BY <1>5, <3>1, <3>2, <3>3, <3>4 DEF Start, Shape, TypeOK, queueVars
  <2>3. Holders' = Holders \cup {q} /\ q \notin Holders
    BY <1>5, <1>t, <2>1, HoldersStep DEF Start, Holders, At
  <2>4. SlotsCounted'
    BY <1>5, <2>3, HoldersFinite, FS_AddElement DEF Start, Shape, SlotsCounted
  <2>5. SendersNamed' /\ Fresh'
    BY <1>5, <2>1 DEF Start, Shape, TypeOK, SendersNamed, Fresh, At, queueVars
  <2>6. WorkersNamed'
    BY <1>5, <2>1 DEF Start, Shape, TypeOK, WorkersNamed, At, Busy
  <2> QED
    BY <2>2, <2>4, <2>5, <2>6 DEF Shape
<1>6. ASSUME NEW q \in QueueIds, Release(q) PROVE Shape'
  <2> DEFINE w == [worker[q] EXCEPT !.at = "stamp"]
  <2>1. /\ w \in [at : Places, task : TaskIds \cup {None}]
        /\ w.at = "stamp"
        /\ worker' = [worker EXCEPT ![q] = w]
    BY <1>6, ZenonT(40) DEF Release, Move, Shape, TypeOK, Places
  <2>2. Holders' = Holders \ {q} /\ q \in Holders
    BY <1>6, <1>t, <2>1, HoldersStep DEF Release, Holders, At
  <2>3. sem # 0
    BY <2>2, HoldersFinite, FS_EmptySet DEF Shape, SlotsCounted
  <2>4. TypeOK'
    <3>1. worker' \in [QueueIds -> [at : Places, task : TaskIds \cup {None}]]
      BY <2>1 DEF Shape, TypeOK
    <3>2. sem' \in 0 .. MaxConcurrent
      BY <1>6, <2>3 DEF Release, Shape, TypeOK
    <3> QED
      BY <1>6, <3>1, <3>2 DEF Release, Shape, TypeOK, queueVars, taskVars
  <2>5. SlotsCounted'
    BY <1>6, <2>2, HoldersFinite, FS_RemoveElement DEF Release, Shape, SlotsCounted
  <2>6. SendersNamed' /\ Fresh'
    BY <1>6, <2>1 DEF Release, Shape, TypeOK, SendersNamed, Fresh, At, queueVars, taskVars
  <2>7. WorkersNamed'
    BY <1>6, <2>1 DEF Release, Shape, TypeOK, WorkersNamed, At, Busy
  <2> QED
    BY <2>4, <2>5, <2>6, <2>7 DEF Shape
<1>7. ASSUME NEW q \in QueueIds, Stamp(q) PROVE Shape'
  <2> DEFINE w == [at |-> "recv", task |-> None]
  <2>1. w \in [at : Places, task : TaskIds \cup {None}] /\ worker' = [worker EXCEPT ![q] = w]
    BY <1>7 DEF Stamp, Places
  <2>2. TypeOK'
    <3>1. worker' \in [QueueIds -> [at : Places, task : TaskIds \cup {None}]]
      BY <2>1 DEF Shape, TypeOK
    <3>2. unused' \in [QueueIds -> 0 .. IdleTimeout + 1]
      BY <1>7 DEF Stamp, Shape, TypeOK
    <3> QED
      BY <1>7, <3>1, <3>2 DEF Stamp, Shape, TypeOK, taskVars
  <2>3. SlotsCounted'
    BY <1>7, <1>t, <2>1, HoldersSame DEF Stamp, At
  <2>4. SendersNamed' /\ Fresh'
    BY <1>7, <2>1 DEF Stamp, Shape, TypeOK, SendersNamed, Fresh, At, taskVars
  <2>5. WorkersNamed'
    BY <1>7, <2>1 DEF Stamp, Shape, TypeOK, WorkersNamed, At, Busy
  <2> QED
    BY <2>2, <2>3, <2>4, <2>5 DEF Shape
<1>8. CASE Cleanup
  <2>1. TypeOK'
    BY <1>8 DEF Cleanup, Shape, TypeOK, taskVars
  <2>2. SlotsCounted' /\ SendersNamed' /\ WorkersNamed'
    BY <1>8 DEF Cleanup, Shape, SlotsCounted, Holders, SendersNamed, WorkersNamed, At
  <2>3. \A q \in QueueIds : q > seq => At(q, "none") /\ ~closed[q]
    BY <1>8 DEF Shape, Fresh
  <2>4. \A q \in QueueIds : q > seq => ~closed'[q]
    <3> SUFFICES ASSUME NEW q \in QueueIds, q > seq, closed'[q] PROVE FALSE
      OBVIOUS
    <3>1. PICK c \in Chats : chatQueues[c] = q
      BY <1>8, <2>3 DEF Cleanup, Idle
    <3> QED
      BY <3>1 DEF Shape, TypeOK, Fresh, QueueIds, TaskIds, None
  <2>5. \A c \in Chats : chatQueues'[c] <= seq
    BY <1>8 DEF Cleanup, Shape, TypeOK, Fresh, None
  <2> QED
    BY <1>8, <2>1, <2>2, <2>3, <2>4, <2>5 DEF Cleanup, Shape, Fresh, At, taskVars
<1>9. CASE Prune
  <2>1. TypeOK'
    BY <1>9 DEF Prune, Shape, TypeOK, queueVars, Statuses
  <2> QED
    BY <1>9, <2>1
    DEF Prune, Shape, SlotsCounted, Holders, SendersNamed, Fresh, WorkersNamed, At, queueVars
<1>10. CASE Stop
  BY <1>10 DEF Stop, Shape, TypeOK, SlotsCounted, Holders, SendersNamed, Fresh, WorkersNamed, At,
               queueVars, taskVars
<1>11. CASE Tick
  <2>1. ran' \in [QueueIds -> 0 .. TaskTimeout]
    BY <1>11 DEF Tick, Urgent, Shape, TypeOK, At
  <2>2. unused' \in [QueueIds -> 0 .. IdleTimeout + 1]
    BY <1>11 DEF Tick, Shape, TypeOK
  <2> QED
    BY <1>11, <2>1, <2>2
    DEF Tick, Shape, TypeOK, SlotsCounted, Holders, SendersNamed, Fresh, WorkersNamed, At, taskVars
<1> QED
  BY <1>0, <1>1, <1>2, <1>3, <1>4, <1>5, <1>6, <1>7, <1>8, <1>9, <1>10, <1>11
  DEF Next, WorkerStep

\* Every variable keeps its type: the counters of queue.go stay in range.
THEOREM TypeCorrect == Spec => []TypeOK
<1>1. Spec => []Shape
  BY ShapeInit, ShapeNext, PTL DEF Spec
<1>2. Shape => TypeOK
  BY DEF Shape
<1> QED
  BY <1>1, <1>2, PTL

\* The slots taken are those of the workers between Start and Release
\* (queue.go:162-168), so no more than MaxConcurrent handlers ever run.
THEOREM SlotsNeverExceeded == Spec => []SlotsBounded
<1>1. Spec => []Shape
  BY ShapeInit, ShapeNext, PTL DEF Spec
<1>2. Shape => SlotsBounded
  BY DEF Shape, TypeOK, SlotsCounted, SlotsBounded
<1> QED
  BY <1>1, <1>2, PTL

-----------------------------------------------------------------------------
(* Why no goroutine sends on a closed channel.  A sender waits only on a   *)
(* full channel; a worker that frees a place in it has just been stamped,  *)
(* and no time passes before the send, so the queue never looks idle.      *)

MappedOpen == \A c \in Chats : chatQueues[c] # None => ~closed[chatQueues[c]]

SendersOpen ==
  \A s \in Submitters :
    sending[s] # NotSending =>
      /\ ~closed[sending[s].queue]
      /\ Len(ch[sending[s].queue]) < ChanCap => unused[sending[s].queue] = 0

WaitingFresh == \A q \in QueueIds : At(q, "recv") /\ ch[q] # <<>> => unused[q] = 0

Sends == ~panicked /\ MappedOpen /\ SendersOpen /\ WaitingFresh

LEMMA SendsInit == Init => Sends
  BY DEF Init, Sends, MappedOpen, SendersOpen, WaitingFresh, QueueIds

LEMMA SendsNext == Shape /\ Sends /\ [Next]_vars => Sends'
<1> SUFFICES ASSUME Shape, Sends, [Next]_vars PROVE Sends'
  OBVIOUS
<1> USE BoundsAssumption DEF None, QueueIds
<1>0. CASE UNCHANGED vars
  BY <1>0 DEF vars, taskVars, queueVars, Sends, MappedOpen, SendersOpen, WaitingFresh, At
<1>1. ASSUME NEW s \in Submitters, NEW c \in Chats, Submit(s, c) PROVE Sends'
  <2> PICK q \in TaskIds :
        /\ chatQueues' = [chatQueues EXCEPT ![c] = q]
        /\ unused' = [unused EXCEPT ![q] = 0]
        /\ sending' = [sending EXCEPT ![s] = [task |-> seq + 1, queue |-> q]]
        /\ UNCHANGED <<ch, closed, panicked>>
        /\ \A r \in QueueIds : r # q => worker'[r] = worker[r]
        /\ ~closed[q]
    <3>1. CASE chatQueues[c] = None
      <4>1. seq + 1 \in TaskIds /\ seq \in Nat
        BY <1>1 DEF Submit, Shape, TypeOK, TaskIds
      <4>2. ~closed[seq + 1]
        BY <4>1 DEF Shape, Fresh
      <4>3. /\ chatQueues' = [chatQueues EXCEPT ![c] = seq + 1]
            /\ unused' = [unused EXCEPT ![seq + 1] = 0]
            /\ sending' = [sending EXCEPT ![s] = [task |-> seq + 1, queue |-> seq + 1]]
            /\ UNCHANGED <<ch, closed, panicked>>
            /\ worker' = [worker EXCEPT ![seq + 1] = [at |-> "recv", task |-> None]]
        BY <1>1, <3>1 DEF Submit
      <4> QED
        BY <4>1, <4>2, <4>3 DEF Shape, TypeOK
    <3>2. CASE chatQueues[c] # None
      <4>1. chatQueues[c] \in TaskIds /\ ~closed[chatQueues[c]]
        BY <3>2 DEF Shape, TypeOK, Sends, MappedOpen
      <4> QED
        BY <1>1, <3>2, <4>1 DEF Submit
    <3> QED
      BY <3>1, <3>2
  <2>1. MappedOpen'
    BY DEF Shape, TypeOK, Sends, MappedOpen
  <2>2. SendersOpen'
    <3> SUFFICES ASSUME NEW r \in Submitters, sending'[r] # NotSending
                 PROVE  /\ ~closed[sending'[r].queue]
                        /\ Len(ch[sending'[r].queue]) < ChanCap =>
                             unused'[sending'[r].queue] = 0
      BY DEF SendersOpen
    <3>1. CASE r = s
      BY <3>1 DEF Shape, TypeOK
    <3>2. CASE r # s
      <4>1. sending'[r] = sending[r] /\ sending[r].queue \in QueueIds
        BY <3>2 DEF Shape, TypeOK, SendersNamed
      <4>2. unused'[sending[r].queue] \in {0, unused[sending[r].queue]}
        BY <4>1 DEF Shape, TypeOK
      <4> QED
        BY <4>1, <4>2 DEF Sends, SendersOpen
    <3> QED
      BY <3>1, <3>2
  <2>3. WaitingFresh'
    BY DEF Shape, TypeOK, Sends, WaitingFresh, At
  <2> QED
    BY <2>1, <2>2, <2>3 DEF Sends
<1>2. ASSUME NEW s \in Submitters, Send(s) PROVE Sends'
  <2> DEFINE q == sending[s].queue
  <2>1. q \in QueueIds /\ sending[s].task \in TaskIds /\ ~closed[q]
        /\ unused[q] = 0 /\ Len(ch[q]) < ChanCap
    BY <1>2 DEF Send, SendReady, Shape, TypeOK, SendersNamed, Sends, SendersOpen
  <2>2. /\ ch' = [ch EXCEPT ![q] = Append(@, sending[s].task)]
        /\ sending' = [sending EXCEPT ![s] = NotSending]
        /\ UNCHANGED <<chatQueues, closed, unused, worker, panicked>>
    BY <1>2, <2>1 DEF Send
  <2>3. SendersOpen'
    <3> SUFFICES ASSUME NEW r \in Submitters, sending'[r] # NotSending
                 PROVE  /\ ~closed[sending'[r].queue]
                        /\ Len(ch'[sending'[r].queue]) < ChanCap =>
                             unused[sending'[r].queue] = 0
      BY <2>2 DEF SendersOpen
    <3>1. sending'[r] = sending[r] /\ sending[r].queue \in QueueIds
      BY <2>2 DEF Shape, TypeOK, SendersNamed
    <3>2. CASE sending[r].queue = q
      BY <2>1, <3>1, <3>2
    <3>3. CASE sending[r].queue # q
      BY <2>2, <3>1, <3>3 DEF Shape, TypeOK, Sends, SendersOpen
    <3> QED
      BY <2>1, <3>1, <3>2, <3>3 DEF Sends, SendersOpen
  <2>4. WaitingFresh'
    BY <2>1, <2>2 DEF Shape, TypeOK, Sends, WaitingFresh, At
  <2> QED
    BY <2>2, <2>3, <2>4 DEF Sends, MappedOpen
<1>3. ASSUME NEW q \in QueueIds, Receive(q) PROVE Sends'
  <2>1. unused[q] = 0
    BY <1>3 DEF Receive, Sends, WaitingFresh
  <2>2. SendersOpen'
    BY <1>3, <2>1 DEF Receive, Shape, TypeOK, SendersNamed, Sends, SendersOpen
  <2>3. WaitingFresh'
    BY <1>3, <2>1 DEF Receive, Shape, TypeOK, Sends, WaitingFresh, At
  <2> QED
    BY <1>3, <2>2, <2>3 DEF Receive, Sends, MappedOpen
<1>4. ASSUME NEW q \in QueueIds, Exit(q) \/ Start(q) \/ Abandon(q) \/ Finish(q) \/ Release(q)
      PROVE  Sends'
  <2>1. PICK p \in {"exited", "run", "stamp", "release"} : Move(q, p)
    BY <1>4 DEF Exit, Start, Abandon, Finish, Release
  <2>2. UNCHANGED <<chatQueues, ch, closed, unused, sending, panicked>>
    BY <1>4 DEF Exit, Start, Abandon, Finish, Release, queueVars
  <2>3. WaitingFresh'
    BY <2>1, <2>2 DEF Move, Shape, TypeOK, Sends, WaitingFresh, At
  <2> QED
    BY <2>2, <2>3 DEF Sends, MappedOpen, SendersOpen
<1>5. ASSUME NEW q \in QueueIds, Stamp(q) PROVE Sends'
  <2>1. SendersOpen'
    BY <1>5 DEF Stamp, Shape, TypeOK, SendersNamed, Sends, SendersOpen
  <2>2. WaitingFresh'
    BY <1>5 DEF Stamp, Shape, TypeOK, Sends, WaitingFresh, At
  <2> QED
    BY <1>5, <2>1, <2>2 DEF Stamp, Sends, MappedOpen
<1>6. CASE Cleanup
  <2>1. ASSUME NEW s \in Submitters, sending[s] # NotSending,
               NEW c \in Idle, chatQueues[c] = sending[s].queue
        PROVE  FALSE
    <3>1. sending[s].queue \in QueueIds /\ ch[sending[s].queue] = <<>>
          /\ unused[sending[s].queue] > IdleTimeout
      BY <2>1 DEF Idle, IsIdle, Shape, TypeOK, SendersNamed
    <3>2. Len(ch[sending[s].queue]) = 0
      BY <3>1
    <3> QED
      BY <2>1, <3>1, <3>2 DEF Sends, SendersOpen
  <2>2. SendersOpen'
    BY <1>6, <2>1 DEF Cleanup, Shape, TypeOK, SendersNamed, Sends, SendersOpen
  <2>3. MappedOpen'
    <3> SUFFICES ASSUME NEW c \in Chats, chatQueues'[c] # None PROVE ~closed'[chatQueues'[c]]
      BY DEF MappedOpen
    <3>1. c \notin Idle /\ chatQueues'[c] = chatQueues[c] /\ chatQueues[c] \in QueueIds
      BY <1>6 DEF Cleanup, Shape, TypeOK
    <3>2. \A d \in Idle : chatQueues[d] # chatQueues[c]
      BY <3>1 DEF Idle, IsIdle
    <3> QED
      BY <1>6, <3>1, <3>2 DEF Cleanup, Sends, MappedOpen
  <2>4. WaitingFresh'
    BY <1>6 DEF Cleanup, Sends, WaitingFresh, At
  <2> QED
    BY <1>6, <2>2, <2>3, <2>4 DEF Cleanup, Sends
<1>7. CASE Prune \/ Stop
  BY <1>7 DEF Prune, Stop, queueVars, Sends, MappedOpen, SendersOpen, WaitingFresh, At
<1>8. CASE Tick
  <2>1. SendersOpen'
    BY <1>8 DEF Tick, Urgent, SendReady, Sends, SendersOpen
  <2>2. WaitingFresh'
    BY <1>8 DEF Tick, Urgent, Sends, WaitingFresh, At
  <2> QED
    BY <1>8, <2>1, <2>2 DEF Tick, Sends, MappedOpen
<1> QED
  BY <1>0, <1>1, <1>2, <1>3, <1>4, <1>5, <1>6, <1>7, <1>8 DEF Next, WorkerStep

\* Submit sends outside q.mu, yet cleanupIdleQueues never closes a channel a
\* send is under way on (queue.go:116-138, 234-240), whatever the bounds.
THEOREM NeverSendsOnClosed == Spec => []NoSendOnClosed
<1>1. Shape /\ Sends /\ [Next]_vars => (Shape /\ Sends)'
  BY ShapeNext, SendsNext
<1>2. Sends => NoSendOnClosed
  BY DEF Sends, SendersOpen, NoSendOnClosed
<1> QED
  BY <1>1, <1>2, ShapeInit, SendsInit, PTL DEF Spec

-----------------------------------------------------------------------------
(* A queue that is Quick is serial: the instance a chat maps to serves     *)
(* every task of the chat, because it never looks idle while its worker is *)
(* busy.                                                                   *)

OneInstance ==
  \A c, d \in Chats : chatQueues[c] = chatQueues[d] /\ chatQueues[c] # None => c = d

\* The tasks of the chat that maps to an instance.
Mine ==
  [q \in QueueIds |-> {t \in 1 .. seq : \E c \in Chats : chatOf[t] = c /\ chatQueues[c] = q}]

WorkersServe == \A q \in QueueIds : worker[q].at \in Busy => worker[q].task \in Mine[q]
ChannelsServe == \A q \in QueueIds : \A i \in 1 .. Len(ch[q]) : ch[q][i] \in Mine[q]
SendersServe ==
  \A s \in Submitters :
    sending[s] # NotSending => sending[s].task \in Mine[sending[s].queue]

RunningHeld ==
  \A t \in TaskIds : status[t] = "running" => \E q \in QueueIds : At(q, "run") /\ worker[q].task = t

Served ==
  OneInstance /\ WorkersServe /\ ChannelsServe /\ SendersServe /\ RunningHeld

LEMMA ServedInit == Init => Served
  BY DEF Init, Served, OneInstance, WorkersServe, ChannelsServe, SendersServe, RunningHeld,
         QueueIds, At, Busy

LEMMA MineSame ==
  ASSUME UNCHANGED <<seq, chatOf, chatQueues>>
  PROVE  Mine' = Mine
  BY DEF Mine

LEMMA ServedNext == Shape /\ Sends /\ Served /\ Quick /\ [Next]_vars => Served'
<1> SUFFICES ASSUME Shape, Sends, Served, Quick, [Next]_vars PROVE Served'
  OBVIOUS
<1> USE BoundsAssumption DEF None, QueueIds
<1>0. CASE UNCHANGED vars
  BY <1>0, MineSame
  DEF vars, taskVars, queueVars, Served, OneInstance, WorkersServe, ChannelsServe, SendersServe,
      RunningHeld, At
<1>1. ASSUME NEW s \in Submitters, NEW c \in Chats, Submit(s, c) PROVE Served'
  <2>0. seq \in Nat /\ seq + 1 \in TaskIds /\ seq' = seq + 1
    BY <1>1 DEF Submit, Shape, TypeOK, TaskIds
  <2> PICK q \in TaskIds :
        /\ chatQueues' = [chatQueues EXCEPT ![c] = q]
        /\ unused' = [unused EXCEPT ![q] = 0]
        /\ sending' = [sending EXCEPT ![s] = [task |-> seq + 1, queue |-> q]]
        /\ chatOf' = [chatOf EXCEPT ![seq + 1] = c]
        /\ status' = [status EXCEPT ![seq + 1] = "pending"]
        /\ UNCHANGED <<ch, ran>>
        /\ \/ UNCHANGED worker
           \/ /\ worker' = [worker EXCEPT ![q] = [at |-> "recv", task |-> None]]
              /\ worker[q].at = "none"
        /\ chatQueues[c] \in {None, q}
        /\ \A d \in Chats : chatQueues[d] = q => d = c
    <3>1. CASE chatQueues[c] = None
      <4>1. \A d \in Chats : chatQueues[d] # seq + 1
        BY <2>0 DEF Shape, TypeOK, Fresh, TaskIds
      <4>2. worker[seq + 1].at = "none"
        BY <2>0 DEF Shape, Fresh, At
      <4>3. /\ chatQueues' = [chatQueues EXCEPT ![c] = seq + 1]
            /\ unused' = [unused EXCEPT ![seq + 1] = 0]
            /\ sending' = [sending EXCEPT ![s] = [task |-> seq + 1, queue |-> seq + 1]]
            /\ chatOf' = [chatOf EXCEPT ![seq + 1] = c]
            /\ status' = [status EXCEPT ![seq + 1] = "pending"]
            /\ UNCHANGED <<ch, ran>>
            /\ worker' = [worker EXCEPT ![seq + 1] = [at |-> "recv", task |-> None]]
        BY <1>1, <3>1 DEF Submit
      <4> QED
        BY <2>0, <3>1, <4>1, <4>2, <4>3
    <3>2. CASE chatQueues[c] # None
      <4>1. chatQueues[c] \in TaskIds
        BY <3>2 DEF Shape, TypeOK
      <4>2. \A d \in Chats : chatQueues[d] = chatQueues[c] => d = c
        BY <3>2 DEF Served, OneInstance
      <4> QED
        BY <1>1, <3>2, <4>1, <4>2 DEF Submit
    <3> QED
      BY <3>1, <3>2
  <2>1. OneInstance'
    BY DEF Shape, TypeOK, Served, OneInstance
  <2>2. ASSUME NEW t, NEW r \in QueueIds, t \in Mine[r] PROVE t \in Mine'[r]
    <3>1. PICK d \in Chats : t \in 1 .. seq /\ chatOf[t] = d /\ chatQueues[d] = r
      BY <2>2 DEF Mine
    <3>2. t \in 1 .. seq' /\ chatOf'[t] = d
      BY <2>0, <3>1 DEF Shape, TypeOK, TaskIds
    <3>3. chatQueues'[d] = r
      <4>1. r # None
        BY DEF TaskIds
      <4>2. d = c => r = q
        BY <3>1, <4>1
      <4> QED
        BY <3>1, <4>2 DEF Shape, TypeOK
    <3> QED
      BY <3>2, <3>3 DEF Mine
  <2>3. WorkersServe'
    <3> SUFFICES ASSUME NEW r \in QueueIds, worker'[r].at \in Busy
                 PROVE  worker'[r].task \in Mine'[r]
      BY DEF WorkersServe
    <3>1. worker'[r] = worker[r]
      BY DEF Shape, TypeOK, Busy
    <3> QED
      BY <2>2, <3>1 DEF Served, WorkersServe, Mine
  <2>4. ChannelsServe'
    <3> SUFFICES ASSUME NEW r \in QueueIds, NEW i \in 1 .. Len(ch[r])
                 PROVE  ch[r][i] \in Mine'[r]
      BY DEF ChannelsServe
    <3> QED
      BY <2>2 DEF Served, ChannelsServe
  <2>5. SendersServe'
    <3> SUFFICES ASSUME NEW r \in Submitters, sending'[r] # NotSending
                 PROVE  sending'[r].task \in Mine'[sending'[r].queue]
      BY DEF SendersServe
    <3>1. CASE r = s
      <4>1. sending'[r].task = seq + 1 /\ sending'[r].queue = q
        BY <3>1 DEF Shape, TypeOK
      <4>2. chatOf'[seq + 1] = c /\ chatQueues'[c] = q /\ seq + 1 \in 1 .. seq'
        BY <2>0 DEF Shape, TypeOK
      <4> QED
        BY <4>1, <4>2 DEF Mine
    <3>2. CASE r # s
      <4>1. sending'[r] = sending[r] /\ sending[r].queue \in QueueIds
        BY <3>2 DEF Shape, TypeOK, SendersNamed
      <4>2. sending[r].task \in Mine[sending[r].queue]
        BY <4>1 DEF Served, SendersServe
      <4> QED
        BY <2>2, <4>1, <4>2 DEF Mine
    <3> QED
      BY <3>1, <3>2
  <2>6. RunningHeld'
    <3> SUFFICES ASSUME NEW t \in TaskIds, status'[t] = "running"
                 PROVE  \E r \in QueueIds : worker'[r].at = "run" /\ worker'[r].task = t
      BY DEF RunningHeld, At
    <3>1. status[t] = "running"
      BY <2>0 DEF Shape, TypeOK
    <3>2. PICK r \in QueueIds : worker[r].at = "run" /\ worker[r].task = t
      BY <3>1 DEF Served, RunningHeld, At
    <3>3. worker'[r] = worker[r]
      BY <3>2 DEF Shape, TypeOK
    <3> QED
      BY <3>2, <3>3
  <2> QED
    BY <2>1, <2>3, <2>4, <2>5, <2>6 DEF Served
<1>2. ASSUME NEW s \in Submitters, Send(s) PROVE Served'
  <2> DEFINE q == sending[s].queue
  <2> DEFINE t == sending[s].task
  <2>1. q \in QueueIds /\ t \in TaskIds /\ ~closed[q] /\ t \in Mine[q]
    BY <1>2 DEF Send, SendReady, Shape, TypeOK, SendersNamed, Sends, SendersOpen, Served,
                SendersServe
  <2>2. /\ ch' = [ch EXCEPT ![q] = Append(@, t)]
        /\ sending' = [sending EXCEPT ![s] = NotSending]
        /\ UNCHANGED <<seq, chatOf, status, chatQueues, unused, worker, ran>>
    BY <1>2, <2>1 DEF Send, taskVars
  <2>3. ChannelsServe'
    <3> SUFFICES ASSUME NEW r \in QueueIds, NEW i \in 1 .. Len(ch'[r])
                 PROVE  ch'[r][i] \in Mine[r]
      BY <2>2, MineSame DEF ChannelsServe
    <3>1. CASE r = q
      <4>1. ch'[r] = Append(ch[q], t) /\ ch[q] \in Seq(TaskIds)
        BY <2>1, <2>2, <3>1 DEF Shape, TypeOK
      <4>2. (i \in 1 .. Len(ch[q]) /\ ch'[r][i] = ch[q][i]) \/ ch'[r][i] = t
        BY <4>1
      <4> QED
        BY <2>1, <3>1, <4>2 DEF Served, ChannelsServe
    <3>2. CASE r # q
      <4>1. ch'[r] = ch[r]
        BY <2>1, <2>2, <3>2 DEF Shape, TypeOK
      <4> QED
        BY <4>1 DEF Served, ChannelsServe
    <3> QED
      BY <3>1, <3>2
  <2>4. SendersServe'
    BY <2>2, MineSame DEF Shape, TypeOK, Served, SendersServe
  <2> QED
    BY <2>2, <2>3, <2>4, MineSame DEF Served, OneInstance, WorkersServe, RunningHeld, At
<1>3. ASSUME NEW q \in QueueIds, Receive(q) PROVE Served'
  <2> DEFINE t == Head(ch[q])
  <2>1. /\ worker' = [worker EXCEPT ![q] = [at |-> "acquire", task |-> t]]
        /\ ch' = [ch EXCEPT ![q] = Tail(@)]
        /\ UNCHANGED <<seq, chatOf, status, chatQueues, unused, sending, ran>>
        /\ unused[q] = 0 /\ worker[q].at = "recv"
    BY <1>3 DEF Receive, taskVars, Sends, WaitingFresh, At
  <2>2. ch[q] \in Seq(TaskIds) /\ ch[q] # <<>>
    BY <1>3 DEF Receive, Shape, TypeOK
  <2>3. t \in Mine[q]
    <3>1. t = ch[q][1] /\ 1 \in 1 .. Len(ch[q])
      BY <2>2
    <3> QED
      BY <3>1 DEF Served, ChannelsServe
  <2>4. WorkersServe'
    BY <2>1, <2>3, MineSame DEF Shape, TypeOK, Served, WorkersServe
  <2>5. ChannelsServe'
    <3> SUFFICES ASSUME NEW r \in QueueIds, NEW i \in 1 .. Len(ch'[r])
                 PROVE  ch'[r][i] \in Mine[r]
      BY <2>1, MineSame DEF ChannelsServe
    <3>1. CASE r = q
      <4>1. ch'[r] = Tail(ch[q])
        BY <2>1, <3>1 DEF Shape, TypeOK
      <4>2. i + 1 \in 1 .. Len(ch[q]) /\ ch'[r][i] = ch[q][i + 1]
        BY <2>2, <4>1
      <4> QED
        BY <3>1, <4>2 DEF Served, ChannelsServe
    <3>2. CASE r # q
      <4>1. ch'[r] = ch[r]
        BY <2>1, <3>2 DEF Shape, TypeOK
      <4> QED
        BY <4>1 DEF Served, ChannelsServe
    <3> QED
      BY <3>1, <3>2
  <2>6. RunningHeld'
    <3> SUFFICES ASSUME NEW u \in TaskIds, status[u] = "running"
                 PROVE  \E r \in QueueIds : worker'[r].at = "run" /\ worker'[r].task = u
      BY <2>1 DEF RunningHeld, At
    <3>1. PICK r \in QueueIds : worker[r].at = "run" /\ worker[r].task = u
      BY DEF Served, RunningHeld, At
    <3>2. worker'[r] = worker[r]
      BY <2>1, <3>1 DEF Shape, TypeOK
    <3> QED
      BY <3>1, <3>2
  <2> QED
    BY <2>1, <2>4, <2>5, <2>6, MineSame DEF Served, OneInstance, SendersServe
<1>4. ASSUME NEW q \in QueueIds, Exit(q) \/ Abandon(q) \/ Release(q) PROVE Served'
  <2> PICK p \in {"exited", "stamp"} :
        /\ worker' = [worker EXCEPT ![q].at = p]
        /\ worker[q].at # "run"
        /\ p = "stamp" => worker[q].at \in {"acquire", "release"}
    BY <1>4 DEF Exit, Abandon, Release, Move, At
  <2>1. UNCHANGED <<seq, chatOf, status, chatQueues, ch, unused, sending, ran>>
    BY <1>4 DEF Exit, Abandon, Release, taskVars, queueVars
  <2>2. WorkersServe'
    <3>1. Mine' = Mine
      BY <2>1, MineSame
    <3>2. ASSUME NEW r \in QueueIds, worker'[r].at \in Busy
          PROVE  worker[r].at \in Busy /\ worker'[r].task = worker[r].task
      BY <2>1, <3>2 DEF Shape, TypeOK, Busy
    <3> QED
      BY <3>1, <3>2 DEF Served, WorkersServe
  <2>3. RunningHeld'
    <3> SUFFICES ASSUME NEW u \in TaskIds, status[u] = "running"
                 PROVE  \E r \in QueueIds : worker'[r].at = "run" /\ worker'[r].task = u
      BY <2>1 DEF RunningHeld, At
    <3>1. PICK r \in QueueIds : worker[r].at = "run" /\ worker[r].task = u
      BY DEF Served, RunningHeld, At
    <3>2. worker'[r] = worker[r]
      BY <3>1 DEF Shape, TypeOK
    <3> QED
      BY <3>1, <3>2
  <2> QED
    BY <2>1, <2>2, <2>3, MineSame DEF Served, OneInstance, ChannelsServe, SendersServe
<1>5. ASSUME NEW q \in QueueIds, Start(q) PROVE Served'
  <2> DEFINE t == worker[q].task
  <2>1. /\ worker' = [worker EXCEPT ![q].at = "run"]
        /\ status' = [status EXCEPT ![t] = "running"]
        /\ ran' = [ran EXCEPT ![q] = 0]
        /\ UNCHANGED <<seq, chatOf, chatQueues, ch, unused, sending>>
        /\ worker[q].at = "acquire" /\ t \in TaskIds
    BY <1>5 DEF Start, Move, queueVars, At, Shape, TypeOK, WorkersNamed, Busy
  <2>2. WorkersServe'
    <3>1. Mine' = Mine
      BY <2>1, MineSame
    <3>2. ASSUME NEW r \in QueueIds, worker'[r].at \in Busy
          PROVE  worker[r].at \in Busy /\ worker'[r].task = worker[r].task
      BY <2>1, <3>2 DEF Shape, TypeOK, Busy
    <3> QED
      BY <3>1, <3>2 DEF Served, WorkersServe
  <2>3. RunningHeld'
    <3> SUFFICES ASSUME NEW u \in TaskIds, status'[u] = "running"
                 PROVE  \E r \in QueueIds : worker'[r].at = "run" /\ worker'[r].task = u
      BY DEF RunningHeld, At
    <3>1. CASE u = t
      BY <2>1, <3>1 DEF Shape, TypeOK
    <3>2. CASE u # t
      <4>1. status[u] = "running"
        BY <2>1, <3>2 DEF Shape, TypeOK
      <4>2. PICK r \in QueueIds : worker[r].at = "run" /\ worker[r].task = u
        BY <4>1 DEF Served, RunningHeld, At
      <4>3. worker'[r] = worker[r]
        BY <2>1, <4>2 DEF Shape, TypeOK
      <4> QED
        BY <4>2, <4>3
    <3> QED
      BY <3>1, <3>2
  <2> QED
    BY <2>1, <2>2, <2>3, MineSame DEF Served, OneInstance, ChannelsServe, SendersServe
<1>6. ASSUME NEW q \in QueueIds, Finish(q) PROVE Served'
  <2> DEFINE t == worker[q].task
  <2>1. /\ worker' = [worker EXCEPT ![q].at = "release"]
        /\ status' = [status EXCEPT ![t] = "finished"]
        /\ ran' = [ran EXCEPT ![q] = 0]
        /\ UNCHANGED <<seq, chatOf, chatQueues, ch, unused, sending>>
        /\ worker[q].at = "run" /\ t \in TaskIds
    BY <1>6 DEF Finish, Move, queueVars, At, Shape, TypeOK, WorkersNamed, Busy
  <2>2. WorkersServe'
    <3>1. Mine' = Mine
      BY <2>1, MineSame
    <3>2. ASSUME NEW r \in QueueIds, worker'[r].at \in Busy
          PROVE  worker[r].at \in Busy /\ worker'[r].task = worker[r].task
      BY <2>1, <3>2 DEF Shape, TypeOK, Busy
    <3> QED
      BY <3>1, <3>2 DEF Served, WorkersServe
  <2>3. RunningHeld'
    <3> SUFFICES ASSUME NEW u \in TaskIds, status'[u] = "running"
                 PROVE  \E r \in QueueIds : worker'[r].at = "run" /\ worker'[r].task = u
      BY DEF RunningHeld, At
    <3>1. u # t /\ status[u] = "running"
      BY <2>1 DEF Shape, TypeOK
    <3>2. PICK r \in QueueIds : worker[r].at = "run" /\ worker[r].task = u
      BY <3>1 DEF Served, RunningHeld, At
    <3>3. worker'[r] = worker[r]
      BY <2>1, <3>1, <3>2 DEF Shape, TypeOK
    <3> QED
      BY <3>2, <3>3
  <2> QED
    BY <2>1, <2>2, <2>3, MineSame DEF Served, OneInstance, ChannelsServe, SendersServe
<1>7. ASSUME NEW q \in QueueIds, Stamp(q) PROVE Served'
  <2>1. /\ worker' = [worker EXCEPT ![q] = [at |-> "recv", task |-> None]]
        /\ unused' = [unused EXCEPT ![q] = 0]
        /\ UNCHANGED <<seq, chatOf, status, chatQueues, ch, sending, ran>>
        /\ worker[q].at = "stamp"
    BY <1>7 DEF Stamp, taskVars, At
  <2>2. WorkersServe'
    <3>1. Mine' = Mine
      BY <2>1, MineSame
    <3>2. ASSUME NEW r \in QueueIds, worker'[r].at \in Busy
          PROVE  worker[r].at \in Busy /\ worker'[r].task = worker[r].task
      BY <2>1, <3>2 DEF Shape, TypeOK, Busy
    <3> QED
      BY <3>1, <3>2 DEF Served, WorkersServe
  <2>3. RunningHeld'
    <3> SUFFICES ASSUME NEW u \in TaskIds, status[u] = "running"
                 PROVE  \E r \in QueueIds : worker'[r].at = "run" /\ worker'[r].task = u
      BY <2>1 DEF RunningHeld, At
    <3>1. PICK r \in QueueIds : worker[r].at = "run" /\ worker[r].task = u
      BY DEF Served, RunningHeld, At
    <3>2. worker'[r] = worker[r]
      BY <2>1, <3>1 DEF Shape, TypeOK
    <3> QED
      BY <3>1, <3>2
  <2> QED
    BY <2>1, <2>2, <2>3, MineSame DEF Served, OneInstance, ChannelsServe, SendersServe
<1>8. CASE Cleanup
  <2>0. /\ chatQueues' = [c \in Chats |-> IF c \in Idle THEN None ELSE chatQueues[c]]
        /\ UNCHANGED <<seq, chatOf, status, ch, unused, sending, worker, ran>>
    BY <1>8 DEF Cleanup, taskVars
  <2>1. ASSUME NEW t, NEW q \in QueueIds, t \in Mine[q], ~IsIdle(q) PROVE t \in Mine'[q]
    BY <2>0, <2>1 DEF Mine, Idle
  <2>2. ASSUME NEW q \in QueueIds, worker[q].at \in Busy PROVE ~IsIdle(q)
    <3>1. unused[q] \in Nat /\ unused[q] <= IdleTimeout
      BY <2>2 DEF Shape, TypeOK, Quick
    <3> QED
      BY <3>1 DEF IsIdle
  <2>3. WorkersServe'
    BY <2>0, <2>1, <2>2 DEF Served, WorkersServe, Mine
  <2>4. ChannelsServe'
    <3> SUFFICES ASSUME NEW q \in QueueIds, NEW i \in 1 .. Len(ch[q]) PROVE ch[q][i] \in Mine'[q]
      BY <2>0 DEF ChannelsServe, Mine
    <3>1. ~IsIdle(q)
      BY DEF IsIdle
    <3> QED
      BY <2>1, <3>1 DEF Served, ChannelsServe
  <2>5. SendersServe'
    <3> SUFFICES ASSUME NEW s \in Submitters, sending[s] # NotSending
                 PROVE  sending[s].task \in Mine'[sending[s].queue]
      BY <2>0 DEF SendersServe, Mine
    <3>1. sending[s].queue \in QueueIds /\ sending[s].task \in Mine[sending[s].queue]
      BY DEF Shape, TypeOK, SendersNamed, Served, SendersServe
    <3>2. ~IsIdle(sending[s].queue)
      BY <3>1 DEF IsIdle, Sends, SendersOpen
    <3> QED
      BY <2>1, <3>1, <3>2
  <2> QED
    BY <2>0, <2>3, <2>4, <2>5 DEF Served, OneInstance, RunningHeld, At
<1>9. CASE Prune
  <2>1. /\ status' = [t \in TaskIds |-> IF t \in Excess THEN "pruned" ELSE status[t]]
        /\ UNCHANGED <<seq, chatOf, chatQueues, ch, unused, sending, worker, ran>>
    BY <1>9 DEF Prune, queueVars
  <2>2. RunningHeld'
    BY <2>1 DEF Served, RunningHeld, At
  <2> QED
    BY <2>1, <2>2, MineSame
    DEF Served, OneInstance, WorkersServe, ChannelsServe, SendersServe, At
<1>10. CASE Stop
  BY <1>10, MineSame
  DEF Stop, taskVars, queueVars, Served, OneInstance, WorkersServe, ChannelsServe, SendersServe,
      RunningHeld, At
<1>11. CASE Tick
  BY <1>11, MineSame
  DEF Tick, taskVars, Served, OneInstance, WorkersServe, ChannelsServe, SendersServe, RunningHeld,
      At
<1> QED
  BY <1>0, <1>1, <1>2, <1>3, <1>4, <1>5, <1>6, <1>7, <1>8, <1>9, <1>10, <1>11 DEF Next, WorkerStep

LEMMA ServedSerial == Shape /\ Served => SerialPerChat
<1> SUFFICES ASSUME Shape, Served, NEW t \in TaskIds, NEW u \in TaskIds,
                    Executing(t), Executing(u), chatOf[t] = chatOf[u]
             PROVE  t = u
  BY DEF SerialPerChat
<1>1. PICK q \in QueueIds : At(q, "run") /\ worker[q].task = t
  BY DEF Executing, Served, RunningHeld
<1>2. PICK r \in QueueIds : At(r, "run") /\ worker[r].task = u
  BY DEF Executing, Served, RunningHeld
<1>3. t \in Mine[q] /\ u \in Mine[r]
  BY <1>1, <1>2 DEF Served, WorkersServe, Busy, At
<1>4. q = r
  BY <1>3 DEF Mine
<1> QED
  BY <1>1, <1>2, <1>4

\* "processChatQueue drains tasks for a single chat, running them serially"
\* (queue.go:142): true of every execution, with any number of chats and slots,
\* in which no task keeps its worker busy beyond the idle limit.
THEOREM SerialWhileQuick == Spec => ([]Quick => []SerialPerChat)
<1>1. Shape /\ Sends /\ Served /\ Quick /\ [Next]_vars => (Shape /\ Sends /\ Served)'
  BY ShapeNext, SendsNext, ServedNext
<1>2. Init => Shape /\ Sends /\ Served
  BY ShapeInit, SendsInit, ServedInit
<1>3. Shape /\ Sends /\ Served => SerialPerChat
  BY ServedSerial
<1> QED
  BY <1>1, <1>2, <1>3, PTL DEF Spec

-----------------------------------------------------------------------------
(* One sizing that makes every queue Quick: a slot for each chat, and an   *)
(* idle limit no shorter than the task limit.                              *)

\* A worker waits for its slot no time at all, and runs no longer than its
\* task: the ages since its stamp are bounded by that of the run.
Ages ==
  \A q \in QueueIds :
    /\ At(q, "acquire") => unused[q] = 0
    /\ At(q, "run") => unused[q] <= ran[q]
    /\ worker[q].at \in {"release", "stamp"} => unused[q] <= IdleTimeout

LEMMA AgesQuick ==
  ASSUME Sized, Shape, Ages
  PROVE  Quick
<1> SUFFICES ASSUME NEW q \in QueueIds, worker[q].at \in Busy PROVE unused[q] <= IdleTimeout
  BY DEF Quick
<1>1. unused[q] \in Nat /\ ran[q] \in Nat /\ ran[q] <= TaskTimeout
  BY BoundsAssumption DEF Shape, TypeOK
<1> QED
  BY <1>1, BoundsAssumption DEF Ages, At, Busy, Sized

\* With a slot for every chat no worker waits for one: the chats of the workers
\* that hold a slot and of the one that waits would be too many.
LEMMA SlotFree ==
  ASSUME Sized, Shape, Served, NEW q \in QueueIds, At(q, "acquire")
  PROVE  sem < MaxConcurrent
<1> DEFINE S == Holders \cup {q}
<1> DEFINE f == [x \in S |-> chatOf[worker[x].task]]
<1>1. \A x \in S : x \in QueueIds /\ worker[x].at \in Busy
  BY DEF Holders, At, Busy
<1>2. \A x \in S : f[x] \in Chats /\ chatQueues[f[x]] = x
  BY <1>1 DEF Served, WorkersServe, Mine
<1>3. f \in [S -> Chats] /\ \A x, y \in S : f[x] = f[y] => x = y
  BY <1>2
<1>4. q \notin Holders /\ IsFiniteSet(Holders) /\ IsFiniteSet(S)
  BY HoldersFinite, FS_AddElement DEF Holders, At
<1>5. Cardinality(S) = sem + 1
  BY <1>4, FS_AddElement DEF Shape, SlotsCounted
<1>6. IsFiniteSet(Chats)
  BY ChatsAssumption
<1> HIDE DEF S, f
<1>7. Cardinality(S) <= Cardinality(Chats)
  <2> SUFFICES ASSUME ~(Cardinality(S) <= Cardinality(Chats)) PROVE FALSE
    OBVIOUS
  <2>1. Cardinality(S) > Cardinality(Chats)
    BY <1>4, <1>6, FS_CardinalityType
  <2>2. \E x, y \in S : x # y /\ f[x] = f[y]
    BY <1>3, <1>4, <1>6, <2>1, FS_PigeonHole
  <2> QED
    BY <1>3, <2>2
<1> QED
  BY <1>5, <1>6, <1>7, FS_CardinalityType, BoundsAssumption DEF Sized, Shape, TypeOK

LEMMA AgesNext ==
  ASSUME Sized
  PROVE  Shape /\ Sends /\ Served /\ Ages /\ [Next]_vars => Ages'
<1> SUFFICES ASSUME Shape, Sends, Served, Ages, [Next]_vars PROVE Ages'
  OBVIOUS
<1> USE BoundsAssumption DEF None, QueueIds
<1>0. CASE UNCHANGED <<unused, worker, ran>>
  BY <1>0 DEF Ages, At
<1>1. ASSUME NEW s \in Submitters, NEW c \in Chats, Submit(s, c) PROVE Ages'
  <2> PICK q \in TaskIds :
        /\ unused' = [unused EXCEPT ![q] = 0]
        /\ ran' = ran
        /\ \/ UNCHANGED worker
           \/ worker' = [worker EXCEPT ![q] = [at |-> "recv", task |-> None]]
    <3>1. seq \in Nat /\ seq + 1 \in TaskIds
      BY <1>1 DEF Submit, Shape, TypeOK, TaskIds
    <3>2. CASE chatQueues[c] = None
      BY <1>1, <3>1, <3>2 DEF Submit
    <3>3. CASE chatQueues[c] # None
      <4>1. chatQueues[c] \in TaskIds
        BY <3>3 DEF Shape, TypeOK
      <4> QED
        BY <1>1, <3>3, <4>1 DEF Submit
    <3> QED
      BY <3>2, <3>3
  <2> SUFFICES ASSUME NEW r \in QueueIds
               PROVE  /\ worker'[r].at = "acquire" => unused'[r] = 0
                      /\ worker'[r].at = "run" => unused'[r] <= ran[r]
                      /\ worker'[r].at \in {"release", "stamp"} => unused'[r] <= IdleTimeout
    BY DEF Ages, At
  <2>1. ran[r] \in Nat
    BY DEF Shape, TypeOK
  <2>2. CASE r = q
    BY <2>1, <2>2 DEF Shape, TypeOK
  <2>3. CASE r # q
    BY <2>3 DEF Shape, TypeOK, Ages, At
  <2> QED
    BY <2>2, <2>3
<1>2. ASSUME NEW q \in QueueIds, Receive(q) PROVE Ages'
  <2>1. /\ worker' = [worker EXCEPT ![q] = [at |-> "acquire", task |-> Head(ch[q])]]
        /\ UNCHANGED <<unused, ran>> /\ unused[q] = 0
    BY <1>2 DEF Receive, Sends, WaitingFresh, At
  <2> QED
    BY <2>1 DEF Shape, TypeOK, Ages, At
<1>3. ASSUME NEW q \in QueueIds, Exit(q) \/ Abandon(q) \/ Release(q) PROVE Ages'
  <2>1. PICK p \in {"exited", "stamp"} :
          /\ worker' = [worker EXCEPT ![q].at = p]
          /\ UNCHANGED <<unused, ran>>
          /\ p = "stamp" => worker[q].at \in {"acquire", "release"}
    BY <1>3 DEF Exit, Abandon, Release, Move, At, queueVars
  <2> SUFFICES ASSUME NEW r \in QueueIds
               PROVE  /\ worker'[r].at = "acquire" => unused[r] = 0
                      /\ worker'[r].at = "run" => unused[r] <= ran[r]
                      /\ worker'[r].at \in {"release", "stamp"} => unused[r] <= IdleTimeout
    BY <2>1 DEF Ages, At
  <2>2. CASE r = q
    BY <2>1, <2>2 DEF Shape, TypeOK, Ages, At
  <2>3. CASE r # q
    BY <2>1, <2>3 DEF Shape, TypeOK, Ages, At
  <2> QED
    BY <2>2, <2>3
<1>4. ASSUME NEW q \in QueueIds, Start(q) PROVE Ages'
  <2>1. /\ worker' = [worker EXCEPT ![q].at = "run"]
        /\ ran' = [ran EXCEPT ![q] = 0]
        /\ unused' = unused /\ unused[q] = 0
    BY <1>4 DEF Start, Move, queueVars, Ages, At
  <2> QED
    BY <2>1 DEF Shape, TypeOK, Ages, At
<1>5. ASSUME NEW q \in QueueIds, Finish(q) PROVE Ages'
  <2>1. /\ worker' = [worker EXCEPT ![q].at = "release"]
        /\ ran' = [ran EXCEPT ![q] = 0]
        /\ unused' = unused /\ unused[q] <= ran[q]
    BY <1>5 DEF Finish, Move, queueVars, Ages, At
  <2>2. unused[q] <= IdleTimeout
    <3>1. ran[q] \in Nat /\ ran[q] <= TaskTimeout /\ unused[q] \in Nat
      BY DEF Shape, TypeOK
    <3> QED
      BY <2>1, <3>1 DEF Sized
  <2> QED
    BY <2>1, <2>2 DEF Shape, TypeOK, Ages, At
<1>6. ASSUME NEW q \in QueueIds, Stamp(q) PROVE Ages'
  <2>1. /\ worker' = [worker EXCEPT ![q] = [at |-> "recv", task |-> None]]
        /\ unused' = [unused EXCEPT ![q] = 0]
        /\ ran' = ran
    BY <1>6 DEF Stamp
  <2> QED
    BY <2>1 DEF Shape, TypeOK, Ages, At
<1>7. CASE Tick
  <2>1. /\ worker' = worker
        /\ ran' = [q \in QueueIds |-> IF At(q, "run") THEN ran[q] + 1 ELSE ran[q]]
        /\ unused' = [q \in QueueIds |->
                        IF Live(q) /\ unused[q] <= IdleTimeout THEN unused[q] + 1 ELSE unused[q]]
    BY <1>7 DEF Tick
  <2>2. ASSUME NEW q \in QueueIds PROVE worker[q].at \notin {"acquire", "release", "stamp"}
    BY <1>7, SlotFree DEF Tick, Urgent, At
  <2> SUFFICES ASSUME NEW q \in QueueIds, worker[q].at = "run" PROVE unused'[q] <= ran'[q]
    BY <2>1, <2>2 DEF Ages, At
  <2>3. unused[q] \in Nat /\ ran[q] \in Nat /\ unused[q] <= ran[q]
    BY DEF Shape, TypeOK, Ages, At
  <2>4. ran'[q] = ran[q] + 1 /\ unused'[q] \in {unused[q], unused[q] + 1}
    BY <2>1 DEF At
  <2> QED
    BY <2>3, <2>4
<1>8. (\E s \in Submitters : Send(s)) \/ Cleanup \/ Prune \/ Stop \/ UNCHANGED vars
        => UNCHANGED <<unused, worker, ran>>
  BY DEF Send, Cleanup, Prune, Stop, vars, queueVars
<1> QED
  BY <1>0, <1>1, <1>2, <1>3, <1>4, <1>5, <1>6, <1>7, <1>8 DEF Next, WorkerStep

\* The premise of SerialWhileQuick can be met by sizing alone: with a slot for
\* each chat and TaskTimeout no longer than IdleTimeout no worker ever looks idle
\* while it holds a task (queue.go:162-168, 226-240).
THEOREM QuickWhenSized ==
  ASSUME Sized
  PROVE  Spec => []Quick
<1>1. Init => Shape /\ Sends /\ Served /\ Ages
  BY ShapeInit, SendsInit, ServedInit DEF Init, Ages, At, QueueIds
<1>2. Shape /\ Sends /\ Served /\ Ages /\ [Next]_vars => (Shape /\ Sends /\ Served /\ Ages)'
  BY ShapeNext, SendsNext, ServedNext, AgesNext, AgesQuick
<1>3. Shape /\ Sends /\ Served /\ Ages => Quick
  BY AgesQuick
<1> QED
  BY <1>1, <1>2, <1>3, PTL DEF Spec

-----------------------------------------------------------------------------
(* A Quick queue with one submitter implements ChatSerial: Start is Begin, *)
(* Finish is End, Abandon is Drop, Submit is Accept, and every other step  *)
(* leaves the line of each chat and the task it runs as they are.          *)

OneSubmitter == \E s : Submitters = {s}

\* What the worker of an instance took from its channel but has not started.
Taken(q) == IF At(q, "acquire") THEN <<worker[q].task>> ELSE <<>>

LEMMA InFlightIs ==
  ASSUME NEW s, Submitters = {s}, NEW q
  PROVE  /\ InFlight(q) = IF sending[s].queue = q THEN <<sending[s].task>> ELSE <<>>
         /\ InFlight(q)' = IF sending'[s].queue = q THEN <<sending'[s].task>> ELSE <<>>
<1>1. (CHOOSE r \in Submitters : TRUE) = s
  OBVIOUS
<1> QED
  BY <1>1 DEF InFlight

\* The parts of a line are sequences of tasks.
LEMMA PartsAreSeqs ==
  ASSUME Shape, OneSubmitter, NEW q \in QueueIds
  PROVE  Taken(q) \in Seq(TaskIds) /\ ch[q] \in Seq(TaskIds) /\ InFlight(q) \in Seq(TaskIds)
<1>1. PICK s : Submitters = {s}
  BY DEF OneSubmitter
<1>2. Taken(q) \in Seq(TaskIds)
  <2>1. At(q, "acquire") => worker[q].task \in TaskIds
    BY DEF At, Shape, TypeOK, WorkersNamed, Busy, None
  <2> QED
    BY <2>1 DEF Taken
<1>3. InFlight(q) \in Seq(TaskIds)
  <2>1. sending[s].queue = q => sending[s].task \in TaskIds
    <3>1. q # None
      BY BoundsAssumption DEF QueueIds, TaskIds, None
    <3>2. s \in Submitters
      BY <1>1
    <3> QED
      BY <3>1, <3>2 DEF Shape, TypeOK, SendersNamed, NotSending, None
  <2>2. InFlight(q) = IF sending[s].queue = q THEN <<sending[s].task>> ELSE <<>>
    BY <1>1, InFlightIs
  <2>3. CASE sending[s].queue = q
    <3>1. InFlight(q) = <<sending[s].task>>
      BY <2>2, <2>3
    <3> QED
      BY <2>1, <2>3, <3>1
  <2>4. CASE sending[s].queue # q
    <3>1. InFlight(q) = <<>>
      BY <2>2, <2>4
    <3> QED
      BY <3>1
  <2> QED
    BY <2>3, <2>4
<1> QED
  BY <1>2, <1>3 DEF Shape, TypeOK

LEMMA LineIs ==
  ASSUME NEW c \in Chats
  PROVE  Line(c) = IF chatQueues[c] = None THEN <<>>
                   ELSE Taken(chatQueues[c]) \o ch[chatQueues[c]] \o InFlight(chatQueues[c])
  BY DEF Line, Taken

\* The same after a step, by the instance the chat then maps to.
LEMMA LineBecomes ==
  ASSUME OneSubmitter, NEW c \in Chats, NEW q, chatQueues'[c] = q
  PROVE  /\ q = None => Line(c)' = <<>> /\ Runs(c)' = None
         /\ q # None => Line(c)' = Taken(q)' \o ch'[q] \o InFlight(q)'
         /\ q # None => Runs(c)' = IF worker'[q].at = "run" THEN worker'[q].task ELSE None
<1>1. q = None => Line(c)' = <<>> /\ Runs(c)' = None
  BY DEF Line, Runs
<1>2. q # None => Runs(c)' = IF worker'[q].at = "run" THEN worker'[q].task ELSE None
  BY DEF Runs, At
<1>3. ASSUME q # None PROVE Line(c)' = Taken(q)' \o ch'[q] \o InFlight(q)'
  <2> PICK s : Submitters = {s}
    BY DEF OneSubmitter
  <2>1. InFlight(q)' = IF sending'[s].queue = q THEN <<sending'[s].task>> ELSE <<>>
    BY InFlightIs
  <2>2. (CHOOSE r \in Submitters : TRUE) = s
    OBVIOUS
  <2> QED
    BY <1>3, <2>1, <2>2 DEF Line, Taken, InFlight, At
<1> QED
  BY <1>1, <1>2, <1>3

\* Three facts about sequences: a task enters a line at its end, moves along
\* it from one part to the next, and leaves it at its head.
LEMMA SeqEnters ==
  ASSUME NEW S, NEW a \in Seq(S), NEW b \in Seq(S), NEW t \in S
  PROVE  a \o b \o <<t>> = Append(a \o b \o <<>>, t)
  OBVIOUS

LEMMA SeqSent ==
  ASSUME NEW S, NEW a \in Seq(S), NEW b \in Seq(S), NEW t \in S
  PROVE  a \o Append(b, t) \o <<>> = a \o b \o <<t>>
  OBVIOUS

LEMMA SeqTaken ==
  ASSUME NEW S, NEW b \in Seq(S), NEW d \in Seq(S), b # <<>>
  PROVE  <<Head(b)>> \o Tail(b) \o d = <<>> \o b \o d
  OBVIOUS

LEMMA SeqLeaves ==
  ASSUME NEW S, NEW t \in S, NEW b \in Seq(S), NEW d \in Seq(S)
  PROVE  /\ <<t>> \o b \o d # <<>>
         /\ Head(<<t>> \o b \o d) = t
         /\ Tail(<<t>> \o b \o d) = <<>> \o b \o d
  OBVIOUS

\* When every line and every running task is the same, the step is a stutter.
LEMMA ChatStutter ==
  ASSUME UNCHANGED <<seq, cancelled>>,
         \A c \in Chats : Line(c)' = Line(c) /\ Runs(c)' = Runs(c)
  PROVE  UNCHANGED Serial!vars
  BY DEF Serial!vars

\* When one chat's line or running task changes, the others keep theirs.
LEMMA ChatMoves ==
  ASSUME NEW c \in Chats,
         \A d \in Chats : d # c => Line(d)' = Line(d) /\ Runs(d)' = Runs(d)
  PROVE  /\ [d \in Chats |-> Line(d)]' = [[d \in Chats |-> Line(d)] EXCEPT ![c] = Line(c)']
         /\ [d \in Chats |-> Runs(d)]' = [[d \in Chats |-> Runs(d)] EXCEPT ![c] = Runs(c)']
  OBVIOUS

\* A step that leaves the channels, the map and the senders alone, and moves a
\* worker neither into nor out of acquire, leaves the lines alone.
LEMMA SameLines ==
  ASSUME UNCHANGED <<chatQueues, ch, sending>>,
         \A q \in QueueIds : Taken(q)' = Taken(q),
         TypeOK
  PROVE  \A c \in Chats : Line(c)' = Line(c)
<1> SUFFICES ASSUME NEW c \in Chats PROVE Line(c)' = Line(c)
  OBVIOUS
<1> PICK q : q = chatQueues[c]
  OBVIOUS
<1>1. chatQueues'[c] = q /\ ch'[q] = ch[q] /\ InFlight(q)' = InFlight(q)
  BY DEF InFlight
<1>2. q # None => q \in QueueIds
  BY DEF TypeOK
<1>3. q # None => Taken(q)' = Taken(q)
  BY <1>2
<1> QED
  BY <1>1, <1>3, LineIs DEF Line, Taken

\* A worker's place other than acquire takes nothing into the line.
LEMMA TakenMoves ==
  ASSUME TypeOK, NEW q \in QueueIds, NEW p, p # "acquire",
         worker[q].at # "acquire",
         worker' = [worker EXCEPT ![q].at = p] \/
           \E t : worker' = [worker EXCEPT ![q] = [at |-> p, task |-> t]]
  PROVE  /\ \A r \in QueueIds : Taken(r)' = Taken(r)
         /\ \A r \in QueueIds : r # q => worker'[r] = worker[r]
         /\ worker'[q].at = p
<1>1. worker'[q].at = p /\ \A r \in QueueIds : r # q => worker'[r] = worker[r]
  BY DEF TypeOK
<1> QED
  BY <1>1 DEF Taken, At

LEMMA ChatSubmit ==
  ASSUME OneSubmitter, Shape, Sends, Served,
         NEW s \in Submitters, NEW c \in Chats, Submit(s, c)
  PROVE  Serial!Accept(c)
<1> USE BoundsAssumption DEF None, QueueIds
<1>0. Submitters = {s}
  BY DEF OneSubmitter
<1>1. seq \in Nat /\ seq + 1 \in TaskIds /\ seq' = seq + 1 /\ UNCHANGED <<ch, cancelled>>
  BY DEF Submit, Shape, TypeOK, TaskIds
<1>2. \A q \in QueueIds : InFlight(q) = <<>>
  <2>1. \A q \in QueueIds : sending[s].queue # q
    BY DEF Submit, NotSending, TaskIds
  <2> QED
    BY <1>0, <2>1, InFlightIs
<1> PICK q \in TaskIds :
      /\ chatQueues' = [chatQueues EXCEPT ![c] = q]
      /\ sending' = [sending EXCEPT ![s] = [task |-> seq + 1, queue |-> q]]
      /\ \A r \in TaskIds : r # q => worker'[r] = worker[r]
      /\ \/ UNCHANGED worker /\ chatQueues[c] = q
         \/ chatQueues[c] = None /\ worker'[q].at = "recv" /\ q = seq + 1
      /\ \A d \in Chats : chatQueues[d] = q => d = c
  <2>1. CASE chatQueues[c] = None
    <3>1. \A d \in Chats : chatQueues[d] # seq + 1
      BY <1>1 DEF Shape, TypeOK, Fresh, TaskIds
    <3>2. /\ chatQueues' = [chatQueues EXCEPT ![c] = seq + 1]
          /\ sending' = [sending EXCEPT ![s] = [task |-> seq + 1, queue |-> seq + 1]]
          /\ worker' = [worker EXCEPT ![seq + 1] = [at |-> "recv", task |-> None]]
      BY <2>1 DEF Submit
    <3>3. /\ \A r \in TaskIds : r # seq + 1 => worker'[r] = worker[r]
          /\ worker'[seq + 1].at = "recv"
      BY <1>1, <3>2 DEF Shape, TypeOK
    <3> QED
      BY <1>1, <2>1, <3>1, <3>2, <3>3
  <2>2. CASE chatQueues[c] # None
    <3>1. chatQueues[c] \in TaskIds
      BY <2>2 DEF Shape, TypeOK
    <3>2. \A d \in Chats : chatQueues[d] = chatQueues[c] => d = c
      BY <2>2 DEF Served, OneInstance
    <3> QED
      BY <2>2, <3>1, <3>2 DEF Submit
  <2> QED
    BY <2>1, <2>2
<1>3. /\ chatQueues'[c] = q
      /\ \A d \in Chats : d # c => chatQueues'[d] = chatQueues[d]
      /\ sending'[s] = [task |-> seq + 1, queue |-> q]
  BY DEF Shape, TypeOK
<1>4. \A r \in TaskIds : InFlight(r)' = IF r = q THEN <<seq + 1>> ELSE <<>>
  <2> SUFFICES ASSUME NEW r \in TaskIds
               PROVE  InFlight(r)' = IF r = q THEN <<seq + 1>> ELSE <<>>
    OBVIOUS
  <2>1. InFlight(r)' = IF sending'[s].queue = r THEN <<sending'[s].task>> ELSE <<>>
    BY <1>0, InFlightIs
  <2> QED
    BY <1>3, <2>1
<1>5. ASSUME NEW d \in Chats, d # c PROVE Line(d)' = Line(d) /\ Runs(d)' = Runs(d)
  <2> PICK r : r = chatQueues[d]
    OBVIOUS
  <2>1. r \in TaskIds \cup {None} /\ r # q /\ chatQueues'[d] = r
    BY <1>3, <1>5 DEF Shape, TypeOK
  <2>2. CASE r = None
    BY <2>1, <2>2 DEF Line, Runs
  <2>3. CASE r # None
    <3>1. r \in TaskIds /\ InFlight(r)' = InFlight(r) /\ worker'[r] = worker[r] /\ ch'[r] = ch[r]
      BY <1>1, <1>2, <1>4, <2>1, <2>3
    <3> QED
      BY <2>1, <3>1 DEF Line, Runs, At
  <2> QED
    BY <2>2, <2>3
<1>6. Line(c)' = Append(Line(c), seq + 1) /\ Runs(c)' = Runs(c)
  <2>1. CASE UNCHANGED worker /\ chatQueues[c] = q
    <3>1. q # None
      BY DEF TaskIds
    <3>2. Taken(q) \in Seq(TaskIds) /\ ch[q] \in Seq(TaskIds)
      BY PartsAreSeqs
    <3>3. Line(c) = Taken(q) \o ch[q] \o <<>>
      BY <1>2, <2>1, <3>1 DEF Line, Taken
    <3>4. Line(c)' = Taken(q) \o ch[q] \o <<seq + 1>>
      <4>1. Taken(q)' = Taken(q)
        BY <2>1 DEF Taken, At
      <4>2. Line(c)' = Taken(q)' \o ch'[q] \o InFlight(q)'
        BY <1>3, <3>1, LineBecomes
      <4>3. InFlight(q)' = <<seq + 1>> /\ ch'[q] = ch[q]
        BY <1>1, <1>4
      <4> QED
        BY <4>1, <4>2, <4>3
    <3>5. Runs(c)' = Runs(c)
      BY <1>3, <2>1 DEF Runs, At
    <3> QED
      BY <1>1, <3>2, <3>3, <3>4, <3>5, SeqEnters
  <2>2. CASE chatQueues[c] = None /\ worker'[q].at = "recv" /\ q = seq + 1
    <3>1. q # None /\ ch[q] \in Seq(TaskIds)
      BY DEF TaskIds, Shape, TypeOK
    <3>2. ch[q] = <<>>
      <4>1. Mine[q] = {}
        BY <1>1, <2>2 DEF Mine, Shape, TypeOK, Fresh, TaskIds
      <4>2. Len(ch[q]) = 0
        <5>1. ASSUME 1 \in 1 .. Len(ch[q]) PROVE FALSE
          BY <4>1, <5>1 DEF Served, ChannelsServe
        <5> QED
          BY <3>1, <5>1
      <4> QED
        BY <3>1, <4>2
    <3>3. Line(c) = <<>> /\ Runs(c) = None
      BY <2>2 DEF Line, Runs
    <3>4. Line(c)' = <<>> \o <<>> \o <<seq + 1>>
      BY <1>1, <1>3, <1>4, <2>2, <3>1, <3>2 DEF Line, Taken, At
    <3>5. Runs(c)' = None
      BY <1>3, <2>2 DEF Runs, At
    <3> QED
      BY <3>3, <3>4, <3>5
  <2> QED
    BY <2>1, <2>2
<1>7. \A d \in Chats : Runs(d)' = Runs(d)
  BY <1>5, <1>6
<1>8. [d \in Chats |-> Line(d)]' = [[d \in Chats |-> Line(d)] EXCEPT ![c] = Append(@, seq + 1)]
  BY <1>5, <1>6, ChatMoves
<1> QED
  BY <1>1, <1>7, <1>8 DEF Serial!Accept, Submit

LEMMA ChatSend ==
  ASSUME OneSubmitter, Shape, Sends, NEW s \in Submitters, Send(s)
  PROVE  UNCHANGED Serial!vars
<1> USE BoundsAssumption DEF None, QueueIds
<1> PICK q : q = sending[s].queue
  OBVIOUS
<1> PICK t : t = sending[s].task
  OBVIOUS
<1>0. Submitters = {s}
  BY DEF OneSubmitter
<1>1. q \in TaskIds /\ t \in TaskIds /\ ~closed[q]
  BY DEF Send, SendReady, Shape, TypeOK, SendersNamed, Sends, SendersOpen
<1>2. /\ ch' = [ch EXCEPT ![q] = Append(@, t)]
      /\ sending' = [sending EXCEPT ![s] = NotSending]
      /\ UNCHANGED <<seq, chatQueues, worker, cancelled>>
  BY <1>1 DEF Send, taskVars
<1>3. ASSUME NEW r \in TaskIds
      PROVE  /\ InFlight(r) = IF r = q THEN <<t>> ELSE <<>>
             /\ InFlight(r)' = <<>>
  <2>1. /\ InFlight(r) = IF sending[s].queue = r THEN <<sending[s].task>> ELSE <<>>
        /\ InFlight(r)' = IF sending'[s].queue = r THEN <<sending'[s].task>> ELSE <<>>
    BY <1>0, InFlightIs
  <2>2. sending'[s].queue = None /\ r # None
    BY <1>2 DEF Shape, TypeOK, NotSending, TaskIds
  <2> QED
    BY <2>1, <2>2
<1>4. ASSUME NEW c \in Chats PROVE Line(c)' = Line(c) /\ Runs(c)' = Runs(c)
  <2> PICK r : r = chatQueues[c]
    OBVIOUS
  <2>1. chatQueues'[c] = r /\ r \in TaskIds \cup {None}
    BY <1>2 DEF Shape, TypeOK
  <2>2. Runs(c)' = Runs(c)
    BY <1>2 DEF Runs, At
  <2>3. CASE r = None
    BY <2>1, <2>2, <2>3, LineBecomes, LineIs
  <2>4. CASE r # None
    <3>1. r \in TaskIds
      BY <2>1, <2>4
    <3>2. Line(c)' = Taken(r)' \o ch'[r] \o InFlight(r)'
      BY <2>1, <2>4, LineBecomes
    <3>3. Line(c) = Taken(r) \o ch[r] \o InFlight(r)
      BY <2>4, LineIs
    <3>4. Taken(r)' = Taken(r)
      BY <1>2 DEF Taken, At
    <3>5. Taken(r) \in Seq(TaskIds) /\ ch[r] \in Seq(TaskIds)
      BY <3>1, PartsAreSeqs
    <3>6. CASE r = q
      <4>1. ch'[r] = Append(ch[r], t) /\ InFlight(r) = <<t>> /\ InFlight(r)' = <<>>
        BY <1>2, <1>3, <3>1, <3>6 DEF Shape, TypeOK
      <4>2. Taken(r) \o Append(ch[r], t) \o <<>> = Taken(r) \o ch[r] \o <<t>>
        <5> PICK a, b : a = Taken(r) /\ b = ch[r]
          OBVIOUS
        <5>1. a \in Seq(TaskIds) /\ b \in Seq(TaskIds)
          BY <3>5
        <5>2. t \in TaskIds
          BY <1>1
        <5>3. a \o Append(b, t) \o <<>> = a \o b \o <<t>>
          BY ONLY <5>1, <5>2, SeqSent
        <5> QED
          BY <5>3
      <4> QED
        BY <2>2, <3>2, <3>3, <3>4, <4>1, <4>2
    <3>7. CASE r # q
      <4>1. ch'[r] = ch[r] /\ InFlight(r) = <<>> /\ InFlight(r)' = <<>>
        BY <1>2, <1>3, <3>1, <3>7 DEF Shape, TypeOK
      <4> QED
        BY <2>2, <3>2, <3>3, <3>4, <4>1
    <3> QED
      BY <3>6, <3>7
  <2> QED
    BY <2>3, <2>4
<1> QED
  BY <1>2, <1>4, ChatStutter

LEMMA ChatReceive ==
  ASSUME OneSubmitter, Shape, NEW q \in QueueIds, Receive(q)
  PROVE  UNCHANGED Serial!vars
<1> USE DEF None
<1>1. /\ worker' = [worker EXCEPT ![q] = [at |-> "acquire", task |-> Head(ch[q])]]
      /\ ch' = [ch EXCEPT ![q] = Tail(@)]
      /\ UNCHANGED <<seq, chatQueues, sending, cancelled>>
      /\ worker[q].at = "recv" /\ ch[q] # <<>>
  BY DEF Receive, At, taskVars
<1>2. ASSUME NEW c \in Chats PROVE Line(c)' = Line(c) /\ Runs(c)' = Runs(c)
  <2> PICK r : r = chatQueues[c]
    OBVIOUS
  <2>1. chatQueues'[c] = r /\ r \in QueueIds \cup {None}
    BY <1>1 DEF Shape, TypeOK
  <2>2. CASE r = None
    <3>1. Line(c) = <<>> /\ Runs(c) = None
      BY <2>2 DEF Line, Runs
    <3> QED
      BY <2>1, <2>2, <3>1, LineBecomes
  <2>3. CASE r # None
    <3>1. r \in QueueIds
      BY <2>1, <2>3
    <3>2. /\ Line(c)' = Taken(r)' \o ch'[r] \o InFlight(r)'
          /\ Runs(c)' = IF worker'[r].at = "run" THEN worker'[r].task ELSE None
      BY <2>1, <2>3, LineBecomes
    <3>3. /\ Line(c) = Taken(r) \o ch[r] \o InFlight(r)
          /\ Runs(c) = IF worker[r].at = "run" THEN worker[r].task ELSE None
      BY <2>3, LineIs DEF Runs, At
    <3>4. InFlight(r)' = InFlight(r)
      BY <1>1 DEF InFlight
    <3>5. ch[r] \in Seq(TaskIds) /\ InFlight(r) \in Seq(TaskIds)
      BY <3>1, PartsAreSeqs
    <3>6. CASE r = q
      <4>1. ch'[r] = Tail(ch[r]) /\ Taken(r)' = <<Head(ch[r])>> /\ Taken(r) = <<>>
        BY <1>1, <3>1, <3>6 DEF Shape, TypeOK, Taken, At
      <4>2. worker'[r].at = "acquire"
        BY <1>1, <3>1, <3>6 DEF Shape, TypeOK
      <4>3. <<Head(ch[r])>> \o Tail(ch[r]) \o InFlight(r) = <<>> \o ch[r] \o InFlight(r)
        BY <1>1, <3>5, <3>6, SeqTaken
      <4>4. Line(c)' = Line(c)
        BY <3>2, <3>3, <3>4, <4>1, <4>3
      <4> QED
        BY <1>1, <3>2, <3>3, <3>6, <4>2, <4>4
    <3>7. CASE r # q
      <4>1. ch'[r] = ch[r] /\ worker'[r] = worker[r]
        BY <1>1, <3>1, <3>7 DEF Shape, TypeOK
      <4>2. Taken(r)' = Taken(r)
        BY <4>1 DEF Taken, At
      <4> QED
        BY <3>2, <3>3, <3>4, <4>1, <4>2
    <3> QED
      BY <3>6, <3>7
  <2> QED
    BY <2>1, <2>2, <2>3
<1> QED
  BY <1>1, <1>2, ChatStutter

\* The worker takes the head of its chat's line out of it: Begin or Drop.
LEMMA HeadLeaves ==
  ASSUME OneSubmitter, Shape, Served, NEW q \in QueueIds, At(q, "acquire"),
         NEW p, p # "acquire", worker' = [worker EXCEPT ![q].at = p],
         UNCHANGED <<chatQueues, ch, sending>>
  PROVE  \E c \in Chats :
           /\ chatQueues[c] = q
           /\ Line(c) # <<>> /\ Head(Line(c)) = worker[q].task
           /\ Line(c)' = Tail(Line(c))
           /\ Runs(c) = None
           /\ Runs(c)' = IF p = "run" THEN worker[q].task ELSE None
           /\ \A d \in Chats : d # c => Line(d)' = Line(d) /\ Runs(d)' = Runs(d)
<1> USE DEF None
<1> PICK t : t = worker[q].task
  OBVIOUS
<1>1. t \in Mine[q]
  BY DEF Served, WorkersServe, Busy, At
<1> PICK c \in Chats : chatQueues[c] = q
  BY <1>1 DEF Mine
<1>2. q # None /\ t \in TaskIds
  BY BoundsAssumption DEF Shape, TypeOK, WorkersNamed, At, Busy, QueueIds, TaskIds
<1>3. /\ chatQueues'[c] = q /\ worker'[q].at = p /\ worker'[q].task = t
      /\ \A r \in QueueIds : r # q => worker'[r] = worker[r]
  BY DEF Shape, TypeOK
<1>4. Taken(q) = <<t>> /\ Taken(q)' = <<>>
  BY <1>3 DEF Taken, At
<1>5. InFlight(q)' = InFlight(q)
  BY DEF InFlight
<1>6. Line(c) = <<t>> \o ch[q] \o InFlight(q)
  BY <1>2, <1>4, LineIs
<1>7. Line(c)' = <<>> \o ch[q] \o InFlight(q)
  <2>1. Line(c)' = Taken(q)' \o ch'[q] \o InFlight(q)'
    BY <1>2, <1>3, LineBecomes
  <2> QED
    BY <1>4, <1>5, <2>1
<1>8. Line(c) # <<>> /\ Head(Line(c)) = t /\ Tail(Line(c)) = Line(c)'
  <2> PICK b, d : b = ch[q] /\ d = InFlight(q)
    OBVIOUS
  <2>1. b \in Seq(TaskIds) /\ d \in Seq(TaskIds) /\ t \in TaskIds
    BY <1>2, PartsAreSeqs
  <2>2. /\ <<t>> \o b \o d # <<>>
        /\ Head(<<t>> \o b \o d) = t
        /\ Tail(<<t>> \o b \o d) = <<>> \o b \o d
    BY ONLY <2>1, SeqLeaves
  <2> QED
    BY <1>6, <1>7, <2>2
<1>9. Runs(c) = None
  BY DEF Runs, At
<1>10. Runs(c)' = IF p = "run" THEN t ELSE None
  BY <1>2, <1>3, LineBecomes
<1>11. ASSUME NEW d \in Chats, d # c PROVE Line(d)' = Line(d) /\ Runs(d)' = Runs(d)
  <2> PICK r : r = chatQueues[d]
    OBVIOUS
  <2>1. chatQueues'[d] = r /\ r \in QueueIds \cup {None} /\ r # q
    BY <1>2, <1>11 DEF Shape, TypeOK, Served, OneInstance
  <2>2. CASE r = None
    <3>1. Line(d) = <<>> /\ Runs(d) = None
      BY <2>2 DEF Line, Runs
    <3> QED
      BY <2>1, <2>2, <3>1, LineBecomes
  <2>3. CASE r # None
    <3>1. worker'[r] = worker[r] /\ InFlight(r)' = InFlight(r)
      BY <1>3, <2>1, <2>3 DEF InFlight
    <3>2. Taken(r)' = Taken(r)
      BY ONLY <3>1 DEF Taken, At
    <3>3. /\ Line(d) = Taken(r) \o ch[r] \o InFlight(r)
          /\ Runs(d) = IF worker[r].at = "run" THEN worker[r].task ELSE None
      BY <2>3, LineIs DEF Runs, At
    <3>4. /\ Line(d)' = Taken(r)' \o ch'[r] \o InFlight(r)'
          /\ Runs(d)' = IF worker'[r].at = "run" THEN worker'[r].task ELSE None
      BY <2>1, <2>3, LineBecomes
    <3> QED
      BY <3>1, <3>2, <3>3, <3>4
  <2> QED
    BY <2>1, <2>2, <2>3
<1> QED
  BY <1>8, <1>9, <1>10, <1>11

\* A step of a worker that touches neither the lines nor the running tasks.
LEMMA ChatWorkerStutter ==
  ASSUME OneSubmitter, Shape, NEW q \in QueueIds, NEW p,
         {worker[q].at, p} \cap {"acquire", "run"} = {},
         \/ worker' = [worker EXCEPT ![q].at = p]
         \/ worker' = [worker EXCEPT ![q] = [at |-> p, task |-> None]],
         UNCHANGED <<seq, chatQueues, ch, sending, cancelled>>
  PROVE  UNCHANGED Serial!vars
<1>1. worker'[q].at = p /\ \A r \in QueueIds : r # q => worker'[r] = worker[r]
  BY DEF Shape, TypeOK
<1>2. \A r \in QueueIds : Taken(r)' = Taken(r)
  BY <1>1 DEF Taken, At
<1>3. \A c \in Chats : Line(c)' = Line(c)
  BY <1>2, SameLines DEF Shape
<1>4. ASSUME NEW c \in Chats PROVE Runs(c)' = Runs(c)
  <2> PICK r : r = chatQueues[c]
    OBVIOUS
  <2>1. r \in QueueIds \cup {None} /\ chatQueues'[c] = r
    BY DEF Shape, TypeOK
  <2>2. CASE r = None
    BY <2>1, <2>2 DEF Runs
  <2>3. CASE r # None
    <3>1. /\ Runs(c) = IF worker[r].at = "run" THEN worker[r].task ELSE None
          /\ Runs(c)' = IF worker'[r].at = "run" THEN worker'[r].task ELSE None
      BY <2>1, <2>3 DEF Runs, At
    <3>2. CASE r = q
      BY <1>1, <3>1, <3>2
    <3>3. CASE r # q
      BY <1>1, <2>1, <2>3, <3>1, <3>3
    <3> QED
      BY <3>2, <3>3
  <2> QED
    BY <2>2, <2>3
<1> QED
  BY <1>3, <1>4, ChatStutter

\* Finish is End: the line stays, the chat runs nothing.
LEMMA ChatFinish ==
  ASSUME OneSubmitter, Shape, Served, NEW q \in QueueIds, Finish(q)
  PROVE  \E c \in Chats : Serial!End(c)
<1> USE DEF None
<1>1. /\ worker' = [worker EXCEPT ![q].at = "release"]
      /\ UNCHANGED <<seq, chatQueues, ch, sending, cancelled>>
      /\ worker[q].at = "run"
  BY DEF Finish, Move, At, queueVars
<1> PICK t : t = worker[q].task
  OBVIOUS
<1>2. t \in Mine[q] /\ t # None
  BY <1>1 DEF Shape, WorkersNamed, Served, WorkersServe, Busy
<1> PICK c \in Chats : chatQueues[c] = q
  BY <1>2 DEF Mine
<1>3. q # None
  BY BoundsAssumption DEF QueueIds, TaskIds
<1>4. worker'[q].at = "release" /\ \A r \in QueueIds : r # q => worker'[r] = worker[r]
  BY <1>1 DEF Shape, TypeOK
<1>5. \A r \in QueueIds : Taken(r)' = Taken(r)
  BY <1>1, <1>4 DEF Taken, At
<1>6. \A d \in Chats : Line(d)' = Line(d)
  BY <1>1, <1>5, SameLines DEF Shape
<1>7. Runs(c) = t /\ Runs(c)' = None
  BY <1>1, <1>3, <1>4 DEF Runs, At
<1>8. ASSUME NEW d \in Chats, d # c PROVE Runs(d)' = Runs(d)
  <2> PICK r : r = chatQueues[d]
    OBVIOUS
  <2>1. r \in QueueIds \cup {None} /\ r # q /\ chatQueues'[d] = r
    BY <1>1, <1>3, <1>8 DEF Shape, TypeOK, Served, OneInstance
  <2>2. r # None => worker'[r] = worker[r]
    BY <1>4, <2>1
  <2> QED
    BY <2>1, <2>2 DEF Runs, At
<1>9. [d \in Chats |-> Runs(d)]' = [[d \in Chats |-> Runs(d)] EXCEPT ![c] = None]
  BY <1>6, <1>7, <1>8, ChatMoves
<1> QED
  BY <1>1, <1>2, <1>6, <1>7, <1>9 DEF Serial!End

\* An idle instance holds nothing of its chat, so unmapping it loses nothing.
LEMMA ChatCleanup ==
  ASSUME OneSubmitter, Shape, Sends, Served, Quick, Cleanup
  PROVE  UNCHANGED Serial!vars
<1> USE BoundsAssumption DEF None
<1>1. /\ chatQueues' = [c \in Chats |-> IF c \in Idle THEN None ELSE chatQueues[c]]
      /\ UNCHANGED <<seq, ch, sending, worker, cancelled>>
  BY DEF Cleanup, taskVars
<1>2. ASSUME NEW c \in Chats PROVE Line(c)' = Line(c) /\ Runs(c)' = Runs(c)
  <2> PICK q : q = chatQueues[c]
    OBVIOUS
  <2>1. CASE c \notin Idle
    <3>1. chatQueues'[c] = q
      BY <1>1, <2>1
    <3>2. CASE q = None
      <4>1. Line(c) = <<>> /\ Runs(c) = None
        BY <3>2 DEF Line, Runs
      <4> QED
        BY <3>1, <3>2, <4>1, LineBecomes
    <3>3. CASE q # None
      <4>1. /\ Line(c) = Taken(q) \o ch[q] \o InFlight(q)
            /\ Runs(c) = IF worker[q].at = "run" THEN worker[q].task ELSE None
        BY <3>3, LineIs DEF Runs, At
      <4>2. /\ Line(c)' = Taken(q)' \o ch'[q] \o InFlight(q)'
            /\ Runs(c)' = IF worker'[q].at = "run" THEN worker'[q].task ELSE None
        BY <3>1, <3>3, LineBecomes
      <4>3. Taken(q)' = Taken(q) /\ InFlight(q)' = InFlight(q)
        BY <1>1 DEF Taken, InFlight, At
      <4> QED
        BY <1>1, <4>1, <4>2, <4>3
    <3> QED
      BY <3>2, <3>3
  <2>2. CASE c \in Idle
    <3>1. q \in QueueIds /\ q # None /\ unused[q] > IdleTimeout /\ ch[q] = <<>>
      BY <2>2 DEF Idle, IsIdle, Shape, TypeOK
    <3>2. unused[q] \in Nat
      BY <3>1 DEF Shape, TypeOK
    <3>3. worker[q].at \notin {"acquire", "run"}
      BY <3>1, <3>2 DEF Quick, Busy
    <3>4. InFlight(q) = <<>>
      <4>1. PICK s : Submitters = {s}
        BY DEF OneSubmitter
      <4>2. InFlight(q) = IF sending[s].queue = q THEN <<sending[s].task>> ELSE <<>>
        BY <4>1, InFlightIs
      <4>3. sending[s].queue # q
        <5> SUFFICES ASSUME sending[s].queue = q PROVE FALSE
          OBVIOUS
        <5>1. sending[s] # NotSending
          BY <3>1 DEF NotSending
        <5>2. Len(ch[q]) = 0 /\ 0 < ChanCap
          BY <3>1
        <5>3. unused[q] = 0
          BY <4>1, <5>1, <5>2 DEF Sends, SendersOpen
        <5> QED
          BY <3>1, <3>2, <5>3
      <4> QED
        BY <4>2, <4>3
    <3>5. Line(c) = <<>> /\ Runs(c) = None
      <4>1. Taken(q) = <<>>
        BY <3>3 DEF Taken, At
      <4>2. Line(c) = <<>> \o <<>> \o <<>>
        BY <3>1, <3>4, <4>1, LineIs
      <4> QED
        BY <3>1, <3>3, <4>2 DEF Runs, At
    <3>6. chatQueues'[c] = None
      BY <1>1, <2>2
    <3> QED
      BY <3>5, <3>6, LineBecomes
  <2> QED
    BY <2>1, <2>2
<1> QED
  BY <1>1, <1>2, ChatStutter

\* Prune, Tick and a stutter change nothing a line or a running task is made of.
LEMMA ChatUntouched ==
  ASSUME Shape, UNCHANGED <<seq, chatQueues, ch, sending, worker, cancelled>>
  PROVE  UNCHANGED Serial!vars
<1>1. \A c \in Chats : Line(c)' = Line(c)
  BY SameLines DEF Shape, Taken, At
<1>2. \A c \in Chats : Runs(c)' = Runs(c)
  BY DEF Runs, At
<1> QED
  BY <1>1, <1>2, ChatStutter

LEMMA ChatSerialNext ==
  ASSUME OneSubmitter, Shape, Sends, Served, Quick, [Next]_vars
  PROVE  [Serial!Next]_Serial!vars
<1>0. CASE UNCHANGED vars
  BY <1>0, ChatUntouched DEF vars, taskVars, queueVars
<1>1. ASSUME NEW s \in Submitters, NEW c \in Chats, Submit(s, c) PROVE Serial!Next
  BY <1>1, ChatSubmit DEF Serial!Next
<1>2. ASSUME NEW s \in Submitters, Send(s) PROVE UNCHANGED Serial!vars
  BY <1>2, ChatSend
<1>3. ASSUME NEW q \in QueueIds, Receive(q) PROVE UNCHANGED Serial!vars
  BY <1>3, ChatReceive
<1>4. ASSUME NEW q \in QueueIds, Start(q) PROVE Serial!Next
  <2> PICK p : p = "run"
    OBVIOUS
  <2>1. /\ worker' = [worker EXCEPT ![q].at = p] /\ p # "acquire" /\ At(q, "acquire")
        /\ UNCHANGED <<seq, chatQueues, ch, sending, cancelled>>
    BY <1>4 DEF Start, Move, queueVars
  <2> PICK c \in Chats :
        /\ chatQueues[c] = q
        /\ Line(c) # <<>> /\ Head(Line(c)) = worker[q].task
        /\ Line(c)' = Tail(Line(c))
        /\ Runs(c) = None
        /\ Runs(c)' = IF p = "run" THEN worker[q].task ELSE None
        /\ \A d \in Chats : d # c => Line(d)' = Line(d) /\ Runs(d)' = Runs(d)
    BY <2>1, HeadLeaves
  <2>2. /\ [d \in Chats |-> Line(d)]' = [[d \in Chats |-> Line(d)] EXCEPT ![c] = Tail(@)]
        /\ [d \in Chats |-> Runs(d)]' = [[d \in Chats |-> Runs(d)] EXCEPT ![c] = Head(Line(c))]
    BY ChatMoves
  <2>3. Serial!Begin(c)
    BY <2>1, <2>2 DEF Serial!Begin
  <2> QED
    BY <2>3 DEF Serial!Next
<1>5. ASSUME NEW q \in QueueIds, Abandon(q) PROVE Serial!Next
  <2> PICK p : p = "stamp"
    OBVIOUS
  <2>1. /\ worker' = [worker EXCEPT ![q].at = p] /\ p # "acquire" /\ At(q, "acquire") /\ cancelled
        /\ UNCHANGED <<seq, chatQueues, ch, sending, cancelled>>
    BY <1>5 DEF Abandon, Move, queueVars, taskVars
  <2> PICK c \in Chats :
        /\ chatQueues[c] = q
        /\ Line(c) # <<>> /\ Head(Line(c)) = worker[q].task
        /\ Line(c)' = Tail(Line(c))
        /\ Runs(c) = None
        /\ Runs(c)' = IF p = "run" THEN worker[q].task ELSE None
        /\ \A d \in Chats : d # c => Line(d)' = Line(d) /\ Runs(d)' = Runs(d)
    BY <2>1, HeadLeaves, ZenonT(40)
  <2>2. [d \in Chats |-> Line(d)]' = [[d \in Chats |-> Line(d)] EXCEPT ![c] = Tail(@)]
    OBVIOUS
  <2>3. Serial!Drop(c)
    BY <2>1, <2>2 DEF Serial!Drop
  <2> QED
    BY <2>3 DEF Serial!Next
<1>6. ASSUME NEW q \in QueueIds, Finish(q) PROVE Serial!Next
  BY <1>6, ChatFinish DEF Serial!Next
<1>7. ASSUME NEW q \in QueueIds, Exit(q) PROVE UNCHANGED Serial!vars
  <2> PICK p : p = "exited"
    OBVIOUS
  <2>1. /\ {worker[q].at, p} \cap {"acquire", "run"} = {}
        /\ worker' = [worker EXCEPT ![q].at = p]
        /\ UNCHANGED <<seq, chatQueues, ch, sending, cancelled>>
    BY <1>7 DEF Exit, Move, At, taskVars, queueVars
  <2> QED
    BY <2>1, ChatWorkerStutter
<1>8. ASSUME NEW q \in QueueIds, Release(q) PROVE UNCHANGED Serial!vars
  <2> PICK p : p = "stamp"
    OBVIOUS
  <2>1. /\ {worker[q].at, p} \cap {"acquire", "run"} = {}
        /\ worker' = [worker EXCEPT ![q].at = p]
        /\ UNCHANGED <<seq, chatQueues, ch, sending, cancelled>>
    BY <1>8 DEF Release, Move, At, taskVars, queueVars
  <2> QED
    BY <2>1, ChatWorkerStutter
<1>9. ASSUME NEW q \in QueueIds, Stamp(q) PROVE UNCHANGED Serial!vars
  <2> PICK p : p = "recv"
    OBVIOUS
  <2>1. /\ {worker[q].at, p} \cap {"acquire", "run"} = {}
        /\ worker' = [worker EXCEPT ![q] = [at |-> p, task |-> None]]
        /\ UNCHANGED <<seq, chatQueues, ch, sending, cancelled>>
    BY <1>9 DEF Stamp, At, taskVars
  <2> QED
    BY <2>1, ChatWorkerStutter
<1>10. CASE Cleanup
  BY <1>10, ChatCleanup
<1>11. CASE Prune \/ Tick
  BY <1>11, ChatUntouched DEF Prune, Tick, queueVars, taskVars
<1>12. ASSUME Stop PROVE Serial!Next
  <2>1. UNCHANGED <<seq, chatQueues, ch, sending, worker>> /\ cancelled'
    BY <1>12 DEF Stop, queueVars, taskVars
  <2>2. \A c \in Chats : Line(c)' = Line(c) /\ Runs(c)' = Runs(c)
    <3>1. \A c \in Chats : Line(c)' = Line(c)
      BY <2>1, SameLines DEF Shape, Taken, At
    <3> QED
      BY <2>1, <3>1 DEF Runs, At
  <2>3. Serial!Stop
    BY <2>1, <2>2, <1>12 DEF Serial!Stop, Stop
  <2> QED
    BY <2>3 DEF Serial!Next
<1> QED
  BY <1>0, <1>1, <1>2, <1>3, <1>4, <1>5, <1>6, <1>7, <1>8, <1>9, <1>10, <1>11, <1>12
  DEF Next, WorkerStep

\* "so messages for one chat run sequentially" (routing.go:17-22): with one
\* goroutine that submits, and as long as no task keeps its worker busy beyond
\* the idle limit, the queue runs every chat's tasks one at a time, in the order
\* of Submit, and drops none before Stop (queue.go:95-259).
THEOREM QueueImplementsChatSerial ==
  ASSUME OneSubmitter
  PROVE  Spec => ([]Quick => ImplementsChatSerial)
<1>1. Init => Shape /\ Sends /\ Served
  BY ShapeInit, SendsInit, ServedInit
<1>2. Shape /\ Sends /\ Served /\ Quick /\ [Next]_vars => (Shape /\ Sends /\ Served)'
  BY ShapeNext, SendsNext, ServedNext
<1>3. Init => Serial!Init
  BY DEF Init, Serial!Init, Line, Runs
<1>4. Shape /\ Sends /\ Served /\ Quick /\ [Next]_vars => [Serial!Next]_Serial!vars
  BY ChatSerialNext
<1> QED
  BY <1>1, <1>2, <1>3, <1>4, PTL DEF Spec, ImplementsChatSerial, Serial!Spec
-----------------------------------------------------------------------------
(* Why no task is stranded: a task is in the hands of one sender, at one   *)
(* position of one channel or with one worker, and is pending until Start; *)
(* an instance whose worker is gone has a closed, empty channel.           *)

Sent ==
  \A s \in Submitters :
    sending[s] # NotSending =>
      /\ status[sending[s].task] = "pending"
      /\ worker[sending[s].queue].at # "none"
      /\ \A r \in Submitters :
           sending[r] # NotSending /\ sending[r].task = sending[s].task => r = s

Queued ==
  \A q \in QueueIds : \A i \in 1 .. Len(ch[q]) :
    /\ status[ch[q][i]] = "pending"
    /\ worker[q].at # "none"
    /\ \A r \in QueueIds : \A j \in 1 .. Len(ch[r]) : ch[r][j] = ch[q][i] => r = q /\ j = i
    /\ \A s \in Submitters : sending[s] # NotSending => sending[s].task # ch[q][i]
    /\ \A r \in QueueIds : worker[r].at = "acquire" => worker[r].task # ch[q][i]

Worked ==
  \A q \in QueueIds :
    /\ worker[q].at = "acquire" =>
         /\ status[worker[q].task] = "pending"
         /\ \A s \in Submitters : sending[s] # NotSending => sending[s].task # worker[q].task
    /\ worker[q].at = "run" => status[worker[q].task] = "running"
    /\ \A r \in QueueIds :
         /\ worker[q].at \in {"acquire", "run"} /\ worker[r].at = worker[q].at
         /\ worker[r].task = worker[q].task
         => r = q

Begun ==
  /\ \A t \in TaskIds : t > seq => status[t] = "absent"
  /\ \A c \in Chats : chatQueues[c] # None => worker[chatQueues[c]].at # "none"

Somewhere(t) ==
  \/ \E s \in Submitters : sending[s] # NotSending /\ sending[s].task = t
  \/ \E q \in QueueIds : \E i \in 1 .. Len(ch[q]) : ch[q][i] = t
  \/ \E q \in QueueIds : worker[q].at = "acquire" /\ worker[q].task = t

NoneLost == ~cancelled => \A t \in TaskIds : status[t] = "pending" => Somewhere(t)

Attended ==
  ~cancelled => \A q \in QueueIds : worker[q].at = "exited" => closed[q] /\ ch[q] = <<>>

Placed == Sent /\ Queued /\ Worked /\ Begun /\ NoneLost /\ Attended

LEMMA TailIs ==
  ASSUME NEW S, NEW s \in Seq(S), s # <<>>
  PROVE  /\ Len(Tail(s)) = Len(s) - 1 /\ Len(s) \in Nat \ {0}
         /\ \A i \in 1 .. Len(s) - 1 : Tail(s)[i] = s[i + 1]
  OBVIOUS

LEMMA ElementOfChannel ==
  ASSUME Shape
  PROVE  \A q \in QueueIds : \A i \in 1 .. Len(ch[q]) : ch[q][i] \in TaskIds
<1>1. \A q \in QueueIds : ch[q] \in Seq(TaskIds)
  BY DEF Shape, TypeOK
<1> QED
  BY <1>1

LEMMA PlacedInit == Init => Placed
  BY DEF Init, Placed, Sent, Queued, Worked, Begun, NoneLost, Attended, QueueIds, None

\* Submit puts its task, which nobody holds yet, in the hands of its sender.
LEMMA PlacedSubmit ==
  ASSUME Shape, Placed, NEW s \in Submitters, NEW c \in Chats, Submit(s, c)
  PROVE  Placed'
<1> USE BoundsAssumption DEF None, QueueIds
<1> PICK t : t = seq + 1
  OBVIOUS
<1>1. seq \in Nat /\ t \in TaskIds /\ seq' = t /\ status[t] = "absent" /\ sending[s] = NotSending
      /\ status' = [status EXCEPT ![t] = "pending"] /\ UNCHANGED <<ch, closed, cancelled>>
  BY DEF Submit, Shape, TypeOK, TaskIds, Placed, Begun
<1> PICK q \in TaskIds :
      /\ chatQueues' = [chatQueues EXCEPT ![c] = q]
      /\ sending' = [sending EXCEPT ![s] = [task |-> t, queue |-> q]]
      /\ \A r \in TaskIds : r # q => worker'[r] = worker[r]
      /\ \/ worker'[q] = worker[q] /\ worker[q].at # "none"
         \/ worker'[q].at = "recv" /\ worker[q].at = "none"
  <2>1. CASE chatQueues[c] = None
    <3>1. /\ chatQueues' = [chatQueues EXCEPT ![c] = t]
          /\ sending' = [sending EXCEPT ![s] = [task |-> t, queue |-> t]]
          /\ worker' = [worker EXCEPT ![t] = [at |-> "recv", task |-> None]]
      BY <2>1 DEF Submit
    <3>2. worker[t].at = "none"
      BY <1>1 DEF Shape, Fresh, At
    <3>3. worker'[t].at = "recv" /\ \A r \in TaskIds : r # t => worker'[r] = worker[r]
      BY <1>1, <3>1 DEF Shape, TypeOK
    <3> QED
      BY <1>1, <3>1, <3>2, <3>3
  <2>2. CASE chatQueues[c] # None
    <3>1. chatQueues[c] \in TaskIds /\ worker[chatQueues[c]].at # "none"
      BY <2>2 DEF Shape, TypeOK, Placed, Begun
    <3>2. /\ chatQueues' = [chatQueues EXCEPT ![c] = chatQueues[c]]
          /\ sending' = [sending EXCEPT ![s] = [task |-> t, queue |-> chatQueues[c]]]
          /\ UNCHANGED worker
      BY <2>2 DEF Submit
    <3> QED
      BY <3>1, <3>2
  <2> QED
    BY <2>1, <2>2
<1>2. \A u \in TaskIds : u # t => status'[u] = status[u]
  BY <1>1 DEF Shape, TypeOK
<1>3. status'[t] = "pending"
  BY <1>1 DEF Shape, TypeOK
<1>4. /\ sending'[s] = [task |-> t, queue |-> q]
      /\ \A r \in Submitters : r # s => sending'[r] = sending[r]
  BY DEF Shape, TypeOK
<1>5. ASSUME NEW r \in Submitters, sending[r] # NotSending
      PROVE  sending[r].task # t /\ sending[r].task \in TaskIds /\ sending[r].queue \in TaskIds
  BY <1>1, <1>5 DEF Shape, TypeOK, SendersNamed, Placed, Sent
<1>6. ASSUME NEW r \in TaskIds, NEW i \in 1 .. Len(ch[r]) PROVE ch[r][i] # t /\ ch[r][i] \in TaskIds
  <2>1. status[ch[r][i]] = "pending"
    BY DEF Placed, Queued
  <2>2. ch[r] \in Seq(TaskIds)
    BY DEF Shape, TypeOK
  <2> QED
    BY <1>1, <2>1, <2>2
<1>7. ASSUME NEW r \in TaskIds, worker'[r].at \in Busy
      PROVE  /\ worker'[r] = worker[r] /\ worker[r].task \in TaskIds
             /\ worker[r].at \in {"acquire", "run"} => worker[r].task # t
  <2>1. worker'[r] = worker[r]
    BY <1>7 DEF Busy
  <2>2. worker[r].task \in TaskIds
    BY <1>7, <2>1 DEF Shape, TypeOK, WorkersNamed
  <2> QED
    BY <1>1, <2>1, <2>2 DEF Placed, Worked
<1>8. \A r \in TaskIds : worker[r].at # "none" => worker'[r].at # "none"
  OBVIOUS
<1>9. Sent'
  <2> SUFFICES ASSUME NEW r \in Submitters, sending'[r] # NotSending
               PROVE  /\ status'[sending'[r].task] = "pending"
                      /\ worker'[sending'[r].queue].at # "none"
                      /\ \A u \in Submitters :
                           sending'[u] # NotSending /\ sending'[u].task = sending'[r].task => u = r
    BY DEF Sent
  <2>1. CASE r = s
    <3>1. worker'[q].at # "none"
      OBVIOUS
    <3>2. \A u \in Submitters : u # s /\ sending'[u] # NotSending => sending'[u].task # t
      BY <1>4, <1>5
    <3> QED
      BY <1>3, <1>4, <2>1, <3>1, <3>2
  <2>2. CASE r # s
    <3>1. sending'[r] = sending[r] /\ sending[r] # NotSending
      BY <1>4, <2>2
    <3>2. sending'[s].task # sending[r].task
      BY <1>4, <1>5, <3>1
    <3> QED
      BY <1>2, <1>4, <1>5, <1>8, <3>1, <3>2 DEF Placed, Sent
  <2> QED
    BY <2>1, <2>2
<1>10. Queued'
  <2> SUFFICES ASSUME NEW r \in QueueIds, NEW i \in 1 .. Len(ch'[r])
               PROVE  /\ status'[ch'[r][i]] = "pending"
                      /\ worker'[r].at # "none"
                      /\ \A u \in QueueIds : \A j \in 1 .. Len(ch'[u]) :
                           ch'[u][j] = ch'[r][i] => u = r /\ j = i
                      /\ \A u \in Submitters :
                           sending'[u] # NotSending => sending'[u].task # ch'[r][i]
                      /\ \A u \in QueueIds :
                           worker'[u].at = "acquire" => worker'[u].task # ch'[r][i]
    BY DEF Queued
  <2>0. ch' = ch
    BY <1>1
  <2>i. i \in 1 .. Len(ch[r])
    BY <2>0
  <2>1. \A u \in Submitters : sending'[u] # NotSending => sending'[u].task # ch[r][i]
    BY <1>4, <1>6, <2>i DEF Placed, Queued
  <2>2. \A u \in QueueIds : worker'[u].at = "acquire" => worker'[u].task # ch[r][i]
    BY <1>7, <2>i DEF Placed, Queued, Busy
  <2>3. status[ch[r][i]] = "pending" /\ worker[r].at # "none"
    BY <2>i DEF Placed, Queued
  <2>4. status'[ch[r][i]] = "pending" /\ worker'[r].at # "none"
    BY <1>2, <1>6, <1>8, <2>i, <2>3
  <2>5. \A u \in QueueIds : \A j \in 1 .. Len(ch[u]) : ch[u][j] = ch[r][i] => u = r /\ j = i
    BY <2>i DEF Placed, Queued
  <2> QED
    BY <2>0, <2>1, <2>2, <2>4, <2>5
<1>11. Worked'
  <2> SUFFICES ASSUME NEW r \in QueueIds
               PROVE  /\ worker'[r].at = "acquire" =>
                           /\ status'[worker'[r].task] = "pending"
                           /\ \A u \in Submitters :
                                sending'[u] # NotSending => sending'[u].task # worker'[r].task
                      /\ worker'[r].at = "run" => status'[worker'[r].task] = "running"
                      /\ \A u \in QueueIds :
                           /\ worker'[r].at \in {"acquire", "run"} /\ worker'[u].at = worker'[r].at
                           /\ worker'[u].task = worker'[r].task
                           => u = r
    BY DEF Worked
  <2>1. ASSUME worker'[r].at = "acquire"
        PROVE  /\ status'[worker'[r].task] = "pending"
               /\ \A u \in Submitters :
                    sending'[u] # NotSending => sending'[u].task # worker'[r].task
    BY <1>2, <1>4, <1>7, <2>1 DEF Placed, Worked, Busy
  <2>2. worker'[r].at = "run" => status'[worker'[r].task] = "running"
    BY <1>2, <1>7 DEF Placed, Worked, Busy
  <2>3. ASSUME NEW u \in QueueIds, worker'[r].at \in {"acquire", "run"},
               worker'[u].at = worker'[r].at, worker'[u].task = worker'[r].task
        PROVE  u = r
    BY <1>7, <2>3 DEF Placed, Worked, Busy
  <2> QED
    BY <2>1, <2>2, <2>3
<1>12. Begun'
  <2>1. \A u \in TaskIds : u > seq' => status'[u] = "absent"
    <3>1. \A u \in TaskIds : u > seq' => u > seq /\ u # t
      BY <1>1 DEF TaskIds
    <3> QED
      BY <1>2, <3>1 DEF Placed, Begun
  <2>2. ASSUME NEW d \in Chats, chatQueues'[d] # None PROVE worker'[chatQueues'[d]].at # "none"
    <3>1. CASE d = c
      BY <3>1 DEF Shape, TypeOK
    <3>2. CASE d # c
      <4>1. chatQueues'[d] = chatQueues[d] /\ chatQueues[d] \in TaskIds
        BY <2>2, <3>2 DEF Shape, TypeOK
      <4> QED
        BY <1>8, <2>2, <4>1 DEF Placed, Begun
    <3> QED
      BY <3>1, <3>2
  <2> QED
    BY <2>1, <2>2 DEF Begun
<1>13. NoneLost'
  <2> SUFFICES ASSUME ~cancelled, NEW u \in TaskIds, status'[u] = "pending" PROVE Somewhere(u)'
    BY <1>1 DEF NoneLost
  <2>1. CASE u = t
    <3>1. sending'[s] # NotSending /\ sending'[s].task = u
      BY <1>4, <2>1 DEF NotSending, TaskIds
    <3> QED
      BY <3>1 DEF Somewhere
  <2>2. CASE u # t
    <3>1. Somewhere(u)
      BY <1>2, <2>2 DEF Placed, NoneLost
    <3>2. CASE \E r \in Submitters : sending[r] # NotSending /\ sending[r].task = u
      <4> PICK r \in Submitters : sending[r] # NotSending /\ sending[r].task = u
        BY <3>2
      <4>1. sending'[r] # NotSending /\ sending'[r].task = u
        BY <1>1, <1>4
      <4> QED
        BY <4>1 DEF Somewhere
    <3>3. CASE \E r \in QueueIds : \E i \in 1 .. Len(ch[r]) : ch[r][i] = u
      BY <1>1, <3>3 DEF Somewhere
    <3>4. CASE \E r \in QueueIds : worker[r].at = "acquire" /\ worker[r].task = u
      <4> PICK r \in QueueIds : worker[r].at = "acquire" /\ worker[r].task = u
        BY <3>4
      <4>1. worker'[r] = worker[r]
        OBVIOUS
      <4> QED
        BY <4>1 DEF Somewhere
    <3> QED
      BY <3>1, <3>2, <3>3, <3>4 DEF Somewhere
  <2> QED
    BY <2>1, <2>2
<1>14. Attended'
  <2> SUFFICES ASSUME ~cancelled, NEW r \in QueueIds, worker'[r].at = "exited"
               PROVE  closed[r] /\ ch[r] = <<>>
    BY <1>1 DEF Attended
  <2>1. worker[r].at = "exited"
    OBVIOUS
  <2> QED
    BY <2>1 DEF Placed, Attended
<1> QED
  BY <1>9, <1>10, <1>11, <1>12, <1>13, <1>14 DEF Placed

\* Send moves its task from the sender to the end of the channel.
LEMMA PlacedSend ==
  ASSUME Shape, Sends, Placed, NEW s \in Submitters, Send(s)
  PROVE  Placed'
<1> USE BoundsAssumption DEF None, QueueIds
<1> PICK q, t : q = sending[s].queue /\ t = sending[s].task
  OBVIOUS
<1>1. /\ q \in TaskIds /\ t \in TaskIds /\ ~closed[q] /\ sending[s] # NotSending
      /\ status[t] = "pending" /\ worker[q].at # "none" /\ ch[q] \in Seq(TaskIds)
  BY DEF Send, SendReady, Shape, TypeOK, SendersNamed, Sends, SendersOpen, Placed, Sent
<1>2. /\ ch' = [ch EXCEPT ![q] = Append(@, t)]
      /\ sending' = [sending EXCEPT ![s] = NotSending]
      /\ UNCHANGED <<seq, status, chatQueues, closed, worker, cancelled>>
  BY <1>1 DEF Send, taskVars
<1>3. sending'[s] = NotSending /\ \A r \in Submitters : r # s => sending'[r] = sending[r]
  BY <1>2 DEF Shape, TypeOK
<1>4. ASSUME NEW r \in TaskIds, NEW i \in 1 .. Len(ch'[r])
      PROVE  \/ i \in 1 .. Len(ch[r]) /\ ch'[r][i] = ch[r][i]
             \/ r = q /\ i = Len(ch[q]) + 1 /\ ch'[r][i] = t
  <2>1. CASE r = q
    <3>1. ch'[r] = Append(ch[q], t)
      BY <1>1, <1>2, <2>1 DEF Shape, TypeOK
    <3> QED
      BY <1>1, <2>1, <3>1
  <2>2. CASE r # q
    <3>1. ch'[r] = ch[r]
      BY <1>1, <1>2, <2>2 DEF Shape, TypeOK
    <3> QED
      BY <3>1
  <2> QED
    BY <2>1, <2>2
<1>5. ASSUME NEW r \in TaskIds, NEW i \in 1 .. Len(ch[r])
      PROVE  i \in 1 .. Len(ch'[r]) /\ ch'[r][i] = ch[r][i] /\ ch[r][i] # t
  <2>1. ch[r][i] # t
    BY <1>1 DEF Placed, Queued
  <2>2. CASE r = q
    <3>1. ch'[r] = Append(ch[q], t)
      BY <1>1, <1>2, <2>2 DEF Shape, TypeOK
    <3> QED
      BY <1>1, <2>1, <2>2, <3>1
  <2>3. CASE r # q
    <3>1. ch'[r] = ch[r]
      BY <1>1, <1>2, <2>3 DEF Shape, TypeOK
    <3> QED
      BY <2>1, <3>1
  <2> QED
    BY <2>2, <2>3
<1>6. Sent'
  BY <1>2, <1>3 DEF Placed, Sent
<1>7. \A r \in Submitters : sending'[r] # NotSending => sending[r] # NotSending /\ sending'[r] = sending[r]
                                                       /\ sending[r].task # t
  BY <1>1, <1>3 DEF Placed, Sent
<1>8. \A r \in QueueIds : worker[r].at = "acquire" => worker[r].task # t
  BY <1>1 DEF Placed, Worked
<1>9. Queued'
  <2> SUFFICES ASSUME NEW r \in QueueIds, NEW i \in 1 .. Len(ch'[r])
               PROVE  /\ status[ch'[r][i]] = "pending"
                      /\ worker[r].at # "none"
                      /\ \A u \in QueueIds : \A j \in 1 .. Len(ch'[u]) :
                           ch'[u][j] = ch'[r][i] => u = r /\ j = i
                      /\ \A u \in Submitters :
                           sending'[u] # NotSending => sending'[u].task # ch'[r][i]
                      /\ \A u \in QueueIds : worker[u].at = "acquire" => worker[u].task # ch'[r][i]
    BY <1>2, SMTT(30) DEF Queued
  <2>1. CASE i \in 1 .. Len(ch[r]) /\ ch'[r][i] = ch[r][i]
    <3>1. \A u \in QueueIds : \A j \in 1 .. Len(ch'[u]) : ch'[u][j] = ch'[r][i] => u = r /\ j = i
      <4> SUFFICES ASSUME NEW u \in QueueIds, NEW j \in 1 .. Len(ch'[u]), ch'[u][j] = ch'[r][i]
                   PROVE  u = r /\ j = i
        OBVIOUS
      <4>1. j \in 1 .. Len(ch[u]) /\ ch'[u][j] = ch[u][j]
        BY <1>4, <1>5, <2>1
      <4> QED
        BY <2>1, <4>1 DEF Placed, Queued
    <3> QED
      BY <1>7, <2>1, <3>1 DEF Placed, Queued
  <2>2. CASE r = q /\ i = Len(ch[q]) + 1 /\ ch'[r][i] = t
    <3>1. \A u \in QueueIds : \A j \in 1 .. Len(ch'[u]) : ch'[u][j] = ch'[r][i] => u = r /\ j = i
      <4> SUFFICES ASSUME NEW u \in QueueIds, NEW j \in 1 .. Len(ch'[u]), ch'[u][j] = t
                   PROVE  u = q /\ j = Len(ch[q]) + 1
        BY <2>2
      <4> QED
        BY <1>4, <1>5
    <3> QED
      BY <1>1, <1>7, <1>8, <2>2, <3>1
  <2> QED
    BY <1>4, <2>1, <2>2
<1>10. Worked'
  BY <1>2, <1>7 DEF Placed, Worked
<1>11. NoneLost'
  <2> SUFFICES ASSUME ~cancelled, NEW u \in TaskIds, status[u] = "pending" PROVE Somewhere(u)'
    BY <1>2 DEF NoneLost
  <2>1. Somewhere(u)
    BY DEF Placed, NoneLost
  <2>2. CASE u = t
    <3>1. Len(ch[q]) + 1 \in 1 .. Len(ch'[q]) /\ ch'[q][Len(ch[q]) + 1] = t
      <4>1. ch'[q] = Append(ch[q], t)
        BY <1>1, <1>2 DEF Shape, TypeOK
      <4> QED
        BY <1>1, <4>1
    <3> QED
      BY <1>1, <2>2, <3>1 DEF Somewhere
  <2>3. CASE \E r \in Submitters : r # s /\ sending[r] # NotSending /\ sending[r].task = u
    <3> PICK r \in Submitters : r # s /\ sending[r] # NotSending /\ sending[r].task = u
      BY <2>3
    <3>1. sending'[r] # NotSending /\ sending'[r].task = u
      BY <1>3
    <3> QED
      BY <3>1 DEF Somewhere
  <2>4. CASE \E r \in QueueIds : \E i \in 1 .. Len(ch[r]) : ch[r][i] = u
    BY <1>5, <2>4 DEF Somewhere
  <2>5. CASE \E r \in QueueIds : worker[r].at = "acquire" /\ worker[r].task = u
    BY <1>2, <2>5 DEF Somewhere
  <2> QED
    BY <2>1, <2>2, <2>3, <2>4, <2>5 DEF Somewhere
<1>12. Attended'
  <2> SUFFICES ASSUME ~cancelled, NEW r \in QueueIds, worker[r].at = "exited"
               PROVE  closed[r] /\ ch'[r] = <<>>
    BY <1>2 DEF Attended
  <2>1. closed[r] /\ ch[r] = <<>> /\ r # q
    BY <1>1 DEF Placed, Attended
  <2> QED
    BY <1>2, <2>1 DEF Shape, TypeOK
<1>13. Begun'
  BY <1>2 DEF Placed, Begun
<1> QED
  BY <1>6, <1>9, <1>10, <1>11, <1>12, <1>13 DEF Placed

\* Receive moves the head of a channel to the worker.
LEMMA PlacedReceive ==
  ASSUME Shape, Placed, NEW q \in QueueIds, Receive(q)
  PROVE  Placed'
<1> USE BoundsAssumption DEF None, QueueIds
<1> PICK t : t = Head(ch[q])
  OBVIOUS
<1>1. /\ worker' = [worker EXCEPT ![q] = [at |-> "acquire", task |-> t]]
      /\ ch' = [ch EXCEPT ![q] = Tail(@)]
      /\ UNCHANGED <<seq, status, chatQueues, closed, sending, cancelled>>
      /\ worker[q].at = "recv" /\ ch[q] # <<>> /\ ch[q] \in Seq(TaskIds)
  BY DEF Receive, taskVars, At, Shape, TypeOK
<1>2. /\ worker'[q].at = "acquire" /\ worker'[q].task = t
      /\ \A r \in QueueIds : r # q => worker'[r] = worker[r]
  BY <1>1 DEF Shape, TypeOK
<1>3. 1 \in 1 .. Len(ch[q]) /\ ch[q][1] = t /\ t \in TaskIds
  BY <1>1
<1>4. /\ status[t] = "pending"
      /\ \A s \in Submitters : sending[s] # NotSending => sending[s].task # t
      /\ \A r \in QueueIds : worker[r].at = "acquire" => worker[r].task # t
      /\ \A r \in QueueIds : \A j \in 1 .. Len(ch[r]) : ch[r][j] = t => r = q /\ j = 1
  BY <1>3 DEF Placed, Queued
<1>5. ASSUME NEW r \in TaskIds, NEW i \in 1 .. Len(ch'[r])
      PROVE  \/ r # q /\ i \in 1 .. Len(ch[r]) /\ ch'[r][i] = ch[r][i]
             \/ r = q /\ i + 1 \in 1 .. Len(ch[r]) /\ ch'[r][i] = ch[r][i + 1]
  <2>1. CASE r = q
    <3>1. ch'[r] = Tail(ch[q])
      BY <1>1, <2>1 DEF Shape, TypeOK
    <3>2. Len(ch'[r]) = Len(ch[q]) - 1 /\ Len(ch[q]) \in Nat \ {0}
          /\ \A j \in 1 .. Len(ch[q]) - 1 : ch'[r][j] = ch[q][j + 1]
      BY <1>1, <3>1, TailIs
    <3>3. i + 1 \in 1 .. Len(ch[q]) /\ ch'[r][i] = ch[q][i + 1]
      BY <3>2
    <3> QED
      BY <2>1, <3>3
  <2>2. CASE r # q
    <3>1. ch'[r] = ch[r]
      BY <1>1, <2>2 DEF Shape, TypeOK
    <3> QED
      BY <2>2, <3>1
  <2> QED
    BY <2>1, <2>2
<1>6. \A r \in TaskIds : \A i \in 1 .. Len(ch'[r]) : ch'[r][i] # t
  <2> SUFFICES ASSUME NEW r \in TaskIds, NEW i \in 1 .. Len(ch'[r]), ch'[r][i] = t PROVE FALSE
    OBVIOUS
  <2>1. r = q /\ i + 1 = 1
    BY <1>4, <1>5
  <2>2. i \in Nat /\ i # 0
    OBVIOUS
  <2> QED
    BY <2>1, <2>2
<1>7. ASSUME NEW r \in TaskIds, NEW i \in 1 .. Len(ch'[r])
      PROVE  \E k \in 1 .. Len(ch[r]) : ch'[r][i] = ch[r][k] /\ k = IF r = q THEN i + 1 ELSE i
  BY <1>5
<1>8. Sent'
  <2>1. \A r \in TaskIds : worker[r].at # "none" => worker'[r].at # "none"
    BY <1>2
  <2>2. \A s \in Submitters : sending[s] # NotSending => sending[s].queue \in TaskIds
    BY DEF Shape, TypeOK, SendersNamed
  <2> QED
    BY <1>1, <2>1, <2>2 DEF Placed, Sent
<1>9. Queued'
  <2> SUFFICES ASSUME NEW r \in QueueIds, NEW i \in 1 .. Len(ch'[r])
               PROVE  /\ status'[ch'[r][i]] = "pending"
                      /\ worker'[r].at # "none"
                      /\ \A u \in QueueIds : \A j \in 1 .. Len(ch'[u]) :
                           ch'[u][j] = ch'[r][i] => u = r /\ j = i
                      /\ \A u \in Submitters :
                           sending'[u] # NotSending => sending'[u].task # ch'[r][i]
                      /\ \A u \in QueueIds : worker'[u].at = "acquire" => worker'[u].task # ch'[r][i]
    BY DEF Queued
  <2> PICK k \in 1 .. Len(ch[r]) : ch'[r][i] = ch[r][k] /\ k = IF r = q THEN i + 1 ELSE i
    BY <1>7
  <2>1. /\ status[ch[r][k]] = "pending" /\ worker[r].at # "none"
        /\ \A u \in Submitters : sending[u] # NotSending => sending[u].task # ch[r][k]
        /\ \A u \in QueueIds : worker[u].at = "acquire" => worker[u].task # ch[r][k]
    BY DEF Placed, Queued
  <2>2. worker'[r].at # "none"
    BY <1>2, <2>1
  <2>3. \A u \in QueueIds : worker'[u].at = "acquire" => worker'[u].task # ch'[r][i]
    BY <1>2, <1>6, <2>1
  <2>4. ASSUME NEW u \in QueueIds, NEW j \in 1 .. Len(ch'[u]), ch'[u][j] = ch'[r][i]
        PROVE  u = r /\ j = i
    <3> PICK l \in 1 .. Len(ch[u]) : ch'[u][j] = ch[u][l] /\ l = IF u = q THEN j + 1 ELSE j
      BY <1>7
    <3>1. u = r /\ l = k
      BY <2>4 DEF Placed, Queued
    <3>2. i \in Nat /\ j \in Nat
      OBVIOUS
    <3> QED
      BY <3>1, <3>2
  <2> QED
    BY <1>1, <2>1, <2>2, <2>3, <2>4
<1>10. Worked'
  <2> SUFFICES ASSUME NEW r \in QueueIds
               PROVE  /\ worker'[r].at = "acquire" =>
                           /\ status[worker'[r].task] = "pending"
                           /\ \A u \in Submitters :
                                sending[u] # NotSending => sending[u].task # worker'[r].task
                      /\ worker'[r].at = "run" => status[worker'[r].task] = "running"
                      /\ \A u \in QueueIds :
                           /\ worker'[r].at \in {"acquire", "run"} /\ worker'[u].at = worker'[r].at
                           /\ worker'[u].task = worker'[r].task
                           => u = r
    BY <1>1 DEF Worked
  <2>1. CASE r = q
    BY <1>2, <1>4, <2>1
  <2>2. CASE r # q
    <3>1. worker'[r] = worker[r]
      BY <1>2, <2>2
    <3>2. worker'[q].at = worker[r].at => worker'[q].task # worker[r].task
      BY <1>2, <1>4
    <3> QED
      BY <1>2, <3>1, <3>2 DEF Placed, Worked
  <2> QED
    BY <2>1, <2>2
<1>11. NoneLost'
  <2> SUFFICES ASSUME ~cancelled, NEW u \in TaskIds, status[u] = "pending" PROVE Somewhere(u)'
    BY <1>1 DEF NoneLost
  <2>1. Somewhere(u)
    BY DEF Placed, NoneLost
  <2>2. CASE u = t
    BY <1>2, <2>2 DEF Somewhere
  <2>3. CASE \E s \in Submitters : sending[s] # NotSending /\ sending[s].task = u
    BY <1>1, <2>3 DEF Somewhere
  <2>4. CASE u # t /\ \E r \in QueueIds : \E i \in 1 .. Len(ch[r]) : ch[r][i] = u
    <3> PICK r \in QueueIds : \E i \in 1 .. Len(ch[r]) : ch[r][i] = u
      BY <2>4
    <3> PICK i \in 1 .. Len(ch[r]) : ch[r][i] = u
      OBVIOUS
    <3>1. \E j \in 1 .. Len(ch'[r]) : ch'[r][j] = u
      <4>1. CASE r # q
        <5>1. ch'[r] = ch[r]
          BY <1>1, <4>1 DEF Shape, TypeOK
        <5> QED
          BY <5>1
      <4>2. CASE r = q
        <5>1. ch'[r] = Tail(ch[q])
          BY <1>1, <4>2 DEF Shape, TypeOK
        <5>2. i # 1
          BY <1>3, <2>4, <4>2
        <5>3. Len(ch'[r]) = Len(ch[q]) - 1 /\ Len(ch[q]) \in Nat \ {0}
              /\ \A j \in 1 .. Len(ch[q]) - 1 : ch'[r][j] = ch[q][j + 1]
          BY <1>1, <5>1, TailIs
        <5> PICK j : j = i - 1
          OBVIOUS
        <5>4. j \in 1 .. Len(ch'[r]) /\ j \in 1 .. Len(ch[q]) - 1 /\ j + 1 = i
          BY <4>2, <5>2, <5>3
        <5>5. ch'[r][j] = u
          BY <4>2, <5>3, <5>4
        <5> QED
          BY <5>4, <5>5
      <4> QED
        BY <4>1, <4>2
    <3> QED
      BY <3>1 DEF Somewhere
  <2>5. CASE \E r \in QueueIds : worker[r].at = "acquire" /\ worker[r].task = u
    <3> PICK r \in QueueIds : worker[r].at = "acquire" /\ worker[r].task = u
      BY <2>5
    <3>1. worker'[r] = worker[r]
      BY <1>1, <1>2
    <3> QED
      BY <3>1 DEF Somewhere
  <2> QED
    BY <2>1, <2>2, <2>3, <2>4, <2>5 DEF Somewhere
<1>12. Attended'
  <2> SUFFICES ASSUME ~cancelled, NEW r \in QueueIds, worker'[r].at = "exited"
               PROVE  closed[r] /\ ch'[r] = <<>>
    BY <1>1 DEF Attended
  <2>1. r # q /\ worker[r].at = "exited"
    BY <1>2
  <2>2. closed[r] /\ ch[r] = <<>>
    BY <2>1 DEF Placed, Attended
  <2> QED
    BY <1>1, <2>1, <2>2 DEF Shape, TypeOK
<1>13. Begun'
  <2>1. \A r \in TaskIds : worker[r].at # "none" => worker'[r].at # "none"
    BY <1>2
  <2>2. \A c \in Chats : chatQueues[c] # None => chatQueues[c] \in TaskIds
    BY DEF Shape, TypeOK
  <2> QED
    BY <1>1, <2>1, <2>2 DEF Placed, Begun
<1> QED
  BY <1>8, <1>9, <1>10, <1>11, <1>12, <1>13 DEF Placed

\* A worker that goes back to its channel, or leaves a closed and empty one,
\* takes no task from anywhere.
LEMMA PlacedMove ==
  ASSUME Shape, Placed, NEW q \in QueueIds, NEW p,
         worker[q].at \notin {"none", "acquire", "run"}, p \notin {"none", "acquire", "run"},
         worker'[q].at = p, \A r \in QueueIds : r # q => worker'[r] = worker[r],
         ~cancelled /\ p = "exited" => closed[q] /\ ch[q] = <<>>,
         UNCHANGED <<seq, status, chatQueues, ch, closed, sending, cancelled>>
  PROVE  Placed'
<1> USE DEF None
<1>1. \A r \in QueueIds : worker[r].at # "none" => worker'[r].at # "none"
  OBVIOUS
<1>2. \A r \in QueueIds :
        worker'[r].at \in {"acquire", "run"} <=> worker[r].at \in {"acquire", "run"}
  OBVIOUS
<1>3. \A r \in QueueIds : worker[r].at \in {"acquire", "run"} => worker'[r] = worker[r]
  OBVIOUS
<1>4. Sent'
  <2>1. \A s \in Submitters : sending[s] # NotSending => sending[s].queue \in QueueIds
    BY DEF Shape, TypeOK, SendersNamed
  <2> QED
    BY <1>1, <2>1 DEF Placed, Sent
<1>5. Queued'
  <2> SUFFICES ASSUME NEW r \in QueueIds, NEW i \in 1 .. Len(ch'[r])
               PROVE  /\ status'[ch'[r][i]] = "pending"
                      /\ worker'[r].at # "none"
                      /\ \A u \in QueueIds : \A j \in 1 .. Len(ch'[u]) :
                           ch'[u][j] = ch'[r][i] => u = r /\ j = i
                      /\ \A u \in Submitters :
                           sending'[u] # NotSending => sending'[u].task # ch'[r][i]
                      /\ \A u \in QueueIds :
                           worker'[u].at = "acquire" => worker'[u].task # ch'[r][i]
    BY DEF Queued
  <2>1. i \in 1 .. Len(ch[r])
    OBVIOUS
  <2> QED
    BY <1>1, <1>2, <1>3, <2>1 DEF Placed, Queued
<1>6. Worked'
  BY <1>2, <1>3 DEF Placed, Worked
<1>7. Begun'
  <2>1. \A c \in Chats : chatQueues[c] # None => chatQueues[c] \in QueueIds
    BY DEF Shape, TypeOK
  <2> QED
    BY <1>1, <2>1 DEF Placed, Begun
<1>8. NoneLost'
  <2> SUFFICES ASSUME ~cancelled, NEW t \in TaskIds, status[t] = "pending" PROVE Somewhere(t)'
    BY DEF NoneLost
  <2>1. Somewhere(t)
    BY DEF Placed, NoneLost
  <2> QED
    BY <1>3, <2>1 DEF Somewhere
<1>9. Attended'
  BY DEF Placed, Attended
<1> QED
  BY <1>4, <1>5, <1>6, <1>7, <1>8, <1>9 DEF Placed

\* A worker starts, abandons or finishes its task t, which nobody else holds.
LEMMA PlacedTask ==
  ASSUME Shape, Placed, NEW q \in QueueIds, Start(q) \/ Abandon(q) \/ Finish(q)
  PROVE  Placed'
<1> USE DEF None
<1> PICK t : t = worker[q].task
  OBVIOUS
<1> PICK p \in {"run", "stamp", "release"} :
      /\ worker' = [worker EXCEPT ![q].at = p]
      /\ p = "run" => worker[q].at = "acquire" /\ status' = [status EXCEPT ![t] = "running"]
      /\ p = "stamp" => worker[q].at = "acquire" /\ status' = status /\ cancelled
      /\ p = "release" => worker[q].at = "run" /\ status' = [status EXCEPT ![t] = "finished"]
  <2>1. CASE Start(q)
    BY <2>1 DEF Start, Move, At
  <2>2. CASE Abandon(q)
    BY <2>2 DEF Abandon, Move, At, taskVars
  <2>3. CASE Finish(q)
    BY <2>3 DEF Finish, Move, At
  <2> QED
    BY <2>1, <2>2, <2>3
<1>1. UNCHANGED <<seq, chatQueues, ch, closed, sending, cancelled>>
  BY DEF Start, Abandon, Finish, taskVars, queueVars
<1>2. /\ worker'[q].at = p /\ worker'[q].task = t /\ t \in TaskIds
      /\ worker[q].at \in {"acquire", "run"}
      /\ \A r \in QueueIds : r # q => worker'[r] = worker[r]
  BY DEF Shape, TypeOK, WorkersNamed, Busy
<1>3. /\ \A u \in TaskIds : u # t => status'[u] = status[u]
      /\ p = "run" => status'[t] = "running"
      /\ p = "release" => status'[t] = "finished"
      /\ p = "stamp" => status'[t] = status[t]
  <2>1. status \in [TaskIds -> Statuses]
    BY DEF Shape, TypeOK
  <2>2. CASE p = "run"
    BY <1>2, <2>1, <2>2
  <2>3. CASE p = "stamp"
    BY <2>3
  <2>4. CASE p = "release"
    BY <1>2, <2>1, <2>4
  <2> QED
    BY <2>2, <2>3, <2>4
<1>4. status[t] = IF worker[q].at = "acquire" THEN "pending" ELSE "running"
  BY <1>2 DEF Placed, Worked
<1>5. \A s \in Submitters : sending[s] # NotSending =>
        sending[s].task # t /\ sending[s].task \in TaskIds /\ sending[s].queue \in QueueIds
  <2>1. \A s \in Submitters : sending[s] # NotSending =>
          status[sending[s].task] = "pending" /\ sending[s].task \in TaskIds
            /\ sending[s].queue \in QueueIds
    BY DEF Placed, Sent, Shape, TypeOK, SendersNamed
  <2> QED
    BY <1>2, <1>4, <2>1 DEF Placed, Worked
<1>6. ASSUME NEW r \in QueueIds, NEW i \in 1 .. Len(ch[r]) PROVE ch[r][i] # t /\ ch[r][i] \in TaskIds
  <2>1. status[ch[r][i]] = "pending" /\ (worker[q].at = "acquire" => t # ch[r][i])
    BY DEF Placed, Queued
  <2>2. ch[r] \in Seq(TaskIds)
    BY DEF Shape, TypeOK
  <2>3. ch[r][i] \in TaskIds
    BY <2>2
  <2> QED
    BY <1>2, <1>4, <2>1, <2>3
<1>7. ASSUME NEW r \in QueueIds, r # q, worker[r].at \in {"acquire", "run"}
      PROVE  worker[r].task # t /\ worker[r].task \in TaskIds
  <2>1. worker[r].task \in TaskIds
    BY <1>7 DEF Shape, TypeOK, WorkersNamed, Busy
  <2>2. status[worker[r].task] = IF worker[r].at = "acquire" THEN "pending" ELSE "running"
    BY <1>7 DEF Placed, Worked
  <2>3. worker[r].at = worker[q].at => worker[r].task # t
    BY <1>2, <1>7 DEF Placed, Worked
  <2> QED
    BY <1>2, <1>4, <1>7, <2>1, <2>2, <2>3
<1>8. \A r \in QueueIds : worker[r].at # "none" => worker'[r].at # "none"
  BY <1>2
<1>9. Sent'
  BY <1>1, <1>3, <1>5, <1>8 DEF Placed, Sent
<1>10. Queued'
  <2> SUFFICES ASSUME NEW r \in QueueIds, NEW i \in 1 .. Len(ch'[r])
               PROVE  /\ status'[ch'[r][i]] = "pending"
                      /\ worker'[r].at # "none"
                      /\ \A u \in QueueIds : \A j \in 1 .. Len(ch'[u]) :
                           ch'[u][j] = ch'[r][i] => u = r /\ j = i
                      /\ \A u \in Submitters :
                           sending'[u] # NotSending => sending'[u].task # ch'[r][i]
                      /\ \A u \in QueueIds :
                           worker'[u].at = "acquire" => worker'[u].task # ch'[r][i]
    BY DEF Queued
  <2>1. ch' = ch /\ sending' = sending
    BY <1>1
  <2>i. i \in 1 .. Len(ch[r])
    BY <2>1
  <2>2. status'[ch[r][i]] = "pending" /\ worker'[r].at # "none"
    BY <1>3, <1>6, <1>8, <2>i DEF Placed, Queued
  <2>3. \A u \in QueueIds : \A j \in 1 .. Len(ch[u]) : ch[u][j] = ch[r][i] => u = r /\ j = i
    BY <2>i DEF Placed, Queued
  <2>4. \A u \in QueueIds : worker'[u].at = "acquire" => worker'[u].task # ch[r][i]
    BY <1>2, <2>i DEF Placed, Queued
  <2>5. \A u \in Submitters : sending[u] # NotSending => sending[u].task # ch[r][i]
    BY <2>i DEF Placed, Queued
  <2> QED
    BY <2>1, <2>2, <2>3, <2>4, <2>5
<1>11. Worked'
  <2> SUFFICES ASSUME NEW r \in QueueIds
               PROVE  /\ worker'[r].at = "acquire" =>
                           /\ status'[worker'[r].task] = "pending"
                           /\ \A u \in Submitters :
                                sending'[u] # NotSending => sending'[u].task # worker'[r].task
                      /\ worker'[r].at = "run" => status'[worker'[r].task] = "running"
                      /\ \A u \in QueueIds :
                           /\ worker'[r].at \in {"acquire", "run"} /\ worker'[u].at = worker'[r].at
                           /\ worker'[u].task = worker'[r].task
                           => u = r
    BY DEF Worked
  <2>1. CASE r = q
    BY <1>2, <1>3, <1>7, <2>1
  <2>2. CASE r # q
    <3>1. worker'[r] = worker[r]
      BY <1>2, <2>2
    <3>2. /\ worker[r].at = "acquire" => status'[worker[r].task] = "pending"
          /\ worker[r].at = "run" => status'[worker[r].task] = "running"
      BY <1>3, <1>7, <2>2 DEF Placed, Worked
    <3>3. worker[r].at = "acquire" =>
            \A u \in Submitters : sending[u] # NotSending => sending[u].task # worker[r].task
      BY DEF Placed, Worked
    <3>4. ASSUME NEW u \in QueueIds, worker[r].at \in {"acquire", "run"},
                 worker'[u].at = worker[r].at, worker'[u].task = worker[r].task
          PROVE  u = r
      BY <1>2, <1>7, <2>2, <3>4 DEF Placed, Worked
    <3> QED
      BY <1>1, <3>1, <3>2, <3>3, <3>4
  <2> QED
    BY <2>1, <2>2
<1>12. Begun'
  <2>1. \A u \in TaskIds : u > seq => u # t
    BY <1>4 DEF Placed, Begun
  <2>2. \A c \in Chats : chatQueues[c] # None => chatQueues[c] \in QueueIds
    BY DEF Shape, TypeOK
  <2> QED
    BY <1>1, <1>3, <1>8, <2>1, <2>2 DEF Placed, Begun
<1>13. NoneLost'
  <2> SUFFICES ASSUME ~cancelled, NEW u \in TaskIds, status'[u] = "pending" PROVE Somewhere(u)'
    BY <1>1 DEF NoneLost
  <2>1. u # t /\ status[u] = "pending"
    BY <1>3
  <2>2. Somewhere(u)
    BY <2>1 DEF Placed, NoneLost
  <2>3. \A r \in QueueIds : worker[r].task = u => worker'[r] = worker[r]
    BY <1>2, <2>1
  <2> QED
    BY <1>1, <2>2, <2>3 DEF Somewhere
<1>14. Attended'
  <2>1. \A r \in QueueIds : worker'[r].at = "exited" => worker[r].at = "exited"
    BY <1>2
  <2> QED
    BY <1>1, <2>1 DEF Placed, Attended
<1> QED
  BY <1>9, <1>10, <1>11, <1>12, <1>13, <1>14 DEF Placed

LEMMA PlacedNext == Shape /\ Sends /\ Placed /\ [Next]_vars => Placed'
<1> SUFFICES ASSUME Shape, Sends, Placed, [Next]_vars PROVE Placed'
  OBVIOUS
<1> USE DEF None
<1>0. CASE UNCHANGED vars
  BY <1>0
  DEF vars, taskVars, queueVars, Placed, Sent, Queued, Worked, Begun, NoneLost, Somewhere, Attended
<1>1. ASSUME NEW s \in Submitters, NEW c \in Chats, Submit(s, c) PROVE Placed'
  BY <1>1, PlacedSubmit
<1>2. ASSUME NEW s \in Submitters, Send(s) PROVE Placed'
  BY <1>2, PlacedSend
<1>3. ASSUME NEW q \in QueueIds, Receive(q) PROVE Placed'
  BY <1>3, PlacedReceive
<1>4. ASSUME NEW q \in QueueIds, Start(q) \/ Abandon(q) \/ Finish(q) PROVE Placed'
  BY <1>4, PlacedTask
<1>5. ASSUME NEW q \in QueueIds, Exit(q) \/ Release(q) \/ Stamp(q) PROVE Placed'
  <2> PICK p \in {"exited", "stamp", "recv"} :
        /\ worker'[q].at = p
        /\ p = "exited" => cancelled \/ (closed[q] /\ ch[q] = <<>>)
    BY <1>5 DEF Exit, Release, Stamp, Move, Shape, TypeOK
  <2>1. worker[q].at \notin {"none", "acquire", "run"}
    BY <1>5 DEF Exit, Release, Stamp, At
  <2>2. \A r \in QueueIds : r # q => worker'[r] = worker[r]
    BY <1>5 DEF Exit, Release, Stamp, Move, Shape, TypeOK
  <2>3. UNCHANGED <<seq, status, chatQueues, ch, closed, sending, cancelled>>
    BY <1>5 DEF Exit, Release, Stamp, taskVars, queueVars
  <2> QED
    BY <2>1, <2>2, <2>3, PlacedMove
<1>6. CASE Cleanup
  <2>1. /\ UNCHANGED <<seq, status, ch, sending, worker, cancelled>>
        /\ \A q \in QueueIds : closed[q] => closed'[q]
        /\ \A c \in Chats : chatQueues'[c] \in {None, chatQueues[c]}
    BY <1>6 DEF Cleanup, taskVars
  <2> QED
    BY <2>1
    DEF Placed, Sent, Queued, Worked, Begun, NoneLost, Somewhere, Attended
<1>7. CASE Prune
  <2>1. /\ UNCHANGED <<seq, chatQueues, ch, closed, sending, worker, cancelled>>
        /\ \A t \in TaskIds : status[t] # "finished" => status'[t] = status[t]
        /\ \A t \in TaskIds : status'[t] = "pending" => status[t] = "pending"
    BY <1>7 DEF Prune, Excess, queueVars
  <2>2. Sent'
    BY <2>1 DEF Placed, Sent, Shape, TypeOK, SendersNamed
  <2>3. Queued'
    <3>1. \A q \in QueueIds : \A i \in 1 .. Len(ch[q]) : ch[q][i] \in TaskIds
      BY ElementOfChannel
    <3> QED
      BY <2>1, <3>1 DEF Placed, Queued
  <2>4. Worked'
    <3>1. \A q \in QueueIds : worker[q].at \in Busy => worker[q].task \in TaskIds
      BY DEF Shape, TypeOK, WorkersNamed
    <3> QED
      BY <2>1, <3>1 DEF Placed, Worked, Busy
  <2>5. Begun' /\ Attended'
    BY <2>1 DEF Placed, Begun, Attended
  <2>6. NoneLost'
    BY <2>1 DEF Placed, NoneLost, Somewhere
  <2> QED
    BY <2>2, <2>3, <2>4, <2>5, <2>6 DEF Placed
<1>8. CASE Stop
  BY <1>8
  DEF Stop, taskVars, queueVars, Placed, Sent, Queued, Worked, Begun, NoneLost, Attended
<1>9. CASE Tick
  BY <1>9
  DEF Tick, taskVars, Placed, Sent, Queued, Worked, Begun, NoneLost, Somewhere, Attended
<1> QED
  BY <1>0, <1>1, <1>2, <1>3, <1>4, <1>5, <1>6, <1>7, <1>8, <1>9 DEF Next, WorkerStep

\* The three kinds of places are one set with the task in exactly one of them.
LEMMA OnePlace ==
  ASSUME Shape, Placed, ~cancelled, NEW t \in TaskIds, status[t] = "pending"
  PROVE  Cardinality(Places_(t)) = 1
<1> USE DEF None
<1>t. t # None /\ \A q \in QueueIds : DOMAIN ch[q] = 1 .. Len(ch[q])
  BY BoundsAssumption DEF TaskIds, Shape, TypeOK
<1>1. Somewhere(t)
  BY DEF Placed, NoneLost
<1>2. \A x \in Places_(t) :
        \/ \E s \in Submitters : sending[s].task = t /\ x = <<"sender", s>>
        \/ \E q \in QueueIds : x = <<"channel", q>> /\ \E i \in DOMAIN ch[q] : ch[q][i] = t
        \/ \E q \in QueueIds : x = <<"worker", q>> /\ worker[q].at = "acquire" /\ worker[q].task = t
  BY DEF Places_, At
<1>n. \A s \in Submitters : sending[s].task = t => sending[s] # NotSending
  BY <1>t DEF NotSending
<1>3. CASE \E s \in Submitters : sending[s] # NotSending /\ sending[s].task = t
  <2> PICK s \in Submitters : sending[s] # NotSending /\ sending[s].task = t
    BY <1>3
  <2>1. <<"sender", s>> \in Places_(t)
    BY DEF Places_
  <2>2. \A r \in Submitters : sending[r].task = t => r = s
    BY <1>n DEF Placed, Sent
  <2>3. \A q \in QueueIds : \A i \in DOMAIN ch[q] : ch[q][i] # t
    BY <1>t DEF Placed, Queued
  <2>4. \A q \in QueueIds : worker[q].at = "acquire" => worker[q].task # t
    BY DEF Placed, Worked
  <2>5. Places_(t) = {<<"sender", s>>}
    BY <1>2, <2>1, <2>2, <2>3, <2>4
  <2> QED
    BY <2>5, FS_Singleton
<1>4. CASE \E q \in QueueIds : \E i \in 1 .. Len(ch[q]) : ch[q][i] = t
  <2> PICK q \in QueueIds : \E i \in 1 .. Len(ch[q]) : ch[q][i] = t
    BY <1>4
  <2>1. <<"channel", q>> \in Places_(t)
    BY <1>t DEF Places_
  <2>2. \A s \in Submitters : sending[s].task # t
    BY <1>n DEF Placed, Queued
  <2>3. \A r \in QueueIds : (\E i \in DOMAIN ch[r] : ch[r][i] = t) => r = q
    BY <1>t DEF Placed, Queued
  <2>4. \A r \in QueueIds : worker[r].at = "acquire" => worker[r].task # t
    BY DEF Placed, Queued
  <2>5. Places_(t) = {<<"channel", q>>}
    BY <1>2, <2>1, <2>2, <2>3, <2>4
  <2> QED
    BY <2>5, FS_Singleton
<1>5. CASE \E q \in QueueIds : worker[q].at = "acquire" /\ worker[q].task = t
  <2> PICK q \in QueueIds : worker[q].at = "acquire" /\ worker[q].task = t
    BY <1>5
  <2>1. <<"worker", q>> \in Places_(t)
    BY DEF Places_, At
  <2>2. \A s \in Submitters : sending[s].task # t
    BY <1>n DEF Placed, Worked
  <2>3. \A r \in QueueIds : \A i \in DOMAIN ch[r] : ch[r][i] # t
    BY <1>t DEF Placed, Queued
  <2>4. \A r \in QueueIds : worker[r].at = "acquire" /\ worker[r].task = t => r = q
    BY DEF Placed, Worked
  <2>5. Places_(t) = {<<"worker", q>>}
    BY <1>2, <2>1, <2>2, <2>3, <2>4
  <2> QED
    BY <2>5, FS_Singleton
<1> QED
  BY <1>1, <1>3, <1>4, <1>5 DEF Somewhere

LEMMA PlacedAttends ==
  ASSUME Shape, Placed, ~cancelled, NEW q \in QueueIds, NEW i \in DOMAIN ch[q]
  PROVE  Live(q)
<1>1. ch[q] \in Seq(TaskIds) /\ i \in 1 .. Len(ch[q])
  BY DEF Shape, TypeOK
<1>2. worker[q].at # "none"
  BY <1>1 DEF Placed, Queued
<1>3. ch[q] # <<>>
  BY <1>1
<1> QED
  BY <1>2, <1>3 DEF Placed, Attended, Live

\* Whatever the sizes and the submitters, closing an idle queue, replacing it
\* and blocking on a full channel strand no task: until Stop a pending task is
\* in exactly one place, and its queue has a worker (queue.go:95-259).
THEOREM NoTaskIsStranded == Spec => []NoTaskStranded
<1>1. Init => Shape /\ Sends /\ Placed
  BY ShapeInit, SendsInit, PlacedInit
<1>2. Shape /\ Sends /\ Placed /\ [Next]_vars => (Shape /\ Sends /\ Placed)'
  BY ShapeNext, SendsNext, PlacedNext
<1>3. Shape /\ Placed => NoTaskStranded
  BY OnePlace, PlacedAttends DEF NoTaskStranded
<1> QED
  BY <1>1, <1>2, <1>3, PTL DEF Spec
=============================================================================
