---------------------------- MODULE SessionTurn ----------------------------
(***************************************************************************)
(* One conversation: its Session (internal/session/manager.go), the turns  *)
(* that HandleMessage runs on it (internal/agent/loop.go), and the router  *)
(* that steers a message into a running turn, queues it as a turn of its   *)
(* own, or injects another bot's message (internal/gateway/routing.go).    *)
(*                                                                         *)
(* A worker is a goroutine that runs turns one after another: the task     *)
(* queue's worker of a chat, or the web's.  Two workers share the session  *)
(* when the web opens an IM conversation or shared_identity merges two     *)
(* channels.  Every sender is the owner, so the trust level of a turn      *)
(* never refuses a steer.                                                  *)
(***************************************************************************)
EXTENDS WireMessages, FiniteSets

CONSTANTS
  Workers,    \* goroutines that run turns on this session
  Inbound,    \* messages of people, delivered once each
  BotPosts,   \* messages of other bots in the group
  StoreMode,  \* sessions are kept in the database and not in a file
  Cards,      \* some tools end the turn (meta "endsTurn")
  MaxRounds,  \* toolIterationLimit
  MaxCalls,   \* bound on the tool calls of the whole run
  CompactAt,  \* a longer history is compacted
  Keep,       \* PruneTurnAge
  MaxDisturbances   \* bound on failing writes and other bots' posts together

ASSUME ModeAssumption == StoreMode \in BOOLEAN /\ Cards \in BOOLEAN
ASSUME FiniteAssumption == IsFiniteSet(Workers) /\ IsFiniteSet(Inbound) /\ IsFiniteSet(BotPosts)
ASSUME NatAssumption ==
  MaxRounds \in Nat /\ MaxCalls \in Nat /\ CompactAt \in Nat /\ Keep \in Nat
  /\ MaxDisturbances \in Nat
\* A person's message is no bot's, and none is the absent one.
ASSUME MessagesAssumption == Inbound \cap BotPosts = {} /\ NoCall \notin Inbound \cup BotPosts

VARIABLES
  messages,   \* s.Messages, the working set in memory
  row,        \* what GetSession returns (the file in file mode)
  archive,    \* session_messages, append only (empty in file mode)
  unkept,     \* messages of people whose insert or line failed
  faults,     \* appends and rewrites with a failed write, so far
  turnDepth,  \* s.turnDepth
  steerBuf,   \* s.steerBuf
  queue,      \* the tasks each worker has not taken
  router,     \* the router: its place, the message, the worker it is for
  snap,       \* what the goroutine inside getByKey read
  pc,         \* the place of each worker
  turn,       \* the locals of the worker's turn
  calls,      \* tool calls made so far
  arrived,    \* messages the router took from the bus
  refused     \* messages the quota gate answered instead of a turn

session == <<messages, row, archive, unkept, faults>>
steer   == <<turnDepth, steerBuf>>
inbound == <<queue, router, arrived, refused>>
vars    == <<session, steer, inbound, snap, pc, turn, calls>>

\* A message of a person or a bot; nothing else tells two of them apart.
From(m) == [User EXCEPT !.id = m]

Summary == User
Warning == System
Answer  == Asst({}, TRUE)

NoTurn == [msg |-> NoCall, hand |-> <<>>, todo |-> {}, ctx |-> <<>>, round |-> 0, why |-> "none"]
Idle   == [at |-> "idle", msg |-> NoCall, to |-> NoCall]

Places == {"idle", "get", "read", "begin", "user", "context", "compact", "llm", "drain", "fold",
           "tools", "results", "final", "pad", "padding", "end", "park"}

TypeOK ==
  /\ turnDepth \in 0 .. Cardinality(Workers)
  /\ \A i \in DOMAIN steerBuf : steerBuf[i].msg \in Inbound /\ steerBuf[i].early \in BOOLEAN
  /\ queue \in [Workers -> Seq(Inbound)]
  /\ router.at \in {"idle", "get", "read", "push", "post"}
  /\ pc \in [Workers -> Places]
  /\ \A w \in Workers : turn[w].round \in 0 .. MaxRounds
  /\ calls \in 0 .. MaxCalls
  /\ arrived \subseteq Inbound \cup BotPosts /\ refused \subseteq Inbound
  /\ unkept \subseteq Inbound /\ faults \in 0 .. MaxDisturbances

Init ==
  /\ messages = <<>> /\ row = <<>> /\ archive = <<>>
  /\ unkept = {} /\ faults = 0
  /\ turnDepth = 0 /\ steerBuf = <<>>
  /\ queue = [w \in Workers |-> <<>>]
  /\ router = Idle
  /\ snap = <<>>
  /\ pc = [w \in Workers |-> "idle"]
  /\ turn = [w \in Workers |-> NoTurn]
  /\ calls = 0
  /\ arrived = {} /\ refused = {}

-----------------------------------------------------------------------------
(* Session.                                                                *)

\* Another write may fail, another bot may post.
Disturbable == faults + Cardinality(arrived \cap BotPosts) < MaxDisturbances

Spend(written) ==
  /\ written \/ Disturbable
  /\ faults' = IF written THEN faults ELSE faults + 1

\* Append: memory, the whole row (or a line of the file), the archive.  The
\* error of SaveSession is dropped, that of AppendMessage or of the file is
\* only printed.
AppendMsg(m) ==
  /\ messages' = Append(messages, m)
  /\ \E saved, kept \in BOOLEAN :
       /\ StoreMode \/ kept = saved
       /\ Spend(saved /\ kept)
       /\ row' = IF ~saved THEN row ELSE IF StoreMode THEN messages' ELSE Append(row, m)
       /\ archive' = IF StoreMode /\ kept THEN Append(archive, m) ELSE archive
       /\ unkept' = IF kept THEN unkept ELSE unkept \cup {x \in Inbound : m = From(x)}

\* ReplaceMessages drops the error of its write as well.
ReplaceMessages(h) ==
  /\ messages' = h
  /\ \E saved \in BOOLEAN : Spend(saved) /\ row' = IF saved THEN h ELSE row
  /\ UNCHANGED <<archive, unkept>>

\* The holder of m.mu is between the read of the row and the overwrite.
Loading == router.at = "read" \/ \E w \in Workers : pc[w] = "read"

\* getByKey reads the row ...
ReadRow == ~Loading /\ snap' = row

\* ... GetSession fails, and s.Messages stays as it is ...
ReadFails == StoreMode /\ ~Loading /\ UNCHANGED snap

\* ... or overwrites s.Messages with it, under a lock of its own.
OverwriteMessages ==
  /\ messages' = IF StoreMode THEN snap ELSE messages
  /\ snap' = <<>> /\ UNCHANGED <<row, archive, unkept, faults>>

\* Mutant: the buffer is cleared, and not handed out.
EndTurnDrops(w) ==
  /\ turnDepth' = turnDepth - 1
  /\ steerBuf' = IF turnDepth = 1 THEN <<>> ELSE steerBuf
  /\ UNCHANGED turn

\* Mutant: the leftovers stay in the buffer.
EndTurnKeeps(w) == turnDepth' = turnDepth - 1 /\ UNCHANGED <<turn, steerBuf>>

\* EndTurn hands out the leftovers when the last turn ends.
EndTurn(w) ==
  /\ turnDepth' = turnDepth - 1
  /\ IF turnDepth = 1
     THEN turn' = [turn EXCEPT ![w].hand = steerBuf] /\ steerBuf' = <<>>
     ELSE UNCHANGED <<turn, steerBuf>>

-----------------------------------------------------------------------------
(* The router: SteerInbound, then Submit; or InjectGroupMessage.           *)

Arrive(m, w) ==
  /\ router = Idle
  /\ m \in Inbound \ arrived
  /\ router' = [at |-> "get", msg |-> m, to |-> w]
  /\ arrived' = arrived \cup {m}
  /\ UNCHANGED <<session, steer, queue, refused, snap, pc, turn, calls>>

ArriveBot(m) ==
  /\ router = Idle
  /\ m \in BotPosts \ arrived /\ Disturbable
  /\ router' = [at |-> "get", msg |-> m, to |-> NoCall]
  /\ arrived' = arrived \cup {m}
  /\ UNCHANGED <<session, steer, queue, refused, snap, pc, turn, calls>>

Loaded == [router EXCEPT !.at = IF router.msg \in BotPosts THEN "post" ELSE "push"]

RouterGet ==
  /\ router.at = "get"
  /\ \/ ReadRow /\ router' = [router EXCEPT !.at = "read"]
     \/ ReadFails /\ router' = Loaded
  /\ UNCHANGED <<session, steer, queue, arrived, refused, pc, turn, calls>>

RouterLoad ==
  /\ router.at = "read"
  /\ OverwriteMessages
  /\ router' = Loaded
  /\ UNCHANGED <<steer, queue, arrived, refused, pc, turn, calls>>

\* A turn is still in its ReAct loop: it has not taken its last look at the
\* buffer.  A steer carries this as history, for RoundSteersFolded.
InLoop ==
  \E w \in Workers :
    pc[w] \in {"user", "context", "compact", "llm", "drain", "fold", "tools", "results"}

\* PushSteerIfActiveFrom, or Submit when no turn runs.
PushOrSubmit ==
  /\ router.at = "push"
  /\ IF turnDepth > 0
     THEN /\ steerBuf' = Append(steerBuf, [msg |-> router.msg, early |-> InLoop])
          /\ UNCHANGED queue
     ELSE /\ queue' = [queue EXCEPT ![router.to] = Append(@, router.msg)]
          /\ UNCHANGED steerBuf
  /\ router' = Idle
  /\ UNCHANGED <<session, turnDepth, arrived, refused, snap, pc, turn, calls>>

Inject ==
  /\ router.at = "post"
  /\ AppendMsg(From(router.msg))
  /\ router' = Idle
  /\ UNCHANGED <<steer, queue, arrived, refused, snap, pc, turn, calls>>

-----------------------------------------------------------------------------
(* HandleMessage, run by worker w.                                         *)

Go(w, p) == pc' = [pc EXCEPT ![w] = p]
Quiet    == UNCHANGED <<inbound, calls>>

\* The quota gate answers instead of the turn.
Refuse(w) ==
  /\ pc[w] = "idle" /\ queue[w] # <<>>
  /\ refused' = refused \cup {Head(queue[w])}
  /\ queue' = [queue EXCEPT ![w] = Tail(@)]
  /\ UNCHANGED <<session, steer, router, arrived, snap, pc, turn, calls>>

Take(w) ==
  /\ pc[w] = "idle" /\ queue[w] # <<>>
  /\ turn' = [turn EXCEPT ![w].msg = Head(queue[w])]
  /\ queue' = [queue EXCEPT ![w] = Tail(@)]
  /\ Go(w, "get")
  /\ UNCHANGED <<session, steer, router, arrived, refused, snap, calls>>

TurnGet(w) ==
  /\ pc[w] = "get"
  /\ \/ ReadRow /\ Go(w, "read")
     \/ ReadFails /\ Go(w, "begin")
  /\ UNCHANGED <<session, steer, turn>> /\ Quiet

TurnLoad(w) ==
  /\ pc[w] = "read"
  /\ OverwriteMessages
  /\ Go(w, "begin")
  /\ UNCHANGED <<steer, turn>> /\ Quiet

\* Mutant: the queue worker counts the turn as well as the loop.
BeginTwice(w) ==
  /\ pc[w] = "begin"
  /\ turnDepth' = turnDepth + 2
  /\ Go(w, "user")
  /\ UNCHANGED <<session, steerBuf, snap, turn>> /\ Quiet

BeginTurn(w) ==
  /\ pc[w] = "begin"
  /\ turnDepth' = turnDepth + 1
  /\ Go(w, "user")
  /\ UNCHANGED <<session, steerBuf, snap, turn>> /\ Quiet

AppendUser(w) ==
  /\ pc[w] = "user"
  /\ AppendMsg(From(turn[w].msg))
  /\ turn' = [turn EXCEPT ![w].msg = NoCall]
  /\ Go(w, "context")
  /\ UNCHANGED <<steer, snap>> /\ Quiet

\* The request starts from GetMessages, or from its compaction.
BuildContext(w) ==
  /\ pc[w] = "context"
  /\ IF Len(messages) > CompactAt
     THEN turn' = [turn EXCEPT ![w].ctx = messages] /\ Go(w, "compact")
     ELSE UNCHANGED turn /\ Go(w, "llm")
  /\ UNCHANGED <<session, steer, snap>> /\ Quiet

\* Mutant: the tail may begin with a tool message.
CutAnywhere(h) == Len(h) - Keep

\* safeCompactionCutoff: step past leading tool messages.
Cutoff(h) ==
  CHOOSE c \in (Len(h) - Keep) .. Len(h) :
    /\ \A k \in (Len(h) - Keep + 1) .. c : IsTool(h[k])
    /\ c < Len(h) => ~IsTool(h[c + 1])

Compacted(h) == IF Len(h) <= Keep THEN h ELSE <<Summary>> \o SubSeq(h, Cutoff(h) + 1, Len(h))

\* The summary took a model call, and may have failed; the turn replaces what
\* it read before it.
Compact(w) ==
  /\ pc[w] = "compact"
  /\ ReplaceMessages(turn[w].ctx) \/ ReplaceMessages(Compacted(turn[w].ctx))
  /\ turn' = [turn EXCEPT ![w].ctx = <<>>]
  /\ Go(w, "llm")
  /\ UNCHANGED <<steer, snap>> /\ Quiet

Leave(w, why) == turn' = [turn EXCEPT ![w].why = why] /\ Go(w, "pad")

\* Cancelled, or no provider: the turn returns at once.
CallCancelled(w) ==
  /\ pc[w] = "llm" /\ turn[w].round < MaxRounds
  /\ Leave(w, "cancelled")
  /\ UNCHANGED <<session, steer, snap>> /\ Quiet

\* Retries ran out, or the reply was empty: recordTurnFailure.
CallFails(w) ==
  /\ pc[w] = "llm" /\ turn[w].round < MaxRounds
  /\ AppendMsg(Answer)
  /\ Leave(w, "failed")
  /\ UNCHANGED <<steer, snap>> /\ Quiet

CallAnswers(w) ==
  /\ pc[w] = "llm" /\ turn[w].round < MaxRounds
  /\ AppendMsg(Answer)
  /\ Go(w, "drain")
  /\ UNCHANGED <<steer, snap, turn>> /\ Quiet

\* Mutant: the answer ends the turn without a last look at the buffer.
NoLastDrain(w) ==
  /\ pc[w] = "drain"
  /\ Leave(w, "answered")
  /\ UNCHANGED <<session, steer, snap>> /\ Quiet

\* The drain before the turn is declared done.
LastDrain(w) ==
  /\ pc[w] = "drain"
  /\ IF steerBuf = <<>>
     THEN Leave(w, "answered") /\ UNCHANGED steerBuf
     ELSE /\ turn' = [turn EXCEPT ![w].hand = steerBuf, ![w].round = @ + 1]
          /\ steerBuf' = <<>>
          /\ Go(w, "fold")
  /\ UNCHANGED <<session, turnDepth, snap>> /\ Quiet

\* appendSteer, one message at a time.
Fold(w) ==
  /\ pc[w] = "fold"
  /\ IF turn[w].hand = <<>>
     THEN Go(w, "llm") /\ UNCHANGED <<session, turn>>
     ELSE /\ AppendMsg(From(Head(turn[w].hand).msg))
          /\ turn' = [turn EXCEPT ![w].hand = Tail(@)]
          /\ UNCHANGED pc
  /\ UNCHANGED <<steer, snap>> /\ Quiet

CallsTools(w) ==
  /\ pc[w] = "llm" /\ turn[w].round < MaxRounds
  /\ \E n \in 1 .. (MaxCalls - calls) :
       LET ids == (calls + 1) .. (calls + n)
       IN  /\ AppendMsg(Asst(ids, FALSE))
           /\ turn' = [turn EXCEPT ![w].todo = ids, ![w].round = @ + 1]
           /\ calls' = calls + n
  /\ Go(w, "tools")
  /\ UNCHANGED <<steer, snap, inbound>>

\* Results are appended in the order of the calls.
Least(ids) == CHOOSE c \in ids : \A d \in ids : c <= d

\* The tools ran; a call with no result was given a failure.
ToolsReturn(w) ==
  /\ pc[w] = "tools"
  /\ Go(w, "results")
  /\ UNCHANGED <<session, steer, snap, turn>> /\ Quiet

AppendResult(w) ==
  /\ pc[w] = "results" /\ turn[w].todo # {}
  /\ AppendMsg(Tool(Least(turn[w].todo)))
  /\ turn' = [turn EXCEPT ![w].todo = @ \ {Least(@)}]
  /\ UNCHANGED <<steer, snap, pc>> /\ Quiet

\* A tool put a card in front of the person: the turn ends after this round.
EndOnCard(w) ==
  /\ Cards
  /\ pc[w] = "results" /\ turn[w].todo = {}
  /\ Leave(w, "card")
  /\ UNCHANGED <<session, steer, snap>> /\ Quiet

\* The drain between rounds; a repeated call is warned about first.
NextRound(w) ==
  /\ pc[w] = "results" /\ turn[w].todo = {}
  /\ UNCHANGED session \/ AppendMsg(Warning)
  /\ turn' = [turn EXCEPT ![w].hand = steerBuf]
  /\ steerBuf' = <<>>
  /\ Go(w, "fold")
  /\ UNCHANGED <<turnDepth, snap>> /\ Quiet

\* The loop detector cuts the turn off, or its rounds are used up.
CutOff(w) ==
  /\ \/ pc[w] = "results" /\ turn[w].todo = {}
     \/ pc[w] = "llm" /\ turn[w].round = MaxRounds
  /\ Go(w, "final")
  /\ UNCHANGED <<session, steer, snap, turn>> /\ Quiet

FinalDelivery(w) ==
  /\ pc[w] = "final"
  /\ AppendMsg(Answer)
  /\ Leave(w, "cut")
  /\ UNCHANGED <<steer, snap>> /\ Quiet

\* padOrphanToolResults: the calls of the latest assistant message that
\* declared some and that no later tool message answers.
LatestCalls(h) ==
  LET asked == {i \in DOMAIN h : h[i].calls # {}}
  IN  IF asked = {} THEN {}
      ELSE LET i == CHOOSE i \in asked : \A j \in asked : j <= i
           IN  h[i].calls \ {h[k].id : k \in {k \in DOMAIN h : k > i /\ IsTool(h[k])}}

Pad(w) ==
  /\ pc[w] = "pad"
  /\ turn' = [turn EXCEPT ![w].todo = LatestCalls(messages)]
  /\ Go(w, "padding")
  /\ UNCHANGED <<session, steer, snap>> /\ Quiet

AppendPad(w) ==
  /\ pc[w] = "padding"
  /\ IF turn[w].todo = {}
     THEN Go(w, "end") /\ UNCHANGED <<session, turn>>
     ELSE /\ AppendMsg(Tool(Least(turn[w].todo)))
          /\ turn' = [turn EXCEPT ![w].todo = @ \ {Least(@)}]
          /\ UNCHANGED pc
  /\ UNCHANGED <<steer, snap>> /\ Quiet

End(w) ==
  /\ pc[w] = "end"
  /\ EndTurn(w)
  /\ Go(w, "park")
  /\ UNCHANGED <<session, snap>> /\ Quiet

\* flushLeftoverSteer appends the leftovers; the turn is over.
Park(w) ==
  /\ pc[w] = "park"
  /\ IF turn[w].hand = <<>>
     THEN Go(w, "idle") /\ turn' = [turn EXCEPT ![w] = NoTurn] /\ UNCHANGED session
     ELSE /\ AppendMsg(From(Head(turn[w].hand).msg))
          /\ turn' = [turn EXCEPT ![w].hand = Tail(@)]
          /\ UNCHANGED pc
  /\ UNCHANGED <<steer, snap>> /\ Quiet

RouterStep == RouterGet \/ RouterLoad \/ PushOrSubmit \/ Inject

TurnStep(w) ==
  \/ Refuse(w) \/ Take(w) \/ TurnGet(w) \/ TurnLoad(w) \/ BeginTurn(w) \/ AppendUser(w)
  \/ BuildContext(w) \/ Compact(w) \/ CallCancelled(w) \/ CallFails(w) \/ CallAnswers(w)
  \/ LastDrain(w) \/ Fold(w) \/ CallsTools(w) \/ ToolsReturn(w) \/ AppendResult(w)
  \/ EndOnCard(w) \/ NextRound(w) \/ CutOff(w) \/ FinalDelivery(w)
  \/ Pad(w) \/ AppendPad(w) \/ End(w) \/ Park(w)

Next ==
  \/ \E m \in Inbound, w \in Workers : Arrive(m, w)
  \/ \E m \in BotPosts : ArriveBot(m)
  \/ RouterStep
  \/ \E w \in Workers : TurnStep(w)

Spec == Init /\ [][Next]_vars

\* The router and the turns are goroutines; a model call and a tool return.
Fairness == WF_vars(RouterStep) /\ \A w \in Workers : WF_vars(TurnStep(w))

FairSpec == Spec /\ Fairness

-----------------------------------------------------------------------------
(* Properties.                                                             *)

\* Turns that BeginTurn counted and EndTurn has not.
InTurn(w) == pc[w] \notin {"idle", "get", "read", "begin", "park"}

\* A steer is only ever buffered while a turn is in flight that will drain it,
\* and the counter agrees with the turns, overlapping or not
\* (manager.go:559-600).
NoSteerStranded ==
  /\ turnDepth = Cardinality({w \in Workers : InTurn(w)})
  /\ turnDepth = 0 => steerBuf = <<>>

\* What the history shows to the person: the archive, or the file.
Recorded == IF StoreMode THEN archive ELSE row

\* Where message m waits to be taken up, and where it has been.
WithRouter(m) == {<<"router">> : x \in {router.msg} \cap {m}}
InQueues(m) ==
  UNION {{<<"queue", w, i>> : i \in {i \in DOMAIN queue[w] : queue[w][i] = m}} : w \in Workers}
InTurns(m)  == {<<"turn", w>> : w \in {w \in Workers : turn[w].msg = m}}
InBuffer(m) == {<<"buffer", i>> : i \in {i \in DOMAIN steerBuf : steerBuf[i].msg = m}}
InHands(m)  ==
  UNION {{<<"hand", w, i>> : i \in {i \in DOMAIN turn[w].hand : turn[w].hand[i].msg = m}} :
           w \in Workers}
Waiting(m)  == WithRouter(m) \cup InQueues(m) \cup InTurns(m) \cup InBuffer(m) \cup InHands(m)

Settled(m) ==
  {<<"refused">> : x \in refused \cap {m}}
    \cup {<<"unkept">> : x \in unkept \cap {m}}
    \cup {<<"record", i>> : i \in {i \in DOMAIN Recorded : Recorded[i] = From(m)}}

\* Steered, queued or refused, a message a person sent is in one place at
\* every moment and in the record once, unless its own insert into the record
\* failed: the handoff between the router, the buffer and the turns neither
\* drops nor doubles it, nor does the failure of any other write or read
\* (manager.go:484-508, 591-640, loop.go:1969-1995).
AcceptedOnce == \A m \in arrived \cap Inbound : Cardinality(Waiting(m) \cup Settled(m)) = 1

\* "the between-rounds and pre-done drains cover every normal path"
\* (loop.go:1982-1983): a turn that ends normally parks no steer that came while it
\* was in its loop; it has answered it.
RoundSteersFolded ==
  \A w \in Workers :
    pc[w] = "park" /\ turn[w].why \in {"answered", "card"} =>
      \A i \in DOMAIN turn[w].hand : ~turn[w].hand[i].early

\* The tool message at k stands in the run that follows position i.
Follows(h, k, i) == i < k /\ \A l \in (i + 1) .. k : h[l].role = "tool"

WellFormed(h) ==
  /\ \A i \in DOMAIN h : \A c \in h[i].calls : \E k \in DOMAIN h : Follows(h, k, i) /\ h[k].id = c
  /\ \A k \in DOMAIN h : h[k].role = "tool" =>
       \E i \in DOMAIN h : Follows(h, k, i) /\ h[k].id \in h[i].calls
  /\ \A j, k \in DOMAIN h : h[j].role = "tool" /\ h[j] = h[k] => j = k

\* padOrphanToolResults pads so that "the session history stays well-formed"
\* (loop.go:2466): the history a request starts from has each call answered
\* once and in place.
ContextWellFormed == \A w \in Workers : pc[w] \in {"context", "llm"} => WellFormed(messages)

\* A load leaves the working set as it is: what GetSession read is what memory
\* holds when it is put back (manager.go:411-418).
ExactLoads == RouterLoad \/ (\E w \in Workers : TurnLoad(w)) => messages' = messages

\* padOrphanToolResults answers a call "that doesn't already have a matching
\* tool_result" (loop.go:3099-3101): no call is answered twice.
AnsweredOnce ==
  \A j, k \in DOMAIN messages :
    messages[j].role = "tool" /\ messages[j] = messages[k] => j = k

\* The working set keeps what the archive has ("losing one archive row is
\* recoverable from the working set", manager.go:475); without
\* compaction, once no load is under way.
NothingForgotten ==
  Loading \/ \A i \in DOMAIN archive : \E j \in DOMAIN messages : messages[j] = archive[i]

\* A message a person sent is refused by the gate or gets into the record,
\* unless its insert fails; a later compaction may take it out of the file.
EveryMessageEnds == \A m \in Inbound : (Waiting(m) # {}) ~> (Settled(m) # {})
=============================================================================
