------------------------- MODULE SessionTurnProofs -------------------------
(***************************************************************************)
(* Theorems about SessionTurn, for any number of messages and rounds.      *)
(*                                                                         *)
(* For any number of workers: the steer handoff (the turn counter agrees   *)
(* with the turns and no steer stays in the buffer once the last turn has  *)
(* ended), the types, and, with the sessions in the database, that each    *)
(* message of a person is in one place and in the record once.             *)
(*                                                                         *)
(* For one worker: a turn that answers has answered the steers of its      *)
(* loop, when no tool ends the turn; and every context has its tool calls  *)
(* answered in place, in no group and as long as each load of the session  *)
(* puts back what memory holds; in a file every load does.                 *)
(***************************************************************************)
EXTENDS SessionTurn, FiniteSetTheorems, WellFoundedInduction, TLAPS

\* The turns in flight, as a set.
Turns == {w \in Workers : InTurn(w)}

\* What a step keeps: every worker has a place, and the handoff is in order.
Handoff ==
  /\ pc \in [Workers -> Places]
  /\ turnDepth = Cardinality(Turns)
  /\ turnDepth = 0 => steerBuf = <<>>

LEMMA TurnsFinite == IsFiniteSet(Turns) /\ Cardinality(Turns) \in Nat
  BY FiniteAssumption, FS_Subset, FS_CardinalityType DEF Turns

\* A step that moves no worker keeps the set of turns.
LEMMA TurnsUnchanged ==
  ASSUME pc' = pc
  PROVE  Turns' = Turns
  BY DEF Turns, InTurn

\* The first state: no worker is in a turn.
LEMMA HandoffInit == Init => Handoff
<1> SUFFICES ASSUME Init PROVE Handoff
  OBVIOUS
<1>1. pc \in [Workers -> Places]
  BY DEF Init, Places
<1>2. Turns = {}
  BY DEF Init, Turns, InTurn
<1> QED
  BY <1>1, <1>2, FS_EmptySet DEF Init, Handoff

\* The worker's steps between BeginTurn and EndTurn, or outside both.
LEMMA HandoffStay ==
  ASSUME Handoff, NEW w \in Workers,
         \/ Refuse(w) \/ Take(w) \/ TurnGet(w) \/ TurnLoad(w) \/ AppendUser(w)
         \/ BuildContext(w) \/ Compact(w) \/ CallCancelled(w) \/ CallFails(w) \/ CallAnswers(w)
         \/ Fold(w) \/ CallsTools(w) \/ ToolsReturn(w) \/ AppendResult(w)
         \/ EndOnCard(w) \/ CutOff(w) \/ FinalDelivery(w)
         \/ Pad(w) \/ AppendPad(w) \/ Park(w)
  PROVE  Handoff'
<1>1. turnDepth' = turnDepth /\ steerBuf' = steerBuf
  BY DEF Refuse, Take, TurnGet, TurnLoad, AppendUser, BuildContext, Compact, CallCancelled,
         CallFails, CallAnswers, Fold, CallsTools, ToolsReturn, AppendResult, EndOnCard, CutOff,
         FinalDelivery, Pad, AppendPad, Park, steer
<1>2. pc' \in [Workers -> Places] /\ Turns' = Turns
  <2> DEFINE Away == {"idle", "get", "read", "begin", "park"}
             Move(p, q) == pc[w] = p /\ pc' = [pc EXCEPT ![w] = q]
  <2>1. CASE pc' = pc
    BY <2>1, TurnsUnchanged DEF Handoff
  <2>2. ASSUME NEW p \in Places, NEW q \in Places, Move(p, q), (p \in Away) <=> (q \in Away)
        PROVE  pc' \in [Workers -> Places] /\ Turns' = Turns
    BY <2>2 DEF Handoff, Turns, InTurn
  <2>3. CASE Refuse(w) \/ AppendResult(w)
    BY <2>3, <2>1 DEF Refuse, AppendResult
  <2>4. CASE Take(w) \/ TurnGet(w) \/ TurnLoad(w)
    <3>1. \/ Move("idle", "get") \/ Move("get", "read") \/ Move("get", "begin")
          \/ Move("read", "begin")
      BY <2>4 DEF Take, TurnGet, TurnLoad, Go
    <3> QED
      BY <3>1, <2>2 DEF Places
  <2>5. CASE AppendUser(w) \/ BuildContext(w) \/ Compact(w)
    <3>1. \/ Move("user", "context") \/ Move("context", "compact")
          \/ Move("context", "llm") \/ Move("compact", "llm")
      BY <2>5, Zenon DEF AppendUser, BuildContext, Compact, Go
    <3> QED
      BY <3>1, <2>2 DEF Places
  <2>6. CASE CallCancelled(w) \/ CallFails(w) \/ CallAnswers(w) \/ CallsTools(w) \/ ToolsReturn(w)
    <3>1. \/ Move("llm", "pad") \/ Move("llm", "drain") \/ Move("llm", "tools")
          \/ Move("tools", "results")
      BY <2>6, Zenon DEF CallCancelled, CallFails, CallAnswers, CallsTools, ToolsReturn, Leave, Go
    <3> QED
      BY <3>1, <2>2 DEF Places
  <2>7. CASE EndOnCard(w) \/ CutOff(w) \/ FinalDelivery(w) \/ Pad(w)
    <3>1. \/ Move("results", "pad") \/ Move("results", "final") \/ Move("llm", "final")
          \/ Move("final", "pad") \/ Move("pad", "padding")
      BY <2>7, Zenon DEF EndOnCard, CutOff, FinalDelivery, Pad, Leave, Go
    <3> QED
      BY <3>1, <2>2 DEF Places
  <2>8. CASE Fold(w) \/ AppendPad(w) \/ Park(w)
    <3>1. pc' = pc \/ Move("fold", "llm") \/ Move("padding", "end") \/ Move("park", "idle")
      BY <2>8, Zenon DEF Fold, AppendPad, Park, Go
    <3> QED
      BY <3>1, <2>1, <2>2 DEF Places
  <2> QED
    BY <2>3, <2>4, <2>5, <2>6, <2>7, <2>8
<1> QED
  BY <1>1, <1>2 DEF Handoff

\* The two drains empty the buffer and stay in the turn.
LEMMA HandoffDrain ==
  ASSUME Handoff, NEW w \in Workers, LastDrain(w) \/ NextRound(w)
  PROVE  Handoff'
<1>1. turnDepth' = turnDepth /\ (steerBuf' = steerBuf \/ steerBuf' = <<>>)
  BY DEF LastDrain, NextRound
<1>2. pc' = [pc EXCEPT ![w] = "pad"] \/ pc' = [pc EXCEPT ![w] = "fold"]
  <2>1. CASE LastDrain(w)
    BY <2>1, Zenon DEF LastDrain, Leave, Go
  <2>2. CASE NextRound(w)
    BY <2>2, Zenon DEF NextRound, Go
  <2> QED
    BY <2>1, <2>2
<1>3. pc[w] \in {"drain", "results"}
  BY DEF LastDrain, NextRound
<1>4. pc' \in [Workers -> Places]
  BY <1>2 DEF Handoff, Places
<1>5. Turns' = Turns
  BY <1>2, <1>3 DEF Handoff, Turns, InTurn
<1> QED
  BY <1>1, <1>4, <1>5 DEF Handoff

\* BeginTurn counts the worker that enters.
LEMMA HandoffBegin ==
  ASSUME Handoff, NEW w \in Workers, BeginTurn(w)
  PROVE  Handoff'
<1>1. pc' = [pc EXCEPT ![w] = "user"] /\ pc[w] = "begin" /\ turnDepth' = turnDepth + 1
  BY DEF BeginTurn, Go
<1>2. pc' \in [Workers -> Places]
  BY <1>1 DEF Handoff, Places
<1>3. w \notin Turns /\ Turns' = Turns \cup {w}
  BY <1>1 DEF Handoff, Turns, InTurn
<1>4. Cardinality(Turns') = Cardinality(Turns) + 1
  BY <1>3, TurnsFinite, FS_AddElement
<1> QED
  BY <1>1, <1>2, <1>4, TurnsFinite DEF Handoff

\* EndTurn counts it off; the last one empties the buffer.
LEMMA HandoffEnd ==
  ASSUME Handoff, NEW w \in Workers, End(w)
  PROVE  Handoff'
<1>1. pc' = [pc EXCEPT ![w] = "park"] /\ pc[w] = "end" /\ turnDepth' = turnDepth - 1
  BY DEF End, EndTurn, Go
<1>2. pc' \in [Workers -> Places]
  BY <1>1 DEF Handoff, Places
<1>3. w \in Turns /\ Turns' = Turns \ {w}
  BY <1>1 DEF Handoff, Turns, InTurn
<1>4. Cardinality(Turns') = Cardinality(Turns) - 1
  BY <1>3, TurnsFinite, FS_RemoveElement
<1>5. turnDepth = 1 => steerBuf' = <<>>
  BY DEF End, EndTurn
<1> QED
  BY <1>1, <1>2, <1>4, <1>5, TurnsFinite DEF Handoff

\* The router pushes only while the counter is above zero.
LEMMA HandoffRouter ==
  ASSUME Handoff,
         \/ \E m \in Inbound, w \in Workers : Arrive(m, w)
         \/ \E m \in BotPosts : ArriveBot(m)
         \/ RouterStep
  PROVE  Handoff'
<1>1. pc' = pc /\ turnDepth' = turnDepth
  BY DEF Arrive, ArriveBot, RouterStep, RouterGet, RouterLoad, PushOrSubmit, Inject, steer
<1>2. turnDepth > 0 \/ steerBuf' = steerBuf
  BY DEF Arrive, ArriveBot, RouterStep, RouterGet, RouterLoad, PushOrSubmit, Inject, steer
<1>3. Turns' = Turns
  BY <1>1, TurnsUnchanged
<1> QED
  BY <1>1, <1>2, <1>3 DEF Handoff

LEMMA HandoffStep == Handoff /\ [Next]_vars => Handoff'
<1> SUFFICES ASSUME Handoff, [Next]_vars PROVE Handoff'
  OBVIOUS
<1>1. CASE UNCHANGED vars
  <2>1. pc' = pc /\ turnDepth' = turnDepth /\ steerBuf' = steerBuf
    BY <1>1 DEF vars, steer
  <2> QED
    BY <2>1, TurnsUnchanged DEF Handoff
<1>2. ASSUME NEW w \in Workers, TurnStep(w) PROVE Handoff'
  BY <1>2, HandoffStay, HandoffDrain, HandoffBegin, HandoffEnd DEF TurnStep
<1> QED
  BY <1>1, <1>2, HandoffRouter DEF Next

\* A steer is only ever buffered while a turn that will drain it is counted,
\* and the counter is the number of turns (manager.go:559-600).
THEOREM NoSteerEverStranded == Spec => []NoSteerStranded
<1>1. Handoff => NoSteerStranded
  BY DEF Handoff, NoSteerStranded, Turns
<1> QED
  BY <1>1, HandoffInit, HandoffStep, PTL DEF Spec

-----------------------------------------------------------------------------
(* Types.  A message of the history, a buffered steer and the locals of a  *)
(* turn; the record of what the places of a turn allow its locals to be.   *)

Roles == {"user", "system", "assistant", "tool"}
Whys  == {"none", "cancelled", "failed", "answered", "card", "cut"}

Msg   == [role : Roles, id : Nat \cup Inbound \cup BotPosts, calls : SUBSET Nat, text : BOOLEAN]
Steer == [msg : Inbound, early : BOOLEAN]
Turn  == [msg : Inbound \cup {NoCall}, hand : Seq(Steer), todo : SUBSET Nat, ctx : Seq(Msg),
          round : 0 .. MaxRounds, why : Whys]

HistoryTyped ==
  /\ messages \in Seq(Msg) /\ row \in Seq(Msg) /\ archive \in Seq(Msg) /\ snap \in Seq(Msg)
  /\ unkept \subseteq Inbound /\ faults \in 0 .. MaxDisturbances

RouterTyped ==
  /\ router.at \in {"idle", "get", "read", "push", "post"}
  /\ router = [at |-> router.at, msg |-> router.msg, to |-> router.to]
  /\ router.at = "idle" => router.msg = NoCall
  /\ router.at # "idle" => router.msg \in arrived
  /\ router.at # "idle" /\ router.msg \in Inbound => router.to \in Workers
  /\ router.at = "push" => router.msg \in Inbound
  /\ router.at = "post" => router.msg \in BotPosts

Fetching == {"get", "read", "begin", "user"}

\* What a turn's place says of its locals: it keeps the message until it is
\* appended, and steers in hand only while it folds or parks them.
Local(t, p) ==
  /\ p \notin {"fold", "park"} => t.hand = <<>>
  /\ t.msg # NoCall <=> p \in Fetching
  /\ p = "drain" => t.round < MaxRounds

Locals == turn \in [Workers -> Turn] /\ \A w \in Workers : Local(turn[w], pc[w])

Typed ==
  /\ HistoryTyped
  /\ RouterTyped
  /\ Locals
  /\ steerBuf \in Seq(Steer)
  /\ queue \in [Workers -> Seq(Inbound)]
  /\ calls \in 0 .. MaxCalls
  /\ arrived \subseteq Inbound \cup BotPosts /\ refused \subseteq Inbound

\* A set of natural numbers that is not empty has a least one.
LEMMA LeastIs ==
  ASSUME NEW S \in SUBSET Nat, S # {}
  PROVE  Least(S) \in S /\ \A d \in S : Least(S) <= d
<1> DEFINE less == OpToRel(<, Nat)
<1>1. \A x, y \in Nat : x < y => <<x, y>> \in less
  BY Zenon DEF OpToRel
<1>2. \E x \in S : \A y \in S : ~(<<y, x>> \in less)
  BY NatLessThanWellFounded, WFMin
<1> HIDE DEF less
<1>3. PICK x \in S : \A y \in S : ~(<<y, x>> \in less)
  BY <1>2
<1>4. ASSUME NEW y \in S PROVE x <= y
  <2>1. x \in Nat /\ y \in Nat /\ ~(y < x)
    BY <1>1, <1>3, Zenon
  <2> QED
    BY <2>1
<1> QED
  BY <1>4 DEF Least

\* A bounded one has a greatest.
LEMMA GreatestIs ==
  ASSUME NEW S \in SUBSET Nat, S # {}, NEW n \in Nat, \A i \in S : i <= n
  PROVE  \E i \in S : \A j \in S : j <= i
<1> DEFINE T == {n - i : i \in S}
<1>1. T \in SUBSET Nat /\ T # {}
  <2>1. \A i \in S : n - i \in Nat
    OBVIOUS
  <2> QED
    BY <2>1
<1>2. PICK d : d \in T /\ \A e \in T : d <= e
  BY <1>1, LeastIs
<1>3. PICK i \in S : d = n - i
  BY <1>2
<1>4. \A j \in S : j <= i
  <2> SUFFICES ASSUME NEW j \in S PROVE j <= i
    OBVIOUS
  <2>1. n - j \in T
    OBVIOUS
  <2>2. n - i <= n - j
    BY <1>2, <1>3, <2>1
  <2> QED
    BY <2>2
<1> QED
  BY <1>4

LEMMA MsgTypes ==
  /\ \A m \in Inbound \cup BotPosts : From(m) \in Msg
  /\ Answer \in Msg /\ Warning \in Msg /\ Summary \in Msg
  /\ \A ids \in SUBSET Nat : Asst(ids, FALSE) \in Msg
  /\ \A c \in Nat : Tool(c) \in Msg
  BY DEF Msg, From, Answer, Warning, Summary, User, System, Asst, Tool, Roles, NoCall

\* A failing write is within the bound.
LEMMA SpendTyped ==
  ASSUME faults \in 0 .. MaxDisturbances, NEW b \in BOOLEAN, Spend(b)
  PROVE  faults' \in 0 .. MaxDisturbances
<1>1. Cardinality(arrived \cap BotPosts) \in Nat
  BY FiniteAssumption, FS_Subset, FS_CardinalityType
<1>2. MaxDisturbances \in Nat
  BY NatAssumption
<1>3. CASE b
  BY <1>3 DEF Spend
<1>4. CASE ~b
  <2>1. faults' = faults + 1 /\ faults + Cardinality(arrived \cap BotPosts) < MaxDisturbances
    BY <1>4 DEF Spend, Disturbable
  <2> QED
    BY <1>1, <1>2, <2>1
<1> QED
  BY <1>3, <1>4

\* What an append writes: memory always, the row and the record unless they fail.
LEMMA AppendMsgIs ==
  ASSUME NEW m, AppendMsg(m)
  PROVE  /\ messages' = Append(messages, m)
         /\ row' \in {row, Append(messages, m), Append(row, m)}
         /\ archive' \in {archive, Append(archive, m)}
         /\ unkept' \in {unkept, unkept \cup {x \in Inbound : m = From(x)}}
         /\ faults \in 0 .. MaxDisturbances => faults' \in 0 .. MaxDisturbances
<1>1. PICK saved \in BOOLEAN, kept \in BOOLEAN :
        /\ Spend(saved /\ kept)
        /\ row' = IF ~saved THEN row ELSE IF StoreMode THEN messages' ELSE Append(row, m)
        /\ archive' = IF StoreMode /\ kept THEN Append(archive, m) ELSE archive
        /\ unkept' = IF kept THEN unkept ELSE unkept \cup {x \in Inbound : m = From(x)}
  BY DEF AppendMsg
<1>2. messages' = Append(messages, m)
  BY DEF AppendMsg
<1>3. faults \in 0 .. MaxDisturbances => faults' \in 0 .. MaxDisturbances
  BY <1>1, SpendTyped
<1> QED
  BY <1>1, <1>2, <1>3

LEMMA HistoryAppend ==
  ASSUME HistoryTyped, NEW m \in Msg, AppendMsg(m), snap' = snap
  PROVE  HistoryTyped'
<1>1. Append(messages, m) \in Seq(Msg) /\ Append(row, m) \in Seq(Msg)
      /\ Append(archive, m) \in Seq(Msg)
  BY DEF HistoryTyped
<1> QED
  BY <1>1, AppendMsgIs DEF HistoryTyped

\* The compaction keeps a suffix of the history, behind a summary.
LEMMA CutoffIs ==
  ASSUME NEW h \in Seq(Msg), Len(h) > Keep
  PROVE  /\ Cutoff(h) \in (Len(h) - Keep) .. Len(h)
         /\ \A k \in (Len(h) - Keep + 1) .. Cutoff(h) : IsTool(h[k])
         /\ Cutoff(h) < Len(h) => ~IsTool(h[Cutoff(h) + 1])
<1> DEFINE a == Len(h) - Keep
<1> DEFINE S == {c \in a .. Len(h) : c < Len(h) => ~IsTool(h[c + 1])}
<1>1. a \in Nat /\ Len(h) \in Nat /\ a <= Len(h)
  BY NatAssumption
<1>2. S \in SUBSET Nat /\ Len(h) \in S
  BY <1>1
<1>3. PICK c : c \in S /\ \A d \in S : c <= d
  BY <1>2, LeastIs
<1>4. ASSUME NEW k \in (a + 1) .. c PROVE IsTool(h[k])
  <2>1. k - 1 \in a .. Len(h) /\ k - 1 < c /\ k - 1 < Len(h)
    BY <1>1, <1>3
  <2>2. k - 1 \notin S
    BY <1>3, <2>1
  <2>3. IsTool(h[(k - 1) + 1])
    BY <2>1, <2>2
  <2> QED
    BY <1>1, <2>3
<1>5. c \in a .. Len(h) /\ (c < Len(h) => ~IsTool(h[c + 1]))
  BY <1>3
<1> QED
  BY <1>4, <1>5, Zenon DEF Cutoff

LEMMA CompactedTyped ==
  ASSUME NEW h \in Seq(Msg)
  PROVE  Compacted(h) \in Seq(Msg)
<1>1. CASE Len(h) <= Keep
  BY <1>1 DEF Compacted
<1>2. CASE ~(Len(h) <= Keep)
  <2>1. Cutoff(h) \in (Len(h) - Keep) .. Len(h)
    BY <1>2, CutoffIs, NatAssumption
  <2>2. Cutoff(h) + 1 \in 1 .. Len(h) + 1
    BY <1>2, <2>1, NatAssumption
  <2>3. SubSeq(h, Cutoff(h) + 1, Len(h)) \in Seq(Msg)
    BY <2>2
  <2>4. <<Summary>> \in Seq(Msg)
    BY MsgTypes
  <2>5. <<Summary>> \o SubSeq(h, Cutoff(h) + 1, Len(h)) \in Seq(Msg)
    BY <2>3, <2>4
  <2> QED
    BY <1>2, <2>5 DEF Compacted
<1> QED
  BY <1>1, <1>2

LEMMA LatestCallsTyped ==
  ASSUME NEW h \in Seq(Msg)
  PROVE  LatestCalls(h) \in SUBSET Nat
<1> DEFINE asked == {i \in DOMAIN h : h[i].calls # {}}
<1>1. CASE asked = {}
  BY <1>1 DEF LatestCalls
<1>2. CASE asked # {}
  <2>1. asked \in SUBSET Nat /\ Len(h) \in Nat /\ \A i \in asked : i <= Len(h)
    OBVIOUS
  <2>2. \E i \in asked : \A j \in asked : j <= i
    BY <1>2, <2>1, GreatestIs
  <2> PICK i : i = CHOOSE n \in asked : \A j \in asked : j <= n
    OBVIOUS
  <2>3. i \in asked
    BY <2>2
  <2>4. h[i].calls \in SUBSET Nat
    <3>1. h[i] \in Msg
      BY <2>3
    <3> QED
      BY <3>1 DEF Msg
  <2>5. LatestCalls(h) \subseteq h[i].calls
    BY <1>2 DEF LatestCalls
  <2> QED
    BY <2>4, <2>5
<1> QED
  BY <1>1, <1>2

-----------------------------------------------------------------------------
(* Each step of a worker changes its own locals and place, and keeps them  *)
(* in accord.                                                              *)

LEMMA LocalStep ==
  ASSUME Locals, pc \in [Workers -> Places], NEW w \in Workers, NEW t \in Turn, NEW p \in Places,
         turn' = [turn EXCEPT ![w] = t], pc' = [pc EXCEPT ![w] = p], Local(t, p)
  PROVE  Locals'
<1>1. turn \in [Workers -> Turn] /\ \A v \in Workers : Local(turn[v], pc[v])
  BY DEF Locals
<1>2. turn' \in [Workers -> Turn]
  BY <1>1
<1>3. ASSUME NEW v \in Workers PROVE Local(turn'[v], pc'[v])
  <2>1. CASE v = w
    BY <1>1, <2>1
  <2>2. CASE v # w
    <3>1. turn'[v] = turn[v] /\ pc'[v] = pc[v]
      BY <2>2
    <3> QED
      BY <1>1, <3>1
  <2> QED
    BY <2>1, <2>2
<1> QED
  BY <1>2, <1>3 DEF Locals

LEMMA NoTurnTyped == NoTurn \in Turn
  BY NatAssumption DEF NoTurn, Turn, Steer, Whys, NoCall

\* The steps that change no local.
LEMMA LocalSame ==
  ASSUME Locals, pc \in [Workers -> Places], NEW w \in Workers, NEW p \in Places,
         turn' = turn, pc' = [pc EXCEPT ![w] = p], Local(turn[w], p)
  PROVE  Locals'
<1>1. turn[w] \in Turn /\ turn' = [turn EXCEPT ![w] = turn[w]]
  BY DEF Locals
<1> QED
  BY <1>1, LocalStep

\* Each local updated by itself.
LEMMA TurnUpdates ==
  ASSUME NEW t \in Turn
  PROVE  /\ \A m \in Inbound \cup {NoCall} : [t EXCEPT !.msg = m] \in Turn
         /\ \A h \in Seq(Steer) : [t EXCEPT !.hand = h] \in Turn
         /\ \A h \in Seq(Steer) : \A r \in 0 .. MaxRounds :
              [t EXCEPT !.hand = h, !.round = r] \in Turn
         /\ \A S \in SUBSET Nat : [t EXCEPT !.todo = S] \in Turn
         /\ \A S \in SUBSET Nat : \A r \in 0 .. MaxRounds :
              [t EXCEPT !.todo = S, !.round = r] \in Turn
         /\ \A h \in Seq(Msg) : [t EXCEPT !.ctx = h] \in Turn
         /\ \A y \in Whys : [t EXCEPT !.why = y] \in Turn
  BY DEF Turn

LEMMA LocalsNext ==
  ASSUME Typed, Handoff, NEW w \in Workers, TurnStep(w)
  PROVE  Locals'
<1> PICK t : t = turn[w]
  OBVIOUS
<1>0. /\ t \in Turn /\ Local(t, pc[w]) /\ pc \in [Workers -> Places] /\ Locals
      /\ turn \in [Workers -> Turn]
  BY DEF Typed, Locals, Handoff
<1>t. /\ t.msg \in Inbound \cup {NoCall} /\ t.hand \in Seq(Steer) /\ t.todo \in SUBSET Nat
      /\ t.round \in 0 .. MaxRounds /\ t.ctx \in Seq(Msg)
  BY <1>0 DEF Turn
<1>1. CASE Refuse(w)
  <2>1. turn' = turn /\ pc' = [pc EXCEPT ![w] = pc[w]]
    BY <1>0, <1>1 DEF Refuse
  <2> QED
    BY <1>0, <2>1, LocalSame
<1>2. CASE Take(w)
  <2> DEFINE u == [t EXCEPT !.msg = Head(queue[w])]
  <2>1. turn' = [turn EXCEPT ![w] = u] /\ pc' = [pc EXCEPT ![w] = "get"] /\ pc[w] = "idle"
    BY <1>2 DEF Take, Go
  <2>2. Head(queue[w]) \in Inbound
    <3>1. queue[w] \in Seq(Inbound) /\ queue[w] # <<>>
      BY <1>2 DEF Take, Typed
    <3> QED
      BY <3>1
  <2>3. u \in Turn /\ u.msg = Head(queue[w]) /\ u.hand = t.hand
    BY <1>0, <2>2, TurnUpdates DEF Turn
  <2>4. Local(u, "get")
    BY <1>0, <2>1, <2>2, <2>3, MessagesAssumption DEF Local, Fetching
  <2> HIDE DEF u
  <2> QED
    BY <1>0, <2>1, <2>3, <2>4, LocalStep DEF Places
<1>3. CASE TurnGet(w)
  <2>1. /\ turn' = turn /\ pc[w] = "get"
        /\ pc' = [pc EXCEPT ![w] = "read"] \/ pc' = [pc EXCEPT ![w] = "begin"]
    BY <1>3 DEF TurnGet, Go
  <2> QED
    BY <1>0, <2>1, LocalSame DEF Local, Fetching, Places
<1>4. CASE TurnLoad(w)
  <2>1. turn' = turn /\ pc' = [pc EXCEPT ![w] = "begin"] /\ pc[w] = "read"
    BY <1>4 DEF TurnLoad, Go
  <2> QED
    BY <1>0, <2>1, LocalSame DEF Local, Fetching, Places
<1>5. CASE BeginTurn(w)
  <2>1. turn' = turn /\ pc' = [pc EXCEPT ![w] = "user"] /\ pc[w] = "begin"
    BY <1>5 DEF BeginTurn, Go
  <2> QED
    BY <1>0, <2>1, LocalSame DEF Local, Fetching, Places
<1>6. CASE AppendUser(w)
  <2> DEFINE u == [t EXCEPT !.msg = NoCall]
  <2>1. turn' = [turn EXCEPT ![w] = u] /\ pc' = [pc EXCEPT ![w] = "context"] /\ pc[w] = "user"
    BY <1>6 DEF AppendUser, Go
  <2>2. u \in Turn /\ u.msg = NoCall /\ u.hand = t.hand
    BY <1>0, TurnUpdates DEF Turn
  <2>3. Local(u, "context")
    BY <1>0, <2>1, <2>2 DEF Local, Fetching
  <2> HIDE DEF u
  <2> QED
    BY <1>0, <2>1, <2>2, <2>3, LocalStep DEF Places
<1>7. CASE BuildContext(w)
  <2>0. messages \in Seq(Msg) /\ pc[w] = "context"
    BY <1>7 DEF BuildContext, Typed, HistoryTyped
  <2>1. CASE Len(messages) > CompactAt
    <3> DEFINE u == [t EXCEPT !.ctx = messages]
    <3>1. turn' = [turn EXCEPT ![w] = u] /\ pc' = [pc EXCEPT ![w] = "compact"]
      BY <1>7, <2>1 DEF BuildContext, Go
    <3>2. u \in Turn /\ u.msg = t.msg /\ u.hand = t.hand
      BY <1>0, <2>0, TurnUpdates DEF Turn
    <3>3. Local(u, "compact")
      BY <1>0, <2>0, <3>2 DEF Local, Fetching
    <3> HIDE DEF u
    <3> QED
      BY <1>0, <3>1, <3>2, <3>3, LocalStep DEF Places
  <2>2. CASE ~(Len(messages) > CompactAt)
    <3>1. turn' = turn /\ pc' = [pc EXCEPT ![w] = "llm"]
      BY <1>7, <2>2 DEF BuildContext, Go
    <3> QED
      BY <1>0, <2>0, <3>1, LocalSame DEF Local, Fetching, Places
  <2> QED
    BY <2>1, <2>2
<1>8. CASE Compact(w)
  <2> DEFINE u == [t EXCEPT !.ctx = <<>>]
  <2>1. turn' = [turn EXCEPT ![w] = u] /\ pc' = [pc EXCEPT ![w] = "llm"] /\ pc[w] = "compact"
    BY <1>8 DEF Compact, Go
  <2>2. u \in Turn /\ u.msg = t.msg /\ u.hand = t.hand
    <3>1. <<>> \in Seq(Msg)
      OBVIOUS
    <3>2. u \in Turn
      BY <1>0, <3>1, TurnUpdates
    <3> QED
      BY <1>0, <3>2 DEF Turn
  <2>3. Local(u, "llm")
    BY <1>0, <2>1, <2>2 DEF Local, Fetching
  <2> HIDE DEF u
  <2> QED
    BY <1>0, <2>1, <2>2, <2>3, LocalStep DEF Places
<1>9. ASSUME NEW y \in Whys, Leave(w, y), pc[w] \in {"llm", "drain", "results", "final"}
      PROVE  Locals'
  <2> DEFINE u == [t EXCEPT !.why = y]
  <2>1. turn' = [turn EXCEPT ![w] = u] /\ pc' = [pc EXCEPT ![w] = "pad"]
    BY <1>9 DEF Leave, Go
  <2>2. u \in Turn /\ u.msg = t.msg /\ u.hand = t.hand
    BY <1>0, TurnUpdates DEF Turn
  <2>3. Local(u, "pad")
    BY <1>0, <1>9, <2>2 DEF Local, Fetching
  <2> HIDE DEF u
  <2> QED
    BY <1>0, <2>1, <2>2, <2>3, LocalStep DEF Places
<1>10. CASE CallCancelled(w) \/ CallFails(w) \/ EndOnCard(w) \/ FinalDelivery(w)
  <2>1. /\ \E y \in Whys : Leave(w, y)
        /\ pc[w] \in {"llm", "drain", "results", "final"}
    BY <1>10 DEF CallCancelled, CallFails, EndOnCard, FinalDelivery, Whys
  <2> QED
    BY <1>9, <2>1
<1>11. CASE CallAnswers(w)
  <2>1. turn' = turn /\ pc' = [pc EXCEPT ![w] = "drain"] /\ pc[w] = "llm" /\ t.round < MaxRounds
    BY <1>11 DEF CallAnswers, Go
  <2> QED
    BY <1>0, <2>1, LocalSame DEF Local, Fetching, Places
<1>12. CASE LastDrain(w)
  <2>1. CASE steerBuf = <<>>
    <3>1. Leave(w, "answered") /\ pc[w] = "drain"
      BY <1>12, <2>1 DEF LastDrain
    <3> QED
      BY <1>9, <3>1 DEF Whys
  <2>2. CASE steerBuf # <<>>
    <3> DEFINE u == [t EXCEPT !.hand = steerBuf, !.round = t.round + 1]
    <3>1. turn' = [turn EXCEPT ![w] = u] /\ pc' = [pc EXCEPT ![w] = "fold"] /\ pc[w] = "drain"
      BY <1>0, <1>12, <2>2 DEF LastDrain, Go, Turn
    <3>2. t.round + 1 \in 0 .. MaxRounds
      BY <1>0, <1>t, <3>1, NatAssumption DEF Local
    <3>3. u \in Turn /\ u.msg = t.msg
      <4>1. u \in Turn
        BY <1>0, <3>2, TurnUpdates DEF Typed
      <4>2. u.msg = t.msg
        BY <1>0 DEF Turn
      <4> QED
        BY ONLY <4>1, <4>2
    <3>4. Local(u, "fold")
      BY <1>0, <3>1, <3>3 DEF Local, Fetching
    <3> HIDE DEF u
    <3> QED
      BY <1>0, <3>1, <3>3, <3>4, LocalStep DEF Places
  <2> QED
    BY <2>1, <2>2
<1>13. CASE Fold(w) \/ Park(w)
  <2>1. CASE t.hand = <<>> /\ Fold(w)
    <3>1. turn' = turn /\ pc' = [pc EXCEPT ![w] = "llm"] /\ pc[w] = "fold"
      BY <2>1 DEF Fold, Go
    <3> QED
      BY <1>0, <2>1, <3>1, LocalSame DEF Local, Fetching, Places
  <2>2. CASE t.hand = <<>> /\ Park(w)
    <3>1. turn' = [turn EXCEPT ![w] = NoTurn] /\ pc' = [pc EXCEPT ![w] = "idle"]
      BY <2>2 DEF Park, Go
    <3>2. Local(NoTurn, "idle")
      BY DEF Local, NoTurn, Fetching
    <3> QED
      BY <1>0, <3>1, <3>2, NoTurnTyped, LocalStep DEF Places
  <2>3. CASE t.hand # <<>>
    <3> DEFINE u == [t EXCEPT !.hand = Tail(t.hand)]
    <3>1. turn' = [turn EXCEPT ![w] = u] /\ pc' = pc /\ pc[w] \in {"fold", "park"}
      <4>1. turn[w].hand # <<>>
        BY <2>3
      <4>2. turn' = [turn EXCEPT ![w].hand = Tail(@)] /\ pc' = pc /\ pc[w] \in {"fold", "park"}
        BY <1>13, <4>1 DEF Fold, Park
      <4> QED
        BY <1>0, <4>2 DEF Turn
    <3>2. Tail(t.hand) \in Seq(Steer)
      BY <1>t, <2>3
    <3>3. u \in Turn /\ u.msg = t.msg
      <4>1. u \in Turn
        BY <1>0, <3>2, TurnUpdates
      <4>2. u.msg = t.msg
        BY <1>0 DEF Turn
      <4> QED
        BY ONLY <4>1, <4>2
    <3>4. Local(u, pc[w]) /\ pc' = [pc EXCEPT ![w] = pc[w]] /\ pc[w] \in Places
      BY <1>0, <3>1, <3>3 DEF Local, Fetching
    <3> HIDE DEF u
    <3> QED
      BY <1>0, <3>1, <3>3, <3>4, LocalStep
  <2> QED
    BY <1>13, <2>1, <2>2, <2>3
<1>14. CASE CallsTools(w)
  <2>1. PICK n \in 1 .. (MaxCalls - calls) :
          turn' = [turn EXCEPT ![w].todo = (calls + 1) .. (calls + n), ![w].round = @ + 1]
    BY <1>14 DEF CallsTools
  <2> DEFINE u == [t EXCEPT !.todo = (calls + 1) .. (calls + n), !.round = t.round + 1]
  <2>2. /\ turn' = [turn EXCEPT ![w] = u]
        /\ pc' = [pc EXCEPT ![w] = "tools"] /\ pc[w] = "llm" /\ t.round < MaxRounds
    BY <1>0, <1>14, <2>1 DEF CallsTools, Go, Turn
  <2>3. (calls + 1) .. (calls + n) \in SUBSET Nat /\ t.round + 1 \in 0 .. MaxRounds
    <3>1. calls \in Nat /\ n \in Nat
      BY NatAssumption DEF Typed
    <3>2. \A c \in (calls + 1) .. (calls + n) : c \in Nat
      BY <3>1
    <3>3. t.round + 1 \in 0 .. MaxRounds
      BY <1>t, <2>2, NatAssumption
    <3> QED
      BY <3>2, <3>3
  <2>4. u \in Turn /\ u.msg = t.msg /\ u.hand = t.hand
    <3>1. u \in Turn
      BY <1>0, <2>3, TurnUpdates
    <3>2. u.msg = t.msg /\ u.hand = t.hand
      BY <1>0 DEF Turn
    <3> QED
      BY ONLY <3>1, <3>2
  <2>5. Local(u, "tools")
    BY <1>0, <2>2, <2>4 DEF Local, Fetching
  <2> HIDE DEF u
  <2> QED
    BY <1>0, <2>2, <2>4, <2>5, LocalStep DEF Places
<1>15. CASE ToolsReturn(w)
  <2>1. turn' = turn /\ pc' = [pc EXCEPT ![w] = "results"] /\ pc[w] = "tools"
    BY <1>15 DEF ToolsReturn, Go
  <2> QED
    BY <1>0, <2>1, LocalSame DEF Local, Fetching, Places
<1>16. ASSUME NEW S \in SUBSET Nat, NEW p \in {"results", "padding"},
              turn' = [turn EXCEPT ![w].todo = S], pc' = [pc EXCEPT ![w] = p],
              pc[w] \in {"results", "pad", "padding"}
       PROVE  Locals'
  <2> DEFINE u == [t EXCEPT !.todo = S]
  <2>1. turn' = [turn EXCEPT ![w] = u]
    BY <1>0, <1>16
  <2>2. u \in Turn /\ u.msg = t.msg /\ u.hand = t.hand
    BY <1>0, TurnUpdates DEF Turn
  <2>3. Local(u, p) /\ p \in Places
    BY <1>0, <1>16, <2>2 DEF Local, Fetching, Places
  <2> HIDE DEF u
  <2> QED
    BY <1>0, <1>16, <2>1, <2>2, <2>3, LocalStep
<1>17. CASE AppendResult(w)
  <2>1. /\ turn' = [turn EXCEPT ![w].todo = t.todo \ {Least(t.todo)}]
        /\ pc' = [pc EXCEPT ![w] = "results"] /\ pc[w] = "results"
    BY <1>0, <1>17 DEF AppendResult
  <2> QED
    BY <1>t, <1>16, <2>1
<1>18. CASE NextRound(w)
  <2> DEFINE u == [t EXCEPT !.hand = steerBuf]
  <2>1. turn' = [turn EXCEPT ![w] = u] /\ pc' = [pc EXCEPT ![w] = "fold"] /\ pc[w] = "results"
    BY <1>18 DEF NextRound, Go
  <2>2. u \in Turn /\ u.msg = t.msg
    BY <1>0, TurnUpdates DEF Turn, Typed
  <2>3. Local(u, "fold")
    BY <1>0, <2>1, <2>2 DEF Local, Fetching
  <2> HIDE DEF u
  <2> QED
    BY <1>0, <2>1, <2>2, <2>3, LocalStep DEF Places
<1>19. CASE CutOff(w)
  <2>1. turn' = turn /\ pc' = [pc EXCEPT ![w] = "final"] /\ pc[w] \in {"results", "llm"}
    BY <1>19 DEF CutOff, Go
  <2> QED
    BY <1>0, <2>1, LocalSame DEF Local, Fetching, Places
<1>20. CASE Pad(w)
  <2>1. /\ turn' = [turn EXCEPT ![w].todo = LatestCalls(messages)]
        /\ pc' = [pc EXCEPT ![w] = "padding"] /\ pc[w] = "pad"
    BY <1>20 DEF Pad, Go
  <2>2. LatestCalls(messages) \in SUBSET Nat
    BY LatestCallsTyped DEF Typed, HistoryTyped
  <2> QED
    BY <1>16, <2>1, <2>2
<1>21. CASE AppendPad(w)
  <2>1. CASE t.todo = {}
    <3>1. turn' = turn /\ pc' = [pc EXCEPT ![w] = "end"] /\ pc[w] = "padding"
      BY <1>21, <2>1 DEF AppendPad, Go
    <3> QED
      BY <1>0, <3>1, LocalSame DEF Local, Fetching, Places
  <2>2. CASE t.todo # {}
    <3>1. /\ turn' = [turn EXCEPT ![w].todo = t.todo \ {Least(t.todo)}]
          /\ pc' = [pc EXCEPT ![w] = "padding"] /\ pc[w] = "padding"
      BY <1>0, <1>21, <2>2 DEF AppendPad
    <3> QED
      BY <1>t, <1>16, <3>1
  <2> QED
    BY <2>1, <2>2
<1>22. CASE End(w)
  <2>0. pc' = [pc EXCEPT ![w] = "park"] /\ pc[w] = "end"
    BY <1>22 DEF End, Go
  <2>1. CASE turnDepth = 1
    <3> DEFINE u == [t EXCEPT !.hand = steerBuf]
    <3>1. turn' = [turn EXCEPT ![w] = u]
      BY <1>22, <2>1 DEF End, EndTurn
    <3>2. u \in Turn /\ u.msg = t.msg
      BY <1>0, TurnUpdates DEF Turn, Typed
    <3>3. Local(u, "park")
      BY <1>0, <2>0, <3>2 DEF Local, Fetching
    <3> HIDE DEF u
    <3> QED
      BY <1>0, <2>0, <3>1, <3>2, <3>3, LocalStep DEF Places
  <2>2. CASE turnDepth # 1
    <3>1. turn' = turn
      BY <1>22, <2>2 DEF End, EndTurn
    <3> QED
      BY <1>0, <2>0, <3>1, LocalSame DEF Local, Fetching, Places
  <2> QED
    BY <2>1, <2>2
<1> QED
  BY <1>1, <1>2, <1>3, <1>4, <1>5, <1>6, <1>7, <1>8, <1>10, <1>11, <1>12, <1>13, <1>14, <1>15,
     <1>17, <1>18, <1>19, <1>20, <1>21, <1>22 DEF TurnStep

\* The history: each step appends a message, compacts, or copies the row.
LEMMA HistoryNext ==
  ASSUME Typed, NEW w \in Workers, TurnStep(w)
  PROVE  HistoryTyped'
<1>0. /\ HistoryTyped /\ turn[w] \in Turn /\ Local(turn[w], pc[w]) /\ calls \in Nat
  BY NatAssumption DEF Typed, Locals
<1>1. CASE \/ Refuse(w) \/ Take(w) \/ BeginTurn(w) \/ BuildContext(w) \/ CallCancelled(w)
           \/ LastDrain(w) \/ ToolsReturn(w) \/ EndOnCard(w) \/ CutOff(w) \/ Pad(w) \/ End(w)
  <2>1. UNCHANGED <<session, snap>>
    BY <1>1 DEF Refuse, Take, BeginTurn, BuildContext, CallCancelled, LastDrain, ToolsReturn,
                EndOnCard, CutOff, Pad, End
  <2> QED
    BY <1>0, <2>1 DEF HistoryTyped, session
<1>2. CASE TurnGet(w) \/ TurnLoad(w)
  <2>1. /\ messages' \in {messages, snap} /\ snap' \in {snap, row, <<>>}
        /\ UNCHANGED <<row, archive, unkept, faults>>
    BY <1>2 DEF TurnGet, TurnLoad, ReadRow, ReadFails, OverwriteMessages, session
  <2>2. <<>> \in Seq(Msg)
    OBVIOUS
  <2> QED
    BY <1>0, <2>1, <2>2 DEF HistoryTyped
<1>3. CASE AppendUser(w)
  <2>1. turn[w].msg \in Inbound
    BY <1>0, <1>3 DEF AppendUser, Local, Fetching, Turn
  <2>2. AppendMsg(From(turn[w].msg)) /\ snap' = snap
    BY <1>3 DEF AppendUser
  <2> QED
    BY <1>0, <2>1, <2>2, HistoryAppend, MsgTypes
<1>4. CASE CallFails(w) \/ CallAnswers(w) \/ FinalDelivery(w)
  <2>1. AppendMsg(Answer) /\ snap' = snap
    BY <1>4 DEF CallFails, CallAnswers, FinalDelivery
  <2> QED
    BY <1>0, <2>1, HistoryAppend, MsgTypes
<1>5. CASE Compact(w)
  <2> PICK h : h = turn[w].ctx
    OBVIOUS
  <2>1. h \in Seq(Msg)
    BY <1>0 DEF Turn
  <2>2. Compacted(h) \in Seq(Msg)
    BY <2>1, CompactedTyped
  <2>3. ReplaceMessages(h) \/ ReplaceMessages(Compacted(h))
    BY <1>5 DEF Compact
  <2>4. PICK g \in {h, Compacted(h)}, saved \in BOOLEAN :
          /\ messages' = g /\ Spend(saved) /\ row' = IF saved THEN g ELSE row
          /\ UNCHANGED <<archive, unkept>>
    BY <2>3 DEF ReplaceMessages
  <2>5. faults' \in 0 .. MaxDisturbances
    BY <1>0, <2>4, SpendTyped DEF HistoryTyped
  <2>6. g \in Seq(Msg) /\ snap' = snap
    BY <1>5, <2>1, <2>2 DEF Compact
  <2> QED
    BY <1>0, <2>4, <2>5, <2>6 DEF HistoryTyped
<1>6. CASE Fold(w) \/ Park(w)
  <2>0. snap' = snap
    BY <1>6 DEF Fold, Park
  <2>1. CASE turn[w].hand = <<>>
    <3>1. UNCHANGED session
      BY <1>6, <2>1 DEF Fold, Park
    <3> QED
      BY <1>0, <2>0, <3>1 DEF HistoryTyped, session
  <2>2. CASE turn[w].hand # <<>>
    <3> PICK m : m = Head(turn[w].hand).msg
      OBVIOUS
    <3>1. m \in Inbound
      <4>1. turn[w].hand \in Seq(Steer)
        BY <1>0 DEF Turn
      <4>2. Head(turn[w].hand) \in Steer
        BY <2>2, <4>1
      <4> QED
        BY <4>2 DEF Steer
    <3>2. AppendMsg(From(m))
      BY <1>6, <2>2 DEF Fold, Park
    <3> QED
      BY <1>0, <2>0, <3>1, <3>2, HistoryAppend, MsgTypes
  <2> QED
    BY <2>1, <2>2
<1>7. CASE CallsTools(w)
  <2>1. PICK n \in 1 .. (MaxCalls - calls) : AppendMsg(Asst((calls + 1) .. (calls + n), FALSE))
    BY <1>7 DEF CallsTools
  <2>2. n \in Nat
    BY <1>0, NatAssumption
  <2>3. \A c \in (calls + 1) .. (calls + n) : c \in Nat
    BY <1>0, <2>2
  <2>4. (calls + 1) .. (calls + n) \in SUBSET Nat /\ snap' = snap
    BY <1>7, <2>3 DEF CallsTools
  <2> QED
    BY <1>0, <2>1, <2>4, HistoryAppend, MsgTypes
<1>8. CASE AppendResult(w) \/ AppendPad(w)
  <2> PICK S : S = turn[w].todo
    OBVIOUS
  <2>0. S \in SUBSET Nat
    BY <1>0 DEF Turn
  <2>1. CASE S = {}
    <3>1. UNCHANGED <<session, snap>>
      BY <1>8, <2>1 DEF AppendResult, AppendPad
    <3> QED
      BY <1>0, <3>1 DEF HistoryTyped, session
  <2>2. CASE S # {}
    <3>1. Least(S) \in Nat
      BY <2>0, <2>2, LeastIs
    <3>2. AppendMsg(Tool(Least(S))) /\ snap' = snap
      BY <1>8, <2>2 DEF AppendResult, AppendPad
    <3> QED
      BY <1>0, <3>1, <3>2, HistoryAppend, MsgTypes
  <2> QED
    BY <2>1, <2>2
<1>9. CASE NextRound(w)
  <2>1. (UNCHANGED session \/ AppendMsg(Warning)) /\ snap' = snap
    BY <1>9 DEF NextRound
  <2>2. CASE UNCHANGED session
    BY <1>0, <2>1, <2>2 DEF HistoryTyped, session
  <2> QED
    BY <1>0, <2>1, <2>2, HistoryAppend, MsgTypes
<1> QED
  BY <1>1, <1>2, <1>3, <1>4, <1>5, <1>6, <1>7, <1>8, <1>9 DEF TurnStep

\* The rest of what a worker's step changes.
LEMMA InboundNext ==
  ASSUME Typed, NEW w \in Workers, TurnStep(w)
  PROVE  /\ router' = router /\ arrived' = arrived
         /\ steerBuf' \in Seq(Steer)
         /\ queue' \in [Workers -> Seq(Inbound)]
         /\ calls' \in 0 .. MaxCalls
         /\ refused' \subseteq Inbound
<1>0. /\ steerBuf \in Seq(Steer) /\ queue \in [Workers -> Seq(Inbound)]
      /\ calls \in 0 .. MaxCalls /\ refused \subseteq Inbound
  BY DEF Typed
<1>1. CASE Refuse(w) \/ Take(w)
  <2>1. /\ UNCHANGED <<router, arrived, steerBuf, calls>>
        /\ queue[w] # <<>> /\ queue' = [queue EXCEPT ![w] = Tail(@)]
        /\ refused' \subseteq refused \cup {Head(queue[w])}
    BY <1>1 DEF Refuse, Take, steer
  <2>2. queue[w] \in Seq(Inbound)
    BY <1>0
  <2>3. Tail(queue[w]) \in Seq(Inbound) /\ Head(queue[w]) \in Inbound
    BY <2>1, <2>2
  <2> QED
    BY <1>0, <2>1, <2>3
<1>2. CASE CallsTools(w)
  <2>1. PICK n \in 1 .. (MaxCalls - calls) : calls' = calls + n
    BY <1>2 DEF CallsTools
  <2>2. calls' \in 0 .. MaxCalls
    BY <1>0, <2>1, NatAssumption
  <2>3. UNCHANGED <<router, arrived, steerBuf, queue, refused>>
    BY <1>2 DEF CallsTools, steer, inbound
  <2> QED
    BY <1>0, <2>2, <2>3
<1>3. CASE LastDrain(w) \/ NextRound(w) \/ End(w)
  <2>1. UNCHANGED <<router, arrived, queue, refused, calls>> /\ steerBuf' \in {steerBuf, <<>>}
    BY <1>3 DEF LastDrain, NextRound, End, EndTurn, Quiet, inbound
  <2>2. <<>> \in Seq(Steer)
    OBVIOUS
  <2> QED
    BY <1>0, <2>1, <2>2
<1>4. ASSUME \/ TurnGet(w) \/ TurnLoad(w) \/ BeginTurn(w) \/ AppendUser(w) \/ BuildContext(w)
             \/ Compact(w) \/ CallCancelled(w) \/ CallFails(w) \/ CallAnswers(w) \/ Fold(w)
             \/ ToolsReturn(w) \/ AppendResult(w) \/ EndOnCard(w) \/ CutOff(w)
             \/ FinalDelivery(w) \/ Pad(w) \/ AppendPad(w) \/ Park(w)
      PROVE  UNCHANGED <<router, arrived, queue, refused, calls, steerBuf>>
  <2>1. UNCHANGED <<inbound, calls>>
    BY <1>4 DEF TurnGet, TurnLoad, BeginTurn, AppendUser, BuildContext, Compact, CallCancelled,
                CallFails, CallAnswers, Fold, ToolsReturn, AppendResult, EndOnCard, CutOff,
                FinalDelivery, Pad, AppendPad, Park, Quiet
  <2>2. steerBuf' = steerBuf
    BY <1>4 DEF TurnGet, TurnLoad, BeginTurn, AppendUser, BuildContext, Compact, CallCancelled,
                CallFails, CallAnswers, Fold, ToolsReturn, AppendResult, EndOnCard, CutOff,
                FinalDelivery, Pad, AppendPad, Park, steer
  <2> QED
    BY <2>1, <2>2 DEF inbound
<1> QED
  BY <1>0, <1>1, <1>2, <1>3, <1>4 DEF TurnStep

\* The router's steps change no turn.
LEMMA LocalsSame ==
  ASSUME Locals, UNCHANGED <<pc, turn>>
  PROVE  Locals'
  BY DEF Locals, Local, Fetching

LEMMA TypedRouter ==
  ASSUME Typed,
         \/ \E m \in Inbound, w \in Workers : Arrive(m, w)
         \/ \E m \in BotPosts : ArriveBot(m)
         \/ RouterStep
  PROVE  Typed'
<1>0. UNCHANGED <<pc, turn, calls, refused>>
  BY DEF Arrive, ArriveBot, RouterStep, RouterGet, RouterLoad, PushOrSubmit, Inject
<1>l. Locals'
  BY <1>0, LocalsSame DEF Typed
<1>1. CASE \E m \in Inbound, w \in Workers : Arrive(m, w)
  <2>1. PICK m \in Inbound, w \in Workers : Arrive(m, w)
    BY <1>1
  <2>2. /\ router' = [at |-> "get", msg |-> m, to |-> w] /\ arrived' = arrived \cup {m}
        /\ UNCHANGED <<messages, row, archive, unkept, faults, snap, steerBuf, queue>>
    BY <2>1 DEF Arrive, session, steer
  <2>3. RouterTyped'
    BY <2>2 DEF RouterTyped
  <2> QED
    BY <1>0, <1>l, <2>2, <2>3 DEF Typed, HistoryTyped
<1>2. CASE \E m \in BotPosts : ArriveBot(m)
  <2>1. PICK m \in BotPosts : ArriveBot(m)
    BY <1>2
  <2>2. /\ router' = [at |-> "get", msg |-> m, to |-> NoCall] /\ arrived' = arrived \cup {m}
        /\ UNCHANGED <<messages, row, archive, unkept, faults, snap, steerBuf, queue>>
    BY <2>1 DEF ArriveBot, session, steer
  <2>3. RouterTyped'
    BY <2>2, MessagesAssumption DEF RouterTyped
  <2> QED
    BY <1>0, <1>l, <2>2, <2>3 DEF Typed, HistoryTyped
<1>3. CASE RouterGet
  <2> PICK q : q = IF router.msg \in BotPosts THEN "post" ELSE "push"
    OBVIOUS
  <2>1. /\ router.at = "get" /\ snap' \in {snap, row}
        /\ router' = [router EXCEPT !.at = "read"] \/ router' = [router EXCEPT !.at = q]
        /\ UNCHANGED <<messages, row, archive, unkept, faults, arrived, steerBuf, queue>>
    BY <1>3 DEF RouterGet, ReadRow, ReadFails, Loaded, session, steer
  <2>2. PICK p \in {"read", q} : router' = [router EXCEPT !.at = p]
    BY <2>1
  <2>3. /\ router'.at = p /\ router'.msg = router.msg /\ router'.to = router.to
        /\ router' = [at |-> p, msg |-> router.msg, to |-> router.to]
    BY <2>2 DEF Typed, RouterTyped
  <2>4. router.msg \in Inbound \cup BotPosts /\ arrived' = arrived
    BY <2>1 DEF Typed, RouterTyped
  <2>5. RouterTyped'
    BY <2>1, <2>2, <2>3, <2>4 DEF Typed, RouterTyped
  <2> QED
    BY <1>0, <1>l, <2>1, <2>5 DEF Typed, HistoryTyped
<1>4. CASE RouterLoad
  <2> PICK q : q = IF router.msg \in BotPosts THEN "post" ELSE "push"
    OBVIOUS
  <2>1. /\ router.at = "read" /\ router' = [router EXCEPT !.at = q]
        /\ messages' \in {messages, snap} /\ snap' = <<>>
        /\ UNCHANGED <<row, archive, unkept, faults, arrived, steerBuf, queue>>
    BY <1>4 DEF RouterLoad, OverwriteMessages, Loaded, steer
  <2>2. /\ router'.at = q /\ router'.msg = router.msg /\ router'.to = router.to
        /\ router' = [at |-> q, msg |-> router.msg, to |-> router.to]
    BY <2>1 DEF Typed, RouterTyped
  <2>3. router.msg \in Inbound \cup BotPosts /\ arrived' = arrived
    BY <2>1 DEF Typed, RouterTyped
  <2>4. RouterTyped'
    BY <2>1, <2>2, <2>3 DEF Typed, RouterTyped
  <2>5. HistoryTyped'
    <3>1. <<>> \in Seq(Msg)
      OBVIOUS
    <3> QED
      BY <2>1, <3>1 DEF Typed, HistoryTyped
  <2> QED
    BY <1>0, <1>l, <2>1, <2>4, <2>5 DEF Typed
<1>i. router' = Idle => RouterTyped'
  BY DEF RouterTyped, Idle
<1>5. CASE PushOrSubmit
  <2> PICK m, v : m = router.msg /\ v = router.to
    OBVIOUS
  <2>1. /\ m \in Inbound /\ v \in Workers /\ router' = Idle
        /\ UNCHANGED <<messages, row, archive, unkept, faults, snap, arrived>>
    BY <1>5 DEF PushOrSubmit, Typed, RouterTyped, session
  <2>2. CASE turnDepth > 0
    <3> PICK e : e = InLoop
      OBVIOUS
    <3>1. steerBuf' = Append(steerBuf, [msg |-> m, early |-> e]) /\ queue' = queue
      BY <1>5, <2>2 DEF PushOrSubmit
    <3>2. [msg |-> m, early |-> e] \in Steer
      BY <2>1 DEF Steer, InLoop
    <3>3. steerBuf' \in Seq(Steer)
      BY <3>1, <3>2 DEF Typed
    <3> QED
      BY <1>0, <1>l, <1>i, <2>1, <3>1, <3>3 DEF Typed, HistoryTyped
  <2>3. CASE ~(turnDepth > 0)
    <3>1. queue' = [queue EXCEPT ![v] = Append(@, m)] /\ steerBuf' = steerBuf
      BY <1>5, <2>3 DEF PushOrSubmit
    <3>2. Append(queue[v], m) \in Seq(Inbound)
      BY <2>1 DEF Typed
    <3>3. queue' \in [Workers -> Seq(Inbound)]
      BY <3>1, <3>2 DEF Typed
    <3> QED
      BY <1>0, <1>l, <1>i, <2>1, <3>1, <3>3 DEF Typed, HistoryTyped
  <2> QED
    BY <2>2, <2>3
<1>6. CASE Inject
  <2> PICK m : m = router.msg
    OBVIOUS
  <2>1. /\ m \in BotPosts /\ router' = Idle /\ AppendMsg(From(m))
        /\ UNCHANGED <<snap, arrived, steerBuf, queue>>
    BY <1>6 DEF Inject, Typed, RouterTyped, steer
  <2>2. HistoryTyped'
    BY <2>1, HistoryAppend, MsgTypes DEF Typed
  <2> QED
    BY <1>0, <1>l, <1>i, <2>1, <2>2 DEF Typed
<1> QED
  BY <1>1, <1>2, <1>3, <1>4, <1>5, <1>6 DEF RouterStep

LEMMA TypedInit == Init => Typed
<1> SUFFICES ASSUME Init PROVE Typed
  OBVIOUS
<1>1. HistoryTyped /\ steerBuf \in Seq(Steer) /\ queue \in [Workers -> Seq(Inbound)]
  BY NatAssumption DEF Init, HistoryTyped
<1>2. RouterTyped
  BY DEF Init, RouterTyped, Idle
<1>3. Locals
  BY NoTurnTyped DEF Init, Locals, Local, Fetching, NoTurn
<1> QED
  BY <1>1, <1>2, <1>3, NatAssumption DEF Init, Typed

LEMMA TypedStep == Typed /\ Handoff /\ [Next]_vars => Typed'
<1> SUFFICES ASSUME Typed, Handoff, [Next]_vars PROVE Typed'
  OBVIOUS
<1>1. CASE UNCHANGED vars
  <2>1. /\ UNCHANGED <<messages, row, archive, unkept, faults, snap, router, arrived, refused>>
        /\ UNCHANGED <<queue, steerBuf, calls, pc, turn>>
    BY <1>1 DEF vars, session, steer, inbound
  <2>2. Locals'
    BY <2>1, LocalsSame DEF Typed
  <2> QED
    BY <2>1, <2>2 DEF Typed, HistoryTyped, RouterTyped
<1>2. ASSUME NEW w \in Workers, TurnStep(w) PROVE Typed'
  <2>1. RouterTyped'
    BY <1>2, InboundNext DEF Typed, RouterTyped
  <2> QED
    BY <1>2, <2>1, LocalsNext, HistoryNext, InboundNext DEF Typed
<1> QED
  BY <1>1, <1>2, TypedRouter DEF Next

\* Every state is of its types; that the counter is no more than the workers
\* and that a drain never counts a round beyond the limit needs the handoff
\* and the places (manager.go:559-600, loop.go:1895-2462).
THEOREM TypeCorrect == Spec => []TypeOK
<1>1. Init => Typed /\ Handoff
  BY TypedInit, HandoffInit
<1>2. (Typed /\ Handoff) /\ [Next]_vars => (Typed /\ Handoff)'
  BY TypedStep, HandoffStep
<1>3. Typed /\ Handoff => TypeOK
  <2> SUFFICES ASSUME Typed, Handoff PROVE TypeOK
    OBVIOUS
  <2>1. turnDepth \in 0 .. Cardinality(Workers)
    <3>1. Cardinality(Turns) <= Cardinality(Workers) /\ Cardinality(Workers) \in Nat
      BY FiniteAssumption, FS_Subset, FS_CardinalityType DEF Turns
    <3> QED
      BY <3>1, TurnsFinite DEF Handoff
  <2>2. \A i \in DOMAIN steerBuf : steerBuf[i].msg \in Inbound /\ steerBuf[i].early \in BOOLEAN
    <3>1. \A i \in DOMAIN steerBuf : steerBuf[i] \in Steer
      BY DEF Typed
    <3> QED
      BY <3>1 DEF Steer
  <2>3. \A w \in Workers : turn[w].round \in 0 .. MaxRounds
    BY DEF Typed, Locals, Turn
  <2> QED
    BY <2>1, <2>2, <2>3 DEF Typed, Handoff, HistoryTyped, RouterTyped, TypeOK
<1> QED
  BY <1>1, <1>2, <1>3, PTL DEF Spec

-----------------------------------------------------------------------------
(* AcceptedOnce, for sessions kept in the database.  A message of a person *)
(* is in the router, queued, the one a turn begins with, buffered, in a    *)
(* turn's hand, refused, or archived unless its insert failed: in one of   *)
(* these, and there once.                                                  *)

AtRouter(m) == router.msg = m
Queued(m)   == \E w \in Workers : \E i \in DOMAIN queue[w] : queue[w][i] = m
Begins(m)   == \E w \in Workers : turn[w].msg = m
Buffered(m) == \E i \in DOMAIN steerBuf : steerBuf[i].msg = m
InHand(m)   == \E w \in Workers : \E i \in DOMAIN turn[w].hand : turn[w].hand[i].msg = m
Refused(m)  == m \in refused
Archived(m) == m \in unkept \/ \E i \in DOMAIN archive : archive[i] = From(m)

Somewhere(m) ==
  AtRouter(m) \/ Queued(m) \/ Begins(m) \/ Buffered(m) \/ InHand(m) \/ Refused(m) \/ Archived(m)

Apart(m) ==
  /\ AtRouter(m) =>
       ~Queued(m) /\ ~Begins(m) /\ ~Buffered(m) /\ ~InHand(m) /\ ~Refused(m) /\ ~Archived(m)
  /\ Queued(m) => ~Begins(m) /\ ~Buffered(m) /\ ~InHand(m) /\ ~Refused(m) /\ ~Archived(m)
  /\ Begins(m) => ~Buffered(m) /\ ~InHand(m) /\ ~Refused(m) /\ ~Archived(m)
  /\ Buffered(m) => ~InHand(m) /\ ~Refused(m) /\ ~Archived(m)
  /\ InHand(m) => ~Refused(m) /\ ~Archived(m)
  /\ Refused(m) => ~Archived(m)

QueuedOnce ==
  \A v, w \in Workers : \A i \in DOMAIN queue[v], j \in DOMAIN queue[w] :
    queue[v][i] = queue[w][j] => v = w /\ i = j
BeginsOnce ==
  \A v, w \in Workers : turn[v].msg = turn[w].msg /\ turn[v].msg # NoCall => v = w
BufferedOnce ==
  \A i, j \in DOMAIN steerBuf : steerBuf[i].msg = steerBuf[j].msg => i = j
InHandOnce ==
  \A v, w \in Workers : \A i \in DOMAIN turn[v].hand, j \in DOMAIN turn[w].hand :
    turn[v].hand[i].msg = turn[w].hand[j].msg => v = w /\ i = j
ArchivedOnce ==
  \A m \in Inbound : \A i, j \in DOMAIN archive :
    archive[i] = From(m) /\ archive[j] = From(m) => i = j /\ m \notin unkept

Once ==
  /\ \A m \in Inbound : (m \in arrived <=> Somewhere(m)) /\ Apart(m)
  /\ QueuedOnce /\ BeginsOnce /\ BufferedOnce /\ InHandOnce /\ ArchivedOnce

LEMMA FromIs ==
  /\ \A m, x \in Inbound \cup BotPosts : From(m) = From(x) => m = x
  /\ \A m \in Inbound : From(m) # Answer /\ From(m) # Warning
  /\ \A m \in Inbound, c \in Nat : From(m) # Tool(c)
  /\ \A m \in Inbound, ids \in SUBSET Nat : From(m) # Asst(ids, FALSE)
  BY DEF From, Answer, Warning, User, System, Asst, Tool

LEMMA AppendIs ==
  ASSUME NEW X, NEW s \in Seq(X), NEW x \in X
  PROVE  /\ \A i \in DOMAIN Append(s, x) :
              \/ i \in DOMAIN s /\ Append(s, x)[i] = s[i]
              \/ i = Len(s) + 1 /\ Append(s, x)[i] = x
         /\ \A i \in DOMAIN s : i \in DOMAIN Append(s, x) /\ Append(s, x)[i] = s[i]
         /\ Len(s) + 1 \in DOMAIN Append(s, x) /\ Append(s, x)[Len(s) + 1] = x
  OBVIOUS

LEMMA TailIs ==
  ASSUME NEW X, NEW s \in Seq(X), s # <<>>
  PROVE  /\ 1 \in DOMAIN s /\ Head(s) = s[1] /\ Tail(s) \in Seq(X)
         /\ \A i \in DOMAIN s : i \in Nat
         /\ \A i \in DOMAIN Tail(s) : i \in Nat /\ i # 0
         /\ \A i \in DOMAIN Tail(s) : i + 1 \in DOMAIN s /\ Tail(s)[i] = s[i + 1]
         /\ \A i \in DOMAIN s : i # 1 => i - 1 \in DOMAIN Tail(s) /\ Tail(s)[i - 1] = s[i]
  OBVIOUS

\* Each kind of place, for each way a step changes it.
LEMMA QueueSame ==
  ASSUME queue' = queue
  PROVE  (QueuedOnce' <=> QueuedOnce) /\ \A m : Queued(m)' <=> Queued(m)
  BY DEF QueuedOnce, Queued

LEMMA QueueTakes ==
  ASSUME queue \in [Workers -> Seq(Inbound)], NEW w \in Workers, queue[w] # <<>>,
         queue' = [queue EXCEPT ![w] = Tail(@)], QueuedOnce
  PROVE  QueuedOnce' /\ \A m : Queued(m)' <=> Queued(m) /\ m # Head(queue[w])
<1> PICK s : s = queue[w]
  OBVIOUS
<1> PICK t : t = Tail(s)
  OBVIOUS
<1>1. /\ 1 \in DOMAIN s /\ Head(s) = s[1]
      /\ \A i \in DOMAIN s : i \in Nat
      /\ \A i \in DOMAIN t : i \in Nat /\ i # 0
      /\ \A i \in DOMAIN t : i + 1 \in DOMAIN s /\ t[i] = s[i + 1]
      /\ \A i \in DOMAIN s : i # 1 => i - 1 \in DOMAIN t /\ t[i - 1] = s[i]
  BY TailIs
<1>2. queue'[w] = t /\ \A v \in Workers : v # w => queue'[v] = queue[v]
  OBVIOUS
<1>3. QueuedOnce'
  <2> SUFFICES ASSUME NEW u \in Workers, NEW v \in Workers,
                      NEW i \in DOMAIN queue'[u], NEW j \in DOMAIN queue'[v],
                      queue'[u][i] = queue'[v][j]
               PROVE  u = v /\ i = j
    BY DEF QueuedOnce
  <2>1. \A x \in Workers : \A k \in DOMAIN queue'[x] :
          IF x = w THEN k \in Nat /\ k + 1 \in DOMAIN queue[x] /\ queue'[x][k] = queue[x][k + 1]
                   ELSE k \in DOMAIN queue[x] /\ queue'[x][k] = queue[x][k]
    BY <1>1, <1>2
  <2>2. u = v
    BY <2>1 DEF QueuedOnce
  <2>3. CASE u = w
    <3>1. i + 1 = j + 1 /\ i \in Nat /\ j \in Nat
      BY <2>1, <2>2, <2>3 DEF QueuedOnce
    <3> QED
      BY <2>2, <3>1
  <2>4. CASE u # w
    BY <2>1, <2>2, <2>4 DEF QueuedOnce
  <2> QED
    BY <2>2, <2>3, <2>4
<1>4. ASSUME NEW m, Queued(m)' PROVE Queued(m) /\ m # s[1]
  <2>1. PICK v \in Workers : \E i \in DOMAIN queue'[v] : queue'[v][i] = m
    BY <1>4 DEF Queued
  <2>2. PICK i \in DOMAIN queue'[v] : queue'[v][i] = m
    BY <2>1
  <2>3. CASE v = w
    <3>1. i \in Nat /\ i # 0 /\ i + 1 \in DOMAIN s /\ s[i + 1] = m
      BY <1>1, <1>2, <2>2, <2>3
    <3>2. i + 1 # 1
      BY <3>1
    <3> QED
      BY <1>1, <3>1, <3>2 DEF Queued, QueuedOnce
  <2>4. CASE v # w
    BY <1>1, <1>2, <2>2, <2>4 DEF Queued, QueuedOnce
  <2> QED
    BY <2>3, <2>4
<1>5. ASSUME NEW m, Queued(m), m # s[1] PROVE Queued(m)'
  <2>1. PICK v \in Workers : \E i \in DOMAIN queue[v] : queue[v][i] = m
    BY <1>5 DEF Queued
  <2>2. PICK i \in DOMAIN queue[v] : queue[v][i] = m
    BY <2>1
  <2>3. CASE v = w
    <3>1. i - 1 \in DOMAIN queue'[v] /\ queue'[v][i - 1] = m
      BY <1>1, <1>2, <1>5, <2>2, <2>3
    <3> QED
      BY <3>1 DEF Queued
  <2>4. CASE v # w
    BY <1>2, <2>2, <2>4 DEF Queued
  <2> QED
    BY <2>3, <2>4
<1> QED
  BY <1>1, <1>3, <1>4, <1>5

LEMMA QueueAdds ==
  ASSUME queue \in [Workers -> Seq(Inbound)], NEW w \in Workers, NEW x \in Inbound,
         queue' = [queue EXCEPT ![w] = Append(@, x)], QueuedOnce, ~Queued(x)
  PROVE  QueuedOnce' /\ \A m : Queued(m)' <=> Queued(m) \/ m = x
<1> PICK s : s = queue[w]
  OBVIOUS
<1>0. s \in Seq(Inbound)
  OBVIOUS
<1>1. /\ \A i \in DOMAIN Append(s, x) :
           \/ i \in DOMAIN s /\ Append(s, x)[i] = s[i]
           \/ i = Len(s) + 1 /\ Append(s, x)[i] = x
      /\ \A i \in DOMAIN s : i \in DOMAIN Append(s, x) /\ Append(s, x)[i] = s[i]
      /\ Len(s) + 1 \in DOMAIN Append(s, x) /\ Append(s, x)[Len(s) + 1] = x
  BY <1>0, AppendIs
<1>2. queue'[w] = Append(s, x) /\ \A v \in Workers : v # w => queue'[v] = queue[v]
  OBVIOUS
<1>3. QueuedOnce'
  <2>1. \A v \in Workers : \A i \in DOMAIN queue'[v] :
          \/ i \in DOMAIN queue[v] /\ queue'[v][i] = queue[v][i] /\ queue'[v][i] # x
          \/ v = w /\ i = Len(s) + 1 /\ queue'[v][i] = x
    BY <1>1, <1>2 DEF Queued
  <2> QED
    BY <2>1 DEF QueuedOnce
<1>4. \A m : Queued(m)' => Queued(m) \/ m = x
  BY <1>1, <1>2 DEF Queued
<1>5. \A m : Queued(m) \/ m = x => Queued(m)'
  BY <1>1, <1>2 DEF Queued
<1> QED
  BY <1>3, <1>4, <1>5

LEMMA BufferSame ==
  ASSUME steerBuf' = steerBuf
  PROVE  (BufferedOnce' <=> BufferedOnce) /\ \A m : Buffered(m)' <=> Buffered(m)
  BY DEF BufferedOnce, Buffered

LEMMA BufferAdds ==
  ASSUME steerBuf \in Seq(Steer), NEW x \in Inbound, NEW e \in BOOLEAN,
         steerBuf' = Append(steerBuf, [msg |-> x, early |-> e]), BufferedOnce, ~Buffered(x)
  PROVE  BufferedOnce' /\ \A m : Buffered(m)' <=> Buffered(m) \/ m = x
<1> PICK r : r = [msg |-> x, early |-> e]
  OBVIOUS
<1>1. r \in Steer /\ r.msg = x
  BY DEF Steer
<1>2. /\ \A i \in DOMAIN steerBuf' :
           \/ i \in DOMAIN steerBuf /\ steerBuf'[i] = steerBuf[i]
           \/ i = Len(steerBuf) + 1 /\ steerBuf'[i] = r
      /\ \A i \in DOMAIN steerBuf : i \in DOMAIN steerBuf' /\ steerBuf'[i] = steerBuf[i]
      /\ Len(steerBuf) + 1 \in DOMAIN steerBuf' /\ steerBuf'[Len(steerBuf) + 1] = r
  BY <1>1, AppendIs
<1>3. BufferedOnce'
  BY <1>1, <1>2 DEF BufferedOnce, Buffered
<1>4. \A m : Buffered(m)' => Buffered(m) \/ m = x
  BY <1>1, <1>2 DEF Buffered
<1>5. \A m : Buffered(m) \/ m = x => Buffered(m)'
  BY <1>1, <1>2 DEF Buffered
<1> QED
  BY <1>3, <1>4, <1>5

LEMMA BeginsSame ==
  ASSUME \A v \in Workers : turn'[v].msg = turn[v].msg
  PROVE  (BeginsOnce' <=> BeginsOnce) /\ \A m : Begins(m)' <=> Begins(m)
  BY DEF BeginsOnce, Begins

\* A worker with no message takes one, or appends the one it has.
LEMMA BeginsAdds ==
  ASSUME NEW w \in Workers, turn[w].msg = NoCall, NEW x \in Inbound, turn'[w].msg = x,
         \A v \in Workers : v # w => turn'[v].msg = turn[v].msg, BeginsOnce, ~Begins(x)
  PROVE  BeginsOnce' /\ \A m \in Inbound : Begins(m)' <=> Begins(m) \/ m = x
<1>1. BeginsOnce'
  BY DEF BeginsOnce, Begins
<1>2. \A m \in Inbound : Begins(m)' <=> Begins(m) \/ m = x
  BY MessagesAssumption DEF Begins
<1> QED
  BY <1>1, <1>2

LEMMA BeginsTakes ==
  ASSUME NEW w \in Workers, turn[w].msg \in Inbound, turn'[w].msg = NoCall,
         \A v \in Workers : v # w => turn'[v].msg = turn[v].msg, BeginsOnce
  PROVE  BeginsOnce' /\ \A m \in Inbound : Begins(m)' <=> Begins(m) /\ m # turn[w].msg
<1>1. BeginsOnce'
  BY DEF BeginsOnce
<1>2. \A m \in Inbound : Begins(m)' <=> Begins(m) /\ m # turn[w].msg
  BY MessagesAssumption DEF Begins, BeginsOnce
<1> QED
  BY <1>1, <1>2

LEMMA HandsSame ==
  ASSUME \A v \in Workers : turn'[v].hand = turn[v].hand
  PROVE  (InHandOnce' <=> InHandOnce) /\ \A m : InHand(m)' <=> InHand(m)
  BY DEF InHandOnce, InHand

\* A worker with empty hands takes the whole buffer.
LEMMA HandsFill ==
  ASSUME NEW w \in Workers, turn[w].hand = <<>>, turn'[w].hand = steerBuf,
         \A v \in Workers : v # w => turn'[v].hand = turn[v].hand,
         steerBuf' = <<>>, InHandOnce, BufferedOnce,
         \A i \in DOMAIN steerBuf : ~InHand(steerBuf[i].msg)
  PROVE  /\ InHandOnce' /\ BufferedOnce'
         /\ \A m : (InHand(m)' <=> InHand(m) \/ Buffered(m)) /\ ~Buffered(m)'
<1>0. \A i : i \notin DOMAIN <<>>
  OBVIOUS
<1>1. InHandOnce'
  <2>1. \A v \in Workers : \A i \in DOMAIN turn'[v].hand :
          IF v = w THEN i \in DOMAIN steerBuf /\ turn'[v].hand[i] = steerBuf[i]
                   ELSE i \in DOMAIN turn[v].hand /\ turn'[v].hand[i] = turn[v].hand[i]
    OBVIOUS
  <2>2. \A v \in Workers : \A i \in DOMAIN turn[v].hand : InHand(turn[v].hand[i].msg)
    BY DEF InHand
  <2> QED
    BY <2>1, <2>2 DEF InHandOnce, BufferedOnce
<1>2. BufferedOnce' /\ \A m : ~Buffered(m)'
  BY <1>0 DEF BufferedOnce, Buffered
<1>3. \A m : InHand(m)' => InHand(m) \/ Buffered(m)
  BY DEF InHand, Buffered
<1>4. \A m : InHand(m) \/ Buffered(m) => InHand(m)'
  BY <1>0 DEF InHand, Buffered
<1> QED
  BY <1>1, <1>2, <1>3, <1>4

LEMMA HandsTake ==
  ASSUME NEW w \in Workers, turn[w].hand \in Seq(Steer), turn[w].hand # <<>>,
         turn'[w].hand = Tail(turn[w].hand),
         \A v \in Workers : v # w => turn'[v].hand = turn[v].hand, InHandOnce
  PROVE  /\ InHandOnce'
         /\ \A m : InHand(m)' <=> InHand(m) /\ m # Head(turn[w].hand).msg
<1> PICK s : s = turn[w].hand
  OBVIOUS
<1> PICK t : t = Tail(s)
  OBVIOUS
<1>1. /\ 1 \in DOMAIN s /\ Head(s) = s[1]
      /\ \A i \in DOMAIN s : i \in Nat
      /\ \A i \in DOMAIN t : i \in Nat /\ i # 0
      /\ \A i \in DOMAIN t : i + 1 \in DOMAIN s /\ t[i] = s[i + 1]
      /\ \A i \in DOMAIN s : i # 1 => i - 1 \in DOMAIN t /\ t[i - 1] = s[i]
  BY TailIs
<1>2. turn'[w].hand = t
  OBVIOUS
<1>3. InHandOnce'
  <2> SUFFICES ASSUME NEW u \in Workers, NEW v \in Workers,
                      NEW i \in DOMAIN turn'[u].hand, NEW j \in DOMAIN turn'[v].hand,
                      turn'[u].hand[i].msg = turn'[v].hand[j].msg
               PROVE  u = v /\ i = j
    BY DEF InHandOnce
  <2>1. \A x \in Workers : \A k \in DOMAIN turn'[x].hand :
          IF x = w
          THEN k \in Nat /\ k + 1 \in DOMAIN turn[x].hand /\ turn'[x].hand[k] = turn[x].hand[k + 1]
          ELSE k \in DOMAIN turn[x].hand /\ turn'[x].hand[k] = turn[x].hand[k]
    <3> SUFFICES ASSUME NEW x \in Workers, NEW k \in DOMAIN turn'[x].hand
                 PROVE  IF x = w
                        THEN /\ k \in Nat /\ k + 1 \in DOMAIN turn[x].hand
                             /\ turn'[x].hand[k] = turn[x].hand[k + 1]
                        ELSE k \in DOMAIN turn[x].hand /\ turn'[x].hand[k] = turn[x].hand[k]
      OBVIOUS
    <3>1. CASE x = w
      <4>1. k \in DOMAIN t /\ turn'[x].hand = t /\ turn[x].hand = s
        BY <1>2, <3>1
      <4> QED
        BY ONLY <1>1, <3>1, <4>1
    <3>2. CASE x # w
      <4>1. turn'[x].hand = turn[x].hand
        BY <3>2
      <4> QED
        BY ONLY <3>2, <4>1
    <3> QED
      BY ONLY <3>1, <3>2
  <2>2. u = v
    <3>1. PICK k \in DOMAIN turn[u].hand : turn'[u].hand[i] = turn[u].hand[k]
      BY <2>1
    <3>2. PICK l \in DOMAIN turn[v].hand : turn'[v].hand[j] = turn[v].hand[l]
      BY <2>1
    <3>3. turn[u].hand[k].msg = turn[v].hand[l].msg
      BY <3>1, <3>2
    <3> QED
      BY <3>3 DEF InHandOnce
  <2>3. CASE u = w
    <3>1. i + 1 = j + 1 /\ i \in Nat /\ j \in Nat
      BY <2>1, <2>2, <2>3, SMTT(30) DEF InHandOnce
    <3> QED
      BY <2>2, <3>1
  <2>4. CASE u # w
    BY <2>1, <2>2, <2>4 DEF InHandOnce
  <2> QED
    BY <2>2, <2>3, <2>4
<1>4. ASSUME NEW m, InHand(m)' PROVE InHand(m) /\ m # s[1].msg
  <2>1. PICK v \in Workers : \E i \in DOMAIN turn'[v].hand : turn'[v].hand[i].msg = m
    BY <1>4 DEF InHand
  <2>2. PICK i \in DOMAIN turn'[v].hand : turn'[v].hand[i].msg = m
    BY <2>1
  <2>3. CASE v = w
    <3>1. i \in Nat /\ i # 0 /\ i + 1 \in DOMAIN s /\ s[i + 1].msg = m
      <4>1. i \in DOMAIN t /\ t[i].msg = m
        BY <1>2, <2>2, <2>3
      <4> QED
        BY ONLY <1>1, <4>1
    <3>2. i + 1 # 1
      BY <3>1
    <3> QED
      BY <1>1, <3>1, <3>2 DEF InHand, InHandOnce
  <2>4. CASE v # w
    <3>1. i \in DOMAIN turn[v].hand /\ turn[v].hand[i].msg = m
      BY <2>2, <2>4
    <3>2. m # turn[w].hand[1].msg
      BY <1>1, <2>4, <3>1 DEF InHandOnce
    <3> QED
      BY <3>1, <3>2 DEF InHand
  <2> QED
    BY <2>3, <2>4
<1>5. ASSUME NEW m, InHand(m), m # s[1].msg PROVE InHand(m)'
  <2>1. PICK v \in Workers : \E i \in DOMAIN turn[v].hand : turn[v].hand[i].msg = m
    BY <1>5 DEF InHand
  <2>2. PICK i \in DOMAIN turn[v].hand : turn[v].hand[i].msg = m
    BY <2>1
  <2>3. CASE v = w
    <3>1. i - 1 \in DOMAIN t /\ t[i - 1].msg = m
      BY <1>1, <1>5, <2>2, <2>3
    <3> QED
      BY <1>2, <2>3, <3>1 DEF InHand
  <2>4. CASE v # w
    BY <1>2, <2>2, <2>4 DEF InHand
  <2> QED
    BY <2>3, <2>4
<1> QED
  BY <1>1, <1>3, <1>4, <1>5

LEMMA ArchiveSame ==
  ASSUME UNCHANGED <<archive, unkept>>
  PROVE  (ArchivedOnce' <=> ArchivedOnce) /\ \A m : Archived(m)' <=> Archived(m)
  BY DEF ArchivedOnce, Archived

\* An append enters the archive, or its insert failed.
Records(y) ==
  \/ archive' = Append(archive, y) /\ unkept' = unkept
  \/ archive' = archive /\ unkept' = unkept \cup {x \in Inbound : y = From(x)}

LEMMA AppendRecords ==
  ASSUME StoreMode, NEW y, AppendMsg(y)
  PROVE  Records(y)
<1>1. PICK saved \in BOOLEAN, kept \in BOOLEAN :
        /\ archive' = IF StoreMode /\ kept THEN Append(archive, y) ELSE archive
        /\ unkept' = IF kept THEN unkept ELSE unkept \cup {x \in Inbound : y = From(x)}
  BY DEF AppendMsg
<1> QED
  BY <1>1 DEF Records

LEMMA ArchiveOther ==
  ASSUME archive \in Seq(Msg), NEW y \in Msg, \A m \in Inbound : y # From(m), Records(y)
  PROVE  /\ ArchivedOnce => ArchivedOnce'
         /\ \A m \in Inbound : Archived(m)' <=> Archived(m)
<1>1. CASE archive' = archive /\ unkept' = unkept \cup {x \in Inbound : y = From(x)}
  <2>1. unkept' = unkept
    BY <1>1
  <2> QED
    BY <1>1, <2>1, ArchiveSame
<1>2. CASE archive' = Append(archive, y) /\ unkept' = unkept
  <2>1. /\ \A i \in DOMAIN archive' : \/ i \in DOMAIN archive /\ archive'[i] = archive[i]
                                      \/ i = Len(archive) + 1 /\ archive'[i] = y
        /\ \A i \in DOMAIN archive : i \in DOMAIN archive' /\ archive'[i] = archive[i]
    BY <1>2, AppendIs
  <2> QED
    BY <1>2, <2>1 DEF ArchivedOnce, Archived
<1> QED
  BY <1>1, <1>2 DEF Records

LEMMA ArchiveAdds ==
  ASSUME archive \in Seq(Msg), NEW x \in Inbound, Records(From(x)), ArchivedOnce, ~Archived(x)
  PROVE  /\ ArchivedOnce'
         /\ \A m \in Inbound : Archived(m)' <=> Archived(m) \/ m = x
<1>0. From(x) \in Msg
  BY MsgTypes
<1>1. \A m \in Inbound : From(m) = From(x) => m = x
  BY FromIs
<1>2. CASE archive' = archive /\ unkept' = unkept \cup {m \in Inbound : From(x) = From(m)}
  <2>1. unkept' = unkept \cup {x}
    BY <1>1, <1>2
  <2> QED
    BY <1>2, <2>1 DEF ArchivedOnce, Archived
<1>3. CASE archive' = Append(archive, From(x)) /\ unkept' = unkept
  <2>1. /\ \A i \in DOMAIN archive' : \/ i \in DOMAIN archive /\ archive'[i] = archive[i]
                                      \/ i = Len(archive) + 1 /\ archive'[i] = From(x)
        /\ \A i \in DOMAIN archive : i \in DOMAIN archive' /\ archive'[i] = archive[i]
        /\ Len(archive) + 1 \in DOMAIN archive' /\ archive'[Len(archive) + 1] = From(x)
    BY <1>0, <1>3, AppendIs
  <2>2. ArchivedOnce'
    BY <1>1, <1>3, <2>1 DEF ArchivedOnce, Archived
  <2>3. \A m \in Inbound : Archived(m)' <=> Archived(m) \/ m = x
    BY <1>1, <1>3, <2>1 DEF Archived
  <2> QED
    BY <2>2, <2>3
<1> QED
  BY <1>2, <1>3 DEF Records

\* At first no message has arrived and none is anywhere.
LEMMA OnceInit == Init => Once
<1> SUFFICES ASSUME Init PROVE Once
  OBVIOUS
<1>0. \A i : i \notin DOMAIN <<>>
  OBVIOUS
<1>1. QueuedOnce /\ BeginsOnce /\ BufferedOnce /\ InHandOnce /\ ArchivedOnce
  BY <1>0 DEF Init, QueuedOnce, BeginsOnce, BufferedOnce, InHandOnce, ArchivedOnce, NoTurn
<1>2. ASSUME NEW m \in Inbound PROVE ~Somewhere(m) /\ m \notin arrived
  BY <1>0, MessagesAssumption
     DEF Init, Somewhere, AtRouter, Queued, Begins, Buffered, InHand, Refused, Archived, NoTurn,
         Idle
<1> QED
  BY <1>1, <1>2 DEF Once, Apart, Somewhere

\* The steps of the router.
LEMMA OnceRouter ==
  ASSUME StoreMode, Typed, Once,
         \/ \E m \in Inbound, w \in Workers : Arrive(m, w)
         \/ \E m \in BotPosts : ArriveBot(m)
         \/ RouterStep
  PROVE  Once'
<1>0. /\ UNCHANGED <<turn, refused>>
      /\ QueuedOnce /\ BeginsOnce /\ BufferedOnce /\ InHandOnce /\ ArchivedOnce
      /\ RouterTyped /\ archive \in Seq(Msg)
      /\ steerBuf \in Seq(Steer) /\ queue \in [Workers -> Seq(Inbound)]
  BY DEF Arrive, ArriveBot, RouterStep, RouterGet, RouterLoad, PushOrSubmit, Inject, Once,
         Typed, HistoryTyped
<1>s. /\ BeginsOnce' /\ InHandOnce'
      /\ \A m : (Begins(m)' <=> Begins(m)) /\ (InHand(m)' <=> InHand(m))
                /\ (Refused(m)' <=> Refused(m))
  BY <1>0, BeginsSame, HandsSame DEF Refused
<1>1. CASE \E x \in Inbound, w \in Workers : Arrive(x, w)
  <2>1. PICK x \in Inbound, w \in Workers : Arrive(x, w)
    BY <1>1
  <2>2. /\ router = Idle /\ x \notin arrived /\ arrived' = arrived \cup {x}
        /\ router' = [at |-> "get", msg |-> x, to |-> w]
        /\ queue' = queue /\ steerBuf' = steerBuf /\ UNCHANGED <<archive, unkept>>
    BY <2>1 DEF Arrive, session, steer
  <2>3. \A m \in Inbound : ~AtRouter(m) /\ (AtRouter(m)' <=> m = x)
    BY <2>2, MessagesAssumption DEF AtRouter, Idle
  <2>4. /\ QueuedOnce' /\ BufferedOnce' /\ ArchivedOnce'
        /\ \A m : (Queued(m)' <=> Queued(m)) /\ (Buffered(m)' <=> Buffered(m))
                  /\ (Archived(m)' <=> Archived(m))
    BY <1>0, <2>2, QueueSame, BufferSame, ArchiveSame
  <2>5. ASSUME NEW m \in Inbound PROVE (m \in arrived' <=> Somewhere(m)') /\ Apart(m)'
    BY <1>s, <2>2, <2>3, <2>4, <2>5 DEF Once, Somewhere, Apart
  <2> QED
    BY <1>s, <2>4, <2>5 DEF Once
<1>2. CASE \E b \in BotPosts : ArriveBot(b)
  <2>1. PICK b \in BotPosts : ArriveBot(b)
    BY <1>2
  <2>2. /\ router = Idle /\ arrived' = arrived \cup {b}
        /\ router' = [at |-> "get", msg |-> b, to |-> NoCall]
        /\ queue' = queue /\ steerBuf' = steerBuf /\ UNCHANGED <<archive, unkept>>
    BY <2>1 DEF ArriveBot, session, steer
  <2>3. \A m \in Inbound : ~AtRouter(m) /\ ~AtRouter(m)' /\ m # b
    BY <2>2, MessagesAssumption DEF AtRouter, Idle
  <2>4. /\ QueuedOnce' /\ BufferedOnce' /\ ArchivedOnce'
        /\ \A m : (Queued(m)' <=> Queued(m)) /\ (Buffered(m)' <=> Buffered(m))
                  /\ (Archived(m)' <=> Archived(m))
    BY <1>0, <2>2, QueueSame, BufferSame, ArchiveSame
  <2>5. ASSUME NEW m \in Inbound PROVE (m \in arrived' <=> Somewhere(m)') /\ Apart(m)'
    BY <1>s, <2>2, <2>3, <2>4, <2>5 DEF Once, Somewhere, Apart
  <2> QED
    BY <1>s, <2>4, <2>5 DEF Once
<1>3. CASE RouterGet \/ RouterLoad
  <2>1. /\ queue' = queue /\ steerBuf' = steerBuf /\ arrived' = arrived
        /\ UNCHANGED <<archive, unkept>>
    BY <1>3 DEF RouterGet, RouterLoad, OverwriteMessages, session, steer
  <2>q. \E q : router' = [router EXCEPT !.at = q]
    BY <1>3, Zenon DEF RouterGet, RouterLoad, Loaded
  <2>2. \A m : AtRouter(m)' <=> AtRouter(m)
    BY <1>0, <2>q DEF AtRouter, RouterTyped
  <2>3. /\ QueuedOnce' /\ BufferedOnce' /\ ArchivedOnce'
        /\ \A m : (Queued(m)' <=> Queued(m)) /\ (Buffered(m)' <=> Buffered(m))
                  /\ (Archived(m)' <=> Archived(m))
    BY <1>0, <2>1, QueueSame, BufferSame, ArchiveSame
  <2>4. ASSUME NEW m \in Inbound PROVE (m \in arrived' <=> Somewhere(m)') /\ Apart(m)'
    BY <1>s, <2>1, <2>2, <2>3, <2>4 DEF Once, Somewhere, Apart
  <2> QED
    BY <1>s, <2>3, <2>4 DEF Once
<1>4. CASE PushOrSubmit
  <2> PICK x, v : x = router.msg /\ v = router.to
    OBVIOUS
  <2>1. /\ x \in Inbound /\ v \in Workers /\ AtRouter(x) /\ Apart(x)
        /\ router' = Idle /\ UNCHANGED <<archive, unkept>> /\ arrived' = arrived
    BY <1>0, <1>4 DEF PushOrSubmit, RouterTyped, session, Once, AtRouter
  <2>2. \A m \in Inbound : (AtRouter(m) <=> m = x) /\ ~AtRouter(m)'
    BY <2>1, MessagesAssumption DEF AtRouter, Idle
  <2>3. /\ ArchivedOnce' /\ \A m : Archived(m)' <=> Archived(m)
    BY <1>0, <2>1, ArchiveSame
  <2>4. ~Queued(x) /\ ~Buffered(x)
    BY <2>1 DEF Apart
  <2>5. CASE turnDepth > 0
    <3> PICK e : e = InLoop
      OBVIOUS
    <3>1. steerBuf' = Append(steerBuf, [msg |-> x, early |-> e]) /\ queue' = queue
      BY <1>4, <2>5 DEF PushOrSubmit
    <3>2. e \in BOOLEAN
      BY DEF InLoop
    <3>3. BufferedOnce' /\ \A m : Buffered(m)' <=> Buffered(m) \/ m = x
      BY <1>0, <2>1, <2>4, <3>1, <3>2, BufferAdds
    <3>4. QueuedOnce' /\ \A m : Queued(m)' <=> Queued(m)
      BY <1>0, <3>1, QueueSame
    <3>5. ASSUME NEW m \in Inbound PROVE (m \in arrived' <=> Somewhere(m)') /\ Apart(m)'
      BY <1>s, <2>1, <2>2, <2>3, <3>3, <3>4, <3>5 DEF Once, Somewhere, Apart
    <3> QED
      BY <1>s, <2>3, <3>3, <3>4, <3>5 DEF Once
  <2>6. CASE ~(turnDepth > 0)
    <3>1. queue' = [queue EXCEPT ![v] = Append(@, x)] /\ steerBuf' = steerBuf
      BY <1>4, <2>6 DEF PushOrSubmit
    <3>2. QueuedOnce' /\ \A m : Queued(m)' <=> Queued(m) \/ m = x
      BY <1>0, <2>1, <2>4, <3>1, QueueAdds
    <3>3. BufferedOnce' /\ \A m : Buffered(m)' <=> Buffered(m)
      BY <1>0, <3>1, BufferSame
    <3>4. ASSUME NEW m \in Inbound PROVE (m \in arrived' <=> Somewhere(m)') /\ Apart(m)'
      BY <1>s, <2>1, <2>2, <2>3, <3>2, <3>3, <3>4 DEF Once, Somewhere, Apart
    <3> QED
      BY <1>s, <2>3, <3>2, <3>3, <3>4 DEF Once
  <2> QED
    BY <2>5, <2>6
<1>5. CASE Inject
  <2> PICK b : b = router.msg
    OBVIOUS
  <2>1. /\ b \in BotPosts /\ router' = Idle /\ Records(From(b))
        /\ queue' = queue /\ steerBuf' = steerBuf /\ arrived' = arrived
    BY <1>0, <1>5, AppendRecords DEF Inject, RouterTyped, steer
  <2>2. \A m \in Inbound : ~AtRouter(m) /\ ~AtRouter(m)'
    BY <2>1, MessagesAssumption DEF AtRouter, Idle
  <2>3. From(b) \in Msg /\ \A m \in Inbound : From(b) # From(m)
    BY <2>1, MsgTypes, FromIs, MessagesAssumption
  <2>4. ArchivedOnce' /\ \A m \in Inbound : Archived(m)' <=> Archived(m)
    BY <1>0, <2>1, <2>3, ArchiveOther
  <2>5. /\ QueuedOnce' /\ BufferedOnce'
        /\ \A m : (Queued(m)' <=> Queued(m)) /\ (Buffered(m)' <=> Buffered(m))
    BY <1>0, <2>1, QueueSame, BufferSame
  <2>6. ASSUME NEW m \in Inbound PROVE (m \in arrived' <=> Somewhere(m)') /\ Apart(m)'
    BY <1>s, <2>1, <2>2, <2>4, <2>5, <2>6 DEF Once, Somewhere, Apart
  <2> QED
    BY <1>s, <2>4, <2>5, <2>6 DEF Once
<1> QED
  BY <1>1, <1>2, <1>3, <1>4, <1>5 DEF RouterStep

\* A worker's steps that move no message of a person: what they append is
\* nobody's.
Moveless(w) ==
  \/ TurnGet(w) \/ TurnLoad(w) \/ BeginTurn(w) \/ BuildContext(w) \/ Compact(w)
  \/ CallCancelled(w) \/ CallFails(w) \/ CallAnswers(w) \/ CallsTools(w) \/ ToolsReturn(w)
  \/ AppendResult(w) \/ EndOnCard(w) \/ CutOff(w) \/ FinalDelivery(w) \/ Pad(w) \/ AppendPad(w)

ArchivesNobody ==
  \/ UNCHANGED <<archive, unkept>>
  \/ \E y \in Msg : Records(y) /\ \A m \in Inbound : y # From(m)

LEMMA MovelessArchive ==
  ASSUME StoreMode, Typed, NEW w \in Workers, Moveless(w)
  PROVE  ArchivesNobody
<1>0. turn[w] \in Turn /\ calls \in Nat
  BY NatAssumption DEF Typed, Locals
<1>1. CASE \/ TurnGet(w) \/ TurnLoad(w) \/ BeginTurn(w) \/ BuildContext(w) \/ Compact(w)
           \/ CallCancelled(w) \/ ToolsReturn(w) \/ EndOnCard(w) \/ CutOff(w) \/ Pad(w)
  <2>1. UNCHANGED <<archive, unkept>>
    BY <1>1 DEF TurnGet, TurnLoad, BeginTurn, BuildContext, Compact, CallCancelled, ToolsReturn,
                EndOnCard, CutOff, Pad, OverwriteMessages, ReplaceMessages, session
  <2> QED
    BY <2>1 DEF ArchivesNobody
<1>2. CASE CallFails(w) \/ CallAnswers(w) \/ FinalDelivery(w)
  <2>1. Records(Answer)
    BY <1>2, AppendRecords DEF CallFails, CallAnswers, FinalDelivery
  <2> QED
    BY <2>1, MsgTypes, FromIs DEF ArchivesNobody
<1>3. CASE CallsTools(w)
  <2>1. PICK n \in 1 .. (MaxCalls - calls) : AppendMsg(Asst((calls + 1) .. (calls + n), FALSE))
    BY <1>3 DEF CallsTools
  <2>2. n \in Nat
    BY <1>0, NatAssumption
  <2> PICK ids : ids = (calls + 1) .. (calls + n)
    OBVIOUS
  <2>3. \A c \in ids : c \in Nat
    BY <1>0, <2>2
  <2>4. ids \in SUBSET Nat /\ Records(Asst(ids, FALSE))
    BY <2>1, <2>3, AppendRecords
  <2> QED
    <3>1. Asst(ids, FALSE) \in Msg
      BY <2>4, MsgTypes
    <3>2. \A m \in Inbound : Asst(ids, FALSE) # From(m)
      BY <2>4, FromIs
    <3> QED
      BY ONLY <2>4, <3>1, <3>2 DEF ArchivesNobody
<1>4. CASE AppendResult(w) \/ AppendPad(w)
  <2> PICK S : S = turn[w].todo
    OBVIOUS
  <2>0. S \in SUBSET Nat
    BY <1>0 DEF Turn
  <2>1. CASE S = {}
    BY <1>4, <2>1 DEF AppendResult, AppendPad, session, ArchivesNobody
  <2>2. CASE S # {}
    <3> PICK c : c = Least(S)
      OBVIOUS
    <3>1. c \in Nat
      BY <2>0, <2>2, LeastIs
    <3>2. Records(Tool(c))
      BY <1>4, <2>2, AppendRecords DEF AppendResult, AppendPad
    <3> QED
      BY <3>1, <3>2, MsgTypes, FromIs DEF ArchivesNobody
  <2> QED
    BY <2>1, <2>2
<1> QED
  BY <1>1, <1>2, <1>3, <1>4 DEF Moveless

\* ... and no turn's message or hand changes, nor the queues or the buffer.
LEMMA MovelessPlaces ==
  ASSUME Typed, NEW w \in Workers, Moveless(w)
  PROVE  /\ UNCHANGED <<queue, steerBuf, router, arrived, refused>>
         /\ \A v \in Workers : turn'[v].msg = turn[v].msg /\ turn'[v].hand = turn[v].hand
<1>0. turn \in [Workers -> Turn]
  BY DEF Typed, Locals
<1>1. UNCHANGED <<queue, router, arrived, refused>>
  BY DEF Moveless, TurnGet, TurnLoad, BeginTurn, BuildContext, Compact, CallCancelled, CallFails,
         CallAnswers, CallsTools, ToolsReturn, AppendResult, EndOnCard, CutOff, FinalDelivery,
         Pad, AppendPad, Quiet, inbound
<1>2. steerBuf' = steerBuf
  BY DEF Moveless, TurnGet, TurnLoad, BeginTurn, BuildContext, Compact, CallCancelled, CallFails,
         CallAnswers, CallsTools, ToolsReturn, AppendResult, EndOnCard, CutOff, FinalDelivery,
         Pad, AppendPad, steer
<1>3. \/ turn' = turn
      \/ \E h : turn' = [turn EXCEPT ![w].ctx = h]
      \/ \E y : turn' = [turn EXCEPT ![w].why = y]
      \/ \E S : turn' = [turn EXCEPT ![w].todo = S]
      \/ \E S, r : turn' = [turn EXCEPT ![w].todo = S, ![w].round = r]
  <2>1. CASE TurnGet(w) \/ TurnLoad(w) \/ BeginTurn(w) \/ CallAnswers(w) \/ ToolsReturn(w) \/ CutOff(w)
    BY <2>1 DEF TurnGet, TurnLoad, BeginTurn, CallAnswers, ToolsReturn, CutOff
  <2>2. CASE BuildContext(w) \/ Compact(w)
    BY <2>2, Zenon DEF BuildContext, Compact
  <2>3. CASE CallCancelled(w) \/ CallFails(w) \/ EndOnCard(w) \/ FinalDelivery(w)
    BY <2>3, Zenon DEF CallCancelled, CallFails, EndOnCard, FinalDelivery, Leave
  <2>4. CASE CallsTools(w)
    BY <2>4, Zenon DEF CallsTools
  <2>5. CASE AppendResult(w) \/ Pad(w) \/ AppendPad(w)
    BY <2>5, Zenon DEF AppendResult, Pad, AppendPad
  <2> QED
    BY <2>1, <2>2, <2>3, <2>4, <2>5 DEF Moveless
<1>4. ASSUME NEW v \in Workers
      PROVE  turn'[v].msg = turn[v].msg /\ turn'[v].hand = turn[v].hand
  <2> PICK t : t = turn[v]
    OBVIOUS
  <2>1. t \in Turn
    BY <1>0
  <2>2. \/ turn'[v] = t
        \/ \E h : turn'[v] = [t EXCEPT !.ctx = h]
        \/ \E y : turn'[v] = [t EXCEPT !.why = y]
        \/ \E S : turn'[v] = [t EXCEPT !.todo = S]
        \/ \E S, r : turn'[v] = [t EXCEPT !.todo = S, !.round = r]
    <3>1. CASE v # w
      BY <1>0, <1>3, <3>1
    <3>2. CASE v = w
      <4>1. CASE turn' = turn
        BY <4>1
      <4>2. CASE \E h : turn' = [turn EXCEPT ![w].ctx = h]
        BY <1>0, <3>2, <4>2
      <4>3. CASE \E y : turn' = [turn EXCEPT ![w].why = y]
        BY <1>0, <3>2, <4>3
      <4>4. CASE \E S : turn' = [turn EXCEPT ![w].todo = S]
        BY <1>0, <3>2, <4>4
      <4>5. CASE \E S, r : turn' = [turn EXCEPT ![w].todo = S, ![w].round = r]
        <5>1. PICK S, r : turn' = [turn EXCEPT ![w].todo = S, ![w].round = r]
          BY <4>5
        <5>2. turn'[w] = [turn[w] EXCEPT !.todo = S, !.round = r]
          BY <1>0, <5>1
        <5> QED
          BY <3>2, <5>2, Zenon
      <4> QED
        BY <1>3, <4>1, <4>2, <4>3, <4>4, <4>5
    <3> QED
      BY <3>1, <3>2
  <2> QED
    BY <2>1, <2>2 DEF Turn
<1> QED
  BY <1>1, <1>2, <1>4

\* What a step that moves no message keeps.
LEMMA OnceSame ==
  ASSUME Typed, Once, ArchivesNobody, UNCHANGED <<queue, steerBuf, router, arrived, refused>>,
         \A v \in Workers : turn'[v].msg = turn[v].msg /\ turn'[v].hand = turn[v].hand
  PROVE  Once'
<1>1. ArchivedOnce' /\ \A m \in Inbound : Archived(m)' <=> Archived(m)
  BY ArchiveSame, ArchiveOther DEF ArchivesNobody, Once, Typed, HistoryTyped
<1>2. /\ QueuedOnce' /\ BufferedOnce' /\ BeginsOnce' /\ InHandOnce'
      /\ \A m : (Queued(m)' <=> Queued(m)) /\ (Buffered(m)' <=> Buffered(m))
                /\ (Begins(m)' <=> Begins(m)) /\ (InHand(m)' <=> InHand(m))
                /\ (Refused(m)' <=> Refused(m)) /\ (AtRouter(m)' <=> AtRouter(m))
  BY QueueSame, BufferSame, BeginsSame, HandsSame DEF Once, Refused, AtRouter
<1>3. ASSUME NEW m \in Inbound PROVE (m \in arrived' <=> Somewhere(m)') /\ Apart(m)'
  BY <1>1, <1>2, <1>3 DEF Once, Somewhere, Apart
<1> QED
  BY <1>1, <1>2, <1>3 DEF Once

\* A worker takes a message from its queue, refused or begun.
LEMMA OnceTake ==
  ASSUME StoreMode, Typed, Once, Handoff, NEW w \in Workers, Refuse(w) \/ Take(w)
  PROVE  Once'
<1> PICK x : x = Head(queue[w])
  OBVIOUS
<1>0. /\ queue \in [Workers -> Seq(Inbound)] /\ turn[w] \in Turn /\ Local(turn[w], pc[w])
      /\ turn \in [Workers -> Turn]
      /\ QueuedOnce /\ BeginsOnce /\ BufferedOnce /\ InHandOnce /\ ArchivedOnce
  BY DEF Typed, Locals, Once
<1>1. /\ pc[w] = "idle" /\ queue[w] # <<>> /\ queue' = [queue EXCEPT ![w] = Tail(@)]
      /\ UNCHANGED <<archive, unkept, steerBuf, router, arrived>>
  BY DEF Refuse, Take, session, steer
<1>2. x \in Inbound /\ Queued(x)
  <2>1. queue[w] \in Seq(Inbound)
    BY <1>0
  <2>2. 1 \in DOMAIN queue[w] /\ Head(queue[w]) = queue[w][1] /\ Head(queue[w]) \in Inbound
    BY <1>1, <2>1
  <2> QED
    BY <2>2 DEF Queued
<1>3. /\ QueuedOnce' /\ BufferedOnce' /\ ArchivedOnce'
      /\ \A m : (Queued(m)' <=> Queued(m) /\ m # x) /\ (Buffered(m)' <=> Buffered(m))
                /\ (Archived(m)' <=> Archived(m)) /\ (AtRouter(m)' <=> AtRouter(m))
  BY <1>0, <1>1, QueueTakes, BufferSame, ArchiveSame DEF AtRouter
<1>4. CASE Refuse(w)
  <2>1. turn' = turn /\ refused' = refused \cup {x}
    BY <1>4 DEF Refuse
  <2>2. /\ BeginsOnce' /\ InHandOnce'
        /\ \A m : (Begins(m)' <=> Begins(m)) /\ (InHand(m)' <=> InHand(m))
    BY <1>0, <2>1, BeginsSame, HandsSame
  <2>3. \A m : Refused(m)' <=> Refused(m) \/ m = x
    BY <2>1 DEF Refused
  <2>4. ASSUME NEW m \in Inbound PROVE (m \in arrived' <=> Somewhere(m)') /\ Apart(m)'
    BY <1>1, <1>2, <1>3, <2>2, <2>3, <2>4 DEF Once, Somewhere, Apart
  <2> QED
    BY <1>3, <2>2, <2>4 DEF Once
<1>5. CASE Take(w)
  <2>1. turn' = [turn EXCEPT ![w].msg = x] /\ refused' = refused
    BY <1>5 DEF Take
  <2>2. /\ turn'[w].msg = x /\ \A v \in Workers : v # w => turn'[v].msg = turn[v].msg
        /\ \A v \in Workers : turn'[v].hand = turn[v].hand
    <3>1. /\ turn'[w] = [turn[w] EXCEPT !.msg = x]
          /\ \A v \in Workers : v # w => turn'[v] = turn[v]
      BY <1>0, <2>1
    <3>2. turn'[w].msg = x /\ turn'[w].hand = turn[w].hand
      BY <1>0, <3>1 DEF Turn
    <3> QED
      BY <3>1, <3>2
  <2>3. turn[w].msg = NoCall
    BY <1>0, <1>1 DEF Local, Fetching
  <2>4. ~Begins(x)
    BY <1>2 DEF Once, Apart
  <2>5. BeginsOnce' /\ \A m \in Inbound : Begins(m)' <=> Begins(m) \/ m = x
    BY <1>0, <1>2, <2>2, <2>3, <2>4, BeginsAdds
  <2>6. /\ InHandOnce' /\ \A m : (InHand(m)' <=> InHand(m)) /\ (Refused(m)' <=> Refused(m))
    BY <1>0, <2>1, <2>2, HandsSame DEF Refused
  <2>7. ASSUME NEW m \in Inbound PROVE (m \in arrived' <=> Somewhere(m)') /\ Apart(m)'
    BY <1>1, <1>2, <1>3, <2>5, <2>6, <2>7 DEF Once, Somewhere, Apart
  <2> QED
    BY <1>3, <2>5, <2>6, <2>7 DEF Once
<1> QED
  BY <1>4, <1>5

\* The turn appends the message it began with.
LEMMA OnceUser ==
  ASSUME StoreMode, Typed, Once, Handoff, NEW w \in Workers, AppendUser(w)
  PROVE  Once'
<1> PICK x : x = turn[w].msg
  OBVIOUS
<1>0. /\ turn \in [Workers -> Turn] /\ turn[w] \in Turn /\ Local(turn[w], pc[w])
      /\ archive \in Seq(Msg)
      /\ QueuedOnce /\ BeginsOnce /\ BufferedOnce /\ InHandOnce /\ ArchivedOnce
  BY DEF Typed, Locals, HistoryTyped, Once
<1>1. /\ pc[w] = "user" /\ Records(From(x))
      /\ turn' = [turn EXCEPT ![w].msg = NoCall]
      /\ UNCHANGED <<queue, steerBuf, router, arrived, refused>>
  BY AppendRecords DEF AppendUser, steer, Quiet, inbound
<1>2. x \in Inbound /\ Begins(x)
  BY <1>0, <1>1 DEF Local, Fetching, Turn, Begins
<1>3. /\ turn'[w].msg = NoCall /\ \A v \in Workers : v # w => turn'[v].msg = turn[v].msg
      /\ \A v \in Workers : turn'[v].hand = turn[v].hand
  <2>1. /\ turn'[w] = [turn[w] EXCEPT !.msg = NoCall]
        /\ \A v \in Workers : v # w => turn'[v] = turn[v]
    BY <1>0, <1>1
  <2>2. turn'[w].msg = NoCall /\ turn'[w].hand = turn[w].hand
    BY <1>0, <2>1 DEF Turn
  <2> QED
    BY <2>1, <2>2
<1>4. BeginsOnce' /\ \A m \in Inbound : Begins(m)' <=> Begins(m) /\ m # x
  BY <1>0, <1>2, <1>3, BeginsTakes
<1>5. ArchivedOnce' /\ \A m \in Inbound : Archived(m)' <=> Archived(m) \/ m = x
  BY <1>0, <1>1, <1>2, ArchiveAdds DEF Once, Apart
<1>6. /\ QueuedOnce' /\ BufferedOnce' /\ InHandOnce'
      /\ \A m : (Queued(m)' <=> Queued(m)) /\ (Buffered(m)' <=> Buffered(m))
                /\ (InHand(m)' <=> InHand(m)) /\ (Refused(m)' <=> Refused(m))
                /\ (AtRouter(m)' <=> AtRouter(m))
  BY <1>0, <1>1, <1>3, QueueSame, BufferSame, HandsSame DEF Refused, AtRouter
<1>7. ASSUME NEW m \in Inbound PROVE (m \in arrived' <=> Somewhere(m)') /\ Apart(m)'
  BY <1>1, <1>2, <1>4, <1>5, <1>6, <1>7 DEF Once, Somewhere, Apart
<1> QED
  BY <1>4, <1>5, <1>6, <1>7 DEF Once

\* The three steps that empty the buffer into the worker's hand.
Drains(w) ==
  \/ LastDrain(w) /\ steerBuf # <<>>
  \/ NextRound(w)
  \/ End(w) /\ turnDepth = 1

LEMMA OnceDrain ==
  ASSUME StoreMode, Typed, Once, Handoff, NEW w \in Workers, Drains(w)
  PROVE  Once'
<1>0. /\ turn \in [Workers -> Turn] /\ turn[w] \in Turn /\ Local(turn[w], pc[w])
      /\ archive \in Seq(Msg)
      /\ QueuedOnce /\ BeginsOnce /\ BufferedOnce /\ InHandOnce /\ ArchivedOnce
      /\ \A i \in DOMAIN steerBuf : steerBuf[i].msg \in Inbound
  <2>1. \A i \in DOMAIN steerBuf : steerBuf[i] \in Steer
    BY DEF Typed
  <2> QED
    BY <2>1 DEF Typed, Locals, HistoryTyped, Once, Steer
<1>1. /\ pc[w] \in {"drain", "results", "end"} /\ steerBuf' = <<>>
      /\ UNCHANGED <<queue, router, arrived, refused>>
  BY DEF Drains, LastDrain, NextRound, End, EndTurn, Quiet, inbound
<1>2. \/ turn' = [turn EXCEPT ![w].hand = steerBuf]
      \/ turn' = [turn EXCEPT ![w].hand = steerBuf, ![w].round = @ + 1]
  BY DEF Drains, LastDrain, NextRound, End, EndTurn
<1>3. /\ turn'[w].hand = steerBuf /\ \A v \in Workers : v # w => turn'[v].hand = turn[v].hand
      /\ \A v \in Workers : turn'[v].msg = turn[v].msg
  <2> PICK t : t = turn[w]
    OBVIOUS
  <2>1. /\ \/ turn'[w] = [t EXCEPT !.hand = steerBuf]
           \/ turn'[w] = [t EXCEPT !.hand = steerBuf, !.round = t.round + 1]
        /\ \A v \in Workers : v # w => turn'[v] = turn[v]
    BY <1>0, <1>2
  <2>2. turn'[w].hand = steerBuf /\ turn'[w].msg = t.msg
    BY <1>0, <2>1 DEF Turn
  <2> QED
    BY <2>1, <2>2
<1>4. turn[w].hand = <<>>
  BY <1>0, <1>1 DEF Local
<1>5. \A i \in DOMAIN steerBuf : ~InHand(steerBuf[i].msg)
  <2> SUFFICES ASSUME NEW i \in DOMAIN steerBuf PROVE ~InHand(steerBuf[i].msg)
    OBVIOUS
  <2>1. Buffered(steerBuf[i].msg) /\ steerBuf[i].msg \in Inbound
    BY <1>0 DEF Buffered
  <2> QED
    BY <2>1 DEF Once, Apart
<1>6. /\ InHandOnce' /\ BufferedOnce'
      /\ \A m : (InHand(m)' <=> InHand(m) \/ Buffered(m)) /\ ~Buffered(m)'
  BY <1>0, <1>1, <1>3, <1>4, <1>5, HandsFill
<1>7. ArchivesNobody
  <2>1. UNCHANGED <<archive, unkept>> \/ Records(Warning)
    BY AppendRecords DEF Drains, LastDrain, NextRound, End, session
  <2> QED
    BY <2>1, MsgTypes, FromIs DEF ArchivesNobody
<1>8. ArchivedOnce' /\ \A m \in Inbound : Archived(m)' <=> Archived(m)
  BY <1>0, <1>7, ArchiveSame, ArchiveOther DEF ArchivesNobody
<1>9. /\ QueuedOnce' /\ BeginsOnce'
      /\ \A m : (Queued(m)' <=> Queued(m)) /\ (Begins(m)' <=> Begins(m))
                /\ (Refused(m)' <=> Refused(m)) /\ (AtRouter(m)' <=> AtRouter(m))
  BY <1>0, <1>1, <1>3, QueueSame, BeginsSame DEF Refused, AtRouter
<1>10. ASSUME NEW m \in Inbound PROVE (m \in arrived' <=> Somewhere(m)') /\ Apart(m)'
  BY <1>1, <1>6, <1>8, <1>9, <1>10 DEF Once, Somewhere, Apart
<1> QED
  BY <1>6, <1>8, <1>9, <1>10 DEF Once

\* A steer in hand is appended to the history.
LEMMA OnceFold ==
  ASSUME StoreMode, Typed, Once, Handoff, NEW w \in Workers, Fold(w) \/ Park(w),
         turn[w].hand # <<>>
  PROVE  Once'
<1> PICK x : x = Head(turn[w].hand).msg
  OBVIOUS
<1>0. /\ turn \in [Workers -> Turn] /\ turn[w] \in Turn /\ turn[w].hand \in Seq(Steer)
      /\ archive \in Seq(Msg)
      /\ QueuedOnce /\ BeginsOnce /\ BufferedOnce /\ InHandOnce /\ ArchivedOnce
  BY DEF Typed, Locals, HistoryTyped, Once, Turn
<1>1. /\ Records(From(x))
      /\ turn' = [turn EXCEPT ![w].hand = Tail(@)]
      /\ UNCHANGED <<queue, steerBuf, router, arrived, refused>>
  BY AppendRecords DEF Fold, Park, steer, Quiet, inbound
<1>2. x \in Inbound /\ InHand(x)
  <2>1. /\ 1 \in DOMAIN turn[w].hand /\ Head(turn[w].hand) = turn[w].hand[1]
        /\ Head(turn[w].hand) \in Steer
    BY <1>0
  <2> QED
    BY <2>1 DEF InHand, Steer
<1>3. /\ turn'[w].hand = Tail(turn[w].hand)
      /\ \A v \in Workers : v # w => turn'[v].hand = turn[v].hand
      /\ \A v \in Workers : turn'[v].msg = turn[v].msg
  <2> PICK t, h : t = turn[w] /\ h = Tail(turn[w].hand)
    OBVIOUS
  <2>1. turn'[w] = [t EXCEPT !.hand = h] /\ \A v \in Workers : v # w => turn'[v] = turn[v]
    BY <1>0, <1>1
  <2>2. turn'[w].hand = h /\ turn'[w].msg = t.msg
    BY <1>0, <2>1 DEF Turn
  <2> QED
    BY <2>1, <2>2
<1>4. InHandOnce' /\ \A m : InHand(m)' <=> InHand(m) /\ m # x
  BY <1>0, <1>3, HandsTake
<1>5. ArchivedOnce' /\ \A m \in Inbound : Archived(m)' <=> Archived(m) \/ m = x
  BY <1>0, <1>1, <1>2, ArchiveAdds DEF Once, Apart
<1>6. /\ QueuedOnce' /\ BufferedOnce' /\ BeginsOnce'
      /\ \A m : (Queued(m)' <=> Queued(m)) /\ (Buffered(m)' <=> Buffered(m))
                /\ (Begins(m)' <=> Begins(m)) /\ (Refused(m)' <=> Refused(m))
                /\ (AtRouter(m)' <=> AtRouter(m))
  BY <1>0, <1>1, <1>3, QueueSame, BufferSame, BeginsSame DEF Refused, AtRouter
<1>7. ASSUME NEW m \in Inbound PROVE (m \in arrived' <=> Somewhere(m)') /\ Apart(m)'
  BY <1>1, <1>2, <1>4, <1>5, <1>6, <1>7 DEF Once, Somewhere, Apart
<1> QED
  BY <1>4, <1>5, <1>6, <1>7 DEF Once

\* With nothing to fold, to park or to hand out the step moves no message.
LEMMA OnceEmpty ==
  ASSUME StoreMode, Typed, Once, Handoff, NEW w \in Workers,
         \/ (Fold(w) \/ Park(w)) /\ turn[w].hand = <<>>
         \/ LastDrain(w) /\ steerBuf = <<>>
         \/ End(w) /\ turnDepth # 1
  PROVE  Once'
<1>0. turn \in [Workers -> Turn] /\ Local(turn[w], pc[w])
  BY DEF Typed, Locals
<1>1. UNCHANGED <<queue, steerBuf, router, arrived, refused, archive, unkept>>
  BY DEF Fold, Park, LastDrain, End, EndTurn, Quiet, inbound, session, steer
<1>2. \/ turn' = turn
      \/ turn' = [turn EXCEPT ![w].why = "answered"]
      \/ turn' = [turn EXCEPT ![w] = NoTurn] /\ pc[w] = "park" /\ turn[w].hand = <<>>
  BY Zenon DEF Fold, Park, LastDrain, End, EndTurn, Leave
<1>3. ASSUME NEW v \in Workers
      PROVE  turn'[v].msg = turn[v].msg /\ turn'[v].hand = turn[v].hand
  <2> PICK t : t = turn[v]
    OBVIOUS
  <2>1. t \in Turn
    BY <1>0
  <2>2. \/ turn'[v] = t
        \/ turn'[v] = [t EXCEPT !.why = "answered"]
        \/ turn'[v] = NoTurn /\ t.msg = NoCall /\ t.hand = <<>>
    BY <1>0, <1>2 DEF Local, Fetching
  <2> QED
    BY <2>1, <2>2 DEF Turn, NoTurn
<1> QED
  BY <1>1, <1>3, OnceSame DEF ArchivesNobody

LEMMA OnceStep == StoreMode /\ Typed /\ Handoff /\ Once /\ [Next]_vars => Once'
<1> SUFFICES ASSUME StoreMode, Typed, Handoff, Once, [Next]_vars PROVE Once'
  OBVIOUS
<1>1. CASE UNCHANGED vars
  <2>1. UNCHANGED <<queue, steerBuf, router, arrived, refused, archive, unkept, turn>>
    BY <1>1 DEF vars, session, steer, inbound
  <2> QED
    BY <2>1, OnceSame DEF ArchivesNobody
<1>2. ASSUME NEW w \in Workers, TurnStep(w) PROVE Once'
  <2>1. CASE Moveless(w)
    BY <2>1, MovelessArchive, MovelessPlaces, OnceSame
  <2>2. CASE LastDrain(w) \/ NextRound(w) \/ End(w) \/ Fold(w) \/ Park(w)
    BY <2>2, OnceDrain, OnceFold, OnceEmpty DEF Drains
  <2> QED
    BY <1>2, <2>1, <2>2, OnceTake, OnceUser DEF TurnStep, Moveless
<1> QED
  BY <1>1, <1>2, OnceRouter DEF Next

\* One place of each kind, and one kind: one place.
LEMMA OnePlace ==
  ASSUME StoreMode, Once, NEW m \in arrived \cap Inbound
  PROVE  Cardinality(Waiting(m) \cup Settled(m)) = 1
<1> DEFINE P == Waiting(m) \cup Settled(m)
<1>0. /\ Somewhere(m) /\ Apart(m) /\ m # NoCall
      /\ QueuedOnce /\ BeginsOnce /\ BufferedOnce /\ InHandOnce /\ ArchivedOnce
  BY MessagesAssumption DEF Once
<1>1. \A x : x \in P <=>
        \/ x = <<"router">> /\ AtRouter(m)
        \/ \E w \in Workers : \E i \in DOMAIN queue[w] : queue[w][i] = m /\ x = <<"queue", w, i>>
        \/ \E w \in Workers : turn[w].msg = m /\ x = <<"turn", w>>
        \/ \E i \in DOMAIN steerBuf : steerBuf[i].msg = m /\ x = <<"buffer", i>>
        \/ \E w \in Workers : \E i \in DOMAIN turn[w].hand :
             turn[w].hand[i].msg = m /\ x = <<"hand", w, i>>
        \/ x = <<"refused">> /\ Refused(m)
        \/ x = <<"unkept">> /\ m \in unkept
        \/ \E i \in DOMAIN archive : archive[i] = From(m) /\ x = <<"record", i>>
  <2>1. \A x : x \in Waiting(m) <=>
        \/ x = <<"router">> /\ AtRouter(m)
        \/ \E w \in Workers : \E i \in DOMAIN queue[w] : queue[w][i] = m /\ x = <<"queue", w, i>>
        \/ \E w \in Workers : turn[w].msg = m /\ x = <<"turn", w>>
        \/ \E i \in DOMAIN steerBuf : steerBuf[i].msg = m /\ x = <<"buffer", i>>
        \/ \E w \in Workers : \E i \in DOMAIN turn[w].hand :
             turn[w].hand[i].msg = m /\ x = <<"hand", w, i>>
    <3>1. \A x : x \in WithRouter(m) <=> x = <<"router">> /\ AtRouter(m)
      BY DEF WithRouter, AtRouter
    <3>2. \A x : x \in InQueues(m) <=> \E w \in Workers : \E i \in DOMAIN queue[w] :
                                        queue[w][i] = m /\ x = <<"queue", w, i>>
      BY DEF InQueues
    <3>3. \A x : x \in InTurns(m) <=> \E w \in Workers : turn[w].msg = m /\ x = <<"turn", w>>
      BY DEF InTurns
    <3>4. \A x : x \in InBuffer(m) <=>
            \E i \in DOMAIN steerBuf : steerBuf[i].msg = m /\ x = <<"buffer", i>>
      BY DEF InBuffer
    <3>5. \A x : x \in InHands(m) <=> \E w \in Workers : \E i \in DOMAIN turn[w].hand :
                                       turn[w].hand[i].msg = m /\ x = <<"hand", w, i>>
      BY DEF InHands
    <3> QED
      BY ONLY <3>1, <3>2, <3>3, <3>4, <3>5, ZenonT(40) DEF Waiting
  <2>2. \A x : x \in Settled(m) <=>
        \/ x = <<"refused">> /\ Refused(m)
        \/ x = <<"unkept">> /\ m \in unkept
        \/ \E i \in DOMAIN archive : archive[i] = From(m) /\ x = <<"record", i>>
    BY DEF Settled, Refused, Recorded
  <2> QED
    BY <2>1, <2>2, Zenon
<1> HIDE DEF P
<1>2. \E x : P = {x}
  <2>1. CASE AtRouter(m)
    <3>1. P = {<<"router">>}
      BY <1>0, <1>1, <2>1 DEF Apart, Queued, Begins, Buffered, InHand, Archived
    <3> QED
      BY <3>1
  <2>2. CASE Queued(m)
    <3>1. PICK w \in Workers : \E i \in DOMAIN queue[w] : queue[w][i] = m
      BY <2>2 DEF Queued
    <3>2. PICK i \in DOMAIN queue[w] : queue[w][i] = m
      BY <3>1
    <3>3. \A v \in Workers : \A j \in DOMAIN queue[v] : queue[v][j] = m => v = w /\ j = i
      BY <1>0, <3>2 DEF QueuedOnce
    <3>4. P = {<<"queue", w, i>>}
      BY <1>0, <1>1, <2>2, <3>2, <3>3 DEF Apart, Begins, Buffered, InHand, Archived
    <3> QED
      BY <3>4
  <2>3. CASE Begins(m)
    <3>1. PICK w \in Workers : turn[w].msg = m
      BY <2>3 DEF Begins
    <3>2. \A v \in Workers : turn[v].msg = m => v = w
      BY <1>0, <3>1 DEF BeginsOnce
    <3>3. P = {<<"turn", w>>}
      BY <1>0, <1>1, <2>3, <3>1, <3>2 DEF Apart, Queued, Buffered, InHand, Archived
    <3> QED
      BY <3>3
  <2>4. CASE Buffered(m)
    <3>1. PICK i \in DOMAIN steerBuf : steerBuf[i].msg = m
      BY <2>4 DEF Buffered
    <3>2. \A j \in DOMAIN steerBuf : steerBuf[j].msg = m => j = i
      BY <1>0, <3>1 DEF BufferedOnce
    <3>3. P = {<<"buffer", i>>}
      BY <1>0, <1>1, <2>4, <3>1, <3>2 DEF Apart, Queued, Begins, InHand, Archived
    <3> QED
      BY <3>3
  <2>5. CASE InHand(m)
    <3>1. PICK w \in Workers : \E i \in DOMAIN turn[w].hand : turn[w].hand[i].msg = m
      BY <2>5 DEF InHand
    <3>2. PICK i \in DOMAIN turn[w].hand : turn[w].hand[i].msg = m
      BY <3>1
    <3>3. \A v \in Workers : \A j \in DOMAIN turn[v].hand :
            turn[v].hand[j].msg = m => v = w /\ j = i
      BY <1>0, <3>2 DEF InHandOnce
    <3>4. P = {<<"hand", w, i>>}
      BY <1>0, <1>1, <2>5, <3>2, <3>3 DEF Apart, Queued, Begins, Buffered, Archived
    <3> QED
      BY <3>4
  <2>6. CASE Refused(m)
    <3>1. P = {<<"refused">>}
      BY <1>0, <1>1, <2>6 DEF Apart, Queued, Begins, Buffered, InHand, Archived
    <3> QED
      BY <3>1
  <2>7. CASE Archived(m)
    <3>0. ~AtRouter(m) /\ ~Queued(m) /\ ~Begins(m) /\ ~Buffered(m) /\ ~InHand(m) /\ ~Refused(m)
      BY <1>0, <2>7 DEF Apart
    <3>1. CASE m \in unkept
      <4>1. \A i \in DOMAIN archive : archive[i] # From(m)
        BY <1>0, <3>1 DEF ArchivedOnce
      <4>2. P = {<<"unkept">>}
        BY <1>1, <3>0, <3>1, <4>1 DEF Queued, Begins, Buffered, InHand
      <4> QED
        BY <4>2
    <3>2. CASE \E i \in DOMAIN archive : archive[i] = From(m)
      <4>1. PICK i \in DOMAIN archive : archive[i] = From(m)
        BY <3>2
      <4>2. m \notin unkept /\ \A j \in DOMAIN archive : archive[j] = From(m) => j = i
        BY <1>0, <4>1 DEF ArchivedOnce
      <4>3. P = {<<"record", i>>}
        BY <1>1, <3>0, <4>1, <4>2 DEF Queued, Begins, Buffered, InHand
      <4> QED
        BY <4>3
    <3> QED
      BY <2>7, <3>1, <3>2 DEF Archived
  <2> QED
    BY <1>0, <2>1, <2>2, <2>3, <2>4, <2>5, <2>6, <2>7 DEF Somewhere
<1>3. Cardinality(P) = 1
  BY <1>2, FS_Singleton
<1> QED
  BY <1>3 DEF P

\* Steered, queued, begun with or refused, a message a person sent is at every
\* moment in one place and in the record once, unless its own insert failed,
\* when the sessions are in the database: the handoff between the router, the
\* buffer and any number of turns neither drops nor doubles it, and neither
\* does any other write or read of the store that fails (manager.go:411-418,
\* 484-508, 591-640, 653-666, loop.go:1969-1995).
THEOREM EveryMessageOnce ==
  ASSUME StoreMode
  PROVE  Spec => []AcceptedOnce
<1>1. Init => Typed /\ Handoff /\ Once
  BY TypedInit, HandoffInit, OnceInit
<1>2. (Typed /\ Handoff /\ Once) /\ [Next]_vars => (Typed /\ Handoff /\ Once)'
  BY TypedStep, HandoffStep, OnceStep
<1>3. Typed /\ Handoff /\ Once => AcceptedOnce
  BY OnePlace DEF AcceptedOnce
<1> QED
  BY <1>1, <1>2, <1>3, PTL DEF Spec

-----------------------------------------------------------------------------
(* RoundSteersFolded, for one worker at a time.  A turn that answered left *)
(* the loop with an empty buffer, so that what is buffered since came      *)
(* after its loop.                                                         *)

Leaving == {"pad", "padding", "end"}

NoneEarly(h) == \A i \in DOMAIN h : ~h[i].early

Folded ==
  \A w \in Workers :
    /\ turn[w].why # "card"
    /\ pc[w] \notin Leaving \cup {"park"} => turn[w].why = "none"
    /\ pc[w] \in Leaving /\ turn[w].why = "answered" => NoneEarly(steerBuf)
    /\ pc[w] = "park" /\ turn[w].why = "answered" => NoneEarly(turn[w].hand)

LEMMA FoldedInit == Init => Folded
  BY DEF Init, Folded, NoTurn, Leaving

LEMMA NoneEarlyTail ==
  ASSUME NEW h \in Seq(Steer), h # <<>>, NoneEarly(h)
  PROVE  NoneEarly(Tail(h))
<1>1. \A i \in DOMAIN Tail(h) : i + 1 \in DOMAIN h /\ Tail(h)[i] = h[i + 1]
  BY TailIs
<1> QED
  BY <1>1 DEF NoneEarly

\* The steps of the loop: the turn has not said why it leaves.
LEMMA FoldedLoop ==
  ASSUME Typed, Folded, NEW w, Workers = {w}, pc \in [Workers -> Places],
         \/ Refuse(w) \/ Take(w) \/ TurnGet(w) \/ TurnLoad(w) \/ BeginTurn(w) \/ AppendUser(w)
         \/ BuildContext(w) \/ Compact(w) \/ CallAnswers(w) \/ (LastDrain(w) /\ steerBuf # <<>>)
         \/ Fold(w) \/ CallsTools(w) \/ ToolsReturn(w) \/ AppendResult(w) \/ NextRound(w)
         \/ CutOff(w)
  PROVE  Folded'
<1> PICK t : t = turn[w]
  OBVIOUS
<1>0. w \in Workers /\ turn \in [Workers -> Turn] /\ t \in Turn
  BY DEF Typed, Locals
<1>1. /\ pc[w] \notin Leaving \cup {"park"}
      /\ \E p \in Places \ (Leaving \cup {"park"}) : pc' = [pc EXCEPT ![w] = p]
  <2>1. CASE Refuse(w) \/ AppendResult(w)
    <3>1. pc[w] \in {"idle", "results"} /\ pc' = [pc EXCEPT ![w] = pc[w]]
      BY <2>1 DEF Refuse, AppendResult
    <3> QED
      BY <3>1 DEF Leaving, Places
  <2>2. CASE Take(w) \/ TurnGet(w) \/ TurnLoad(w) \/ BeginTurn(w) \/ AppendUser(w) \/ Compact(w)
    BY <2>2 DEF Take, TurnGet, TurnLoad, BeginTurn, AppendUser, Compact, Go, Leaving, Places
  <2>3. CASE BuildContext(w)
    BY <2>3 DEF BuildContext, Go, Leaving, Places
  <2>4. CASE \/ CallAnswers(w) \/ (LastDrain(w) /\ steerBuf # <<>>) \/ CallsTools(w)
             \/ ToolsReturn(w) \/ NextRound(w) \/ CutOff(w)
    BY <2>4 DEF CallAnswers, LastDrain, CallsTools, ToolsReturn, NextRound, CutOff, Go, Leaving,
                Places
  <2>5. CASE Fold(w)
    <3>1. /\ pc[w] = "fold"
          /\ pc' = [pc EXCEPT ![w] = "llm"] \/ pc' = [pc EXCEPT ![w] = "fold"]
      BY <2>5 DEF Fold, Go
    <3> QED
      BY <3>1 DEF Leaving, Places
  <2> QED
    BY <2>1, <2>2, <2>3, <2>4, <2>5
<1>2. \/ turn' = turn
      \/ \E m : turn' = [turn EXCEPT ![w].msg = m]
      \/ \E h : turn' = [turn EXCEPT ![w].hand = h]
      \/ \E h, r : turn' = [turn EXCEPT ![w].hand = h, ![w].round = r]
      \/ \E h : turn' = [turn EXCEPT ![w].ctx = h]
      \/ \E S : turn' = [turn EXCEPT ![w].todo = S]
      \/ \E S, r : turn' = [turn EXCEPT ![w].todo = S, ![w].round = r]
  <2>1. CASE \/ Refuse(w) \/ TurnGet(w) \/ TurnLoad(w) \/ BeginTurn(w) \/ CallAnswers(w)
             \/ ToolsReturn(w) \/ CutOff(w)
    BY <2>1 DEF Refuse, TurnGet, TurnLoad, BeginTurn, CallAnswers, ToolsReturn, CutOff
  <2>2. CASE Take(w) \/ AppendUser(w)
    BY <2>2, Zenon DEF Take, AppendUser
  <2>3. CASE BuildContext(w) \/ Compact(w)
    BY <2>3, Zenon DEF BuildContext, Compact
  <2>4. CASE LastDrain(w) /\ steerBuf # <<>>
    BY <2>4, Zenon DEF LastDrain
  <2>5. CASE Fold(w) \/ NextRound(w)
    BY <2>5, Zenon DEF Fold, NextRound
  <2>6. CASE CallsTools(w)
    BY <2>6, Zenon DEF CallsTools
  <2>7. CASE AppendResult(w)
    BY <2>7, Zenon DEF AppendResult
  <2> QED
    BY <2>1, <2>2, <2>3, <2>4, <2>5, <2>6, <2>7
<1>3. turn'[w].why = t.why
  <2>1. CASE turn' = turn
    BY <2>1
  <2>2. CASE \E m : turn' = [turn EXCEPT ![w].msg = m]
    BY <1>0, <2>2 DEF Turn
  <2>3. CASE \E h : turn' = [turn EXCEPT ![w].hand = h]
    BY <1>0, <2>3 DEF Turn
  <2>4. ASSUME NEW h, NEW r, turn' = [turn EXCEPT ![w].hand = h, ![w].round = r]
        PROVE  turn'[w].why = t.why
    <3>1. turn'[w] = [t EXCEPT !.hand = h, !.round = r]
      BY <1>0, <2>4
    <3> QED
      BY <1>0, <3>1 DEF Turn
  <2>5. CASE \E h : turn' = [turn EXCEPT ![w].ctx = h]
    BY <1>0, <2>5 DEF Turn
  <2>6. CASE \E S : turn' = [turn EXCEPT ![w].todo = S]
    BY <1>0, <2>6 DEF Turn
  <2>7. ASSUME NEW S, NEW r, turn' = [turn EXCEPT ![w].todo = S, ![w].round = r]
        PROVE  turn'[w].why = t.why
    <3>1. turn'[w] = [t EXCEPT !.todo = S, !.round = r]
      BY <1>0, <2>7
    <3> QED
      BY <1>0, <3>1 DEF Turn
  <2> QED
    BY <1>2, <2>1, <2>2, <2>3, <2>4, <2>5, <2>6, <2>7
<1>4. t.why = "none" /\ pc'[w] \notin Leaving \cup {"park"}
  BY <1>0, <1>1 DEF Folded
<1> QED
  BY <1>3, <1>4 DEF Folded, Leaving

\* The ways out of the loop: only LastDrain says "answered", the buffer empty.
LEMMA FoldedLeave ==
  ASSUME Typed, Folded, ~Cards, NEW w, Workers = {w}, pc \in [Workers -> Places],
         \/ CallCancelled(w) \/ CallFails(w) \/ EndOnCard(w) \/ FinalDelivery(w)
         \/ LastDrain(w) /\ steerBuf = <<>>
  PROVE  Folded'
<1>0. w \in Workers /\ turn \in [Workers -> Turn]
  BY DEF Typed, Locals
<1>1. \/ Leave(w, "cancelled") \/ Leave(w, "failed") \/ Leave(w, "cut")
      \/ Leave(w, "answered") /\ steerBuf' = <<>>
  BY DEF CallCancelled, CallFails, EndOnCard, FinalDelivery, LastDrain
<1>2. \E y : Leave(w, y) /\ y # "card" /\ (y = "answered" => NoneEarly(steerBuf'))
  BY <1>1 DEF NoneEarly
<1>3. PICK y : Leave(w, y) /\ y # "card" /\ (y = "answered" => NoneEarly(steerBuf'))
  BY <1>2
<1>4. turn'[w].why = y /\ pc'[w] = "pad"
  BY <1>0, <1>3 DEF Leave, Go, Turn
<1> QED
  BY <1>3, <1>4 DEF Folded, Leaving, NoneEarly

\* The turn pads, and counts itself off.
LEMMA FoldedEnd ==
  ASSUME Typed, Folded, NEW w, Workers = {w}, pc \in [Workers -> Places],
         Pad(w) \/ AppendPad(w) \/ End(w)
  PROVE  Folded'
<1> PICK t : t = turn[w]
  OBVIOUS
<1>0. w \in Workers /\ turn \in [Workers -> Turn] /\ t \in Turn /\ Local(t, pc[w])
  BY DEF Typed, Locals
<1>1. /\ pc[w] \in Leaving /\ t.why # "card" /\ (t.why = "answered" => NoneEarly(steerBuf))
  BY <1>0 DEF Folded, Pad, AppendPad, End, Leaving
<1>2. CASE Pad(w) \/ AppendPad(w)
  <2>1. /\ steerBuf' = steerBuf
        /\ turn' = turn \/ \E S : turn' = [turn EXCEPT ![w].todo = S]
        /\ pc' = pc \/ pc' = [pc EXCEPT ![w] = "padding"] \/ pc' = [pc EXCEPT ![w] = "end"]
    BY <1>2, Zenon DEF Pad, AppendPad, Go, steer
  <2>2. turn'[w].why = t.why /\ pc'[w] \in Leaving
    BY <1>0, <1>1, <2>1 DEF Turn, Leaving
  <2> QED
    BY <1>1, <2>1, <2>2 DEF Folded, Leaving, NoneEarly
<1>3. CASE End(w)
  <2>1. pc'[w] = "park" /\ pc[w] = "end"
    BY <1>0, <1>3 DEF End, Go
  <2>2. CASE turnDepth = 1
    <3>1. turn' = [turn EXCEPT ![w].hand = steerBuf]
      BY <1>3, <2>2 DEF End, EndTurn
    <3>2. turn'[w].why = t.why /\ turn'[w].hand = steerBuf
      BY <1>0, <3>1 DEF Turn
    <3> QED
      BY <1>1, <2>1, <3>2 DEF Folded, Leaving, NoneEarly
  <2>3. CASE turnDepth # 1
    <3>1. turn' = turn
      BY <1>3, <2>3 DEF End, EndTurn
    <3>2. turn'[w].hand = <<>>
      BY <1>0, <2>1, <3>1 DEF Local
    <3>3. NoneEarly(<<>>)
      BY DEF NoneEarly
    <3> QED
      BY <1>1, <2>1, <3>1, <3>2, <3>3 DEF Folded, Leaving, NoneEarly
  <2> QED
    BY <2>2, <2>3
<1> QED
  BY <1>2, <1>3

LEMMA FoldedPark ==
  ASSUME Typed, Folded, NEW w, Workers = {w}, pc \in [Workers -> Places], Park(w)
  PROVE  Folded'
<1> PICK t : t = turn[w]
  OBVIOUS
<1>0. /\ w \in Workers /\ turn \in [Workers -> Turn] /\ t \in Turn /\ pc[w] = "park"
      /\ t.why # "card" /\ (t.why = "answered" => NoneEarly(t.hand))
  BY DEF Typed, Locals, Park, Folded
<1>1. CASE t.hand = <<>>
  <2>1. turn'[w] = NoTurn /\ pc'[w] = "idle"
    BY <1>0, <1>1 DEF Park, Go
  <2> QED
    BY <2>1 DEF Folded, Leaving, NoTurn
<1>2. CASE t.hand # <<>>
  <2> PICK h : h = Tail(t.hand)
    OBVIOUS
  <2>1. pc' = pc /\ turn' = [turn EXCEPT ![w].hand = h]
    <3>1. turn[w].hand # <<>>
      BY <1>2
    <3> QED
      BY <1>0, <3>1 DEF Park
  <2>2. turn'[w].why = t.why /\ turn'[w].hand = h
    BY <1>0, <2>1 DEF Turn
  <2>3. t.hand \in Seq(Steer)
    BY <1>0 DEF Turn
  <2>4. t.why = "answered" => NoneEarly(h)
    BY <1>0, <1>2, <2>3, NoneEarlyTail
  <2> QED
    BY <1>0, <2>1, <2>2, <2>4 DEF Folded, Leaving, NoneEarly
<1> QED
  BY <1>1, <1>2

\* What the router buffers while the only turn is past its loop is not early.
LEMMA FoldedRouter ==
  ASSUME Typed, Folded, NEW w, Workers = {w},
         \/ \E m \in Inbound, v \in Workers : Arrive(m, v)
         \/ \E m \in BotPosts : ArriveBot(m)
         \/ RouterStep
  PROVE  Folded'
<1>0. UNCHANGED <<pc, turn>>
  BY DEF Arrive, ArriveBot, RouterStep, RouterGet, RouterLoad, PushOrSubmit, Inject
<1>1. CASE steerBuf' = steerBuf
  BY <1>0, <1>1 DEF Folded, NoneEarly
<1>2. CASE PushOrSubmit /\ turnDepth > 0
  <2> PICK e, m : e = InLoop /\ m = router.msg
    OBVIOUS
  <2>1. steerBuf' = Append(steerBuf, [msg |-> m, early |-> e])
    BY <1>2 DEF PushOrSubmit
  <2>2. [msg |-> m, early |-> e] \in Steer /\ steerBuf \in Seq(Steer)
    BY <1>2 DEF PushOrSubmit, Typed, RouterTyped, Steer, InLoop
  <2>3. pc[w] \in Leaving => ~e
    BY DEF InLoop, Leaving
  <2>4. \A i \in DOMAIN steerBuf' :
          \/ i \in DOMAIN steerBuf /\ steerBuf'[i] = steerBuf[i]
          \/ steerBuf'[i] = [msg |-> m, early |-> e]
    BY <2>1, <2>2, AppendIs
  <2>5. pc[w] \in Leaving /\ NoneEarly(steerBuf) => NoneEarly(steerBuf)'
    BY <2>3, <2>4 DEF NoneEarly
  <2> QED
    BY <1>0, <2>5 DEF Folded
<1>3. steerBuf' = steerBuf \/ (PushOrSubmit /\ turnDepth > 0)
  BY DEF Arrive, ArriveBot, RouterStep, RouterGet, RouterLoad, PushOrSubmit, Inject, steer
<1> QED
  BY <1>1, <1>2, <1>3

LEMMA FoldedStep ==
  ASSUME NEW w, Workers = {w}, ~Cards, Typed, Handoff, Folded, [Next]_vars
  PROVE  Folded'
<1>0. pc \in [Workers -> Places]
  BY DEF Handoff
<1>1. CASE UNCHANGED vars
  <2>1. UNCHANGED <<pc, turn, steerBuf>>
    BY <1>1 DEF vars, steer
  <2> QED
    BY <2>1 DEF Folded, NoneEarly
<1>2. ASSUME TurnStep(w) PROVE Folded'
  BY <1>0, <1>2, FoldedLoop, FoldedLeave, FoldedEnd, FoldedPark DEF TurnStep
<1> QED
  BY <1>1, <1>2, FoldedRouter DEF Next

\* "the between-rounds and pre-done drains cover every normal path"
\* (loop.go:1982-1983), for one turn at a time and no tool that ends the turn:
\* a turn that answers parks no steer that came while it was in its loop.
THEOREM AnswerCoversSteers ==
  ASSUME \E w : Workers = {w}, ~Cards
  PROVE  Spec => []RoundSteersFolded
<1>0. PICK w : Workers = {w}
  OBVIOUS
<1>1. Init => Typed /\ Handoff /\ Folded
  BY TypedInit, HandoffInit, FoldedInit
<1>2. (Typed /\ Handoff /\ Folded) /\ [Next]_vars => (Typed /\ Handoff /\ Folded)'
  BY <1>0, TypedStep, HandoffStep, FoldedStep
<1>3. Folded => RoundSteersFolded
  BY DEF Folded, RoundSteersFolded, NoneEarly
<1> QED
  BY <1>1, <1>2, <1>3, PTL DEF Spec

-----------------------------------------------------------------------------
(* ContextWellFormed, for one turn at a time on a session kept in a file   *)
(* and in no group.  While a round's results come in, the calls in todo    *)
(* are open: the message that declared them has only tool messages behind  *)
(* it.                                                                     *)

ToolsAfter(h, i) == \A l \in (i + 1) .. Len(h) : h[l].role = "tool"

Open(h, S) ==
  /\ \A i \in DOMAIN h : \A c \in h[i].calls :
       \/ \E k \in DOMAIN h : Follows(h, k, i) /\ h[k].id = c
       \/ c \in S /\ ToolsAfter(h, i)
  /\ \A k \in DOMAIN h : h[k].role = "tool" =>
       /\ \E i \in DOMAIN h : Follows(h, k, i) /\ h[k].id \in h[i].calls
       /\ h[k].id \notin S
  /\ \A j, k \in DOMAIN h : h[j].role = "tool" /\ h[j] = h[k] => j = k
  /\ S # {} => \E i \in DOMAIN h : S \subseteq h[i].calls /\ ToolsAfter(h, i)

\* The calls of a history are the first n of the run.
Numbered(h, n) ==
  \A i \in DOMAIN h : h[i].calls \subseteq 1 .. n /\ (h[i].role = "tool" => h[i].id \in 1 .. n)

Answering == {"tools", "results"}

Sound ==
  \A w \in Workers :
    /\ Numbered(messages, calls)
    /\ Open(messages, IF pc[w] \in Answering THEN turn[w].todo ELSE {})
    /\ pc[w] = "padding" => turn[w].todo = {}
    /\ pc[w] = "compact" => turn[w].ctx = messages

LEMMA OpenNone ==
  ASSUME NEW h
  PROVE  Open(h, {}) <=> WellFormed(h)
  BY DEF Open, WellFormed

\* What an appended message changes of the two views of the tail.
LEMMA TailAppend ==
  ASSUME NEW h \in Seq(Msg), NEW m \in Msg
  PROVE  /\ Len(Append(h, m)) = Len(h) + 1
         /\ DOMAIN h = 1 .. Len(h) /\ DOMAIN Append(h, m) = 1 .. (Len(h) + 1)
         /\ \A i \in DOMAIN h : Append(h, m)[i] = h[i]
         /\ Append(h, m)[Len(h) + 1] = m
         /\ \A i, k \in DOMAIN h : Follows(Append(h, m), k, i) <=> Follows(h, k, i)
         /\ \A i \in DOMAIN h :
              /\ Follows(Append(h, m), Len(h) + 1, i) <=> ToolsAfter(h, i) /\ m.role = "tool"
              /\ ToolsAfter(Append(h, m), i) <=> ToolsAfter(h, i) /\ m.role = "tool"
<1> PICK g : g = Append(h, m)
  OBVIOUS
<1> PICK n : n = Len(h)
  OBVIOUS
<1>1. /\ n \in Nat /\ Len(g) = n + 1 /\ DOMAIN h = 1 .. n /\ DOMAIN g = 1 .. (n + 1)
      /\ \A i \in 1 .. n : g[i] = h[i]
      /\ g[n + 1] = m
  OBVIOUS
<1>2. \A i, k \in 1 .. n : Follows(g, k, i) <=> Follows(h, k, i)
  <2> SUFFICES ASSUME NEW i \in 1 .. n, NEW k \in 1 .. n
               PROVE  Follows(g, k, i) <=> Follows(h, k, i)
    OBVIOUS
  <2>1. \A l \in (i + 1) .. k : g[l] = h[l]
    BY <1>1
  <2> QED
    BY <2>1 DEF Follows
<1>3. ASSUME NEW i \in 1 .. n
      PROVE  /\ Follows(g, n + 1, i) <=> ToolsAfter(h, i) /\ m.role = "tool"
             /\ ToolsAfter(g, i) <=> ToolsAfter(h, i) /\ m.role = "tool"
  <2>1. /\ \A l \in (i + 1) .. n : l \in (i + 1) .. (n + 1) /\ g[l] = h[l]
        /\ n + 1 \in (i + 1) .. (n + 1)
        /\ \A l \in (i + 1) .. (n + 1) : l \in (i + 1) .. n \/ l = n + 1
        /\ i < n + 1
    BY <1>1
  <2>2. (\A l \in (i + 1) .. (n + 1) : g[l].role = "tool")
        <=> (\A l \in (i + 1) .. n : h[l].role = "tool") /\ m.role = "tool"
    BY <1>1, <2>1
  <2> QED
    BY <1>1, <2>1, <2>2 DEF Follows, ToolsAfter
<1> QED
  BY <1>1, <1>2, <1>3

\* A message that is no tool's closes what is behind it and opens its calls.
LEMMA OpenSays ==
  ASSUME NEW h \in Seq(Msg), NEW n \in Nat, Open(h, {}), Numbered(h, n),
         NEW m \in Msg, m.role # "tool", \A c \in m.calls : c \notin 1 .. n
  PROVE  Open(Append(h, m), m.calls)
<1> PICK g : g = Append(h, m)
  OBVIOUS
<1> PICK N : N = Len(h)
  OBVIOUS
<1>1. /\ N \in Nat /\ Len(g) = N + 1 /\ DOMAIN h = 1 .. N /\ DOMAIN g = 1 .. (N + 1)
      /\ \A i \in 1 .. N : g[i] = h[i]
      /\ g[N + 1] = m
      /\ \A i, k \in 1 .. N : Follows(g, k, i) <=> Follows(h, k, i)
  <2>1. /\ N \in Nat /\ Len(g) = N + 1 /\ DOMAIN h = 1 .. N /\ DOMAIN g = 1 .. (N + 1)
        /\ \A i \in 1 .. N : g[i] = h[i]
        /\ g[N + 1] = m
    OBVIOUS
  <2>2. \A i, k \in 1 .. N : Follows(g, k, i) <=> Follows(h, k, i)
    BY <2>1, TailAppend
  <2> QED
    BY <2>1, <2>2
<1>2. \A i \in 1 .. (N + 1) : i \in 1 .. N \/ i = N + 1
  BY <1>1
<1>3. 1 .. N \subseteq 1 .. (N + 1) /\ N + 1 \in 1 .. (N + 1)
  BY <1>1
<1>4. ToolsAfter(g, N + 1)
  BY <1>1 DEF ToolsAfter
<1>5. ASSUME NEW i \in DOMAIN g, NEW c \in g[i].calls
      PROVE  \/ \E k \in DOMAIN g : Follows(g, k, i) /\ g[k].id = c
             \/ c \in m.calls /\ ToolsAfter(g, i)
  <2>1. CASE i = N + 1
    BY <1>1, <1>4, <1>5, <2>1
  <2>2. CASE i \in 1 .. N
    <3>0. i \in DOMAIN h /\ c \in h[i].calls
      BY <1>1, <1>5, <2>2
    <3>1. PICK k \in DOMAIN h : Follows(h, k, i) /\ h[k].id = c
      BY <3>0 DEF Open
    <3>2. Follows(g, k, i) /\ g[k].id = c /\ k \in DOMAIN g
      BY <1>1, <1>3, <2>2, <3>1
    <3> QED
      BY <3>2
  <2> QED
    BY <1>1, <1>2, <1>5, <2>1, <2>2
<1>6. ASSUME NEW k \in DOMAIN g, g[k].role = "tool"
      PROVE  /\ \E i \in DOMAIN g : Follows(g, k, i) /\ g[k].id \in g[i].calls
             /\ g[k].id \notin m.calls
  <2>1. k \in 1 .. N /\ h[k].role = "tool" /\ g[k] = h[k]
    BY <1>1, <1>2, <1>6
  <2>2. PICK i \in 1 .. N : Follows(h, k, i) /\ h[k].id \in h[i].calls
    BY <1>1, <2>1 DEF Open
  <2>3. i \in DOMAIN g /\ Follows(g, k, i) /\ g[k].id \in g[i].calls
    BY <1>1, <1>3, <2>1, <2>2
  <2>4. h[k].id \in 1 .. n
    BY <1>1, <2>1 DEF Numbered
  <2> QED
    BY <2>1, <2>3, <2>4
<1>7. ASSUME NEW j \in DOMAIN g, NEW k \in DOMAIN g, g[j].role = "tool", g[j] = g[k]
      PROVE  j = k
  <2>1. j \in 1 .. N /\ k \in 1 .. N
    BY <1>1, <1>2, <1>7
  <2> QED
    BY <1>1, <1>7, <2>1 DEF Open
<1>8. N + 1 \in DOMAIN g /\ m.calls \subseteq g[N + 1].calls /\ ToolsAfter(g, N + 1)
  BY <1>1, <1>3, <1>4
<1>9. \E i \in DOMAIN g : m.calls \subseteq g[i].calls /\ ToolsAfter(g, i)
  BY <1>8
<1>10. Open(g, m.calls)
  BY ONLY <1>5, <1>6, <1>7, <1>9 DEF Open
<1> QED
  BY <1>10

\* The answer of an open call closes it.
LEMMA OpenAnswers ==
  ASSUME NEW h \in Seq(Msg), NEW S \in SUBSET Nat, Open(h, S), NEW c \in S
  PROVE  Open(Append(h, Tool(c)), S \ {c})
<1> PICK m : m = Tool(c)
  OBVIOUS
<1> PICK g : g = Append(h, m)
  OBVIOUS
<1> PICK N : N = Len(h)
  OBVIOUS
<1>0. m \in Msg /\ m.role = "tool" /\ m.id = c /\ m.calls = {}
  <2>1. c \in Nat
    OBVIOUS
  <2> QED
    BY <2>1, MsgTypes DEF Tool
<1>1. /\ N \in Nat /\ Len(g) = N + 1 /\ DOMAIN h = 1 .. N /\ DOMAIN g = 1 .. (N + 1)
      /\ \A i \in 1 .. N : g[i] = h[i]
      /\ g[N + 1] = m
      /\ \A i, k \in 1 .. N : Follows(g, k, i) <=> Follows(h, k, i)
      /\ \A i \in 1 .. N : /\ Follows(g, N + 1, i) <=> ToolsAfter(h, i)
                           /\ ToolsAfter(g, i) <=> ToolsAfter(h, i)
  <2>1. /\ N \in Nat /\ Len(g) = N + 1 /\ DOMAIN h = 1 .. N /\ DOMAIN g = 1 .. (N + 1)
        /\ \A i \in 1 .. N : g[i] = h[i]
        /\ g[N + 1] = m
        /\ \A i, k \in 1 .. N : Follows(g, k, i) <=> Follows(h, k, i)
    BY <1>0, TailAppend
  <2>2. \A i \in 1 .. N : /\ Follows(g, N + 1, i) <=> ToolsAfter(h, i) /\ m.role = "tool"
                          /\ ToolsAfter(g, i) <=> ToolsAfter(h, i) /\ m.role = "tool"
    BY <1>0, TailAppend
  <2> QED
    BY <1>0, <2>1, <2>2
<1>2. \A i \in 1 .. (N + 1) : i \in 1 .. N \/ i = N + 1
  BY <1>1
<1>3. 1 .. N \subseteq 1 .. (N + 1) /\ N + 1 \in 1 .. (N + 1)
  BY <1>1
<1>4. PICK last \in 1 .. N : S \subseteq h[last].calls /\ ToolsAfter(h, last)
  BY <1>1 DEF Open
<1>5. ASSUME NEW i \in DOMAIN g, NEW d \in g[i].calls
      PROVE  \/ \E k \in DOMAIN g : Follows(g, k, i) /\ g[k].id = d
             \/ d \in S \ {c} /\ ToolsAfter(g, i)
  <2>1. i \in 1 .. N /\ d \in h[i].calls
    BY <1>0, <1>1, <1>2, <1>5
  <2>2. CASE \E k \in 1 .. N : Follows(h, k, i) /\ h[k].id = d
    BY <1>1, <1>3, <2>1, <2>2
  <2>3. CASE d \in S /\ ToolsAfter(h, i)
    BY <1>0, <1>1, <1>3, <2>1, <2>3
  <2> QED
    BY <1>1, <2>1, <2>2, <2>3 DEF Open
<1>6. ASSUME NEW k \in DOMAIN g, g[k].role = "tool"
      PROVE  /\ \E i \in DOMAIN g : Follows(g, k, i) /\ g[k].id \in g[i].calls
             /\ g[k].id \notin S \ {c}
  <2>1. CASE k = N + 1
    <3>1. g[k] = m /\ m.id = c /\ m.role = "tool"
      BY <1>0, <1>1, <2>1
    <3>2. last \in DOMAIN g /\ c \in g[last].calls /\ Follows(g, k, last)
      BY <1>1, <1>3, <1>4, <2>1, <3>1
    <3> QED
      BY <3>1, <3>2
  <2>2. CASE k \in 1 .. N
    <3>1. h[k].role = "tool" /\ g[k] = h[k]
      BY <1>1, <1>6, <2>2
    <3>2. PICK i \in 1 .. N : Follows(h, k, i) /\ h[k].id \in h[i].calls
      BY <1>1, <2>2, <3>1 DEF Open
    <3>3. h[k].id \notin S
      BY <1>1, <2>2, <3>1 DEF Open
    <3> QED
      BY <1>1, <1>3, <2>2, <3>1, <3>2, <3>3
  <2> QED
    BY <1>1, <1>2, <1>6, <2>1, <2>2
<1>7. ASSUME NEW j \in DOMAIN g, NEW k \in DOMAIN g, g[j].role = "tool", g[j] = g[k]
      PROVE  j = k
  <2>1. \A i \in 1 .. N : h[i].role = "tool" => h[i].id # c
    BY <1>1 DEF Open
  <2>2. \A i \in 1 .. N : g[i].role = "tool" => g[i] # m
    BY <1>0, <1>1, <2>1
  <2>3. CASE j \in 1 .. N /\ k \in 1 .. N
    BY <1>1, <1>7, <2>3 DEF Open
  <2>4. CASE j = N + 1 \/ k = N + 1
    BY <1>0, <1>1, <1>2, <1>7, <2>2, <2>4
  <2> QED
    BY <1>1, <1>2, <2>3, <2>4
<1>8. last \in DOMAIN g /\ S \ {c} \subseteq g[last].calls /\ ToolsAfter(g, last)
  BY <1>1, <1>3, <1>4
<1>9. \E i \in DOMAIN g : S \ {c} \subseteq g[i].calls /\ ToolsAfter(g, i)
  BY <1>8
<1>10. Open(g, S \ {c})
  BY ONLY <1>5, <1>6, <1>7, <1>9 DEF Open
<1> QED
  BY <1>10

LEMMA NumberedAppend ==
  ASSUME NEW h \in Seq(Msg), NEW n \in Nat, Numbered(h, n), NEW p \in Nat, n <= p,
         NEW m \in Msg, m.calls \subseteq 1 .. p, m.role = "tool" => m.id \in 1 .. p
  PROVE  Numbered(Append(h, m), p)
<1>1. /\ \A i \in DOMAIN Append(h, m) : \/ i \in DOMAIN h /\ Append(h, m)[i] = h[i]
                                        \/ Append(h, m)[i] = m
  BY AppendIs
<1>2. 1 .. n \subseteq 1 .. p
  OBVIOUS
<1> QED
  BY <1>1, <1>2 DEF Numbered

\* A message that is no tool's and has no calls, before a suffix that begins
\* with no answer of a call it drops.
LEMMA SuffixWellFormed ==
  ASSUME NEW h, NEW g, NEW N \in Nat, NEW d \in Nat, d < N, WellFormed(h),
         DOMAIN h = 1 .. N, DOMAIN g = 1 .. (N - d), g[1].role # "tool", g[1].calls = {},
         \A k \in 2 .. (N - d) : g[k] = h[k + d],
         d + 2 <= N => h[d + 2].role # "tool"
  PROVE  WellFormed(g)
<1> DEFINE T == 2 .. (N - d)
<1>1. /\ \A k \in T : k \in Nat /\ k + d \in 1 .. N /\ g[k] = h[k + d]
      /\ \A k \in DOMAIN g : k \in T \/ k = 1
      /\ T \subseteq DOMAIN g
  OBVIOUS
<1>2. ASSUME NEW i \in T, NEW k \in T
      PROVE  Follows(g, k, i) <=> Follows(h, k + d, i + d)
  <2>0. i \in Nat /\ k \in Nat /\ k <= N - d /\ i >= 2
    OBVIOUS
  <2>1. ASSUME NEW l \in (i + 1) .. k
        PROVE  l + d \in (i + d + 1) .. (k + d) /\ g[l] = h[l + d]
    <3>1. l \in T /\ l + d \in (i + d + 1) .. (k + d)
      BY <2>0
    <3> QED
      BY <1>1, <3>1
  <2>2. ASSUME NEW l \in (i + d + 1) .. (k + d)
        PROVE  l - d \in (i + 1) .. k /\ g[l - d] = h[l]
    <3>1. l - d \in T /\ l - d \in (i + 1) .. k /\ (l - d) + d = l
      BY <2>0
    <3> QED
      BY <1>1, <3>1
  <2>3. i < k <=> i + d < k + d
    BY <2>0
  <2>4. (\A l \in (i + 1) .. k : g[l].role = "tool")
        <=> (\A l \in (i + d + 1) .. (k + d) : h[l].role = "tool")
    BY <2>1, <2>2
  <2> QED
    BY <2>3, <2>4 DEF Follows
<1> HIDE DEF T
<1>3. ASSUME NEW i \in DOMAIN g, NEW c \in g[i].calls
      PROVE  \E k \in DOMAIN g : Follows(g, k, i) /\ g[k].id = c
  <2>1. i \in T /\ i + d \in 1 .. N /\ c \in h[i + d].calls
    BY <1>1, <1>3
  <2> PICK r : r = i + d
    OBVIOUS
  <2>r. r \in DOMAIN h /\ c \in h[r].calls
    BY <2>1
  <2>2. PICK j \in DOMAIN h : Follows(h, j, r) /\ h[j].id = c
    BY <2>r DEF WellFormed
  <2> PICK k : k = j - d
    OBVIOUS
  <2>3. k \in T /\ k + d = j
    BY <1>1, <2>1, <2>2 DEF Follows, T
  <2>4. Follows(g, k, i) /\ g[k].id = c
    BY <1>1, <1>2, <2>1, <2>2, <2>3
  <2> QED
    BY <1>1, <2>3, <2>4
<1>4. ASSUME NEW k \in DOMAIN g, g[k].role = "tool"
      PROVE  \E i \in DOMAIN g : Follows(g, k, i) /\ g[k].id \in g[i].calls
  <2>1. k \in T /\ k + d \in 1 .. N /\ g[k] = h[k + d]
    BY <1>1, <1>4
  <2>2. PICK j \in 1 .. N : Follows(h, k + d, j) /\ h[k + d].id \in h[j].calls
    BY <1>4, <2>1 DEF WellFormed
  <2>3. j >= d + 2
    <3> SUFFICES ASSUME ~(j >= d + 2) PROVE FALSE
      OBVIOUS
    <3>1. k \in Nat /\ k >= 2 /\ k <= N - d
      BY <2>1 DEF T
    <3>2. d + 2 \in (j + 1) .. (k + d) /\ d + 2 <= N
      BY <3>1
    <3> QED
      BY <2>2, <3>2 DEF Follows
  <2> PICK i : i = j - d
    OBVIOUS
  <2>4. i \in T /\ i + d = j
    BY <2>3 DEF T
  <2>5. Follows(g, k, i) /\ g[k].id \in g[i].calls
    BY <1>1, <1>2, <2>1, <2>2, <2>4
  <2> QED
    BY <1>1, <2>4, <2>5
<1>5. ASSUME NEW j \in DOMAIN g, NEW k \in DOMAIN g, g[j].role = "tool", g[j] = g[k]
      PROVE  j = k
  <2>1. j \in T /\ k \in T
    BY <1>1, <1>5
  <2>2. /\ j + d \in DOMAIN h /\ k + d \in DOMAIN h /\ h[j + d].role = "tool"
        /\ h[j + d] = h[k + d]
    BY <1>1, <1>5, <2>1
  <2>3. j + d = k + d
    BY <2>2 DEF WellFormed
  <2> QED
    BY <1>1, <2>1, <2>3
<1> QED
  BY <1>3, <1>4, <1>5 DEF WellFormed

\* What the compaction makes of a history: the history, or a summary and a
\* suffix.
LEMMA CompactedIs ==
  ASSUME NEW h \in Seq(Msg), ~(Len(h) <= Keep)
  PROVE  \E d \in Nat : /\ d < Len(h)
                        /\ DOMAIN Compacted(h) = 1 .. (Len(h) - d)
                        /\ Compacted(h)[1] = Summary
                        /\ \A k \in 2 .. (Len(h) - d) : Compacted(h)[k] = h[k + d]
                        /\ d + 2 <= Len(h) => h[d + 2].role # "tool"
<1> PICK c : c = Cutoff(h)
  OBVIOUS
<1>1. c \in (Len(h) - Keep) .. Len(h) /\ (c < Len(h) => ~IsTool(h[c + 1]))
  BY CutoffIs, NatAssumption
<1>2. c \in Nat /\ c >= 1 /\ c <= Len(h) /\ Len(h) \in Nat
  BY <1>1, NatAssumption
<1> PICK t : t = SubSeq(h, c + 1, Len(h))
  OBVIOUS
<1>3. t \in Seq(Msg) /\ Len(t) = Len(h) - c /\ \A k \in 1 .. (Len(h) - c) : t[k] = h[c + k]
  BY ONLY <1>2, h \in Seq(Msg), t = SubSeq(h, c + 1, Len(h))
<1>4. Compacted(h) = <<Summary>> \o t
  BY DEF Compacted
<1>5. <<Summary>> \in Seq(Msg) /\ Len(<<Summary>>) = 1 /\ <<Summary>>[1] = Summary
  BY MsgTypes
<1>6. /\ DOMAIN Compacted(h) = 1 .. (Len(t) + 1)
      /\ Compacted(h)[1] = Summary
      /\ \A k \in 2 .. (Len(t) + 1) : Compacted(h)[k] = t[k - 1]
  BY ONLY <1>3, <1>4, <1>5
<1> PICK d : d = c - 1
  OBVIOUS
<1>7. d \in Nat /\ d < Len(h) /\ Len(t) + 1 = Len(h) - d
  BY <1>2, <1>3
<1>8. ASSUME NEW k \in 2 .. (Len(h) - d) PROVE Compacted(h)[k] = h[k + d]
  <2>1. k \in 2 .. (Len(t) + 1)
    BY <1>7
  <2>2. k - 1 \in 1 .. (Len(h) - c) /\ c + (k - 1) = k + d
    BY <1>2
  <2> QED
    BY <1>3, <1>6, <2>1, <2>2
<1>9. d + 2 <= Len(h) => h[d + 2].role # "tool"
  BY <1>1, <1>2 DEF IsTool
<1> QED
  BY <1>6, <1>7, <1>8, <1>9

LEMMA CompactedKeeps ==
  ASSUME NEW h \in Seq(Msg), NEW n \in Nat, WellFormed(h), Numbered(h, n)
  PROVE  WellFormed(Compacted(h)) /\ Numbered(Compacted(h), n)
<1>1. CASE Len(h) <= Keep
  BY <1>1 DEF Compacted
<1>2. CASE ~(Len(h) <= Keep)
  <2> PICK N, g : N = Len(h) /\ g = Compacted(h)
    OBVIOUS
  <2>1. PICK d \in Nat : /\ d < N /\ DOMAIN g = 1 .. (N - d) /\ g[1] = Summary
                         /\ \A k \in 2 .. (N - d) : g[k] = h[k + d]
                         /\ d + 2 <= N => h[d + 2].role # "tool"
    BY <1>2, CompactedIs
  <2>2. N \in Nat /\ DOMAIN h = 1 .. N
    OBVIOUS
  <2>3. Summary.role # "tool" /\ Summary.calls = {}
    BY DEF Summary, User
  <2>4. WellFormed(g)
    BY <2>1, <2>2, <2>3, SuffixWellFormed
  <2>5. \A k \in DOMAIN g : g[k] = Summary \/ \E i \in DOMAIN h : g[k] = h[i]
    <3>1. \A k \in 2 .. (N - d) : k + d \in DOMAIN h
      BY <2>1, <2>2
    <3>2. \A k \in DOMAIN g : k = 1 \/ k \in 2 .. (N - d)
      BY <2>1, <2>2
    <3> QED
      BY <2>1, <3>1, <3>2
  <2>6. Numbered(g, n)
    BY <2>3, <2>5 DEF Numbered
  <2> QED
    BY <2>4, <2>6
<1> QED
  BY <1>1, <1>2

\* In a well-formed history there is nothing to pad.
LEMMA NothingToPad ==
  ASSUME NEW h \in Seq(Msg), WellFormed(h)
  PROVE  LatestCalls(h) = {}
<1> DEFINE asked == {i \in DOMAIN h : h[i].calls # {}}
<1>1. CASE asked = {}
  BY <1>1 DEF LatestCalls
<1>2. CASE asked # {}
  <2>1. asked \in SUBSET Nat /\ Len(h) \in Nat /\ \A i \in asked : i <= Len(h)
    OBVIOUS
  <2>2. \E i \in asked : \A j \in asked : j <= i
    BY <1>2, <2>1, GreatestIs
  <2> PICK i : i = CHOOSE n \in asked : \A j \in asked : j <= n
    OBVIOUS
  <2>3. i \in asked
    BY <2>2
  <2>4. LatestCalls(h) = h[i].calls \ {h[k].id : k \in {k \in DOMAIN h : k > i /\ IsTool(h[k])}}
    BY <1>2 DEF LatestCalls
  <2>5. ASSUME NEW c \in h[i].calls
        PROVE  c \in {h[k].id : k \in {k \in DOMAIN h : k > i /\ IsTool(h[k])}}
    <3>1. PICK k \in DOMAIN h : Follows(h, k, i) /\ h[k].id = c
      BY <2>3, <2>5 DEF WellFormed
    <3>2. i \in Nat /\ k \in Nat /\ i < k
      BY <2>3, <3>1 DEF Follows
    <3>3. k \in (i + 1) .. k
      BY <3>2
    <3>4. k > i /\ IsTool(h[k])
      BY <3>1, <3>2, <3>3 DEF Follows, IsTool
    <3> QED
      BY <3>1, <3>4
  <2> QED
    BY <2>4, <2>5
<1> QED
  BY <1>1, <1>2

LEMMA SoundInit == Init => Sound
<1> SUFFICES ASSUME Init PROVE Sound
  OBVIOUS
<1>1. \A i : i \notin DOMAIN <<>>
  OBVIOUS
<1> QED
  BY <1>1 DEF Init, Sound, Numbered, Open, Answering, NoTurn

\* A step from a closed history to a place outside a round, that appends no
\* more than a message without calls.
PlainMsg(m) == m.role # "tool" /\ m.calls = {}

LEMMA PlainMsgs ==
  /\ \A m \in Inbound \cup BotPosts : From(m) \in Msg /\ PlainMsg(From(m))
  /\ Answer \in Msg /\ PlainMsg(Answer) /\ Warning \in Msg /\ PlainMsg(Warning)
<1>1. /\ \A m \in Inbound \cup BotPosts : PlainMsg(From(m))
      /\ PlainMsg(Answer) /\ PlainMsg(Warning)
  BY DEF PlainMsg, From, Answer, Warning, User, System, Asst
<1> QED
  BY <1>1, MsgTypes

LEMMA SoundClosed ==
  ASSUME Typed, Sound, NEW w, Workers = {w}, pc[w] \notin Answering \/ turn[w].todo = {},
         \/ messages' = messages
         \/ \E m \in Msg : PlainMsg(m) /\ messages' = Append(messages, m),
         calls' = calls, pc'[w] \notin Answering \cup {"padding", "compact"}
  PROVE  Sound'
<1>0. /\ messages \in Seq(Msg) /\ calls \in Nat
      /\ Numbered(messages, calls) /\ Open(messages, {})
  <2>1. messages \in Seq(Msg) /\ calls \in Nat
    BY NatAssumption DEF Typed, HistoryTyped
  <2>2. Numbered(messages, calls) /\ Open(messages, {})
    BY DEF Sound
  <2> QED
    BY <2>1, <2>2
<1>1. Numbered(messages', calls') /\ Open(messages', {})
  <2>1. CASE messages' = messages
    BY <1>0, <2>1
  <2>2. CASE \E m \in Msg : PlainMsg(m) /\ messages' = Append(messages, m)
    <3>1. PICK m \in Msg : PlainMsg(m) /\ messages' = Append(messages, m)
      BY <2>2
    <3>2. m.calls = {} /\ m.role # "tool"
      BY <3>1 DEF PlainMsg
    <3>3. Numbered(Append(messages, m), calls)
      BY <1>0, <3>2, NumberedAppend
    <3>4. Open(Append(messages, m), m.calls)
      BY <1>0, <3>2, OpenSays
    <3> QED
      BY <3>1, <3>2, <3>3, <3>4
  <2> QED
    BY <2>1, <2>2
<1>2. \A v \in Workers :
        /\ Numbered(messages', calls')
        /\ Open(messages', IF pc'[v] \in Answering THEN turn'[v].todo ELSE {})
        /\ pc'[v] = "padding" => turn'[v].todo = {}
        /\ pc'[v] = "compact" => turn'[v].ctx = messages'
  BY <1>1
<1> QED
  BY <1>2 DEF Sound, Answering

\* The steps outside a round of tools.
LEMMA SoundPlain ==
  ASSUME Typed, Sound, ExactLoads, NEW w, Workers = {w}, pc \in [Workers -> Places],
         \/ Refuse(w) \/ Take(w) \/ TurnGet(w) \/ TurnLoad(w) \/ BeginTurn(w) \/ AppendUser(w)
         \/ (BuildContext(w) /\ ~(Len(messages) > CompactAt)) \/ CallCancelled(w) \/ CallFails(w)
         \/ CallAnswers(w) \/ LastDrain(w) \/ Fold(w) \/ EndOnCard(w) \/ NextRound(w)
         \/ CutOff(w) \/ FinalDelivery(w) \/ AppendPad(w) \/ End(w) \/ Park(w)
  PROVE  Sound'
<1>0. /\ w \in Workers /\ turn[w] \in Turn /\ Local(turn[w], pc[w])
      /\ pc[w] = "padding" => turn[w].todo = {}
  BY DEF Typed, Locals, Sound
<1>1. calls' = calls
  BY DEF Refuse, Take, TurnGet, TurnLoad, BeginTurn, AppendUser, BuildContext, CallCancelled,
         CallFails, CallAnswers, LastDrain, Fold, EndOnCard, NextRound, CutOff, FinalDelivery,
         AppendPad, End, Park, Quiet
<1>2. pc[w] \notin Answering \/ turn[w].todo = {}
  BY DEF Refuse, Take, TurnGet, TurnLoad, BeginTurn, AppendUser, BuildContext, CallCancelled,
         CallFails, CallAnswers, LastDrain, Fold, EndOnCard, NextRound, CutOff, FinalDelivery,
         AppendPad, End, Park, Answering
<1>3. pc'[w] \notin Answering \cup {"padding", "compact"}
  <2>1. CASE Refuse(w) \/ Take(w) \/ TurnGet(w) \/ TurnLoad(w) \/ BeginTurn(w) \/ AppendUser(w)
    BY <1>0, <2>1 DEF Refuse, Take, TurnGet, TurnLoad, BeginTurn, AppendUser, Go, Answering
  <2>2. CASE \/ (BuildContext(w) /\ ~(Len(messages) > CompactAt))
             \/ CallCancelled(w) \/ CallFails(w) \/ CallAnswers(w)
    BY <1>0, <2>2 DEF BuildContext, CallCancelled, CallFails, CallAnswers, Leave, Go, Answering
  <2>3. CASE LastDrain(w) \/ EndOnCard(w) \/ NextRound(w) \/ CutOff(w) \/ FinalDelivery(w) \/ End(w)
    BY <1>0, <2>3 DEF LastDrain, EndOnCard, NextRound, CutOff, FinalDelivery, End, Leave, Go,
                      Answering
  <2>4. CASE Fold(w) \/ AppendPad(w) \/ Park(w)
    BY <1>0, <2>4 DEF Fold, AppendPad, Park, Go, Answering
  <2> QED
    BY <2>1, <2>2, <2>3, <2>4
<1>4. \/ messages' = messages
      \/ \E m \in Msg : PlainMsg(m) /\ messages' = Append(messages, m)
  <2>1. CASE \/ Refuse(w) \/ Take(w) \/ TurnGet(w) \/ BeginTurn(w) \/ BuildContext(w)
             \/ CallCancelled(w) \/ LastDrain(w) \/ EndOnCard(w) \/ CutOff(w) \/ End(w)
    BY <2>1 DEF Refuse, Take, TurnGet, BeginTurn, BuildContext, CallCancelled, LastDrain,
                EndOnCard, CutOff, End, session
  <2>l. CASE TurnLoad(w)
    BY <1>0, <2>l DEF ExactLoads
  <2>2. CASE CallFails(w) \/ CallAnswers(w) \/ FinalDelivery(w) \/ NextRound(w)
    <3>1. \/ messages' = messages \/ messages' = Append(messages, Answer)
          \/ messages' = Append(messages, Warning)
      BY <2>2 DEF CallFails, CallAnswers, FinalDelivery, NextRound, AppendMsg, session
    <3> QED
      BY <3>1, PlainMsgs
  <2>3. CASE AppendUser(w)
    <3>1. turn[w].msg \in Inbound /\ messages' = Append(messages, From(turn[w].msg))
      BY <1>0, <2>3 DEF AppendUser, AppendMsg, Local, Fetching, Turn
    <3> QED
      BY <3>1, PlainMsgs
  <2>4. CASE Fold(w) \/ Park(w)
    <3>1. CASE turn[w].hand = <<>>
      BY <2>4, <3>1 DEF Fold, Park, session
    <3>2. CASE turn[w].hand # <<>>
      <4> PICK m : m = Head(turn[w].hand).msg
        OBVIOUS
      <4>1. turn[w].hand \in Seq(Steer)
        BY <1>0 DEF Turn
      <4>2. Head(turn[w].hand) \in Steer
        BY <3>2, <4>1
      <4>3. m \in Inbound /\ messages' = Append(messages, From(m))
        BY <2>4, <3>2, <4>2 DEF Fold, Park, AppendMsg, Steer
      <4> QED
        BY <4>3, PlainMsgs
    <3> QED
      BY <3>1, <3>2
  <2>5. CASE AppendPad(w)
    BY <1>0, <2>5 DEF AppendPad, session
  <2> QED
    BY <2>1, <2>l, <2>2, <2>3, <2>4, <2>5
<1> QED
  BY <1>1, <1>2, <1>3, <1>4, SoundClosed

\* The compaction, from the copy it took of the history.
LEMMA SoundCompact ==
  ASSUME Typed, Sound, NEW w, Workers = {w}, pc \in [Workers -> Places],
         \/ BuildContext(w) /\ Len(messages) > CompactAt
         \/ Compact(w)
  PROVE  Sound'
<1>0. /\ w \in Workers /\ turn \in [Workers -> Turn]
      /\ messages \in Seq(Msg) /\ calls \in Nat
  BY NatAssumption DEF Typed, HistoryTyped, Locals
<1>1. pc[w] \in {"context", "compact"} /\ calls' = calls
  BY DEF BuildContext, Compact, Quiet
<1>2. Numbered(messages, calls) /\ Open(messages, {})
  BY <1>0, <1>1 DEF Sound, Answering
<1>3. CASE BuildContext(w) /\ Len(messages) > CompactAt
  <2>1. /\ turn' = [turn EXCEPT ![w].ctx = messages] /\ pc' = [pc EXCEPT ![w] = "compact"]
        /\ messages' = messages
    BY <1>3 DEF BuildContext, Go, session
  <2>2. turn'[w].ctx = messages /\ pc'[w] = "compact"
    BY <1>0, <2>1 DEF Turn
  <2> QED
    BY <1>1, <1>2, <2>1, <2>2 DEF Sound, Answering
<1>4. CASE Compact(w)
  <2>1. turn[w].ctx = messages
    BY <1>0, <1>4 DEF Compact, Sound
  <2>2. messages' = messages \/ messages' = Compacted(messages)
    BY <1>4, <2>1 DEF Compact, ReplaceMessages
  <2>3. WellFormed(messages)
    BY <1>2, OpenNone
  <2>4. WellFormed(messages') /\ Numbered(messages', calls)
    BY <1>0, <1>2, <2>2, <2>3, CompactedKeeps
  <2>5. Open(messages', {})
    BY <2>4, OpenNone
  <2>6. pc'[w] = "llm"
    BY <1>0, <1>4 DEF Compact, Go
  <2> QED
    BY <1>1, <2>4, <2>5, <2>6 DEF Sound, Answering
<1> QED
  BY <1>3, <1>4

\* A round: the calls are said, run, and answered from the least on.
LEMMA SoundRound ==
  ASSUME Typed, Sound, NEW w, Workers = {w}, pc \in [Workers -> Places],
         CallsTools(w) \/ ToolsReturn(w) \/ AppendResult(w)
  PROVE  Sound'
<1>0. /\ w \in Workers /\ turn \in [Workers -> Turn] /\ turn[w] \in Turn
      /\ messages \in Seq(Msg) /\ calls \in Nat /\ Numbered(messages, calls)
      /\ Open(messages, IF pc[w] \in Answering THEN turn[w].todo ELSE {})
  BY NatAssumption DEF Typed, HistoryTyped, Locals, Sound
<1>1. CASE CallsTools(w)
  <2> PICK n : /\ n \in 1 .. (MaxCalls - calls)
               /\ AppendMsg(Asst((calls + 1) .. (calls + n), FALSE))
               /\ turn' = [turn EXCEPT ![w].todo = (calls + 1) .. (calls + n), ![w].round = @ + 1]
               /\ calls' = calls + n
    BY <1>1 DEF CallsTools
  <2> PICK ids : ids = (calls + 1) .. (calls + n)
    OBVIOUS
  <2>1. n \in Nat /\ calls + n \in Nat /\ calls <= calls + n
    BY <1>0, NatAssumption
  <2>2. /\ \A c \in ids : c \in Nat /\ c \notin 1 .. calls
        /\ ids \subseteq 1 .. (calls + n)
    BY <1>0, <2>1
  <2> PICK m : m = Asst(ids, FALSE)
    OBVIOUS
  <2>3. m \in Msg
    BY <2>2, MsgTypes
  <2>4. m.role # "tool" /\ m.calls = ids
    BY DEF Asst
  <2>5. messages' = Append(messages, m) /\ pc'[w] = "tools"
    BY <1>0, <1>1 DEF CallsTools, Go, AppendMsg
  <2>6. turn'[w].todo = ids
    <3>1. turn'[w] = [turn[w] EXCEPT !.todo = ids, !.round = turn[w].round + 1]
      BY <1>0
    <3> QED
      BY <1>0, <3>1 DEF Turn
  <2>7. Open(messages, {})
    BY <1>0, <1>1 DEF CallsTools, Answering
  <2>8. Open(messages', ids)
    BY <1>0, <2>2, <2>3, <2>4, <2>5, <2>7, OpenSays
  <2>9. Numbered(messages', calls')
    BY <1>0, <2>1, <2>2, <2>3, <2>4, <2>5, NumberedAppend
  <2> QED
    BY <2>5, <2>6, <2>8, <2>9 DEF Sound, Answering
<1>2. CASE ToolsReturn(w)
  <2>1. UNCHANGED <<messages, turn, calls>> /\ pc[w] = "tools" /\ pc'[w] = "results"
    BY <1>0, <1>2 DEF ToolsReturn, Go, session, Quiet
  <2> QED
    BY <1>0, <2>1 DEF Sound, Answering
<1>3. CASE AppendResult(w)
  <2> PICK S, c : S = turn[w].todo /\ c = Least(S)
    OBVIOUS
  <2>1. S \in SUBSET Nat /\ c \in S
    <3>1. S \in SUBSET Nat /\ S # {}
      BY <1>0, <1>3 DEF Turn, AppendResult
    <3> QED
      BY <3>1, LeastIs
  <2>2. /\ messages' = Append(messages, Tool(c)) /\ calls' = calls /\ pc' = pc
        /\ pc[w] = "results" /\ turn' = [turn EXCEPT ![w].todo = S \ {c}]
    BY <1>0, <1>3 DEF AppendResult, AppendMsg, Quiet
  <2>3. turn'[w].todo = S \ {c}
    BY <1>0, <2>2 DEF Turn
  <2>4. Open(messages, S)
    BY <1>0, <2>2 DEF Answering
  <2>5. Open(messages', S \ {c})
    BY <1>0, <2>1, <2>2, <2>4, OpenAnswers
  <2>6. Numbered(messages', calls)
    <3>1. c \in 1 .. calls
      <4>1. \E i \in DOMAIN messages : S \subseteq messages[i].calls
        BY <2>1, <2>4 DEF Open
      <4> QED
        BY <1>0, <2>1, <4>1 DEF Numbered
    <3>2. Tool(c) \in Msg /\ Tool(c).calls = {} /\ Tool(c).id = c
      <4>1. Tool(c) \in Msg
        BY <2>1, MsgTypes
      <4> QED
        BY <4>1 DEF Tool
    <3>3. Tool(c).calls \subseteq 1 .. calls /\ Tool(c).id \in 1 .. calls /\ calls <= calls
      BY <1>0, <3>1, <3>2
    <3> QED
      BY <1>0, <2>2, <3>2, <3>3, NumberedAppend
  <2> QED
    BY <2>2, <2>3, <2>5, <2>6 DEF Sound, Answering
<1> QED
  BY <1>1, <1>2, <1>3

\* The end of a turn finds nothing to pad.
LEMMA SoundPad ==
  ASSUME Typed, Sound, NEW w, Workers = {w}, pc \in [Workers -> Places], Pad(w)
  PROVE  Sound'
<1>0. /\ w \in Workers /\ turn \in [Workers -> Turn] /\ messages \in Seq(Msg)
      /\ pc[w] = "pad"
  BY DEF Typed, HistoryTyped, Locals, Pad
<1>1. Numbered(messages, calls) /\ Open(messages, {})
  BY <1>0 DEF Sound, Answering
<1>2. LatestCalls(messages) = {}
  BY <1>0, <1>1, OpenNone, NothingToPad
<1>3. /\ turn' = [turn EXCEPT ![w].todo = {}] /\ pc' = [pc EXCEPT ![w] = "padding"]
      /\ messages' = messages /\ calls' = calls
  BY <1>2 DEF Pad, Go, session, Quiet
<1>4. turn'[w].todo = {} /\ pc'[w] = "padding"
  BY <1>0, <1>3 DEF Turn
<1> QED
  BY <1>1, <1>3, <1>4 DEF Sound, Answering

LEMMA SoundStep ==
  ASSUME NEW w, Workers = {w}, BotPosts = {}, Typed, Handoff, Sound, [Next]_vars,
         [ExactLoads]_vars
  PROVE  Sound'
<1>0. pc \in [Workers -> Places]
  BY DEF Handoff
<1>1. ASSUME UNCHANGED <<messages, calls, pc, turn>> PROVE Sound'
  BY <1>1 DEF Sound, Numbered, Open, Follows, ToolsAfter, Answering
<1>2. CASE UNCHANGED vars
  BY <1>1, <1>2 DEF vars, session
<1>3. ASSUME \E m \in Inbound, v \in Workers : Arrive(m, v), ~UNCHANGED vars PROVE Sound'
  <2>1. UNCHANGED <<messages, calls, pc, turn>>
    BY <1>3 DEF Arrive, session
  <2> QED
    BY <1>1, <2>1
<1>4. ASSUME RouterStep, ~UNCHANGED vars PROVE Sound'
  <2>1. ~Inject
    BY DEF Inject, Typed, RouterTyped
  <2>2. UNCHANGED <<calls, pc, turn>>
    BY <1>4, <2>1 DEF RouterStep, RouterGet, RouterLoad, PushOrSubmit
  <2>3. messages' = messages
    <3>1. CASE RouterLoad
      BY <1>4, <3>1 DEF ExactLoads
    <3>2. CASE RouterGet \/ PushOrSubmit
      BY <3>2 DEF RouterGet, PushOrSubmit, session
    <3> QED
      BY <1>4, <2>1, <3>1, <3>2 DEF RouterStep
  <2> QED
    BY <1>1, <2>2, <2>3
<1>5. ASSUME TurnStep(w), ~UNCHANGED vars PROVE Sound'
  <2>1. ExactLoads
    BY <1>5
  <2> QED
    BY <1>0, <1>5, <2>1, SoundPlain, SoundCompact, SoundRound, SoundPad DEF TurnStep
<1> QED
  BY <1>2, <1>3, <1>4, <1>5 DEF Next

\* A session in a file is not read again: every load leaves it as it is
\* (manager.go:411-418).
LEMMA FileLoads ==
  ASSUME ~StoreMode
  PROVE  [Next]_vars => [ExactLoads]_vars
  BY DEF ExactLoads, RouterLoad, TurnLoad, OverwriteMessages

\* "the session history stays well-formed" (loop.go:2466), for one turn at a
\* time in no group: the history every request starts from has each tool call
\* answered once and in place, compacted or not and whatever writes fail.  In a
\* file always; in the database as long as each load puts back what memory
\* holds, since a load that overlaps an append may take a reply away.
THEOREM ContextStaysWellFormed ==
  ASSUME \E w : Workers = {w}, BotPosts = {}
  PROVE  /\ Spec /\ [][ExactLoads]_vars => []ContextWellFormed
         /\ ~StoreMode => (Spec => []ContextWellFormed)
<1>0. PICK w : Workers = {w}
  OBVIOUS
<1>1. Init => Typed /\ Handoff /\ Sound
  BY TypedInit, HandoffInit, SoundInit
<1>2. (Typed /\ Handoff /\ Sound) /\ [Next]_vars /\ [ExactLoads]_vars
      => (Typed /\ Handoff /\ Sound)'
  BY <1>0, TypedStep, HandoffStep, SoundStep
<1>3. Sound => ContextWellFormed
  <2> SUFFICES ASSUME Sound, NEW v \in Workers, pc[v] \in {"context", "llm"}
               PROVE  WellFormed(messages)
    BY DEF ContextWellFormed
  <2>1. Open(messages, {})
    BY DEF Sound, Answering
  <2> QED
    BY <2>1, OpenNone
<1>4. Spec /\ [][ExactLoads]_vars => []ContextWellFormed
  BY <1>1, <1>2, <1>3, PTL DEF Spec
<1>5. ASSUME ~StoreMode PROVE Spec => []ContextWellFormed
  <2>1. [Next]_vars => [ExactLoads]_vars
    BY <1>5, FileLoads
  <2> QED
    BY <1>4, <2>1, PTL DEF Spec
<1> QED
  BY <1>4, <1>5
=============================================================================
