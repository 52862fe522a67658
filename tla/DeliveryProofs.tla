--------------------------- MODULE DeliveryProofs ---------------------------
(***************************************************************************)
(* Theorems about Delivery: types with the bounds of the channels, and the *)
(* deduplication of a post's copies.                                       *)
(***************************************************************************)
EXTENDS Delivery, SequenceTheorems, TLAPS

\* The key all copies of post m have in common, however they came.
PostKey(m) == IF m \in Groups THEN <<"group", m>> ELSE <<"dm", ToBot[m], MessageId[m]>>

\* A post in the session of an agent was seen before.
Remembered ==
  \A p \in Replicas, a \in Agents, m \in Posts :
    ~ByBot(m) => \/ turns[p][a][m] = 0 /\ notes[p][a][m] = 0
                 \/ PostKey(m) \in seen[p] /\ turns[p][a][m] + notes[p][a][m] <= 1

-----------------------------------------------------------------------------
(* Sequences and copies.                                                   *)

\* A nonempty queue of copies, and one with a copy more.
LEMMA Queues ==
  ASSUME NEW S, NEW q \in Seq(S)
  PROVE  /\ Len(q) \in Nat
         /\ q # <<>> => Head(q) \in S /\ Tail(q) \in Seq(S) /\ Len(Tail(q)) = Len(q) - 1
         /\ \A c \in S : Append(q, c) \in Seq(S) /\ Len(Append(q, c)) = Len(q) + 1
  BY HeadTailProperties, AppendProperties, LenProperties

\* A copy is of a post, and of a bot that may have it.
LEMMA CopyOf ==
  ASSUME NEW c \in Copies
  PROVE  /\ c[1] \in Posts /\ c[2] \in Bots /\ c \in AllCopies
         /\ Key(c) = PostKey(c[1])
<1>1. c \in Posts \X Bots /\ c \in AllCopies /\ (c[1] \in Groups \/ ToBot[c[1]] = c[2])
  BY DEF Copies, AllCopies
<1>2. c[1] \in Posts /\ c[2] \in Bots
  BY <1>1
<1> QED
  BY <1>1, <1>2 DEF Key, PostKey

\* The copies in a queue, and those a fault takes.
LEMMA ElementsAre ==
  ASSUME NEW S, NEW q \in Seq(S)
  PROVE  Elements(q) \subseteq S
  BY ElementOfSeq DEF Elements

LEMMA FaultTyped ==
  ASSUME TypeOK, NEW taken, taken \subseteq Copies, Fault(taken)
  PROVE  lost' \subseteq Copies /\ faults' \in 0 .. MaxFaults
  BY DeliveryAssumption DEF TypeOK, Fault

\* What Count does to a log.
LEMMA Counted ==
  ASSUME NEW log \in [Agents -> [Posts -> Nat]], NEW who, NEW n \in Posts
  PROVE  /\ Count(log, who, n) \in [Agents -> [Posts -> Nat]]
         /\ \A a \in Agents, m \in Posts :
              Count(log, who, n)[a][m] = IF a \in who /\ m = n THEN log[a][m] + 1 ELSE log[a][m]
  BY DEF Count

\* A post no bot wrote is a turn or heard, never both, for one agent.
LEMMA TurnOrNote ==
  ASSUME NEW c \in Copies, NEW up, ~ByBot(c[1])
  PROVE  Targets(c, up) \cap Listeners(c, up) = {}
  BY DEF Targets, Listeners

-----------------------------------------------------------------------------
(* Types.                                                                  *)

\* Each step keeps the types.
LEMMA TypeStep == TypeOK /\ [Next]_vars => TypeOK'
<1> SUFFICES ASSUME TypeOK, [Next]_vars PROVE TypeOK'
  OBVIOUS
<1> USE DEF TypeOK
<1>0. UNCHANGED input /\ Copies' = Copies /\ (\A c : Key(c)' = Key(c))
  BY DEF Next, Run, Arrive, Publish, ReadGroup, Deliver, Process, Unresolved, Duplicate, Gate,
         Route, Crash, input, vars, Copies, AllCopies, Key
<1>1. ASSUME NEW p \in Replicas, NEW c \in Copies, Arrive(p, c) PROVE TypeOK'
  <2>1. c \in AllCopies /\ arrived[c] \in Nat /\ Limit(c) \in Nat
    BY CopyOf, DeliveryAssumption DEF Limit
  <2>2. arrived' \in [AllCopies -> Nat] /\ \A d \in AllCopies : arrived'[d] <= Limit(d)
    BY <1>1, <2>1 DEF Arrive
  <2>3. Append(inbound[p], c) \in Seq(Copies) /\ Len(Append(inbound[p], c)) <= Cap
    BY <1>1, Queues, DeliveryAssumption DEF Arrive
  <2>4. inbound' \in [Replicas -> Seq(Copies)] /\ \A q \in Replicas : Len(inbound'[q]) <= Cap
    BY <1>1, <2>3 DEF Arrive
  <2> QED
    BY <1>0, <1>1, <2>2, <2>4 DEF Arrive, input
<1>2. ASSUME NEW p \in Replicas, Publish(p) PROVE TypeOK'
  <2>1. /\ Head(inbound[p]) \in Copies /\ Tail(inbound[p]) \in Seq(Copies)
        /\ Len(Tail(inbound[p])) <= Cap
    BY <1>2, Queues, DeliveryAssumption DEF Publish
  <2>2. inbound' \in [Replicas -> Seq(Copies)] /\ \A q \in Replicas : Len(inbound'[q]) <= Cap
    BY <1>2, <2>1 DEF Publish
  <2>3. Append(stream, Head(inbound[p])) \in Seq(Copies)
    BY <2>1, Queues
  <2>4. stream' \in Seq(Copies)
    BY <1>2, <2>3 DEF Publish
  <2>5. lost' \subseteq Copies /\ faults' \in 0 .. MaxFaults
    BY <1>2, <2>1, FaultTyped DEF Publish
  <2> QED
    BY <1>0, <1>2, <2>2, <2>4, <2>5 DEF Publish, input
<1>3. ASSUME NEW p \in Replicas, ReadGroup(p) PROVE TypeOK'
  <2>1. <<>> \in Seq(Copies)
    BY EmptySeq
  <2>2. lost' \subseteq Copies /\ faults' \in 0 .. MaxFaults
    BY <1>3, ElementsAre, FaultTyped DEF ReadGroup
  <2>3. batch' \in [Replicas -> Seq(Copies)]
    BY <1>3 DEF ReadGroup
  <2> QED
    BY <1>0, <1>3, <2>1, <2>2, <2>3 DEF ReadGroup, input
<1>4. ASSUME NEW p \in Replicas, Deliver(p) PROVE TypeOK'
  <2>1. Head(batch[p]) \in Copies /\ Tail(batch[p]) \in Seq(Copies)
    BY <1>4, Queues DEF Deliver
  <2>2. Append(local[p], Head(batch[p])) \in Seq(Copies)
          /\ Len(Append(local[p], Head(batch[p]))) <= Cap
    BY <1>4, <2>1, Queues, DeliveryAssumption DEF Deliver
  <2>3. /\ local' \in [Replicas -> Seq(Copies)] /\ batch' \in [Replicas -> Seq(Copies)]
        /\ \A q \in Replicas : Len(local'[q]) <= Cap
    BY <1>4, <2>1, <2>2 DEF Deliver
  <2> QED
    BY <1>0, <1>4, <2>3 DEF Deliver, input
<1>5. ASSUME NEW p \in Replicas, Process(p) PROVE TypeOK'
  <2> DEFINE c == Head(local[p])
  <2>1. Take(p)
    BY <1>5 DEF Process, Unresolved, Duplicate, Gate, Route, Fresh
  <2>2. c \in Copies /\ Tail(local[p]) \in Seq(Copies) /\ Len(Tail(local[p])) <= Cap
    BY <2>1, Queues, DeliveryAssumption DEF Take
  <2>3. local' \in [Replicas -> Seq(Copies)] /\ \A q \in Replicas : Len(local'[q]) <= Cap
    BY <2>1, <2>2 DEF Take
  <2>4. c[1] \in Posts /\ c[2] \in Bots /\ c \in AllCopies
    BY <2>2, CopyOf
  <2> HIDE DEF c
  <2>5. UNCHANGED seen \/ seen' = [seen EXCEPT ![p] = seen[p] \cup {Key(c)}]
    BY <1>5 DEF Process, Unresolved, Duplicate, Gate, Route, Fresh, c
  <2>6. seen' \in [Replicas -> SUBSET {Key(d) : d \in AllCopies}]
    <3>1. Key(c) \in {Key(d) : d \in AllCopies}
      BY <2>4
    <3> HIDE DEF TypeOK
    <3>2. seen \in [Replicas -> SUBSET {Key(d) : d \in AllCopies}]
      BY DEF TypeOK
    <3> QED
      BY ONLY <2>5, <3>1, <3>2, p \in Replicas, ZenonT(40)
  <2>7. UNCHANGED <<lost, faults>> \/ Fault({c})
    BY <1>5 DEF Process, Unresolved, Duplicate, Gate, Route, c
  <2>8. lost' \subseteq Copies /\ faults' \in 0 .. MaxFaults
    BY <2>2, <2>7, FaultTyped
  <2>9. paired' \subseteq Bots
    BY <1>5, <2>4 DEF Process, Unresolved, Duplicate, Gate, Route, c
  <2>10. turns' \in Counts /\ notes' \in Counts
    <3>1. CASE UNCHANGED <<turns, notes>>
      BY <3>1 DEF Counts
    <3>2. CASE Route(p)
      <4>1. PICK up \in SUBSET Agents :
              /\ turns' = [turns EXCEPT ![p] = Count(turns[p], Targets(c, up), c[1])]
              /\ notes' = [notes EXCEPT ![p] = Count(notes[p], Listeners(c, up), c[1])]
        BY <3>2 DEF Route, c
      <4>2. turns[p] \in [Agents -> [Posts -> Nat]] /\ notes[p] \in [Agents -> [Posts -> Nat]]
        BY DEF Counts
      <4>3. /\ Count(turns[p], Targets(c, up), c[1]) \in [Agents -> [Posts -> Nat]]
            /\ Count(notes[p], Listeners(c, up), c[1]) \in [Agents -> [Posts -> Nat]]
        BY ONLY <2>4, <4>2, Counted
      <4> QED
        BY <4>1, <4>3, ZenonT(40) DEF Counts
    <3> QED
      BY <1>5, <3>1, <3>2 DEF Process, Unresolved, Duplicate, Gate
  <2>11. UNCHANGED <<arrived, inbound, stream, batch>>
    BY <1>5 DEF Process, Unresolved, Duplicate, Gate, Route
  <2> QED
    BY <1>0, <2>3, <2>6, <2>8, <2>9, <2>10, <2>11 DEF input
<1>6. ASSUME NEW p \in Replicas, Crash(p) PROVE TypeOK'
  <2>1. <<>> \in Seq(Copies) /\ Len(<<>>) <= Cap
    BY EmptySeq, DeliveryAssumption
  <2>2. turns' \in Counts /\ notes' \in Counts
    BY <1>6 DEF Crash, Counts, None
  <2>3. UNION {Elements(q) : q \in {inbound[p], local[p], batch[p]}} \subseteq Copies
    BY ElementsAre
  <2>4. lost' \subseteq Copies /\ faults' \in 0 .. MaxFaults
    BY <1>6, <2>3, FaultTyped DEF Crash
  <2> QED
    BY <1>0, <1>6, <2>1, <2>2, <2>4 DEF Crash, input
<1>7. CASE UNCHANGED vars
  BY <1>0, <1>7 DEF vars, input, Counts
<1> QED
  BY <1>1, <1>2, <1>3, <1>4, <1>5, <1>6, <1>7 DEF Next, Run

\* They hold at first.
LEMMA TypeInit == Init => TypeOK
<1> SUFFICES ASSUME Init PROVE TypeOK
  OBVIOUS
<1>1. <<>> \in Seq(Copies) /\ Len(<<>>) <= Cap
  BY EmptySeq, DeliveryAssumption
<1>2. None \in [Agents -> [Posts -> Nat]]
  BY DEF None
<1>3. \A c \in AllCopies : Limit(c) \in Nat /\ 0 <= Limit(c)
  <2>1. \A c \in AllCopies : c[1] \in Posts
    BY DEF AllCopies
  <2> QED
    BY <2>1, DeliveryAssumption DEF Limit
<1> QED
  BY <1>1, <1>2, <1>3, DeliveryAssumption DEF Init, TypeOK, Counts, Owned

\* Every variable of the delivery keeps its type, and no channel holds more than
\* its capacity, for any number of replicas, bots, agents and posts.
THEOREM TypeCorrect == Spec => []TypeOK
  BY TypeInit, TypeStep, PTL DEF Spec

-----------------------------------------------------------------------------
(* Deduplication.                                                          *)

\* A post that is routed, for the first time.
LEMMA RememberedRoute ==
  ASSUME TypeOK, Remembered, NEW p \in Replicas, Route(p)
  PROVE  Remembered'
<1> DEFINE c == Head(local[p])
<1>1. /\ c \in Copies /\ c[1] \in Posts /\ Key(c) = PostKey(c[1])
      /\ turns[p] \in [Agents -> [Posts -> Nat]] /\ notes[p] \in [Agents -> [Posts -> Nat]]
  BY Queues, CopyOf DEF TypeOK, Counts, Route, Fresh, Take
<1>2. seen' = [seen EXCEPT ![p] = seen[p] \cup {Key(c)}] /\ UNCHANGED writer
  BY DEF Route, Fresh, input
<1>3. \A m \in Posts : ByBot(m)' = ByBot(m)
  BY <1>2 DEF ByBot
<1>4. PICK up \in SUBSET Agents :
        /\ turns' = [turns EXCEPT ![p] = Count(turns[p], Targets(c, up), c[1])]
        /\ notes' = [notes EXCEPT ![p] = Count(notes[p], Listeners(c, up), c[1])]
  BY DEF Route
<1>5. Key(c) \notin seen[p]
  BY DEF Route, Fresh
<1> HIDE DEF c
<1>6. /\ turns'[p] = Count(turns[p], Targets(c, up), c[1])
      /\ notes'[p] = Count(notes[p], Listeners(c, up), c[1])
      /\ \A q \in Replicas \ {p} : turns'[q] = turns[q] /\ notes'[q] = notes[q]
  BY <1>4 DEF TypeOK, Counts
<1>7. \A a \in Agents, m \in Posts :
        /\ turns'[p][a][m] = IF a \in Targets(c, up) /\ m = c[1] THEN turns[p][a][m] + 1
                            ELSE turns[p][a][m]
        /\ notes'[p][a][m] = IF a \in Listeners(c, up) /\ m = c[1] THEN notes[p][a][m] + 1
                            ELSE notes[p][a][m]
  BY <1>1, <1>6, Counted
<1> SUFFICES ASSUME NEW q \in Replicas, NEW a \in Agents, NEW m \in Posts, ~ByBot(m)
             PROVE  \/ turns'[q][a][m] = 0 /\ notes'[q][a][m] = 0
                    \/ PostKey(m) \in seen'[q] /\ turns'[q][a][m] + notes'[q][a][m] <= 1
  BY <1>3 DEF Remembered
<1>8. CASE q # p
  BY <1>2, <1>6, <1>8 DEF Remembered, TypeOK
<1>9. CASE q = p /\ m # c[1]
  <2>1. turns'[p][a][m] = turns[p][a][m] /\ notes'[p][a][m] = notes[p][a][m]
    BY <1>1, <1>7, <1>9
  <2> QED
    BY <1>2, <1>9, <2>1 DEF Remembered, TypeOK
<1>10. CASE q = p /\ m = c[1]
  <2>1. turns[p][a][m] = 0 /\ notes[p][a][m] = 0
    BY <1>1, <1>5, <1>10 DEF Remembered
  <2>2. ~(a \in Targets(c, up) /\ a \in Listeners(c, up))
    BY <1>1, <1>10, TurnOrNote
  <2>3. /\ turns'[p][a][m] = IF a \in Targets(c, up) THEN 1 ELSE 0
        /\ notes'[p][a][m] = IF a \in Listeners(c, up) THEN 1 ELSE 0
    BY <1>1, <1>7, <1>10, <2>1
  <2>4. PostKey(m) \in seen'[p]
    BY <1>1, <1>2, <1>10 DEF TypeOK
  <2> QED
    BY <1>10, <2>2, <2>3, <2>4
<1> QED
  BY <1>8, <1>9, <1>10

\* No other step adds to a log; a crash empties the log with the memory.
LEMMA RememberedStep == TypeOK /\ Remembered /\ [Next]_vars => Remembered'
<1> SUFFICES ASSUME TypeOK, Remembered, [Next]_vars PROVE Remembered'
  OBVIOUS
<1>1. ASSUME UNCHANGED <<writer, seen, turns, notes>> PROVE Remembered'
  BY <1>1 DEF Remembered, ByBot
<1>2. ASSUME NEW p \in Replicas, Crash(p) PROVE Remembered'
  <2>1. \A m \in Posts : ByBot(m)' = ByBot(m)
    BY <1>2 DEF Crash, input, ByBot
  <2>2. \A a \in Agents, m \in Posts : turns'[p][a][m] = 0 /\ notes'[p][a][m] = 0
    BY <1>2 DEF Crash, TypeOK, Counts, None
  <2>3. \A q \in Replicas \ {p} :
          seen'[q] = seen[q] /\ turns'[q] = turns[q] /\ notes'[q] = notes[q]
    BY <1>2 DEF Crash, TypeOK, Counts
  <2> QED
    BY <2>1, <2>2, <2>3 DEF Remembered
<1>3. ASSUME NEW p \in Replicas,
             Publish(p) \/ ReadGroup(p) \/ Deliver(p) \/ \E c \in Copies : Arrive(p, c)
      PROVE  Remembered'
  BY <1>1, <1>3 DEF Publish, ReadGroup, Deliver, Arrive, input
<1>4. ASSUME NEW p \in Replicas, Unresolved(p) \/ Duplicate(p) \/ Gate(p) PROVE Remembered'
  <2>1. UNCHANGED <<writer, turns, notes>>
    BY <1>4 DEF Unresolved, Duplicate, Gate, input
  <2>2. \A q \in Replicas : seen[q] \subseteq seen'[q]
    BY <1>4 DEF Unresolved, Duplicate, Gate, Fresh, TypeOK
  <2> QED
    BY <2>1, <2>2 DEF Remembered, ByBot
<1>5. CASE UNCHANGED vars
  BY <1>1, <1>5 DEF vars, input
<1> QED
  BY <1>2, <1>3, <1>4, <1>5, RememberedRoute DEF Next, Run, Process

\* One process brings a person's post into the session of an agent once, for any
\* number of bots in the group, of replicas and of repeated copies, through
\* crashes, and for every binding of agents to bots.
THEOREM DeliveredOnce == Spec => []SeenOnce
<1>1. Init => Remembered
  BY DEF Init, Remembered, None
<1>2. TypeOK /\ Remembered => SeenOnce
  BY DEF Remembered, SeenOnce, TypeOK, Counts
<1> QED
  BY <1>1, <1>2, RememberedStep, TypeCorrect, PTL DEF Spec
=============================================================================
