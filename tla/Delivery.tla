------------------------------ MODULE Delivery ------------------------------
(***************************************************************************)
(* The way of a message from a channel adapter to the agents               *)
(* (internal/bus/bus.go, internal/gateway/routing.go, dedup.go,            *)
(* pairing.go): the adapter's send, the bridge over a Redis stream and its *)
(* consumer group, and processInbound on the replica that read the entry.  *)
(*                                                                         *)
(* A platform gives a direct message to its bot, maybe more than once, and *)
(* a group message to every bot of the group but the one that wrote it,    *)
(* each copy with an id of its own.  An edited direct message, or a press  *)
(* on a button of one, is a post with the id of an earlier message.  Which *)
(* replica polls a bot is the business of ChannelLease: here any of its    *)
(* Pollers may.                                                            *)
(***************************************************************************)
EXTENDS Naturals, Sequences, FiniteSets

CONSTANTS
  Replicas, Bots, Agents,
  Pollers,     \* the replicas that may poll a bot
  Person,      \* who writes when no bot does
  AnyBot,      \* the account of a binding that names none
  Bindings,    \* the owner's bindings in their order, each [agent, bot]
  Team,        \* the agents of the team with group behavior "default-agent"
  Lead,        \* its default agent
  Posts,       \* messages sent to the platform
  Groups,      \* the posts in a group
  ToBot,       \* the bot a direct message is for
  MessageId,   \* the id of a direct message
  PairCodes,   \* direct messages "/pair" with the right code
  Cap,         \* capacity of each channel
  Repeats,     \* times the platform repeats a copy of a post within dedupTTL
  MaxFaults    \* bound on crashes and failing commands

ASSUME DeliveryAssumption ==
  /\ IsFiniteSet(Bots) /\ Person \notin Bots /\ AnyBot \notin Bots
  /\ Pollers \in [Bots -> SUBSET Replicas]
  /\ Cap \in Nat \ {0} /\ MaxFaults \in Nat /\ Repeats \in [Posts -> Nat]
  /\ Bindings \in Seq([agent : Agents, bot : Bots \cup {AnyBot}])
  /\ \A b \in Bots : \E i \in DOMAIN Bindings : Bindings[i].bot = b
  /\ Team \subseteq Agents /\ Lead \in Agents
  /\ Groups \subseteq Posts /\ PairCodes \subseteq Posts \ Groups
  /\ ToBot \in [Posts \ Groups -> Bots] /\ DOMAIN MessageId = Posts \ Groups

VARIABLES
  writer,    \* who wrote each group post
  named,     \* the bots it mentions
  arrived,   \* how often the platform gave each copy to an adapter
  inbound,   \* mb.Inbound of each replica
  stream,    \* entries no consumer has read
  batch,     \* what a replica read and has not delivered
  local,     \* inboundConsume of each replica
  seen,      \* g.dedup
  paired,    \* bots whose channel row has an owner
  turns,     \* turns each process submitted or steered, by agent and post
  notes,     \* posts it injected
  lost,      \* the copies that a crash or a failing command took
  faults

input == <<writer, named>>
vars  == <<input, arrived, inbound, stream, batch, local, seen, paired, turns, notes, lost, faults>>

\* A post as one bot got it; an adapter skips what its own bot wrote.
AllCopies == {c \in Posts \X Bots : c[1] \in Groups \/ ToBot[c[1]] = c[2]}
Copies    == {c \in AllCopies : c[1] \in Groups => writer[c[1]] # c[2]}
Limit(c)  == 1 + Repeats[c[1]]

\* Mutant: group copies are told apart by the bot that got them too.
KeyByBot(c) == IF c[1] \in Groups THEN <<"group", c[2], c[1]>> ELSE <<"dm", c[2], MessageId[c[1]]>>

\* isDuplicate: a group post by its room, sender and text, the same in every copy;
\* a direct message by the account and the message id.
Key(c) == IF c[1] \in Groups THEN <<"group", c[1]>> ELSE <<"dm", c[2], MessageId[c[1]]>>

Counts == [Replicas -> [Agents -> [Posts -> Nat]]]
None   == [a \in Agents |-> [m \in Posts |-> 0]]

TypeOK ==
  /\ writer \in [Groups -> Bots \cup {Person}] /\ named \in [Groups -> SUBSET Bots]
  /\ arrived \in [AllCopies -> Nat] /\ \A c \in AllCopies : arrived[c] <= Limit(c)
  /\ inbound \in [Replicas -> Seq(Copies)] /\ stream \in Seq(Copies)
  /\ batch \in [Replicas -> Seq(Copies)] /\ local \in [Replicas -> Seq(Copies)]
  /\ \A p \in Replicas : Len(inbound[p]) <= Cap /\ Len(local[p]) <= Cap
  /\ seen \in [Replicas -> SUBSET {Key(c) : c \in AllCopies}]
  /\ paired \subseteq Bots /\ lost \subseteq Copies /\ faults \in 0 .. MaxFaults
  /\ turns \in Counts /\ notes \in Counts

\* The bots that were paired before.
Owned == Bots \ {ToBot[m] : m \in PairCodes}

Init ==
  /\ writer \in [Groups -> Bots \cup {Person}] /\ named \in [Groups -> SUBSET Bots]
  /\ arrived = [c \in AllCopies |-> 0]
  /\ inbound = [p \in Replicas |-> <<>>] /\ local = [p \in Replicas |-> <<>>]
  /\ stream = <<>> /\ batch = [p \in Replicas |-> <<>>]
  /\ seen = [p \in Replicas |-> {}]
  /\ paired = Owned
  /\ turns = [p \in Replicas |-> None] /\ notes = [p \in Replicas |-> None]
  /\ lost = {} /\ faults = 0

Elements(q) == {q[i] : i \in DOMAIN q}

\* A fault, and the copies it takes.
Fault(taken) == faults < MaxFaults /\ faults' = faults + 1 /\ lost' = lost \cup taken

-----------------------------------------------------------------------------
(* The adapter and the bridge.                                             *)

Arrive(p, c) ==
  /\ p \in Pollers[c[2]] /\ arrived[c] < Limit(c) /\ Len(inbound[p]) < Cap
  /\ arrived' = [arrived EXCEPT ![c] = @ + 1]
  /\ inbound' = [inbound EXCEPT ![p] = Append(@, c)]
  /\ UNCHANGED <<input, stream, batch, local, seen, paired, turns, notes, lost, faults>>

\* publishInbound: the entry is out of the channel when XADD fails.
Publish(p) ==
  /\ inbound[p] # <<>>
  /\ inbound' = [inbound EXCEPT ![p] = Tail(@)]
  /\ \/ stream' = Append(stream, Head(inbound[p])) /\ UNCHANGED <<lost, faults>>
     \/ Fault({Head(inbound[p])}) /\ UNCHANGED stream
  /\ UNCHANGED <<input, arrived, batch, local, seen, paired, turns, notes>>

\* XREADGROUP ">" gives a consumer entries no consumer was given before, and
\* nobody ever asks for the pending ones: XACK, or its failure, changes nothing,
\* and a reply that does not arrive leaves its entries pending for good.
ReadGroup(p) ==
  /\ batch[p] = <<>> /\ stream # <<>>
  /\ stream' = <<>>
  /\ \/ batch' = [batch EXCEPT ![p] = stream] /\ UNCHANGED <<lost, faults>>
     \/ Fault(Elements(stream)) /\ UNCHANGED batch
  /\ UNCHANGED <<input, arrived, inbound, local, seen, paired, turns, notes>>

\* Mutant: deliver does not wait for room.
DeliverOrDrop(p) ==
  /\ batch[p] # <<>>
  /\ local' = [local EXCEPT ![p] = IF Len(@) < Cap THEN Append(@, Head(batch[p])) ELSE @]
  /\ batch' = [batch EXCEPT ![p] = Tail(@)]
  /\ UNCHANGED <<input, arrived, inbound, stream, seen, paired, turns, notes, lost, faults>>

\* Mutant: the local channel has no limit.
DeliverUnbounded(p) ==
  /\ batch[p] # <<>>
  /\ local' = [local EXCEPT ![p] = Append(@, Head(batch[p]))]
  /\ batch' = [batch EXCEPT ![p] = Tail(@)]
  /\ UNCHANGED <<input, arrived, inbound, stream, seen, paired, turns, notes, lost, faults>>

\* The entries go to the local channel one by one, waiting for room.
Deliver(p) ==
  /\ batch[p] # <<>> /\ Len(local[p]) < Cap
  /\ local' = [local EXCEPT ![p] = Append(@, Head(batch[p]))]
  /\ batch' = [batch EXCEPT ![p] = Tail(@)]
  /\ UNCHANGED <<input, arrived, inbound, stream, seen, paired, turns, notes, lost, faults>>

-----------------------------------------------------------------------------
(* processInbound.                                                         *)

ByBot(m) == m \in Groups /\ writer[m] \in Bots

\* The bindings that match a bot and whose agent is one of up, the agents of the
\* owner's space that are loaded or could be attached; and the first of some.
Attached(b, up) ==
  {i \in DOMAIN Bindings : Bindings[i].bot \in {b, AnyBot} /\ Bindings[i].agent \in up}
FirstOf(is) == {Bindings[i].agent : i \in {j \in is : \A k \in is : j <= k}}

Bound(b, up) == {Bindings[i].agent : i \in Attached(b, up)}

\* agentByMention: the agent of the first binding of the mentioned bot's own.
Mentioned(c, up) ==
  IF c[2] \in named[c[1]] THEN FirstOf({i \in Attached(c[2], up) : Bindings[i].bot = c[2]})
  ELSE {}

\* The team's default agent, if the team covers the agents that are bound here.
DefaultTarget(c, up) ==
  IF Bound(c[2], up) = {} \/ ~(Bound(c[2], up) \subseteq Team) THEN {}
  ELSE IF Lead \in up THEN {Lead} ELSE FirstOf(Attached(c[2], up))

\* Who gets a turn: the agent bound first to a direct message's bot; in a group
\* the mentioned one, else the default one for what a person wrote.
Targets(c, up) ==
  IF c[1] \notin Groups THEN FirstOf(Attached(c[2], up))
  ELSE IF ByBot(c[1]) \/ Mentioned(c, up) # {} THEN Mentioned(c, up)
  ELSE DefaultTarget(c, up)

\* Who only hears it; what a bot wrote all do, the target too.
Listeners(c, up) ==
  IF c[1] \notin Groups THEN {}
  ELSE IF ByBot(c[1]) THEN Bound(c[2], up) ELSE Bound(c[2], up) \ Targets(c, up)

Count(log, who, m) == [a \in Agents |-> IF a \in who THEN [log[a] EXCEPT ![m] = @ + 1] ELSE log[a]]

Take(p) == local[p] # <<>> /\ local' = [local EXCEPT ![p] = Tail(@)]

\* The lookup of the owner fails: the message is dropped before dedup knows it.
Unresolved(p) ==
  /\ Take(p) /\ Fault({Head(local[p])})
  /\ UNCHANGED <<input, arrived, inbound, stream, batch, seen, paired, turns, notes>>

Duplicate(p) ==
  /\ Take(p) /\ Key(Head(local[p])) \in seen[p]
  /\ UNCHANGED <<input, arrived, inbound, stream, batch, seen, paired, turns, notes, lost, faults>>

\* isDuplicate's LoadOrStore: from here on every other copy is a duplicate.
Fresh(p) ==
  /\ Take(p) /\ Key(Head(local[p])) \notin seen[p]
  /\ seen' = [seen EXCEPT ![p] = @ \cup {Key(Head(local[p]))}]

\* gatePairing takes a pairing code, and everything else an unpaired bot gets.
Gate(p) ==
  LET c == Head(local[p])
  IN  /\ Fresh(p) /\ (c[1] \in PairCodes \/ c[2] \notin paired)
      /\ \/ /\ paired' = IF c[1] \in PairCodes THEN paired \cup {c[2]} ELSE paired
            /\ UNCHANGED <<lost, faults>>
         \/ c[1] \in PairCodes /\ c[2] \notin paired /\ Fault({c}) /\ UNCHANGED paired
      /\ UNCHANGED <<input, arrived, inbound, stream, batch, turns, notes>>

\* routeDM or routeGroup.  A space that does not load, or some agents that cannot
\* be attached to it, leave fewer agents to route to, or none.
Route(p) ==
  LET c == Head(local[p])
  IN  /\ Fresh(p) /\ c[1] \notin PairCodes /\ c[2] \in paired
      /\ \E up \in SUBSET Agents :
           /\ IF up = Agents THEN UNCHANGED <<lost, faults>> ELSE Fault({c})
           /\ turns' = [turns EXCEPT ![p] = Count(@, Targets(c, up), c[1])]
           /\ notes' = [notes EXCEPT ![p] = Count(@, Listeners(c, up), c[1])]
      /\ UNCHANGED <<input, arrived, inbound, stream, batch, paired>>

Process(p) == Unresolved(p) \/ Duplicate(p) \/ Gate(p) \/ Route(p)

-----------------------------------------------------------------------------
\* A crash takes the channels and the dedup map; what the replica had read
\* stays pending under a consumer name that never comes back.  The process that
\* replaces it counts afresh.
Crash(p) ==
  /\ Fault(UNION {Elements(q) : q \in {inbound[p], local[p], batch[p]}})
  /\ inbound' = [inbound EXCEPT ![p] = <<>>] /\ local' = [local EXCEPT ![p] = <<>>]
  /\ batch' = [batch EXCEPT ![p] = <<>>] /\ seen' = [seen EXCEPT ![p] = {}]
  /\ turns' = [turns EXCEPT ![p] = None] /\ notes' = [notes EXCEPT ![p] = None]
  /\ UNCHANGED <<input, arrived, stream, paired>>

Run(p) == Publish(p) \/ ReadGroup(p) \/ Deliver(p) \/ Process(p)

Next ==
  \E p \in Replicas : Run(p) \/ Crash(p) \/ \E c \in Copies : Arrive(p, c)

Spec == Init /\ [][Next]_vars

\* Each of a replica's three goroutines runs.
Fairness ==
  \A p \in Replicas :
    WF_vars(Publish(p)) /\ WF_vars(ReadGroup(p) \/ Deliver(p)) /\ WF_vars(Process(p))

FairSpec == Spec /\ Fairness

-----------------------------------------------------------------------------
(* Properties.                                                             *)

\* "each replica still suppresses its OWN duplicate pulls" (dedup.go:40-42): one
\* process brings a person's post into the session of an agent once, as a turn
\* or as something it heard, however many copies of it arrive.
SeenOnce ==
  \A p \in Replicas, a \in Agents, m \in Posts :
    ~ByBot(m) => turns[p][a][m] + notes[p][a][m] <= 1

\* The direct messages of a bot by their ids: a message, its edits, the presses on
\* its buttons.
SameMessage(b) ==
  LET mine == {m \in Posts \ Groups : ToBot[m] = b}
  IN  {{n \in mine : MessageId[n] = MessageId[m]} : m \in mine}

\* Of the direct messages with one id that the adapter of a paired bot accepted, one
\* gets a turn of the agent bound first to that bot, however full the channels are and
\* whatever becomes of others: unless a crash or a failing command took a copy of one.
Reached ==
  \A b \in Owned : \A same \in SameMessage(b), a \in FirstOf(Attached(b, Agents)) :
    <>(\E m \in same : arrived[<<m, b>>] > 0) =>
    <>(\E m \in same : <<m, b>> \in lost \/ \E p \in Replicas : turns[p][a][m] > 0)

\* "Handle edited messages - treat like new messages" (telegram.go:92): as Reached,
\* for each message by itself.
EachReached ==
  \A m \in Posts \ (Groups \cup PairCodes) :
    ToBot[m] \in Owned =>
      ((arrived[<<m, ToBot[m]>>] > 0) ~>
         (faults > 0 \/ \E p \in Replicas, a \in Agents : turns[p][a][m] > 0))

\* "agentByMention picks the candidate agent that should handle a group message
\* based on whether the bot that received this inbound was @-mentioned"
\* (routing.go:518-520): a bot someone mentions, and whose copy arrived, gets a turn.
MentionAnswered ==
  \A m \in Groups, b \in Bots :
    (b \in named[m] /\ writer[m] # b /\ arrived[<<m, b>>] > 0)
      ~> \/ faults > 0 \/ b \notin Owned
         \/ \E p \in Replicas, a \in Mentioned(<<m, b>>, Agents) : turns[p][a][m] > 0
=============================================================================
