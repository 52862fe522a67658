---------------------------- MODULE WireMessages ----------------------------
(***************************************************************************)
(* From the history of a session to the request a provider gets:           *)
(* findOrphanToolCalls and toAPIMessages (internal/provider/openai.go) and *)
(* toAnthropicMessages (internal/provider/anthropic.go).                   *)
(*                                                                         *)
(* A message is its role, the tool calls an assistant message declares,    *)
(* the call a tool message answers, and whether it carries any text.  Role *)
(* "old" is an assistant message of an old session, whose calls stand in   *)
(* RawAssistant and not in ToolCalls: the scan reads both                  *)
(* (assistantToolCallIDs), the Anthropic request only ToolCalls.           *)
(***************************************************************************)
EXTENDS Naturals, Sequences, FiniteSets

NoCall == 0

User           == [role |-> "user",      id |-> NoCall, calls |-> {}, text |-> TRUE]
System         == [role |-> "system",    id |-> NoCall, calls |-> {}, text |-> TRUE]
Asst(calls, t) == [role |-> "assistant", id |-> NoCall, calls |-> calls, text |-> t]
OldAsst(calls, t) == [role |-> "old", id |-> NoCall, calls |-> calls, text |-> t]
Tool(c)        == [role |-> "tool",      id |-> c,      calls |-> {}, text |-> TRUE]

IsTool(m) == m.role = "tool"

\* The run of tool messages that follows position i at once.
Run(h, i) == {k \in DOMAIN h : k > i /\ \A l \in (i + 1) .. k : IsTool(h[l])}

\* Mutant: answers are looked for anywhere after the call.
AnsweredLater(h, i) == {h[k].id : k \in {k \in DOMAIN h : k > i /\ IsTool(h[k])}}

Answered(h, i) == {h[k].id : k \in Run(h, i)}

\* Mutant: a run with a stray reply counts as unanswered.
ExactlyAnswered(h) == {i \in DOMAIN h : h[i].calls # {} /\ h[i].calls # Answered(h, i)}

IsOrphan(h, i) == ~(h[i].calls \subseteq Answered(h, i))

OrphanAssistants(h) == {i \in DOMAIN h : IsOrphan(h, i)}

OrphanTools(h) ==
  UNION {{k \in Run(h, i) : h[k].id \in h[i].calls} : i \in OrphanAssistants(h)}

\* The positions in S, in order.
InOrder(S) ==
  [n \in 1 .. Cardinality(S) |-> CHOOSE k \in S : Cardinality({j \in S : j <= k}) = n]

\* The positions of h that are not in Dropped.
Kept(h, Dropped) == InOrder(DOMAIN h \ Dropped)

\* Message i without tool calls that nothing answers.
Stripped(h, i) == IF IsOrphan(h, i) THEN [h[i] EXCEPT !.calls = {}] ELSE h[i]

OpenAIWire(h) ==
  LET kept == Kept(h, OrphanTools(h))
  IN  [n \in DOMAIN kept |-> Stripped(h, kept[n])]

-----------------------------------------------------------------------------
(* The Anthropic request: system messages travel apart, a reply to a       *)
(* stripped call goes wherever it stands, an assistant left with no text   *)
(* goes too, and neighbouring replies share one user message.              *)

StrippedIds(h) == UNION {h[i].calls : i \in OrphanAssistants(h)}

\* The calls message i declares to Anthropic.
Uses(h, i) == IF h[i].role = "assistant" THEN Stripped(h, i).calls ELSE {}

\* Mutant: only the replies next to the stripped call are dropped.
SweepNear(h) == OrphanTools(h)

Sweep(h) ==
  LET stripped == StrippedIds(h)
  IN  OrphanTools(h) \cup {k \in DOMAIN h : IsTool(h[k]) /\ h[k].id \in stripped}

AnthropicDropped(h) ==
  Sweep(h) \cup {i \in DOMAIN h : h[i].role = "system"}
           \cup {i \in OrphanAssistants(h) : ~h[i].text}

AnthropicWire(h) ==
  LET kept   == Kept(h, AnthropicDropped(h))
      first  == InOrder({n \in DOMAIN kept :
                           n = 1 \/ ~IsTool(h[kept[n]]) \/ ~IsTool(h[kept[n - 1]])})
      shared(n) == {k \in DOMAIN kept : k >= n /\ \A l \in n .. k : IsTool(h[kept[l]])}
  IN  [b \in DOMAIN first |->
         [role    |-> IF h[kept[first[b]]].role \in {"assistant", "old"} THEN "assistant" ELSE "user",
          uses    |-> Uses(h, kept[first[b]]),
          results |-> {h[kept[k]].id : k \in shared(first[b])}]]
=============================================================================
