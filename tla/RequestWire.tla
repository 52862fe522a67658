---------------------------- MODULE RequestWire ----------------------------
(***************************************************************************)
(* Every history up to MaxLength messages, and what the two providers send *)
(* for it.  A tool message answers a call declared before it, but not      *)
(* always at once and not always once: another bot's message, a steer or a *)
(* loop warning may stand between, and padOrphanToolResults of another     *)
(* turn may answer a second time.  Call ids repeat: recovered_0 names the  *)
(* first recovered call of each round (tool_recovery.go:138).              *)
(***************************************************************************)
EXTENDS WireMessages

CONSTANTS
  Calls,      \* tool call ids
  MaxLength   \* bound on the history

VARIABLE history

Declared == UNION {history[i].calls : i \in DOMAIN history}

Init == history = <<>>

Put(m) == Len(history) < MaxLength /\ history' = Append(history, m)

PutCalls ==
  \E calls \in SUBSET Calls, t \in BOOLEAN :
    /\ calls # {}
    /\ Put(Asst(calls, t)) \/ Put(OldAsst(calls, t))

Next ==
  \/ Put(User)
  \/ Put(System)
  \/ Put(Asst({}, TRUE))
  \/ PutCalls
  \/ \E c \in Declared : Put(Tool(c))

Spec == Init /\ [][Next]_history

-----------------------------------------------------------------------------
\* The tool message at k stands in the run that follows position i.
Follows(w, k, i) == i < k /\ \A l \in (i + 1) .. k : w[l].role = "tool"

\* Each call declared in w is answered by the tool messages right after it.
AllAnswered(w) ==
  \A i \in DOMAIN w : \A c \in w[i].calls : \E k \in DOMAIN w : Follows(w, k, i) /\ w[k].id = c

\* A history whose calls are all answered in place goes out untouched, so the
\* repair never rewrites a healthy session ("the session keeps its historical
\* record", openai.go:104-106).
OpenAIExact == AllAnswered(history) => OpenAIWire(history) = history

\* "We strip the offending tool_calls (and any orphan tool replies) at
\* wire-build time so the request goes through" (openai.go:103-105): a tool
\* message in the request stands in the run of an assistant that declares it.
OpenAINoDangling ==
  LET w == OpenAIWire(history)
  IN  \A k \in DOMAIN w : w[k].role = "tool" =>
        \E i \in DOMAIN w : Follows(w, k, i) /\ w[k].id \in w[i].calls

\* Whatever the history holds, both requests answer each call they declare at
\* once: the OpenAI one by the tool messages right after it (openai.go:95-106),
\* the Anthropic one in the next message ("Anthropic rejects any tool_use whose
\* tool_result doesn't appear in the immediately following message",
\* anthropic.go:61-62), except a call whose id a stripped message declares too:
\* the sweep of the stripped call takes its reply away (anthropic.go:80-86).
CallsAnswered ==
  /\ AllAnswered(OpenAIWire(history))
  /\ LET w        == AnthropicWire(history)
         stripped == StrippedIds(history)
     IN  \A b \in DOMAIN w : \A c \in w[b].uses \ stripped :
           b < Len(w) /\ c \in w[b + 1].results

\* The same of Anthropic without the exception, "Anthropic rejects any tool_use whose
\* tool_result doesn't appear in the immediately following message".
AnthropicAnswered ==
  LET w == AnthropicWire(history)
  IN  \A b \in DOMAIN w : \A c \in w[b].uses : b < Len(w) /\ c \in w[b + 1].results

\* Calls of old messages that are answered, and not declared to Anthropic.
OldIds(h) == UNION {h[i].calls : i \in {i \in DOMAIN h \ OrphanAssistants(h) : h[i].role = "old"}}

\* No reply to a call that was stripped goes out, wherever it stands in the
\* history and however often its id was declared (anthropic.go:66-70), and no
\* reply goes out whose call does not stand before it, except one to a call of an
\* old message, which no tool_use stands for (anthropic.go:158).
AnthropicSwept ==
  LET w        == AnthropicWire(history)
      stripped == StrippedIds(history)
  IN  \A b \in DOMAIN w : \A c \in w[b].results :
        /\ c \notin stripped
        /\ (\E a \in DOMAIN w : a < b /\ c \in w[a].uses) \/ c \in OldIds(history)
=============================================================================
