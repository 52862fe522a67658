-------------------------- MODULE RequestWireProofs --------------------------
(***************************************************************************)
(* Theorems about RequestWire, for histories of any length and any calls:  *)
(* what both requests answer, what the repair leaves alone and what it     *)
(* sweeps.                                                                 *)
(***************************************************************************)
EXTENDS RequestWire, FiniteSetTheorems, TLAPS

-----------------------------------------------------------------------------
(* Positions in order.                                                     *)

Rank(S, k) == Cardinality({j \in S : j <= k})

LEMMA RankGrows ==
  ASSUME NEW S \in SUBSET Nat, IsFiniteSet(S), NEW k \in S, NEW l \in S, k < l
  PROVE  Rank(S, k) < Rank(S, l)
<1> DEFINE K == {j \in S : j <= k}
<1> DEFINE L == {j \in S : j <= l}
<1>0. k \in Nat /\ l \in Nat /\ ~(l <= k) /\ \A j \in S : j \in Nat /\ (j <= k => j <= l)
  OBVIOUS
<1>1. K \subseteq L /\ L \subseteq S /\ l \in L /\ l \notin K
  <2>1. l <= l
    BY <1>0
  <2> QED
    BY ONLY <1>0, <2>1, l \in S
<1>2. IsFiniteSet(L)
  BY <1>1, FS_Subset
<1>3. IsFiniteSet(K) /\ Cardinality(K) <= Cardinality(L) /\ (Cardinality(L) = Cardinality(K) => L = K)
  BY <1>1, <1>2, FS_Subset
<1>4. Cardinality(K) \in Nat /\ Cardinality(L) \in Nat
  BY <1>2, <1>3, FS_CardinalityType
<1>5. Cardinality(K) < Cardinality(L)
  BY <1>1, <1>3, <1>4
<1> QED
  BY <1>5 DEF Rank

LEMMA RankRange ==
  ASSUME NEW S \in SUBSET Nat, IsFiniteSet(S), NEW k \in S
  PROVE  Rank(S, k) \in 1 .. Cardinality(S)
<1> DEFINE K == {j \in S : j <= k}
<1>1. IsFiniteSet(K) /\ Cardinality(K) <= Cardinality(S)
  BY FS_Subset, K \in SUBSET S
<1>2. Cardinality(K) \in Nat /\ Cardinality(S) \in Nat
  BY <1>1, FS_CardinalityType
<1>3. Cardinality(K) # 0
  BY <1>1, FS_EmptySet, k \in K
<1> QED
  BY <1>1, <1>2, <1>3 DEF Rank

\* Every rank up to the number of positions is one of theirs.
LEMMA RankReached ==
  ASSUME NEW S \in SUBSET Nat, IsFiniteSet(S), NEW n \in 1 .. Cardinality(S)
  PROVE  \E k \in S : Rank(S, k) = n
<1> DEFINE N == 1 .. Cardinality(S)
<1> DEFINE f == [k \in S |-> Rank(S, k)]
<1>1. Cardinality(S) \in Nat
  BY FS_CardinalityType
<1>2. IsFiniteSet(N) /\ Cardinality(N) = Cardinality(S)
  BY <1>1, FS_Interval
<1>3. \A k, l \in S : f[k] = f[l] => k = l
  <2> SUFFICES ASSUME NEW k \in S, NEW l \in S, k # l PROVE f[k] # f[l]
    OBVIOUS
  <2>1. Rank(S, k) \in N /\ Rank(S, l) \in N
    BY RankRange
  <2>2. Rank(S, k) < Rank(S, l) \/ Rank(S, l) < Rank(S, k)
    <3>1. CASE k < l
      BY <3>1, RankGrows
    <3>2. CASE l < k
      BY <3>2, RankGrows
    <3> QED
      BY <3>1, <3>2
  <2> QED
    BY <2>1, <2>2, <1>1
<1>4. f \in [S -> N]
  BY RankRange
<1>5. f \in Injection(S, N)
  BY <1>3, <1>4 DEF Injection, IsInjective
<1>6. f \in Surjection(S, N)
  BY <1>2, <1>5, FS_Injection
<1> QED
  BY <1>6 DEF Surjection

\* InOrder lists the positions of S, each once and in order.
LEMMA Ordered ==
  ASSUME NEW S \in SUBSET Nat, IsFiniteSet(S)
  PROVE  /\ DOMAIN InOrder(S) = 1 .. Cardinality(S) /\ Cardinality(S) \in Nat
         /\ \A n \in DOMAIN InOrder(S) : InOrder(S)[n] \in S
         /\ \A m, n \in DOMAIN InOrder(S) : m < n => InOrder(S)[m] < InOrder(S)[n]
         /\ \A k \in S : \E n \in DOMAIN InOrder(S) : InOrder(S)[n] = k
<1> DEFINE o == InOrder(S)
<1>0. DOMAIN o = 1 .. Cardinality(S) /\ Cardinality(S) \in Nat
  BY FS_CardinalityType DEF InOrder
<1>1. ASSUME NEW n \in DOMAIN o PROVE o[n] \in S /\ Rank(S, o[n]) = n
  <2>1. o[n] = CHOOSE k \in S : Rank(S, k) = n
    BY <1>0, <1>1 DEF InOrder, Rank
  <2>2. \E k \in S : Rank(S, k) = n
    BY <1>0, <1>1, RankReached
  <2> QED
    BY <2>1, <2>2
<1>2. ASSUME NEW m \in DOMAIN o, NEW n \in DOMAIN o, m < n PROVE o[m] < o[n]
  <2>1. PICK k \in S, l \in S : k = o[m] /\ l = o[n] /\ Rank(S, k) = m /\ Rank(S, l) = n
    BY <1>1
  <2>2. m \in Nat /\ n \in Nat /\ k \in Nat /\ l \in Nat
    BY <1>0
  <2>3. ~(l < k) /\ l # k
    BY <1>2, <2>1, <2>2, RankGrows
  <2> QED
    BY <2>1, <2>2, <2>3
<1>3. ASSUME NEW k \in S PROVE \E n \in DOMAIN o : o[n] = k
  <2>1. PICK n \in DOMAIN o : n = Rank(S, k)
    BY <1>0, RankRange
  <2>2. PICK l \in S : l = o[n] /\ Rank(S, l) = Rank(S, k)
    BY <1>1, <2>1
  <2>3. Rank(S, k) \in Nat /\ k \in Nat /\ l \in Nat
    BY <1>0, RankRange
  <2>4. ~(l < k) /\ ~(k < l)
    BY <2>2, <2>3, RankGrows
  <2>5. l = k
    BY <2>3, <2>4
  <2> QED
    BY <2>2, <2>5
<1> QED
  BY <1>0, <1>1, <1>2, <1>3

\* All positions in order are the positions.
LEMMA AllInOrder ==
  ASSUME NEW n \in Nat
  PROVE  InOrder(1 .. n) = [m \in 1 .. n |-> m]
<1>1. IsFiniteSet(1 .. n) /\ Cardinality(1 .. n) = n
  BY FS_Interval
<1>2. ASSUME NEW k \in 1 .. n PROVE Cardinality({j \in 1 .. n : j <= k}) = k
  <2>1. {j \in 1 .. n : j <= k} = 1 .. k
    OBVIOUS
  <2>2. Cardinality(1 .. k) = k
    BY FS_Interval
  <2> QED
    BY <2>1, <2>2
<1>3. ASSUME NEW m \in 1 .. n
      PROVE  (CHOOSE k \in 1 .. n : Cardinality({j \in 1 .. n : j <= k}) = m) = m
  BY <1>2
<1> QED
  BY <1>1, <1>3 DEF InOrder

-----------------------------------------------------------------------------
(* Histories.                                                              *)

Forms == {User, System} \cup {Asst(calls, t) : calls \in SUBSET Calls, t \in BOOLEAN}
           \cup {OldAsst(calls, t) : calls \in SUBSET Calls, t \in BOOLEAN}
           \cup {Tool(c) : c \in Calls}

\* A tool message answers a call declared before it.
Answering(h) ==
  \A k \in DOMAIN h : IsTool(h[k]) => \E i \in DOMAIN h : i < k /\ h[k].id \in h[i].calls

HInv == history \in Seq(Forms) /\ Answering(history)

\* Only assistants declare calls.
LEMMA FormsAre ==
  ASSUME NEW h \in Seq(Forms), NEW i \in DOMAIN h
  PROVE  /\ DOMAIN h = 1 .. Len(h) /\ Len(h) \in Nat /\ i \in Nat
         /\ h[i].calls # {} => h[i].role \in {"assistant", "old"}
         /\ IsTool(h[i]) => h[i].calls = {} /\ h[i].role # "system"
         /\ h[i].role = "system" => h[i].calls = {}
         /\ h[i] = [role |-> h[i].role, id |-> h[i].id, calls |-> h[i].calls, text |-> h[i].text]
<1>1. DOMAIN h = 1 .. Len(h) /\ Len(h) \in Nat /\ i \in Nat /\ h[i] \in Forms
  OBVIOUS
<1> QED
  BY <1>1 DEF Forms, User, System, Asst, OldAsst, Tool, IsTool

\* A tool message stands in the run of one assistant only.
LEMMA RunOfOne ==
  ASSUME NEW h \in Seq(Forms), NEW i \in DOMAIN h, NEW j \in DOMAIN h,
         h[i].calls # {}, h[j].calls # {}, NEW k \in Run(h, i), k \in Run(h, j)
  PROVE  i = j
<1>1. /\ k \in DOMAIN h /\ k > i /\ k > j
      /\ \A l \in (i + 1) .. k : IsTool(h[l])
      /\ \A l \in (j + 1) .. k : IsTool(h[l])
  BY DEF Run
<1>2. i \in Nat /\ j \in Nat /\ k \in Nat /\ ~IsTool(h[i]) /\ ~IsTool(h[j])
  BY <1>1, FormsAre
<1> QED
  BY <1>1, <1>2

\* A reply to a call of an assistant that is not stripped is no orphan.
LEMMA ReplyStays ==
  ASSUME NEW h \in Seq(Forms), NEW i \in DOMAIN h, i \notin OrphanAssistants(h),
         h[i].calls # {}, NEW k \in Run(h, i)
  PROVE  k \in DOMAIN h /\ k > i /\ IsTool(h[k]) /\ k \notin OrphanTools(h)
<1>1. k \in DOMAIN h /\ k > i /\ IsTool(h[k])
  <2>1. k \in DOMAIN h /\ k > i /\ \A l \in (i + 1) .. k : IsTool(h[l])
    BY DEF Run
  <2>2. k \in (i + 1) .. k
    BY <2>1, FormsAre
  <2> QED
    BY <2>1, <2>2
<1>2. ASSUME NEW j \in OrphanAssistants(h), k \in Run(h, j), h[k].id \in h[j].calls
      PROVE  FALSE
  <2>1. j \in DOMAIN h /\ h[j].calls # {}
    BY <1>2 DEF OrphanAssistants, IsOrphan
  <2>2. j = i
    BY <1>2, <2>1, RunOfOne
  <2> QED
    BY <1>2, <2>2
<1> QED
  BY <1>1, <1>2 DEF OrphanTools

LEMMA StrippedIs ==
  ASSUME NEW h \in Seq(Forms), NEW i \in DOMAIN h
  PROVE  /\ Stripped(h, i).role = h[i].role /\ Stripped(h, i).id = h[i].id
         /\ i \in OrphanAssistants(h) => Stripped(h, i).calls = {}
         /\ i \notin OrphanAssistants(h) => Stripped(h, i) = h[i]
<1>1. h[i] = [role |-> h[i].role, id |-> h[i].id, calls |-> h[i].calls, text |-> h[i].text]
  BY FormsAre
<1>2. CASE i \in OrphanAssistants(h)
  <2>1. Stripped(h, i) = [h[i] EXCEPT !.calls = {}]
    BY <1>2 DEF Stripped, OrphanAssistants
  <2> QED
    BY <1>1, <1>2, <2>1
<1>3. CASE i \notin OrphanAssistants(h)
  BY <1>3 DEF Stripped, OrphanAssistants
<1> QED
  BY <1>2, <1>3

\* The positions that are left, in order.
LEMMA Left ==
  ASSUME NEW h \in Seq(Forms), NEW D
  PROVE  LET kept == Kept(h, D)
         IN  /\ DOMAIN kept = 1 .. Len(kept) /\ Len(kept) \in Nat
             /\ \A n \in DOMAIN kept : kept[n] \in DOMAIN h /\ kept[n] \notin D
             /\ \A m, n \in DOMAIN kept : m < n => kept[m] < kept[n]
             /\ \A k \in DOMAIN h : k \notin D => \E n \in DOMAIN kept : kept[n] = k
<1> DEFINE S == DOMAIN h \ D
<1> DEFINE o == InOrder(S)
<1>1. S \in SUBSET Nat /\ IsFiniteSet(S) /\ DOMAIN h = 1 .. Len(h)
  <2>1. DOMAIN h = 1 .. Len(h) /\ Len(h) \in Nat
    OBVIOUS
  <2>2. IsFiniteSet(1 .. Len(h))
    BY <2>1, FS_Interval
  <2> QED
    BY <2>1, <2>2, FS_Subset
<1> HIDE DEF S
<1>2. /\ DOMAIN o = 1 .. Cardinality(S) /\ Cardinality(S) \in Nat
      /\ \A n \in DOMAIN o : o[n] \in S
      /\ \A m, n \in DOMAIN o : m < n => o[m] < o[n]
      /\ \A k \in S : \E n \in DOMAIN o : o[n] = k
  BY <1>1, Ordered
<1>3. Len(o) = Cardinality(S)
  BY <1>2
<1>4. Kept(h, D) = o
  BY DEF Kept, S
<1> HIDE DEF o
<1> QED
  BY <1>2, <1>3, <1>4 DEF S

-----------------------------------------------------------------------------
(* The OpenAI request.                                                     *)

LEMMA OpenAIAnswers ==
  ASSUME NEW h \in Seq(Forms)
  PROVE  AllAnswered(OpenAIWire(h))
<1> DEFINE kept == Kept(h, OrphanTools(h))
<1> DEFINE w == OpenAIWire(h)
<1>1. /\ DOMAIN kept = 1 .. Len(kept) /\ Len(kept) \in Nat
      /\ \A n \in DOMAIN kept : kept[n] \in DOMAIN h /\ kept[n] \notin OrphanTools(h)
      /\ \A m, n \in DOMAIN kept : m < n => kept[m] < kept[n]
      /\ \A k \in DOMAIN h : k \notin OrphanTools(h) => \E n \in DOMAIN kept : kept[n] = k
  BY Left
<1>2. DOMAIN w = DOMAIN kept /\ \A n \in DOMAIN w : w[n] = Stripped(h, kept[n])
  BY DEF OpenAIWire
<1> HIDE DEF kept, w
<1> SUFFICES ASSUME NEW n \in DOMAIN w, NEW c \in w[n].calls
             PROVE  \E m \in DOMAIN w : Follows(w, m, n) /\ w[m].id = c
  BY DEF AllAnswered, w
<1>3. PICK i \in DOMAIN h : i = kept[n]
  BY <1>1, <1>2
<1>4. i \notin OrphanAssistants(h) /\ c \in h[i].calls
  BY <1>2, <1>3, StrippedIs
<1>5. PICK k \in Run(h, i) : h[k].id = c
  BY <1>4 DEF OrphanAssistants, IsOrphan, Answered
<1>6. k \in DOMAIN h /\ k > i /\ k \notin OrphanTools(h)
  BY <1>4, ReplyStays
<1>7. PICK m \in DOMAIN kept : kept[m] = k
  BY <1>1, <1>6
<1>8. n \in Nat /\ m \in Nat /\ i \in Nat /\ k \in Nat
  BY <1>1, <1>2, <1>6, FormsAre
<1>9. n < m
  <2>1. CASE m < n
    BY <1>1, <1>2, <1>3, <1>6, <1>7, <1>8, <2>1
  <2>2. m # n
    BY <1>3, <1>6, <1>7, <1>8
  <2> QED
    BY <1>8, <2>1, <2>2
<1>10. ASSUME NEW l \in (n + 1) .. m PROVE w[l].role = "tool"
  <2>1. l \in DOMAIN kept /\ l > n /\ l <= m
    BY <1>1, <1>2, <1>8
  <2>2. PICK j \in DOMAIN h : j = kept[l]
    BY <1>1, <2>1
  <2>3. j > i /\ j <= k
    <3>1. j > i
      BY <1>1, <1>2, <1>3, <2>1, <2>2
    <3>2. l = m \/ j < k
      BY <1>1, <1>7, <1>8, <2>1, <2>2
    <3> QED
      BY <1>7, <1>8, <2>2, <3>1, <3>2, FormsAre
  <2>4. IsTool(h[j])
    <3>1. j \in (i + 1) .. k
      BY <1>8, <2>3, FormsAre
    <3> QED
      BY <3>1 DEF Run
  <2> QED
    BY <1>2, <2>1, <2>2, <2>4, StrippedIs DEF IsTool
<1>11. w[m].id = c
  BY <1>2, <1>5, <1>6, <1>7, StrippedIs
<1> QED
  BY <1>2, <1>7, <1>9, <1>10, <1>11 DEF Follows

LEMMA OpenAIKeeps ==
  ASSUME NEW h \in Seq(Forms), AllAnswered(h)
  PROVE  OpenAIWire(h) = h
<1>1. DOMAIN h = 1 .. Len(h) /\ Len(h) \in Nat
  OBVIOUS
<1>2. OrphanAssistants(h) = {}
  <2> SUFFICES ASSUME NEW i \in DOMAIN h, NEW c \in h[i].calls PROVE c \in Answered(h, i)
    BY DEF OrphanAssistants, IsOrphan
  <2>1. PICK k \in DOMAIN h : Follows(h, k, i) /\ h[k].id = c
    BY DEF AllAnswered
  <2>2. k \in Run(h, i)
    BY <1>1, <2>1 DEF Follows, Run, IsTool
  <2> QED
    BY <2>1, <2>2 DEF Answered
<1>3. OrphanTools(h) = {}
  BY <1>2 DEF OrphanTools
<1>4. Kept(h, {}) = [m \in 1 .. Len(h) |-> m]
  <2>1. DOMAIN h \ {} = 1 .. Len(h)
    BY <1>1
  <2> QED
    BY <1>1, <2>1, AllInOrder DEF Kept
<1>5. OpenAIWire(h) = [n \in 1 .. Len(h) |-> Stripped(h, [m \in 1 .. Len(h) |-> m][n])]
  BY <1>3, <1>4 DEF OpenAIWire
<1>6. OpenAIWire(h) = [n \in 1 .. Len(h) |-> h[n]]
  BY <1>2, <1>5 DEF Stripped, OrphanAssistants
<1> QED
  BY <1>1, <1>6

-----------------------------------------------------------------------------
(* The Anthropic request.                                                  *)

Remains(h) == Kept(h, AnthropicDropped(h))

\* Where a message of the request begins among those that remain, and the replies
\* that share the one beginning at n.
Starts(h) ==
  {n \in DOMAIN Remains(h) : n = 1 \/ ~IsTool(h[Remains(h)[n]]) \/ ~IsTool(h[Remains(h)[n - 1]])}
Shared(h, n) == {k \in DOMAIN Remains(h) : k >= n /\ \A l \in n .. k : IsTool(h[Remains(h)[l]])}

LEMMA AnthropicIs ==
  ASSUME NEW h
  PROVE  LET w == AnthropicWire(h)
             first == InOrder(Starts(h))
         IN  /\ DOMAIN w = DOMAIN first
             /\ \A b \in DOMAIN w :
                  /\ w[b].uses = Uses(h, Remains(h)[first[b]])
                  /\ w[b].results = {h[Remains(h)[k]].id : k \in Shared(h, first[b])}
  BY DEF AnthropicWire, Remains, Starts, Shared

\* The messages of the request begin at the starts, in order.
LEMMA FirstIs ==
  ASSUME NEW h \in Seq(Forms)
  PROVE  LET first == InOrder(Starts(h))
         IN  /\ DOMAIN first = 1 .. Len(first) /\ Len(first) \in Nat
             /\ \A b \in DOMAIN first : first[b] \in Starts(h)
             /\ \A a, b \in DOMAIN first : a < b => first[a] < first[b]
             /\ \A n \in Starts(h) : \E b \in DOMAIN first : first[b] = n
<1> DEFINE S == Starts(h)
<1> DEFINE first == InOrder(S)
<1>1. DOMAIN Remains(h) = 1 .. Len(Remains(h)) /\ Len(Remains(h)) \in Nat
  BY Left DEF Remains
<1>2. S \in SUBSET Nat /\ IsFiniteSet(S)
  <2>1. IsFiniteSet(1 .. Len(Remains(h))) /\ S \in SUBSET (1 .. Len(Remains(h)))
    BY <1>1, FS_Interval DEF Starts
  <2> QED
    BY <1>1, <2>1, FS_Subset
<1> HIDE DEF S
<1>3. /\ DOMAIN first = 1 .. Cardinality(S) /\ Cardinality(S) \in Nat
      /\ \A b \in DOMAIN first : first[b] \in S
      /\ \A a, b \in DOMAIN first : a < b => first[a] < first[b]
      /\ \A n \in S : \E b \in DOMAIN first : first[b] = n
  BY <1>2, Ordered
<1>4. Len(first) = Cardinality(S)
  BY <1>3
<1> HIDE DEF first
<1>5. first = InOrder(S)
  BY DEF first
<1> QED
  BY <1>3, <1>4, <1>5 DEF S

\* What declares a call that is not stripped is in the request, and so is a reply
\* to it when no other message declares the call.
LEMMA DeclarationStays ==
  ASSUME NEW h \in Seq(Forms), NEW i \in DOMAIN h, i \notin OrphanAssistants(h), h[i].calls # {}
  PROVE  i \notin AnthropicDropped(h)
<1>1. ~IsTool(h[i]) /\ h[i].role # "system"
  BY FormsAre
<1>2. i \notin OrphanTools(h)
  <2> SUFFICES ASSUME NEW j \in OrphanAssistants(h), i \in Run(h, j) PROVE FALSE
    BY DEF OrphanTools
  <2>1. j \in DOMAIN h /\ i > j /\ \A l \in (j + 1) .. i : IsTool(h[l])
    BY DEF Run, OrphanAssistants
  <2>2. i \in (j + 1) .. i
    BY <2>1, FormsAre
  <2> QED
    BY <1>1, <2>1, <2>2
<1> QED
  BY <1>1, <1>2 DEF AnthropicDropped, Sweep

LEMMA ReplyTravels ==
  ASSUME NEW h \in Seq(Forms), NEW i \in DOMAIN h, i \notin OrphanAssistants(h),
         NEW c \in h[i].calls, c \notin StrippedIds(h), NEW k \in Run(h, i), h[k].id = c
  PROVE  k \notin AnthropicDropped(h)
<1>1. k \in DOMAIN h /\ IsTool(h[k]) /\ k \notin OrphanTools(h)
  BY ReplyStays
<1>2. h[k].role # "system" /\ h[k].calls = {}
  BY <1>1, FormsAre
<1>3. k \notin OrphanAssistants(h)
  BY <1>2 DEF OrphanAssistants, IsOrphan
<1> QED
  BY <1>1, <1>2, <1>3 DEF AnthropicDropped, Sweep

LEMMA AnthropicAnswers ==
  ASSUME NEW h \in Seq(Forms)
  PROVE  LET w == AnthropicWire(h)
         IN  \A b \in DOMAIN w : \A c \in w[b].uses \ StrippedIds(h) :
               b < Len(w) /\ c \in w[b + 1].results
<1> DEFINE w == AnthropicWire(h)
<1> DEFINE kept == Remains(h)
<1> DEFINE first == InOrder(Starts(h))
<1>1. /\ DOMAIN w = DOMAIN first
      /\ \A b \in DOMAIN w : /\ w[b].uses = Uses(h, kept[first[b]])
                             /\ w[b].results = {h[kept[k]].id : k \in Shared(h, first[b])}
  BY AnthropicIs
<1>2. /\ DOMAIN first = 1 .. Len(first) /\ Len(first) \in Nat
      /\ \A b \in DOMAIN first : first[b] \in Starts(h)
      /\ \A a, b \in DOMAIN first : a < b => first[a] < first[b]
      /\ \A n \in Starts(h) : \E b \in DOMAIN first : first[b] = n
  BY FirstIs
<1>3. /\ DOMAIN kept = 1 .. Len(kept) /\ Len(kept) \in Nat
      /\ \A n \in DOMAIN kept : kept[n] \in DOMAIN h /\ kept[n] \notin AnthropicDropped(h)
      /\ \A m, n \in DOMAIN kept : m < n => kept[m] < kept[n]
      /\ \A k \in DOMAIN h : k \notin AnthropicDropped(h) => \E n \in DOMAIN kept : kept[n] = k
  BY Left DEF Remains
<1>4. Starts(h) = {n \in DOMAIN kept : n = 1 \/ ~IsTool(h[kept[n]]) \/ ~IsTool(h[kept[n - 1]])}
  BY DEF Starts
<1>5. \A n : Shared(h, n) = {k \in DOMAIN kept : k >= n /\ \A l \in n .. k : IsTool(h[kept[l]])}
  BY DEF Shared
<1>6. Len(w) = Len(first)
  <2>1. w \in [1 .. Len(first) -> {w[b] : b \in DOMAIN w}]
    BY <1>1, <1>2 DEF AnthropicWire
  <2> QED
    BY <1>2, <2>1
<1> HIDE DEF w, kept, first
<1> SUFFICES ASSUME NEW b \in DOMAIN w, NEW c \in w[b].uses, c \notin StrippedIds(h)
             PROVE  b < Len(w) /\ c \in w[b + 1].results
  BY DEF w
<1>7. PICK n \in DOMAIN kept, i \in DOMAIN h : n = first[b] /\ i = kept[n]
  BY <1>1, <1>2, <1>3, <1>4
<1>8. i \notin OrphanAssistants(h) /\ c \in h[i].calls
  BY <1>1, <1>7, StrippedIs DEF Uses
<1>9. ~IsTool(h[i])
  BY <1>8, FormsAre
<1>10. n \in Nat /\ b \in Nat /\ i \in Nat
  BY <1>1, <1>2, <1>3, FormsAre
\* A reply comes later among those that remain, after tool messages only.
<1>11. \E m \in DOMAIN kept : /\ m > n /\ h[kept[m]].id = c
                             /\ \A l \in (n + 1) .. m : IsTool(h[kept[l]])
  <2>1. PICK k \in Run(h, i) : h[k].id = c
    BY <1>8 DEF OrphanAssistants, IsOrphan, Answered
  <2>2. k \in DOMAIN h /\ k > i /\ k \notin AnthropicDropped(h)
    BY <1>8, <2>1, ReplyStays, ReplyTravels
  <2>3. PICK m \in DOMAIN kept : kept[m] = k
    BY <1>3, <2>2
  <2>4. m \in Nat /\ k \in Nat
    BY <1>3, <2>2, FormsAre
  <2>5. m > n
    <3>1. CASE m < n
      BY <1>3, <1>7, <1>10, <2>2, <2>3, <2>4, <3>1
    <3>2. m # n
      BY <1>7, <1>10, <2>2, <2>3, <2>4
    <3> QED
      BY <1>10, <2>4, <3>1, <3>2
  <2>6. ASSUME NEW l \in (n + 1) .. m PROVE IsTool(h[kept[l]])
    <3>1. l \in DOMAIN kept /\ l > n /\ l <= m
      BY <1>3, <1>10, <2>4
    <3>2. PICK j \in DOMAIN h : j = kept[l]
      BY <1>3, <3>1
    <3>3. j > i
      BY <1>3, <1>7, <3>1, <3>2
    <3>4. l = m \/ j < k
      BY <1>3, <2>3, <2>4, <3>1, <3>2
    <3>5. j \in (i + 1) .. k
      BY <1>10, <2>3, <2>4, <3>2, <3>3, <3>4, FormsAre
    <3> QED
      BY <3>2, <3>5 DEF Run
  <2> QED
    BY <2>1, <2>3, <2>5, <2>6
\* What remains after the declaration begins the next message.
<1>12. n + 1 \in Starts(h)
  <2>1. PICK m \in DOMAIN kept : m > n /\ \A l \in (n + 1) .. m : IsTool(h[kept[l]])
    BY <1>11
  <2>2. n + 1 \in DOMAIN kept /\ (n + 1) - 1 = n
    BY <1>3, <1>10, <2>1
  <2> QED
    BY <1>4, <1>7, <1>9, <2>2
<1>13. b + 1 \in DOMAIN first /\ first[b + 1] = n + 1
  <2>1. PICK d \in DOMAIN first : first[d] = n + 1
    BY <1>2, <1>12
  <2>2. d \in Nat /\ d # b
    BY <1>2, <1>7, <1>10, <2>1
  <2>3. ~(d < b)
    BY <1>1, <1>2, <1>7, <1>10, <2>1
  <2>4. PICK e \in Nat : e = b + 1
    BY <1>10
  <2>5. e \in DOMAIN first /\ b < e
    BY <1>2, <1>10, <2>2, <2>3, <2>4
  <2>6. first[e] \in Nat /\ first[e] > n
    <3>1. first[b] < first[e] /\ first[e] \in Starts(h)
      BY <1>1, <1>2, <2>5
    <3>2. PICK f \in DOMAIN kept : f = first[e]
      BY <1>4, <3>1
    <3>3. f \in Nat /\ n < f
      BY <1>3, <1>7, <3>1, <3>2
    <3> QED
      BY <1>10, <3>2, <3>3
  <2>7. CASE e < d
    <3>1. first[e] < n + 1
      BY <1>2, <2>1, <2>5, <2>7
    <3> QED
      BY <1>10, <2>6, <3>1
  <2>8. CASE e = d
    BY <2>1, <2>4, <2>5, <2>8
  <2> QED
    BY <1>10, <2>2, <2>3, <2>4, <2>7, <2>8
<1>14. b < Len(w)
  BY <1>2, <1>6, <1>10, <1>13
<1>15. c \in w[b + 1].results
  <2>1. PICK m \in DOMAIN kept : m > n /\ h[kept[m]].id = c /\ \A l \in (n + 1) .. m : IsTool(h[kept[l]])
    BY <1>11
  <2>2. m \in Shared(h, n + 1)
    BY <1>3, <1>5, <1>10, <2>1
  <2>3. w[b + 1].results = {h[kept[k]].id : k \in Shared(h, n + 1)}
    BY <1>1, <1>13
  <2> QED
    BY <2>1, <2>2, <2>3
<1> QED
  BY <1>14, <1>15

LEMMA AnthropicSweeps ==
  ASSUME NEW h \in Seq(Forms), Answering(h)
  PROVE  LET w == AnthropicWire(h)
         IN  \A b \in DOMAIN w : \A c \in w[b].results :
               /\ c \notin StrippedIds(h)
               /\ (\E a \in DOMAIN w : a < b /\ c \in w[a].uses) \/ c \in OldIds(h)
<1> DEFINE w == AnthropicWire(h)
<1> DEFINE kept == Remains(h)
<1> DEFINE first == InOrder(Starts(h))
<1>1. /\ DOMAIN w = DOMAIN first
      /\ \A b \in DOMAIN w : /\ w[b].uses = Uses(h, kept[first[b]])
                             /\ w[b].results = {h[kept[k]].id : k \in Shared(h, first[b])}
  BY AnthropicIs
<1>2. /\ DOMAIN first = 1 .. Len(first) /\ Len(first) \in Nat
      /\ \A b \in DOMAIN first : first[b] \in Starts(h)
      /\ \A a, b \in DOMAIN first : a < b => first[a] < first[b]
      /\ \A n \in Starts(h) : \E b \in DOMAIN first : first[b] = n
  BY FirstIs
<1>3. /\ DOMAIN kept = 1 .. Len(kept) /\ Len(kept) \in Nat
      /\ \A n \in DOMAIN kept : kept[n] \in DOMAIN h /\ kept[n] \notin AnthropicDropped(h)
      /\ \A m, n \in DOMAIN kept : m < n => kept[m] < kept[n]
      /\ \A k \in DOMAIN h : k \notin AnthropicDropped(h) => \E n \in DOMAIN kept : kept[n] = k
  BY Left DEF Remains
<1>4. Starts(h) = {n \in DOMAIN kept : n = 1 \/ ~IsTool(h[kept[n]]) \/ ~IsTool(h[kept[n - 1]])}
  BY DEF Starts
<1>5. \A n : Shared(h, n) = {k \in DOMAIN kept : k >= n /\ \A l \in n .. k : IsTool(h[kept[l]])}
  BY DEF Shared
<1> HIDE DEF w, kept, first
<1> SUFFICES ASSUME NEW b \in DOMAIN w, NEW c \in w[b].results
             PROVE  /\ c \notin StrippedIds(h)
                    /\ (\E a \in DOMAIN w : a < b /\ c \in w[a].uses) \/ c \in OldIds(h)
  BY DEF w
<1>6. PICK n \in DOMAIN kept : n = first[b]
  BY <1>1, <1>2, <1>4
<1>7. PICK m \in Shared(h, n) : c = h[kept[m]].id
  BY <1>1, <1>6
<1>8. m \in DOMAIN kept /\ m >= n /\ \A l \in n .. m : IsTool(h[kept[l]])
  BY <1>5, <1>7
<1>9. PICK k \in DOMAIN h : k = kept[m] /\ k \notin AnthropicDropped(h)
  BY <1>3, <1>8
<1>10. n \in Nat /\ m \in Nat /\ k \in Nat /\ b \in Nat
  BY <1>1, <1>2, <1>3, <1>8, FormsAre
<1>11. IsTool(h[k]) /\ c = h[k].id
  BY <1>7, <1>8, <1>9, <1>10
<1>12. c \notin StrippedIds(h)
  BY <1>9, <1>11 DEF AnthropicDropped, Sweep
<1>13. PICK i \in DOMAIN h : i < k /\ c \in h[i].calls
  BY <1>11 DEF Answering
<1>14. i \notin OrphanAssistants(h)
  BY <1>12, <1>13 DEF StrippedIds
<1>15. i \notin AnthropicDropped(h) /\ ~IsTool(h[i]) /\ i \in Nat
  BY <1>13, <1>14, DeclarationStays, FormsAre
<1>16. PICK p \in DOMAIN kept : kept[p] = i
  BY <1>3, <1>15
<1>17. p < m
  <2>1. p \in Nat
    BY <1>3
  <2>2. CASE m < p
    BY <1>3, <1>8, <1>9, <1>10, <1>13, <1>15, <1>16, <2>2
  <2>3. p # m
    BY <1>9, <1>10, <1>13, <1>15, <1>16
  <2> QED
    BY <1>10, <2>1, <2>2, <2>3
<1>18. p < n
  <2>1. p \in Nat
    BY <1>3
  <2>2. p \notin n .. m
    BY <1>8, <1>15, <1>16
  <2> QED
    BY <1>10, <1>17, <2>1, <2>2
<1>19. p \in Starts(h)
  BY <1>4, <1>15, <1>16
<1>20. PICK a \in DOMAIN first : first[a] = p
  BY <1>2, <1>19
<1>21. a < b
  <2>1. a \in Nat /\ p \in Nat
    BY <1>2, <1>3, <1>20
  <2>2. CASE b < a
    <3>1. n < p
      BY <1>1, <1>2, <1>6, <1>20, <2>2
    <3> QED
      BY <1>10, <1>18, <2>1, <3>1
  <2>3. a # b
    BY <1>6, <1>10, <1>18, <1>20, <2>1
  <2> QED
    BY <1>10, <2>1, <2>2, <2>3
<1>22. CASE h[i].role = "old"
  BY <1>12, <1>13, <1>14, <1>22 DEF OldIds
<1>23. CASE h[i].role # "old"
  <2>1. h[i].role = "assistant"
    BY <1>13, <1>23, FormsAre
  <2>2. c \in w[a].uses
    BY <1>1, <1>13, <1>14, <1>16, <1>20, <2>1, StrippedIs DEF Uses
  <2> QED
    BY <1>1, <1>12, <1>20, <1>21, <2>2
<1> QED
  BY <1>22, <1>23

-----------------------------------------------------------------------------
(* All histories.                                                          *)

LEMMA FormsHold ==
  /\ \A m \in {User, System, Asst({}, TRUE)} : m \in Forms /\ ~IsTool(m)
  /\ \A calls \in SUBSET Calls, t \in BOOLEAN :
       /\ Asst(calls, t) \in Forms /\ ~IsTool(Asst(calls, t))
       /\ OldAsst(calls, t) \in Forms /\ ~IsTool(OldAsst(calls, t))
  /\ \A c \in Calls : Tool(c) \in Forms /\ Tool(c).id = c
<1>1. User \in Forms /\ System \in Forms
  BY DEF Forms
<1>2. ~IsTool(User) /\ ~IsTool(System)
  BY DEF User, System, IsTool
<1>3. ASSUME NEW calls \in SUBSET Calls, NEW t \in BOOLEAN
      PROVE  /\ Asst(calls, t) \in Forms /\ ~IsTool(Asst(calls, t))
             /\ OldAsst(calls, t) \in Forms /\ ~IsTool(OldAsst(calls, t))
  <2>1. /\ Asst(calls, t) \in {Asst(cs, u) : cs \in SUBSET Calls, u \in BOOLEAN}
        /\ OldAsst(calls, t) \in {OldAsst(cs, u) : cs \in SUBSET Calls, u \in BOOLEAN}
    OBVIOUS
  <2>2. Asst(calls, t) \in Forms /\ OldAsst(calls, t) \in Forms
    BY <2>1 DEF Forms
  <2> QED
    BY <2>2 DEF Asst, OldAsst, IsTool
<1>4. ASSUME NEW c \in Calls PROVE Tool(c) \in Forms /\ Tool(c).id = c
  <2>1. Tool(c) \in {Tool(d) : d \in Calls}
    OBVIOUS
  <2>2. Tool(c) \in Forms
    BY <2>1 DEF Forms
  <2> QED
    BY <2>2 DEF Tool
<1>5. Asst({}, TRUE) \in Forms /\ ~IsTool(Asst({}, TRUE))
  BY <1>3
<1> QED
  BY <1>1, <1>2, <1>3, <1>4, <1>5

LEMMA HistoryGrows ==
  ASSUME HInv, [Next]_history
  PROVE  HInv'
<1>1. CASE UNCHANGED history
  BY <1>1 DEF HInv, Answering
<1>2. ASSUME NEW m \in Forms, history' = Append(history, m),
             IsTool(m) => m.id \in Declared
      PROVE  HInv'
  <2>1. /\ history \in Seq(Forms) /\ DOMAIN history = 1 .. Len(history) /\ Len(history) \in Nat
        /\ history' \in Seq(Forms) /\ DOMAIN history' = 1 .. Len(history) + 1
        /\ \A i \in DOMAIN history : history'[i] = history[i]
        /\ history'[Len(history) + 1] = m
    BY <1>2 DEF HInv
  <2>2. PICK n \in Nat : n = Len(history) + 1
    BY <2>1
  <2>3. /\ DOMAIN history' = DOMAIN history \cup {n} /\ n \notin DOMAIN history
        /\ history'[n] = m /\ \A i \in DOMAIN history : i < n
    BY <2>1, <2>2
  <2>4. Answering(history')
    <3> SUFFICES ASSUME NEW k \in DOMAIN history', IsTool(history'[k])
                 PROVE  \E i \in DOMAIN history' : i < k /\ history'[k].id \in history'[i].calls
      BY DEF Answering
    <3>1. CASE k = n
      <4>1. PICK i \in DOMAIN history : m.id \in history[i].calls
        BY <1>2, <2>3, <3>1 DEF Declared
      <4> QED
        BY <2>1, <2>3, <3>1, <4>1
    <3>2. CASE k \in DOMAIN history
      <4>1. PICK i \in DOMAIN history : i < k /\ history[k].id \in history[i].calls
        BY <2>1, <3>2 DEF HInv, Answering
      <4> QED
        BY <2>1, <2>3, <3>2, <4>1
    <3> QED
      BY <2>3, <3>1, <3>2
  <2> QED
    BY <2>1, <2>4 DEF HInv
<1>3. ASSUME NEW m, m \in {User, System, Asst({}, TRUE)}, Put(m) PROVE HInv'
  <2>1. m \in Forms /\ ~IsTool(m) /\ history' = Append(history, m)
    BY <1>3, FormsHold DEF Put
  <2> QED
    BY <1>2, <2>1
<1>4. ASSUME NEW calls \in SUBSET Calls, NEW t \in BOOLEAN, NEW m,
             m \in {Asst(calls, t), OldAsst(calls, t)}, Put(m)
      PROVE  HInv'
  <2>1. m \in Forms /\ ~IsTool(m) /\ history' = Append(history, m)
    BY <1>4, FormsHold DEF Put
  <2> QED
    BY <1>2, <2>1
<1>5. ASSUME NEW c \in Declared, Put(Tool(c)) PROVE HInv'
  <2>1. c \in Calls
    <3>1. PICK i \in DOMAIN history : c \in history[i].calls
      BY <1>5 DEF Declared
    <3>2. history[i] \in Forms
      BY DEF HInv
    <3> QED
      BY <3>1, <3>2 DEF Forms, User, System, Asst, OldAsst, Tool
  <2>2. /\ Tool(c) \in Forms /\ Tool(c).id = c
        /\ history' = Append(history, Tool(c))
    BY <1>5, <2>1, FormsHold DEF Put
  <2> QED
    BY <1>2, <1>5, <2>2
<1> QED
  BY <1>1, <1>3, <1>4, <1>5 DEF Next, PutCalls

LEMMA HistoryInv == Spec => []HInv
<1>1. Init => HInv
  BY DEF Init, HInv, Answering
<1>2. HInv /\ [Next]_history => HInv'
  BY HistoryGrows
<1> QED
  BY <1>1, <1>2, PTL DEF Spec

\* Whatever the history holds and however long it is, both requests answer each call
\* they declare at once, the OpenAI one by the tool messages right after it
\* (openai.go:95-106), the Anthropic one in the next message (anthropic.go:61-62),
\* except a call whose id a stripped message declares too.
THEOREM RequestsAnswer == Spec => []CallsAnswered
<1>1. HInv => CallsAnswered
  BY OpenAIAnswers, AnthropicAnswers DEF HInv, CallsAnswered
<1> QED
  BY <1>1, HistoryInv, PTL

\* "the session keeps its historical record" (openai.go:104-106): a history whose
\* calls are all answered in place goes out as it is, at any length.
THEOREM HealthyUntouched == Spec => []OpenAIExact
<1>1. HInv => OpenAIExact
  BY OpenAIKeeps DEF HInv, OpenAIExact
<1> QED
  BY <1>1, HistoryInv, PTL

\* No reply to a call that was stripped goes out to Anthropic, wherever it stands in
\* the history and however often its id was declared (anthropic.go:66-70), and a reply
\* without its call goes out only to a call of an old message (anthropic.go:158).
THEOREM NoStrayReply == Spec => []AnthropicSwept
<1>1. HInv => AnthropicSwept
  BY AnthropicSweeps DEF HInv, AnthropicSwept
<1> QED
  BY <1>1, HistoryInv, PTL
=============================================================================
