------------------------- MODULE ChannelLeaseProofs -------------------------
(***************************************************************************)
(* The lease of ChannelLease, for any number of replicas and any timing    *)
(* with RenewEvery + StopWithin + Skew < TTL: as long as no more calls to  *)
(* the database failed than a row's life affords, and each replica has one *)
(* runner for the account, at most one adapter is connected.               *)
(***************************************************************************)
EXTENDS ChannelLease, TLAPS

\* No process has two runners for the account.
Alone == \A g, h \in Runners : Home[g] = Home[h] => g = h

LEMMA MostBounds ==
  /\ RenewEvery \in 0 .. Most /\ RetryEvery \in 0 .. Most /\ StopWithin \in 0 .. Most
  /\ Most \in Nat /\ 0 \in 0 .. Most
  BY TimingAssumption DEF Most

LEMMA TypeInit == Init => TypeOK
  BY TimingAssumption, BoundAssumption, MostBounds DEF Init, TypeOK, Places

\* A step of the row alone keeps the row's type.
LEMMA RowTypes ==
  ASSUME TypeOK, NEW p \in Replicas,
         TakeRow(p) \/ ExtendRow(p) \/ DeleteRow(p) \/ UNCHANGED row
  PROVE  holder' \in Replicas \cup {None, Gone} /\ left' \in 0 .. TTL
  BY TimingAssumption DEF TypeOK, TakeRow, ExtendRow, DeleteRow, row

LEMMA TypeRunner ==
  ASSUME TypeOK, NEW g \in Runners, RunnerStep(g)
  PROVE  TypeOK'
<1> USE MostBounds DEF Go, Set, Places
<1>1. holder' \in Replicas \cup {None, Gone} /\ left' \in 0 .. TTL
  <2>1. TakeRow(Home[g]) \/ DeleteRow(Home[g]) \/ UNCHANGED row
    BY DEF RunnerStep, Acquire, Refused, AcquireFails, Return, Wake, Launch, Wait, Select, Drain,
           Leave, Evict, Release
  <2> QED
    BY <2>1, RowTypes, HomeAssumption
<1>2. pc' \in [Runners -> Places] /\ timer' \in [Runners -> 0 .. Most]
  BY DEF TypeOK, RunnerStep, Acquire, Refused, AcquireFails, Return, Wake, Launch, Wait, Select,
         Drain, Leave, Evict
<1>3. adapter' \in [Runners -> BOOLEAN] /\ renewing' \in [Runners -> BOOLEAN]
  BY DEF TypeOK, RunnerStep, Acquire, Refused, AcquireFails, Return, Wake, Launch, Wait, Select,
         Drain, Leave, Evict
<1>4. cancelled' = cancelled /\ boots' = boots /\ faults' \in 0 .. MaxFaults
  BY BoundAssumption DEF TypeOK, Fault, RunnerStep, Acquire, Refused, AcquireFails, Return, Wake, Launch, Wait, Select, Drain,
         Leave, Evict, Release
<1> QED
  BY <1>1, <1>2, <1>3, <1>4 DEF TypeOK

LEMMA TypeRenew ==
  ASSUME TypeOK, NEW g \in Runners, RenewStep(g) \/ AdapterExits(g)
  PROVE  TypeOK'
<1> USE MostBounds DEF Go, Set, Places
<1>1. holder' \in Replicas \cup {None, Gone} /\ left' \in 0 .. TTL
  <2>1. ExtendRow(Home[g]) \/ UNCHANGED row
    BY DEF RenewStep, Renew, RenewFails, RenewLost, RenewStops, AdapterExits
  <2> QED
    BY <2>1, RowTypes, HomeAssumption
<1>2. pc' \in [Runners -> Places] /\ timer' \in [Runners -> 0 .. Most]
  BY DEF TypeOK, RenewStep, Renew, RenewFails, RenewLost, RenewStops, AdapterExits
<1>3. adapter' \in [Runners -> BOOLEAN] /\ renewing' \in [Runners -> BOOLEAN]
  BY DEF TypeOK, RenewStep, Renew, RenewFails, RenewLost, RenewStops, AdapterExits
<1>4. cancelled' = cancelled /\ boots' = boots /\ faults' \in 0 .. MaxFaults
  BY BoundAssumption DEF TypeOK, Fault, RenewStep, Renew, RenewFails, RenewLost, RenewStops, AdapterExits
<1> QED
  BY <1>1, <1>2, <1>3, <1>4 DEF TypeOK

LEMMA TypeProcess ==
  ASSUME TypeOK, NEW p \in Replicas, Cancel(p) \/ Crash(p) \/ Boot(p)
  PROVE  TypeOK'
<1> USE MostBounds DEF Places
<1>1. CASE Cancel(p)
  BY <1>1 DEF TypeOK, Cancel, row
<1>2. CASE Crash(p)
  BY <1>2 DEF TypeOK, Crash, row
<1>3. CASE Boot(p)
  BY <1>3, BoundAssumption DEF TypeOK, Boot
<1> QED
  BY <1>1, <1>2, <1>3

LEMMA TypeTick ==
  ASSUME TypeOK, Tick
  PROVE  TypeOK'
  BY TimingAssumption, MostBounds DEF TypeOK, Tick, Less

LEMMA TypeStep == TypeOK /\ [Next]_vars => TypeOK'
<1> SUFFICES ASSUME TypeOK, [Next]_vars PROVE TypeOK'
  OBVIOUS
<1>1. CASE UNCHANGED vars
  BY <1>1 DEF vars, row, runner, TypeOK
<1> QED
  BY <1>1, TypeRunner, TypeRenew, TypeProcess, TypeTick DEF Next

\* Every variable keeps its type.
THEOREM TypeCorrect == Spec => []TypeOK
  BY TypeInit, TypeStep, PTL DEF Spec

-----------------------------------------------------------------------------
(* What the runner of a connected adapter knows of the row: it is its own, *)
(* and it has not expired, not even by the clock of a peer.  Each failed   *)
(* call may have cost it one renewal.                                      *)

Lost == faults * RenewEvery

Fresh ==
  \A g \in Runners :
    pc[g] \in {"starting", "launched"} =>
      holder = Home[g] /\ left + Lost >= TTL /\ (pc[g] = "launched" => timer[g] = RenewEvery)

Kept ==
  \A g \in Runners :
    pc[g] = "running" =>
      /\ Home[g] \notin cancelled /\ holder = Home[g]
      /\ timer[g] <= RenewEvery /\ left + Lost + RenewEvery >= TTL + timer[g]

Stopping ==
  \A g \in Runners :
    pc[g] \in {"draining", "evicted"} /\ adapter[g] =>
      /\ holder = Home[g]
      /\ timer[g] <= StopWithin /\ left + Lost + RenewEvery + StopWithin >= TTL + timer[g]

Connected ==
  \A g \in Runners : adapter[g] => pc[g] \in {"launched", "running", "draining", "evicted"}

Leased == Fresh /\ Kept /\ Stopping /\ Connected

\* Only while the failures are affordable is the row safe.
Safe == TypeOK /\ (Affordable => Leased)

LEMMA LessThan ==
  ASSUME NEW a \in Nat, NEW b \in Nat, NEW r \in Nat, NEW s \in Nat, NEW k \in Nat, NEW t \in Nat,
         b <= a, a + r + s + k < t
  PROVE  b + r + s + k < t
  OBVIOUS

LEMMA StillFresh ==
  ASSUME NEW a \in Nat, NEW b \in Nat, NEW l \in Nat, NEW t \in Nat, l + a >= t, b >= a
  PROVE  l + b >= t
  OBVIOUS

LEMMA TimesNat == \A a, b \in Nat : a * b \in Nat
  OBVIOUS

\* A failure costs one renewal, other steps nothing.
LEMMA LostStep ==
  ASSUME TypeOK, TypeOK', faults' = faults \/ Fault
  PROVE  /\ Lost \in Nat /\ Lost' \in Nat
         /\ faults' = faults => Lost' = Lost
         /\ Fault => Lost' = Lost + RenewEvery
         /\ Affordable' => Affordable
<1>1. /\ faults \in Nat /\ faults' \in Nat /\ RenewEvery \in Nat /\ StopWithin \in Nat
      /\ Skew \in Nat /\ TTL \in Nat
  BY TimingAssumption, BoundAssumption DEF TypeOK
<1>2. Lost \in Nat /\ Lost' \in Nat
  <2>1. faults * RenewEvery \in Nat /\ faults' * RenewEvery \in Nat
    BY <1>1, TimesNat
  <2> QED
    BY <2>1 DEF Lost
<1>3. faults' = faults => Lost' = Lost
  BY DEF Lost
<1>4. Fault => Lost' = Lost + RenewEvery
  <2>1. (faults + 1) * RenewEvery = faults * RenewEvery + RenewEvery
    BY <1>1
  <2> QED
    BY <2>1 DEF Fault, Lost
<1>5. Lost' >= Lost
  BY <1>1, <1>2, <1>3, <1>4
<1>6. ASSUME Affordable' PROVE Affordable
  <2>1. Lost' + RenewEvery + StopWithin + Skew < TTL
    BY <1>6 DEF Affordable, Lost
  <2>2. Lost + RenewEvery + StopWithin + Skew < TTL
    BY <1>1, <1>2, <1>5, <2>1, LessThan
  <2> QED
    BY <2>2 DEF Affordable, Lost
<1> QED
  BY <1>2, <1>3, <1>4, <1>6

\* A runner that holds a place in the protocol owns a live row.
LEMMA Owner ==
  ASSUME TypeOK, Affordable, Leased, NEW g \in Runners,
         adapter[g] \/ pc[g] \in {"starting", "launched", "running"}
  PROVE  holder = Home[g] /\ left > Skew
<1>1. Lost \in Nat /\ Lost + RenewEvery + StopWithin + Skew < TTL
  BY TimingAssumption, BoundAssumption DEF TypeOK, Lost, Affordable
<1> QED
  BY <1>1, TimingAssumption, MostBounds DEF TypeOK, Leased, Fresh, Kept, Stopping, Connected

LEMMA SafeInit == Init => Safe
<1> SUFFICES ASSUME Init PROVE Safe
  OBVIOUS
<1>1. TypeOK /\ Lost = 0
  BY TypeInit, TimingAssumption DEF Init, Lost
<1> QED
  BY <1>1 DEF Init, Safe, Leased, Fresh, Kept, Stopping, Connected

\* What every step of a runner or a renewal may assume.
LEMMA SafeBefore ==
  ASSUME Safe, TypeOK', Affordable', faults' = faults \/ Fault
  PROVE  /\ TypeOK /\ Leased /\ Affordable /\ Lost \in Nat /\ Lost' \in Nat
         /\ Lost' = Lost \/ Lost' = Lost + RenewEvery
         /\ faults' = faults => Lost' = Lost
         /\ Fault => Lost' = Lost + RenewEvery
  BY LostStep DEF Safe

LEMMA SafeRunner ==
  ASSUME Alone, Safe, NEW g \in Runners, RunnerStep(g)
  PROVE  Safe'
<1> USE TimingAssumption DEF Go, Set
<1>t. TypeOK /\ TypeOK'
  BY TypeRunner DEF Safe
<1>f. faults' = faults \/ Fault
  BY DEF RunnerStep, Acquire, Refused, AcquireFails, Return, Wake, Launch, Wait, Select, Drain, Leave,
         Evict, Release
<1> SUFFICES ASSUME Affordable' PROVE Leased'
  BY <1>t DEF Safe
<1>s. /\ Leased /\ Affordable /\ Lost \in Nat /\ Lost' \in Nat
      /\ Lost' = Lost \/ Lost' = Lost + RenewEvery
  BY <1>t, <1>f, SafeBefore
<1>n. faults' = faults => Lost' = Lost
  BY DEF Lost
<1>1. CASE Acquire(g)
  <2>1. \A h \in Runners : adapter[h] \/ pc[h] \in {"starting", "launched", "running"} => h = g
    BY <1>1, <1>t, <1>s, Owner, HomeAssumption DEF Acquire, Free, Alone, TypeOK
  <2> QED
    <3>1. /\ left' = TTL /\ holder' = Home[g] /\ pc' = [pc EXCEPT ![g] = "starting"]
          /\ adapter' = adapter /\ timer' = timer /\ ~adapter[g]
      BY <1>1, <1>s DEF Acquire, TakeRow, Leased, Connected
    <3>f. Fresh'
      <4>1. left' + Lost' >= TTL
        <5>1. left' = TTL /\ TTL \in Nat
          BY <3>1
        <5>2. \A l, a \in Nat : l + a >= l
          OBVIOUS
        <5> QED
          BY <1>s, <5>1, <5>2
      <4>2. \A h \in Runners : pc'[h] \in {"starting", "launched"} => h = g
        BY <1>t, <2>1, <3>1 DEF TypeOK
      <4>3. pc'[g] = "starting"
        BY <1>t, <3>1 DEF TypeOK
      <4> QED
        BY <3>1, <4>1, <4>2, <4>3 DEF Fresh
    <3>2. Kept'
      BY <1>t, <1>s, <2>1, <3>1 DEF TypeOK, Leased, Kept
    <3>3. Stopping' /\ Connected'
      BY <1>t, <1>s, <2>1, <3>1 DEF TypeOK, Leased, Stopping, Connected
    <3> QED
      BY <3>f, <3>2, <3>3 DEF Leased
<1>2. CASE Refused(g) \/ Return(g) \/ Wake(g) \/ Evict(g)
  <2>1. /\ pc' = [pc EXCEPT ![g] = pc'[g]] /\ pc'[g] \in {"acquire", "sleep", "returned"}
        /\ \A h \in Runners : h # g => timer'[h] = timer[h]
        /\ holder' = holder /\ left' = left /\ cancelled' = cancelled /\ adapter' = adapter
        /\ Lost' = Lost /\ ~adapter[g]
    BY <1>2, <1>t, <1>s, <1>n DEF Refused, Return, Wake, Evict, row, TypeOK, Leased, Connected
  <2>2. Fresh' /\ Kept'
    BY <1>t, <1>s, <2>1 DEF TypeOK, Leased, Fresh, Kept
  <2>3. Stopping' /\ Connected'
    BY <1>t, <1>s, <2>1 DEF TypeOK, Leased, Stopping, Connected
  <2> QED
    BY <2>2, <2>3 DEF Leased
<1>3. CASE Launch(g)
  BY <1>3, <1>t, <1>s, <1>n DEF Launch, row, TypeOK, Leased, Fresh, Kept, Stopping, Connected
<1>4. CASE Wait(g)
  BY <1>4, <1>t, <1>s, <1>n DEF Wait, Done, row, TypeOK, Leased, Fresh, Kept, Stopping, Connected
<1>5. CASE Select(g)
  BY <1>5, <1>t, <1>s, <1>n DEF Select, Done, row, TypeOK, Leased, Fresh, Kept, Stopping, Connected
<1>6. CASE Drain(g) \/ Leave(g) \/ AcquireFails(g)
  <2>2. ~adapter[g] /\ pc[g] \notin {"starting", "launched", "running"}
    BY <1>6, <1>s DEF Drain, Leave, AcquireFails, Leased, Connected
  <2>3. \A h \in Runners : adapter[h] \/ pc[h] \in {"starting", "launched", "running"} =>
          holder' = holder /\ left' = left
    <3>1. CASE Drain(g) \/ Leave(g)
      <4>1. DeleteRow(Home[g]) \/ UNCHANGED row
        BY <3>1 DEF Drain, Leave, Release
      <4> QED
        BY <1>t, <1>s, <4>1, <2>2, Owner DEF DeleteRow, Alone, row
    <3>2. CASE AcquireFails(g)
      <4>1. (Free(Home[g]) /\ TakeRow(Home[g])) \/ UNCHANGED row
        BY <3>2 DEF AcquireFails
      <4> QED
        BY <1>t, <1>s, <4>1, <2>2, Owner, HomeAssumption DEF Free, TakeRow, Alone, TypeOK, row
    <3> QED
      BY <1>6, <3>1, <3>2
  <2> QED
    <3>1. /\ pc' = [pc EXCEPT ![g] = pc'[g]] /\ pc'[g] \in {"sleep", "returned"}
          /\ \A h \in Runners : h # g => timer'[h] = timer[h]
          /\ cancelled' = cancelled /\ adapter' = adapter /\ Lost' >= Lost
      BY <1>6, <1>t, <1>s DEF Drain, Leave, AcquireFails, TypeOK
    <3>f. Fresh'
      <4> SUFFICES ASSUME NEW h \in Runners, pc'[h] \in {"starting", "launched"}
                   PROVE  /\ holder' = Home[h] /\ left' + Lost' >= TTL
                          /\ pc'[h] = "launched" => timer'[h] = RenewEvery
        BY DEF Fresh
      <4>1. h # g /\ pc'[h] = pc[h] /\ timer'[h] = timer[h]
        BY <1>t, <3>1 DEF TypeOK
      <4>2. holder' = holder /\ left' = left
        BY <2>3, <4>1
      <4>3. /\ holder = Home[h] /\ left + Lost >= TTL
            /\ pc[h] = "launched" => timer[h] = RenewEvery
        BY <1>s, <4>1 DEF Leased, Fresh
      <4>4. left \in Nat /\ TTL \in Nat
        BY <1>t DEF TypeOK
      <4>5. left' + Lost' >= TTL
        BY <1>s, <3>1, <4>2, <4>3, <4>4, StillFresh
      <4> QED
        BY <4>1, <4>2, <4>3, <4>5
    <3>2. Connected'
      BY <1>t, <1>s, <2>2, <2>3, <3>1 DEF TypeOK, Leased, Connected
    <3>3. Kept'
      BY <1>t, <1>s, <2>2, <2>3, <3>1 DEF TypeOK, Leased, Kept
    <3>4. Stopping'
      BY <1>t, <1>s, <2>2, <2>3, <3>1 DEF TypeOK, Leased, Stopping
    <3> QED
      BY <3>f, <3>2, <3>3, <3>4 DEF Leased
<1> QED
  BY <1>1, <1>2, <1>3, <1>4, <1>5, <1>6 DEF RunnerStep

LEMMA SafeRenew ==
  ASSUME Alone, Safe, NEW g \in Runners, RenewStep(g) \/ AdapterExits(g)
  PROVE  Safe'
<1> USE TimingAssumption DEF Go, Set
<1>t. TypeOK /\ TypeOK'
  BY TypeRenew DEF Safe
<1>f. faults' = faults \/ Fault
  BY DEF RenewStep, Renew, RenewFails, RenewLost, RenewStops, AdapterExits
<1> SUFFICES ASSUME Affordable' PROVE Leased'
  BY <1>t DEF Safe
<1>s. /\ Leased /\ Affordable /\ Lost \in Nat /\ Lost' \in Nat
      /\ Lost' = Lost \/ Lost' = Lost + RenewEvery
      /\ Fault => Lost' = Lost + RenewEvery
  BY <1>t, <1>f, SafeBefore
<1>n. faults' = faults => Lost' = Lost
  BY DEF Lost
<1>1. CASE Renew(g)
  BY <1>1, <1>t, <1>s DEF Renew, RenewDue, ExtendRow, TypeOK, Leased, Fresh, Kept, Stopping, Connected, Alone
<1>2. CASE RenewLost(g)
  BY <1>2, <1>t, <1>s DEF RenewLost, RenewDue, TypeOK, Leased, Fresh, Kept
<1>3. CASE RenewStops(g)
  BY <1>3, <1>t, <1>s, <1>n DEF RenewStops, row, TypeOK, Leased, Fresh, Kept, Stopping, Connected
<1>4. CASE AdapterExits(g)
  BY <1>4, <1>t, <1>s, <1>n DEF AdapterExits, row, TypeOK, Leased, Fresh, Kept, Stopping, Connected
<1>5. CASE RenewFails(g)
  <2>1. pc[g] = "running" /\ timer[g] = 0
    BY <1>5, <1>s DEF RenewFails, RenewDue, Leased, Fresh
  <2>2. Lost' = Lost + RenewEvery
    BY <1>5, <1>s DEF RenewFails
  <2>3. holder' = holder /\ (left' = left \/ left' = TTL)
    BY <1>5 DEF RenewFails, ExtendRow, row
  <2>4. left \in 0 .. TTL /\ left' \in 0 .. TTL
    BY <1>t DEF TypeOK
  <2> QED
    <3>1. /\ pc' = pc /\ cancelled' = cancelled /\ adapter' = adapter
          /\ timer' = [timer EXCEPT ![g] = RenewEvery]
      BY <1>5 DEF RenewFails
    <3>2. Fresh' /\ Connected'
      BY <1>t, <1>s, <2>1, <2>2, <2>3, <2>4, <3>1 DEF TypeOK, Leased, Fresh, Connected
    <3>3. Kept'
      BY <1>t, <1>s, <2>1, <2>2, <2>3, <2>4, <3>1 DEF TypeOK, Leased, Kept
    <3>4. Stopping'
      BY <1>t, <1>s, <2>1, <2>2, <2>3, <2>4, <3>1 DEF TypeOK, Leased, Stopping
    <3> QED
      BY <3>2, <3>3, <3>4 DEF Leased
<1> QED
  BY <1>1, <1>2, <1>3, <1>4, <1>5 DEF RenewStep

LEMMA SafeProcess ==
  ASSUME Safe, NEW p \in Replicas, Cancel(p) \/ Crash(p) \/ Boot(p)
  PROVE  Safe'
<1> USE TimingAssumption
<1>t. TypeOK /\ TypeOK'
  BY TypeProcess DEF Safe
<1>f. faults' = faults
  BY DEF Cancel, Crash, Boot
<1> SUFFICES ASSUME Affordable' PROVE Leased'
  BY <1>t DEF Safe
<1>s. Leased /\ Affordable /\ Lost \in Nat /\ Lost' = Lost
  BY <1>t, <1>f, SafeBefore DEF Lost
<1>1. CASE Cancel(p)
  BY <1>1, <1>t, <1>s DEF Cancel, row, TypeOK, Leased, Fresh, Kept, Stopping, Connected
<1>2. CASE Crash(p)
  BY <1>2, <1>t, <1>s DEF Crash, row, TypeOK, Leased, Fresh, Kept, Stopping, Connected
<1>3. CASE Boot(p)
  BY <1>3, <1>t, <1>s, HomeAssumption DEF Boot, TypeOK, Leased, Fresh, Kept, Stopping, Connected
<1> QED
  BY <1>1, <1>2, <1>3

\* Time passes only while every runner that must act or stop has ticks left.
LEMMA SafeTick ==
  ASSUME Safe, Tick
  PROVE  Safe'
<1> USE TimingAssumption
<1>t. TypeOK /\ TypeOK'
  BY TypeTick DEF Safe
<1>f. faults' = faults
  BY DEF Tick
<1> SUFFICES ASSUME Affordable' PROVE Leased'
  BY <1>t DEF Safe
<1>s. Leased /\ Affordable /\ Lost \in Nat /\ Lost' = Lost
  BY <1>t, <1>f, SafeBefore DEF Lost
<1>1. \A g \in Runners :
        /\ pc[g] \notin {"starting", "launched"}
        /\ pc[g] = "running" => timer[g] > 0
        /\ pc[g] \in {"draining", "evicted"} => timer[g] > 0
  BY <1>t, MostBounds DEF Tick, Urgent, TypeOK
<1>2. left > 0 => left' = left - 1
  BY <1>t DEF Tick, Less, TypeOK
<1>3. \A g \in Runners : timer[g] > 0 => timer'[g] = timer[g] - 1
  BY <1>t, MostBounds DEF Tick, Less, TypeOK
<1>4. \A g \in Runners : adapter[g] \/ pc[g] = "running" => left > 0
  BY <1>t, <1>s, Owner DEF TypeOK
<1> QED
  BY <1>t, <1>s, <1>1, <1>2, <1>3, <1>4, MostBounds
  DEF Tick, TypeOK, Leased, Fresh, Kept, Stopping, Connected

LEMMA SafeStep ==
  ASSUME Alone
  PROVE  Safe /\ [Next]_vars => Safe'
<1> SUFFICES ASSUME Safe, [Next]_vars PROVE Safe'
  OBVIOUS
<1>1. CASE UNCHANGED vars
  BY <1>1
  DEF vars, row, runner, Safe, Affordable, Lost, Leased, TypeOK, Fresh, Kept, Stopping, Connected
<1> QED
  BY <1>1, SafeRunner, SafeRenew, SafeProcess, SafeTick DEF Next

\* "Only one replica's Start runs at a time" (manager.go:93-94), as long as the
\* failed calls are affordable and no replica has two runners for the account.
THEOREM OneClient ==
  ASSUME Alone
  PROVE  Spec => []SingleClient
<1>1. Safe => SingleClient
  BY Owner DEF Safe, SingleClient, Alone
<1> QED
  BY <1>1, SafeInit, SafeStep, PTL DEF Spec

-----------------------------------------------------------------------------
(* A live row is taken from nobody, whatever fails.                        *)

\* A runner that leaves has no adapter any more.
Left == \A g \in Runners : pc[g] = "leaving" => ~adapter[g]

LEMMA LeftStep ==
  ASSUME TypeOK, Left, [Next]_vars
  PROVE  Left'
<1>1. ASSUME NEW g \in Runners, RunnerStep(g) PROVE Left'
  <2>1. CASE Launch(g)
    BY <2>1 DEF Launch, Go, TypeOK, Left
  <2>2. CASE Select(g)
    BY <2>2 DEF Select, Go, TypeOK, Left
  <2>3. CASE \/ Acquire(g) \/ Refused(g) \/ AcquireFails(g) \/ Return(g) \/ Wake(g)
             \/ Wait(g) \/ Drain(g) \/ Leave(g) \/ Evict(g)
    BY <2>3 DEF Acquire, Refused, AcquireFails, Return, Wake, Wait, Drain, Leave, Evict, Go,
                TypeOK, Left
  <2> QED
    BY <1>1, <2>1, <2>2, <2>3 DEF RunnerStep
<1>2. ASSUME NEW g \in Runners, RenewStep(g) PROVE Left'
  BY <1>2 DEF RenewStep, Renew, RenewFails, RenewLost, RenewStops, Go, TypeOK, Left
<1>3. ASSUME NEW g \in Runners, AdapterExits(g) PROVE Left'
  BY <1>3 DEF AdapterExits, TypeOK, Left
<1>4. ASSUME NEW p \in Replicas, Cancel(p) \/ Crash(p) \/ Boot(p) PROVE Left'
  BY <1>4 DEF Cancel, Crash, Boot, TypeOK, Left
<1>5. CASE Tick \/ UNCHANGED vars
  BY <1>5 DEF Tick, vars, runner, Left
<1> QED
  BY <1>1, <1>2, <1>3, <1>4, <1>5 DEF Next

LEMMA FencedStep ==
  ASSUME Alone, TypeOK, Left, [Next]_vars, NEW g \in Runners,
         adapter[g], adapter'[g], holder = Home[g], holder' # Home[g]
  PROVE  left <= Skew
<1>0. Home[g] \in Replicas /\ Home[g] # None
  BY HomeAssumption
<1>1. ASSUME NEW h \in Runners, RunnerStep(h) PROVE left <= Skew
  <2>1. CASE Acquire(h) \/ AcquireFails(h)
    BY <1>0, <2>1 DEF Acquire, AcquireFails, Free, TakeRow, row
  <2>2. CASE Drain(h) \/ Leave(h)
    <3>1. Home[h] = Home[g]
      BY <2>2 DEF Drain, Leave, Release, DeleteRow, row
    <3>2. h = g
      BY <3>1 DEF Alone
    <3> QED
      BY <2>2, <3>2 DEF Drain, Leave, Left
  <2>3. CASE Refused(h) \/ Return(h) \/ Wake(h) \/ Launch(h) \/ Wait(h) \/ Select(h) \/ Evict(h)
    BY <2>3 DEF Refused, Return, Wake, Launch, Wait, Select, Evict, row
  <2> QED
    BY <1>1, <2>1, <2>2, <2>3 DEF RunnerStep
<1>2. ASSUME NEW h \in Runners, RenewStep(h) \/ AdapterExits(h) PROVE left <= Skew
  BY <1>2 DEF RenewStep, Renew, RenewFails, RenewLost, RenewStops, AdapterExits, ExtendRow, row
<1>3. ASSUME NEW p \in Replicas, Cancel(p) \/ Crash(p) \/ Boot(p) PROVE left <= Skew
  BY <1>3 DEF Cancel, Crash, Boot, row
<1>4. CASE Tick \/ UNCHANGED vars
  BY <1>4 DEF Tick, vars, row
<1> QED
  BY <1>1, <1>2, <1>3, <1>4 DEF Next

\* Neither a late release of an evicted peer nor a new process takes the row from a
\* replica whose adapter runs before it expired (database.go:4896-4910), however
\* many calls fail, if no replica has two runners for the account.
THEOREM NeverStolen ==
  ASSUME Alone
  PROVE  Spec => LeaseFenced
<1>1. Init => Left
  BY DEF Init, Left
<1>2. TypeOK /\ Left /\ [Next]_vars => Left'
  BY LeftStep
<1>3. TypeOK /\ Left /\ [Next]_vars =>
        (\A g \in Runners :
           adapter[g] /\ adapter'[g] /\ holder = Home[g] /\ holder' # Home[g] => left <= Skew)
  BY FencedStep
<1> QED
  BY <1>1, <1>2, <1>3, TypeCorrect, PTL DEF Spec, LeaseFenced
=============================================================================
