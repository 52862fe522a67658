---------------------------- MODULE ChannelLease ----------------------------
(***************************************************************************)
(* The lease that keeps one client of a chat service connected when several*)
(* replicas serve one account: runWithLease and renewUntilLost             *)
(* (internal/channels/lease.go) over the row of channel_leases             *)
(* (internal/store/database.go).                                           *)
(*                                                                         *)
(* A runner is a runWithLease goroutine; Home gives the process it runs    *)
(* in.  Time passes in ticks: the row's expiry and the timers of           *)
(* the runners count down.  A runner acts as soon as it can: Tick waits    *)
(* for it; an adapter told to stop does so within StopWithin ticks.        *)
(***************************************************************************)
EXTENDS Integers

CONSTANTS
  Runners, Replicas, Home,
  TTL,         \* leaseTTL
  RenewEvery,  \* leaseRenewInterval
  RetryEvery,  \* leaseRetryInterval
  StopWithin,  \* bound on the time an adapter takes to stop
  Skew,        \* bound on how far the clock of a peer runs ahead
  MaxBoots,    \* bound on restarts
  MaxFaults    \* bound on calls to the database that fail, applied or not

None == "none"   \* no row
Gone == "gone"   \* the holder id of a process that is no more

ASSUME HomeAssumption == Home \in [Runners -> Replicas] /\ None \notin Replicas /\ Gone \notin Replicas
ASSUME TimingAssumption ==
  /\ TTL \in Nat /\ RenewEvery \in Nat \ {0} /\ RetryEvery \in Nat \ {0}
  /\ StopWithin \in Nat /\ Skew \in Nat
  /\ RenewEvery + StopWithin + Skew < TTL
ASSUME BoundAssumption == MaxBoots \in Nat /\ MaxFaults \in Nat

VARIABLES
  holder,     \* holder_id of the row
  left,       \* ticks to expires_at; 0 when it has passed
  cancelled,  \* processes whose root context is done
  pc,         \* the place of each runner
  timer,      \* the runner's ticker, sleep, or the time its adapter has to stop
  adapter,    \* the adapter's Start is running
  renewing,   \* the goroutine of renewUntilLost is running
  boots,      \* restarts so far
  faults      \* failed calls so far

row     == <<holder, left>>
runner  == <<pc, timer, adapter, renewing>>
vars    == <<row, cancelled, runner, boots, faults>>

Places == {"down", "acquire", "starting", "launched", "running", "leaving", "draining",
           "evicted", "sleep", "returned"}

Most == IF RetryEvery > RenewEvery
        THEN IF RetryEvery > StopWithin THEN RetryEvery ELSE StopWithin
        ELSE IF RenewEvery > StopWithin THEN RenewEvery ELSE StopWithin

TypeOK ==
  /\ holder \in Replicas \cup {None, Gone}
  /\ left \in 0 .. TTL
  /\ cancelled \subseteq Replicas
  /\ pc \in [Runners -> Places]
  /\ timer \in [Runners -> 0 .. Most]
  /\ adapter \in [Runners -> BOOLEAN]
  /\ renewing \in [Runners -> BOOLEAN]
  /\ boots \in 0 .. MaxBoots /\ faults \in 0 .. MaxFaults

Init ==
  /\ holder = None /\ left = 0
  /\ cancelled = {}
  /\ pc = [g \in Runners |-> "acquire"]
  /\ timer = [g \in Runners |-> 0]
  /\ adapter = [g \in Runners |-> FALSE]
  /\ renewing = [g \in Runners |-> FALSE]
  /\ boots = 0 /\ faults = 0

-----------------------------------------------------------------------------
(* The row.                                                                *)

\* Mutant: an expired row is not stolen.
NoSteal(p) == holder \in {None, p}

\* The row is absent, held by p already, or expired by p's clock.
Free(p) == holder \in {None, p} \/ left <= Skew

TakeRow(p) == holder' = p /\ left' = TTL

\* Mutant: a renewal adds to the expiry of the row, and not to the clock.
ExtendFurther(p) == holder = p /\ left' = left + TTL /\ UNCHANGED holder

\* UPDATE ... WHERE holder_id = p.
ExtendRow(p) == holder = p /\ left' = TTL /\ UNCHANGED holder

\* Mutant: any holder's row is deleted.
DeleteAnyRow(p) == holder' = None /\ left' = 0

\* DELETE ... WHERE holder_id = p.
DeleteRow(p) ==
  IF holder = p THEN holder' = None /\ left' = 0 ELSE UNCHANGED row

Fault == faults < MaxFaults /\ faults' = faults + 1

\* Release is best effort.
Release(p) == (DeleteRow(p) /\ UNCHANGED faults) \/ (UNCHANGED row /\ Fault)

-----------------------------------------------------------------------------
(* runWithLease.                                                           *)

Go(g, p)   == pc' = [pc EXCEPT ![g] = p]
Set(g, n)  == timer' = [timer EXCEPT ![g] = n]
Done(g)    == Home[g] \in cancelled

Acquire(g) ==
  /\ pc[g] = "acquire" /\ ~Done(g)
  /\ Free(Home[g])
  /\ TakeRow(Home[g])
  /\ Go(g, "starting")
  /\ UNCHANGED <<cancelled, timer, adapter, renewing, boots, faults>>

Refused(g) ==
  /\ pc[g] = "acquire" /\ ~Done(g)
  /\ ~Free(Home[g])
  /\ Go(g, "sleep") /\ Set(g, RetryEvery)
  /\ UNCHANGED <<row, cancelled, adapter, renewing, boots, faults>>

\* The reply is lost, or the statement.
AcquireFails(g) ==
  /\ Fault
  /\ pc[g] = "acquire" /\ ~Done(g)
  /\ (Free(Home[g]) /\ TakeRow(Home[g])) \/ UNCHANGED row
  /\ Go(g, "sleep") /\ Set(g, RetryEvery)
  /\ UNCHANGED <<cancelled, adapter, renewing, boots>>

\* The context is done at the top of the loop, or in sleepOrDone.
Return(g) ==
  /\ pc[g] \in {"acquire", "sleep"} /\ Done(g)
  /\ Go(g, "returned")
  /\ UNCHANGED <<row, cancelled, timer, adapter, renewing, boots, faults>>

Wake(g) ==
  /\ pc[g] = "sleep" /\ timer[g] = 0 /\ ~Done(g)
  /\ Go(g, "acquire")
  /\ UNCHANGED <<row, cancelled, timer, adapter, renewing, boots, faults>>

\* The adapter and the renewal start.
Launch(g) ==
  /\ pc[g] = "starting"
  /\ adapter' = [adapter EXCEPT ![g] = TRUE]
  /\ renewing' = [renewing EXCEPT ![g] = TRUE]
  /\ Go(g, "launched") /\ Set(g, RenewEvery)
  /\ UNCHANGED <<row, cancelled, boots, faults>>

\* The select finds nothing ready and waits.
Wait(g) ==
  /\ pc[g] = "launched"
  /\ ~Done(g) /\ adapter[g] /\ renewing[g]
  /\ Go(g, "running")
  /\ UNCHANGED <<row, cancelled, timer, adapter, renewing, boots, faults>>

\* The select finds one or more cases ready and takes any of them.
Select(g) ==
  /\ pc[g] = "launched"
  /\ \/ Done(g) /\ Go(g, "draining") /\ Set(g, StopWithin)
     \/ ~adapter[g] /\ Go(g, "leaving") /\ UNCHANGED timer
     \/ ~renewing[g] /\ Go(g, "evicted") /\ Set(g, StopWithin)
  /\ UNCHANGED <<row, cancelled, adapter, renewing, boots, faults>>

\* Start returns, because it was told to or on its own; a select that waits
\* takes that case.
AdapterExits(g) ==
  /\ adapter[g]
  /\ adapter' = [adapter EXCEPT ![g] = FALSE]
  /\ pc' = IF pc[g] = "running" THEN [pc EXCEPT ![g] = "leaving"] ELSE pc
  /\ UNCHANGED <<row, cancelled, timer, renewing, boots, faults>>

\* Mutant: the lease is dropped before the adapter has stopped.
DrainEarly(g) ==
  /\ pc[g] = "draining"
  /\ Release(Home[g])
  /\ Go(g, "returned")
  /\ UNCHANGED <<cancelled, timer, adapter, renewing, boots>>

\* Shutdown: the adapter has stopped, the lease is released.
Drain(g) ==
  /\ pc[g] = "draining" /\ ~adapter[g]
  /\ Release(Home[g])
  /\ Go(g, "returned")
  /\ UNCHANGED <<cancelled, timer, adapter, renewing, boots>>

\* The adapter exited on its own: release, and come back later.
Leave(g) ==
  /\ pc[g] = "leaving" /\ ~renewing[g]
  /\ Release(Home[g])
  /\ Go(g, "sleep") /\ Set(g, RetryEvery)
  /\ UNCHANGED <<cancelled, adapter, renewing, boots>>

\* The lease was lost: no release.
Evict(g) ==
  /\ pc[g] = "evicted" /\ ~adapter[g]
  /\ Go(g, "sleep") /\ Set(g, RetryEvery)
  /\ UNCHANGED <<row, cancelled, adapter, renewing, boots, faults>>

-----------------------------------------------------------------------------
(* renewUntilLost: the ticker fires.                                       *)

RenewDue(g) == renewing[g] /\ timer[g] = 0 /\ pc[g] \in {"launched", "running"}

Renew(g) ==
  /\ RenewDue(g)
  /\ ExtendRow(Home[g])
  /\ Set(g, RenewEvery)
  /\ UNCHANGED <<cancelled, pc, adapter, renewing, boots, faults>>

RenewFails(g) ==
  /\ Fault
  /\ RenewDue(g)
  /\ ExtendRow(Home[g]) \/ UNCHANGED row
  /\ Set(g, RenewEvery)
  /\ UNCHANGED <<cancelled, pc, adapter, renewing, boots>>

\* The row is someone else's: the goroutine ends; a select that waits takes
\* that case.
RenewLost(g) ==
  /\ RenewDue(g) /\ holder # Home[g]
  /\ renewing' = [renewing EXCEPT ![g] = FALSE]
  /\ IF pc[g] = "running" THEN Go(g, "evicted") /\ Set(g, StopWithin) ELSE UNCHANGED <<pc, timer>>
  /\ UNCHANGED <<row, cancelled, adapter, boots, faults>>

\* Its context is done: the process's, or childCancel was called.
RenewStops(g) ==
  /\ renewing[g]
  /\ Done(g) \/ pc[g] \in {"leaving", "draining", "evicted", "sleep", "returned"}
  /\ renewing' = [renewing EXCEPT ![g] = FALSE]
  /\ UNCHANGED <<row, cancelled, pc, timer, adapter, boots, faults>>

-----------------------------------------------------------------------------
(* The process and its time.                                               *)

\* Graceful shutdown: each select that waits takes the ctx.Done case.
Cancel(p) ==
  /\ p \notin cancelled
  /\ \E g \in Runners : Home[g] = p /\ pc[g] # "down"
  /\ cancelled' = cancelled \cup {p}
  /\ LET waits(g) == Home[g] = p /\ pc[g] = "running"
     IN  /\ pc' = [g \in Runners |-> IF waits(g) THEN "draining" ELSE pc[g]]
         /\ timer' = [g \in Runners |-> IF waits(g) THEN StopWithin ELSE timer[g]]
  /\ UNCHANGED <<row, adapter, renewing, boots, faults>>

Crash(p) ==
  /\ \E g \in Runners : Home[g] = p /\ pc[g] # "down"
  /\ pc' = [g \in Runners |-> IF Home[g] = p THEN "down" ELSE pc[g]]
  /\ adapter' = [g \in Runners |-> adapter[g] /\ Home[g] # p]
  /\ renewing' = [g \in Runners |-> renewing[g] /\ Home[g] # p]
  /\ UNCHANGED <<row, cancelled, timer, boots, faults>>

\* A new process mints a new holder id.
Boot(p) ==
  /\ boots < MaxBoots /\ boots' = boots + 1
  /\ \A g \in Runners : Home[g] = p => pc[g] \in {"down", "returned"} /\ ~adapter[g] /\ ~renewing[g]
  /\ cancelled' = cancelled \ {p}
  /\ holder' = IF holder = p THEN Gone ELSE holder
  /\ pc' = [g \in Runners |-> IF Home[g] = p THEN "acquire" ELSE pc[g]]
  /\ UNCHANGED <<left, timer, adapter, renewing, faults>>

\* Runner g can act now, or its adapter must.
Urgent(g) ==
  \/ pc[g] \in {"acquire", "starting", "launched", "leaving"}
  \/ pc[g] = "sleep" /\ (timer[g] = 0 \/ Done(g))
  \/ pc[g] = "running" /\ timer[g] = 0
  \/ pc[g] \in {"draining", "evicted"} /\ (timer[g] = 0 \/ ~adapter[g])

Less(n) == IF n = 0 THEN 0 ELSE n - 1

Tick ==
  /\ \A g \in Runners : ~Urgent(g)
  /\ left' = Less(left)
  /\ timer' = [g \in Runners |-> Less(timer[g])]
  /\ UNCHANGED <<holder, cancelled, pc, adapter, renewing, boots, faults>>

RunnerStep(g) ==
  \/ Acquire(g) \/ Refused(g) \/ AcquireFails(g) \/ Return(g) \/ Wake(g) \/ Launch(g)
  \/ Wait(g) \/ Select(g) \/ Drain(g) \/ Leave(g) \/ Evict(g)

RenewStep(g) == Renew(g) \/ RenewFails(g) \/ RenewLost(g) \/ RenewStops(g)

Next ==
  \/ \E g \in Runners : RunnerStep(g) \/ RenewStep(g) \/ AdapterExits(g)
  \/ \E p \in Replicas : Cancel(p) \/ Crash(p) \/ Boot(p)
  \/ Tick

Spec == Init /\ [][Next]_vars

\* Goroutines run, time passes, and an adapter told to stop stops; an
\* adapter need not exit on its own and nobody has to boot a process.
Fairness ==
  /\ WF_vars(Tick)
  /\ \A g \in Runners :
       /\ WF_vars(RunnerStep(g)) /\ WF_vars(RenewStep(g))
       /\ WF_vars(pc[g] \in {"draining", "evicted"} /\ AdapterExits(g))

FairSpec == Spec /\ Fairness

-----------------------------------------------------------------------------
(* Properties.                                                             *)

\* "Only one replica's Start runs at a time per (channel, accountID)"
\* (channels/manager.go:93-94), "anything where a second concurrent client would
\* deliver duplicate inbound" (gateway/channels.go:145-146): at most one adapter is
\* connected, through crashes, restarts, slow shutdowns and skewed clocks, and as
\* many failing calls as the life of a row has renewals to spare.
Affordable == faults * RenewEvery + RenewEvery + StopWithin + Skew < TTL
SingleClient == Affordable => \A g, h \in Runners : adapter[g] /\ adapter[h] => g = h

\* No one takes the row from a replica whose adapter runs before it expired:
\* not a late release of an evicted peer, not a new process
\* (database.go:4896-4899).
LeaseFenced ==
  [][\A g \in Runners :
       adapter[g] /\ adapter'[g] /\ holder = Home[g] /\ holder' # Home[g] => left <= Skew]_vars

\* "On parent ctx cancellation we cancel the Start goroutine, wait for it to
\* return, then Release before exiting" (lease.go:60-61).
ReleasedOnReturn == \A g \in Runners : pc[g] = "returned" => holder # Home[g]

Up(p) == p \notin cancelled /\ \A g \in Runners : Home[g] = p => pc[g] # "down"

\* "peers wait on the Leaser until the active holder dies"
\* (channels/manager.go:94-95), and then one takes over: while a replica stays up, an
\* adapter runs again and again.
Failover ==
  \A p \in Replicas : <>[]Up(p) => []<>(\E g \in Runners : adapter[g])
=============================================================================
