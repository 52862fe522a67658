----------------------------- MODULE SandboxPool -----------------------------
(***************************************************************************)
(* The hosted sandboxes of one scope (internal/sandbox/lifecycle.go over   *)
(* the pool of e2b_executor.go): tool calls create the sandbox on demand,  *)
(* copy what they change into the workspace store, rebuild a sandbox that  *)
(* is gone; a sweeper snapshots and destroys one that is idle.             *)
(*                                                                         *)
(* The workspace is the file at one path under /workspace, and a version   *)
(* of it a number: 0 when it is absent.  Sandboxes are numbered as the     *)
(* provider makes them; an executor has the number of its first one.  Tool *)
(* calls of one round run side by side, each a caller.                     *)
(***************************************************************************)
EXTENDS Integers

CONSTANTS
  Callers,    \* goroutines that run tool calls on the scope
  Sweeper,    \* the goroutine of evictIdle
  IdleTTL,    \* in ticks
  MaxBoxes,   \* sandboxes the provider gives; then it refuses
  MaxCalls,   \* bound on tool calls
  MaxWrites,  \* bound on versions
  MaxFaults,  \* bound on failing requests
  MaxExpired, \* bound on sandboxes the provider takes back
  Size,       \* the size of each version
  InProject   \* the chat belongs to a project

Raw == -1     \* /workspace does not exist yet
Boxes    == 1 .. MaxBoxes
Versions == 0 .. MaxWrites

ASSUME PoolAssumption ==
  /\ Sweeper \notin Callers /\ IdleTTL \in Nat
  /\ MaxBoxes \in Nat /\ MaxCalls \in Nat /\ MaxWrites \in Nat
  /\ MaxFaults \in Nat /\ MaxExpired \in Nat
  /\ Size \in [Versions -> Nat] /\ InProject \in BOOLEAN

VARIABLES
  tracked,   \* the scope is in lastUsed
  age,       \* ticks since lastUsed
  entry,     \* p.executors: the executor of the scope, or 0
  box,       \* the sandbox each executor names
  made,      \* sandboxes made so far
  alive,     \* those that exist
  files,     \* the workspace in each
  store,     \* the workspace in the store
  job,       \* where each goroutine is, its executor, what it is to do, and the
             \* version it writes to the store
  mode,      \* "open", "stopping" once CloseAll stopped the sweeper, "closed"
  calls, writes, faults, expired,
  current,   \* history: the version the last command or write left
  calm,      \* history: no call overlapped another or a teardown, no transfer failed
  stray      \* history: the sandboxes that are lost, see NoneLeaks

pool   == <<tracked, age, entry>>
cloud  == <<box, made, alive, files>>
counts == <<calls, writes, faults, expired>>
past   == <<current, calm, stray>>
vars   == <<pool, cloud, store, job, mode, counts, past>>

Actors == Callers \cup {Sweeper}
Kinds  == {"exec", "read", "write"}
Places == {"idle", "get", "hydrate", "use", "rebuild", "rehydrate", "again",
           "sync", "put", "mirror", "release", "close"}

Jobs == [at : Places, ex : 0 .. MaxBoxes, kind : Kinds, hold : Versions]
Rest == [at |-> "idle", ex |-> 0, kind |-> "exec", hold |-> 0]

\* A goroutine past the pool has an executor: nowhere is it nil.
Equipped ==
  \A a \in Actors : job[a].at \notin {"idle", "get", "release"} => job[a].ex # 0

TypeOK ==
  /\ tracked \in BOOLEAN /\ age \in 0 .. IdleTTL + 1
  /\ entry \in 0 .. MaxBoxes /\ box \in [Boxes -> 0 .. MaxBoxes]
  /\ made \in 0 .. MaxBoxes /\ alive \subseteq 1 .. made
  /\ files \in [Boxes -> Versions \cup {Raw}] /\ store \in Versions
  /\ job \in [Actors -> Jobs] /\ Equipped
  /\ mode \in {"open", "stopping", "closed"}
  /\ calls \in 0 .. MaxCalls /\ writes \in Versions
  /\ faults \in 0 .. MaxFaults /\ expired \in 0 .. MaxExpired
  /\ current \in Versions /\ calm \in BOOLEAN /\ stray \subseteq 1 .. made

Init ==
  /\ tracked = FALSE /\ age = 0 /\ entry = 0
  /\ box = [x \in Boxes |-> 0] /\ made = 0 /\ alive = {}
  /\ files = [b \in Boxes |-> Raw] /\ store = 0
  /\ job = [a \in Actors |-> Rest]
  /\ mode = "open"
  /\ calls = 0 /\ writes = 0 /\ faults = 0 /\ expired = 0
  /\ current = 0 /\ calm = TRUE /\ stray = {}

\* Goroutine a goes on with job j, or is done with it.
Do(a, j)    == job' = [job EXCEPT ![a] = IF j.at = "idle" THEN Rest ELSE j]
Go(a, p)    == Do(a, [job[a] EXCEPT !.at = p])
At(a, p)    == job[a].at = p
Fault    == faults < MaxFaults /\ faults' = faults + 1
Box(a)   == box[job[a].ex]
Works(a) == Box(a) \in alive
Count    == UNCHANGED <<calls, writes, expired>>

\* What a comparison of sizes takes for the same file.
Alike(v, w) == v = w \/ (v # 0 /\ w # 0 /\ Size[v] = Size[w])

\* What a hydration leaves at the path.  For a chat of a project it lists the
\* directories of all its chats, and the file lands one directory deeper than
\* the path it was saved under.
Restored == IF InProject THEN 0 ELSE store

-----------------------------------------------------------------------------
(* getInner, and E2BExecutorPool.Get under its lock.                       *)

\* The goroutine that creates holds the lock.
Unlocked == \A a \in Actors : ~At(a, "hydrate")

\* A tool call stamps the scope.
Call(c, k) ==
  /\ At(c, "idle") /\ calls < MaxCalls
  /\ calls' = calls + 1
  /\ tracked' = TRUE /\ age' = 0
  /\ calm' = (calm /\ \A a \in Actors : At(a, "idle"))
  /\ Do(c, [Rest EXCEPT !.at = "get", !.kind = k])
  /\ UNCHANGED <<entry, cloud, store, mode, writes, faults, expired, current, stray>>

Ready(a)   == IF a = Sweeper THEN "sync" ELSE "use"
Failed(a)  == IF a = Sweeper THEN "release" ELSE "idle"

Found(a) ==
  /\ At(a, "get") /\ Unlocked /\ entry # 0
  /\ Do(a, [job[a] EXCEPT !.at = Ready(a), !.ex = entry])
  /\ UNCHANGED <<pool, cloud, store, mode, counts, past>>

\* The provider makes a sandbox.
Make == made' = made + 1 /\ alive' = alive \cup {made + 1}

\* The provider destroys sandbox b, and the files in it.
Destroy(b) ==
  /\ alive' = alive \ {b}
  /\ files' = [x \in Boxes |-> IF x = b THEN Raw ELSE files[x]]
  /\ stray' = stray \ {b}

\* A DELETE that does not reach the provider; nobody tries again.
Lose(b) == stray' = stray \cup ({b} \cap alive) /\ UNCHANGED <<alive, files>>

\* A call that waited for the lock until its scope was swept makes a sandbox
\* the sweeper does not know of.
Create(a) ==
  /\ At(a, "get") /\ Unlocked /\ entry = 0 /\ made < MaxBoxes
  /\ Make
  /\ box' = [box EXCEPT ![made + 1] = made + 1]
  /\ stray' = IF tracked \/ a = Sweeper THEN stray ELSE stray \cup {made + 1}
  /\ Do(a, [job[a] EXCEPT !.at = "hydrate", !.ex = made + 1])
  /\ UNCHANGED <<pool, files, store, mode, counts, current, calm>>

\* The provider makes a sandbox, and its answer is late, lost or unreadable:
\* nobody learns its name.
CreateLost(a) ==
  /\ Fault
  /\ At(a, "get") /\ Unlocked /\ entry = 0 /\ made < MaxBoxes
  /\ Make
  /\ stray' = stray \cup {made + 1}
  /\ Go(a, Failed(a))
  /\ UNCHANGED <<pool, box, files, store, mode, current, calm>> /\ Count

\* The request does not get there, or the provider refuses.
CreateFails(a) ==
  /\ At(a, "get") /\ Unlocked /\ entry = 0
  /\ Fault \/ (made = MaxBoxes /\ UNCHANGED faults)
  /\ Go(a, Failed(a))
  /\ UNCHANGED <<pool, cloud, store, mode, past>> /\ Count

\* Hydrate and the probe of /workspace; the executor is in the map.
Hydrate(a) ==
  /\ At(a, "hydrate") /\ Works(a)
  /\ files' = [files EXCEPT ![Box(a)] = Restored]
  /\ entry' = job[a].ex
  /\ Go(a, Ready(a))
  /\ UNCHANGED <<tracked, age, box, made, alive, store, mode, counts, past>>

\* A list or a read of the store that fails is logged, and the sandbox starts
\* without the file.
HydratePartly(a) ==
  /\ Fault
  /\ At(a, "hydrate") /\ Works(a)
  /\ files' = [files EXCEPT ![Box(a)] = 0]
  /\ entry' = job[a].ex
  /\ calm' = FALSE
  /\ Go(a, Ready(a))
  /\ UNCHANGED <<tracked, age, box, made, alive, store, mode, current, stray>>
  /\ Count

\* Mutant: a sandbox that could not be hydrated is left alone.
HydrateFailsOpen(a) ==
  /\ At(a, "hydrate")
  /\ Fault \/ (~Works(a) /\ UNCHANGED faults)
  /\ Go(a, Failed(a))
  /\ UNCHANGED <<pool, cloud, store, mode, past>> /\ Count

\* The executor is closed, as far as the provider answers, and never gets into
\* the map.
HydrateFails(a) ==
  /\ At(a, "hydrate")
  /\ Fault \/ (~Works(a) /\ UNCHANGED faults)
  /\ Destroy(Box(a)) \/ Lose(Box(a))
  /\ Go(a, Failed(a))
  /\ UNCHANGED <<pool, box, made, store, mode, current, calm>> /\ Count

-----------------------------------------------------------------------------
(* The request to the sandbox, and recreate.                               *)

\* The end of a call: what an exec left is synced, even after an error.
Ended(c) == IF job[c].kind = "exec" THEN "sync" ELSE "idle"

Touch(c) ==
  \/ /\ job[c].kind # "write"
     /\ Go(c, Ended(c))
     /\ UNCHANGED <<files, writes, current>>
  \/ /\ job[c].kind # "read" /\ writes < MaxWrites
     /\ writes' = writes + 1 /\ current' = writes + 1
     /\ files' = [files EXCEPT ![Box(c)] = writes + 1]
     /\ IF job[c].kind = "exec"
        THEN Go(c, "sync")
        ELSE Do(c, [job[c] EXCEPT !.at = "mirror", !.hold = writes + 1])

Use(c) ==
  /\ job[c].at \in {"use", "again"} /\ Works(c) /\ files[Box(c)] # Raw
  /\ Touch(c)
  /\ UNCHANGED <<pool, box, made, alive, store, mode, calls, faults, expired, calm, stray>>

\* The sandbox has no /workspace, or the request does not get there.
UseFails(c) ==
  /\ job[c].at \in {"use", "again"} /\ Works(c)
  /\ Go(c, Ended(c))
  /\ UNCHANGED <<pool, cloud, store, mode, counts, past>>

\* The request is carried out and its answer is lost.  A command is synced all
\* the same, a write is not mirrored.
UseLost(c) ==
  /\ Fault
  /\ job[c].at \in {"use", "again"} /\ Works(c) /\ files[Box(c)] # Raw
  /\ job[c].kind # "read" /\ writes < MaxWrites
  /\ writes' = writes + 1 /\ current' = writes + 1
  /\ files' = [files EXCEPT ![Box(c)] = writes + 1]
  /\ calm' = (calm /\ job[c].kind = "exec")
  /\ Go(c, Ended(c))
  /\ UNCHANGED <<pool, box, made, alive, store, mode, calls, expired, stray>>

\* isSandboxGone: HTTP 404 or 502.  The second try gives up.
Gone(c) ==
  /\ job[c].at \in {"use", "again"} /\ ~Works(c)
  /\ Go(c, IF At(c, "use") THEN "rebuild" ELSE Ended(c))
  /\ UNCHANGED <<pool, cloud, store, mode, counts, past>>

\* The answer has one of the two for another reason: a live sandbox is given up.
Glitch(c) ==
  /\ Fault
  /\ At(c, "use") /\ Works(c)
  /\ calm' = FALSE /\ stray' = stray \cup {Box(c)}
  /\ Go(c, "rebuild")
  /\ UNCHANGED <<pool, cloud, store, mode, current>> /\ Count

\* recreate: the executor takes the name of the new sandbox before it is
\* hydrated.
Rebuild(c) ==
  /\ At(c, "rebuild") /\ made < MaxBoxes
  /\ Make
  /\ box' = [box EXCEPT ![job[c].ex] = made + 1]
  /\ stray' = IF calm THEN stray ELSE stray \cup {made + 1}
  /\ Go(c, "rehydrate")
  /\ UNCHANGED <<pool, files, store, mode, counts, current, calm>>

RebuildLost(c) ==
  /\ Fault
  /\ At(c, "rebuild") /\ made < MaxBoxes
  /\ Make
  /\ stray' = stray \cup {made + 1}
  /\ Go(c, Ended(c))
  /\ UNCHANGED <<pool, box, files, store, mode, current, calm>> /\ Count

RebuildFails(c) ==
  /\ At(c, "rebuild")
  /\ Fault \/ (made = MaxBoxes /\ UNCHANGED faults)
  /\ Go(c, Ended(c))
  /\ UNCHANGED <<pool, cloud, store, mode, past>> /\ Count

\* Mutant: the recreated sandbox gets the skills but not the workspace.
RehydrateEmpty(c) ==
  /\ At(c, "rehydrate") /\ Works(c)
  /\ files' = [files EXCEPT ![Box(c)] = 0]
  /\ Go(c, "again")
  /\ UNCHANGED <<pool, box, made, alive, store, mode, counts, past>>

Rehydrate(c) ==
  /\ At(c, "rehydrate") /\ Works(c)
  /\ files' = [files EXCEPT ![Box(c)] = Restored]
  /\ Go(c, "again")
  /\ UNCHANGED <<pool, box, made, alive, store, mode, counts, past>>

\* The second try runs without the file that could not be listed or read.
RehydratePartly(c) ==
  /\ Fault
  /\ At(c, "rehydrate") /\ Works(c)
  /\ files' = [files EXCEPT ![Box(c)] = 0]
  /\ calm' = FALSE
  /\ Go(c, "again")
  /\ UNCHANGED <<pool, box, made, alive, store, mode, current, stray>> /\ Count

\* The executor keeps the sandbox that could not be hydrated.
RehydrateFails(c) ==
  /\ At(c, "rehydrate")
  /\ Fault \/ (~Works(c) /\ UNCHANGED faults)
  /\ Go(c, Ended(c))
  /\ UNCHANGED <<pool, cloud, store, mode, past>> /\ Count

\* The script or the probe fails half way: the directory is there, with the file
\* or without.
RehydrateBreaks(c) ==
  /\ Fault
  /\ At(c, "rehydrate") /\ Works(c)
  /\ \E v \in {0, Restored} :
       /\ files' = [files EXCEPT ![Box(c)] = v]
       /\ calm' = (calm /\ v = Restored)
  /\ Go(c, Ended(c))
  /\ UNCHANGED <<pool, box, made, alive, store, mode, current, stray>> /\ Count

-----------------------------------------------------------------------------
(* syncSnapshot and mirrorSandboxWrite.                                    *)

\* After a flush the sweeper releases, after a sync the call is over.
Synced(a) == IF a = Sweeper THEN "release" ELSE "idle"

Snapshot(a) ==
  /\ At(a, "sync") /\ Works(a)
  /\ IF files[Box(a)] \in {Raw, 0}
     THEN Go(a, Synced(a))
     ELSE Do(a, [job[a] EXCEPT !.at = "put", !.hold = files[Box(a)]])
  /\ UNCHANGED <<pool, cloud, store, mode, counts, past>>

\* Mutant: a sandbox that could not be flushed is kept.
SnapshotFailsKeeps(a) ==
  /\ At(a, "sync")
  /\ Fault \/ (~Works(a) /\ UNCHANGED faults)
  /\ calm' = (calm /\ Alike(store, current))
  /\ Go(a, "idle")
  /\ UNCHANGED <<pool, cloud, store, mode, current, stray>> /\ Count

\* What was not saved by then is lost with the sandbox.
SnapshotFails(a) ==
  /\ At(a, "sync")
  /\ Fault \/ (~Works(a) /\ UNCHANGED faults)
  /\ calm' = (calm /\ Alike(store, current))
  /\ Go(a, Synced(a))
  /\ UNCHANGED <<pool, cloud, store, mode, current, stray>> /\ Count

\* Stat: a file of the same size is in the store already.
Put(a) ==
  /\ At(a, "put")
  /\ store' = IF Alike(store, job[a].hold) THEN store ELSE job[a].hold
  /\ Go(a, Synced(a))
  /\ UNCHANGED <<pool, cloud, mode, counts, past>>

Mirror(c) ==
  /\ At(c, "mirror")
  /\ store' = job[c].hold
  /\ Go(c, "idle")
  /\ UNCHANGED <<pool, cloud, mode, counts, past>>

PutFails(a) ==
  /\ Fault
  /\ job[a].at \in {"put", "mirror"}
  /\ calm' = (calm /\ Alike(store, current))
  /\ Go(a, Synced(a))
  /\ UNCHANGED <<pool, cloud, store, mode, current, stray>> /\ Count

-----------------------------------------------------------------------------
(* evictIdle, Release and CloseAll.                                        *)

\* The scope is forgotten under the lock; the rest comes after it.
Scan ==
  /\ At(Sweeper, "idle") /\ mode = "open"
  /\ tracked /\ age > IdleTTL
  /\ tracked' = FALSE /\ age' = 0
  /\ calm' = (calm /\ \A c \in Callers : At(c, "idle"))
  /\ Go(Sweeper, "get")
  /\ UNCHANGED <<entry, cloud, store, mode, counts, current, stray>>

\* Mutant: what the map has is closed, even when it has nothing.
ReleaseNil ==
  /\ At(Sweeper, "release") /\ Unlocked
  /\ Do(Sweeper, [job[Sweeper] EXCEPT !.at = "close", !.ex = entry])
  /\ entry' = 0
  /\ UNCHANGED <<tracked, age, cloud, store, mode, counts, past>>

\* The executor leaves the map under the lock and is closed after it.
Release ==
  /\ At(Sweeper, "release") /\ Unlocked
  /\ IF entry = 0
     THEN Go(Sweeper, "idle") /\ UNCHANGED entry
     ELSE /\ Do(Sweeper, [job[Sweeper] EXCEPT !.at = "close", !.ex = entry])
          /\ entry' = 0
  /\ UNCHANGED <<tracked, age, cloud, store, mode, counts, past>>

Close ==
  /\ At(Sweeper, "close")
  /\ (Destroy(Box(Sweeper)) /\ UNCHANGED faults) \/ (Lose(Box(Sweeper)) /\ Fault)
  /\ Go(Sweeper, "idle")
  /\ UNCHANGED <<pool, box, made, store, mode, current, calm>> /\ Count

\* CloseAll, of a shutdown or of a reload of the settings, stops the sweeper,
\* waits for it, and closes what is in the map.
StopSweep ==
  /\ mode = "open" /\ mode' = "stopping"
  /\ UNCHANGED <<pool, cloud, store, job, counts, past>>

CloseAll ==
  /\ mode = "stopping" /\ At(Sweeper, "idle") /\ Unlocked
  /\ mode' = "closed"
  /\ \/ entry = 0 /\ UNCHANGED <<alive, files, stray, faults>>
     \/ entry # 0 /\ Destroy(box[entry]) /\ UNCHANGED faults
     \/ entry # 0 /\ Lose(box[entry]) /\ Fault
  /\ entry' = 0 /\ tracked' = FALSE /\ age' = 0
  /\ calm' = FALSE
  /\ UNCHANGED <<box, made, store, job, current>> /\ Count

\* The provider takes a sandbox back at the end of its time.
Expire(b) ==
  /\ b \in alive /\ expired < MaxExpired
  /\ Destroy(b) /\ expired' = expired + 1
  /\ UNCHANGED <<pool, box, made, store, job, mode, calls, writes, faults, current, calm>>

Tick ==
  /\ tracked /\ age <= IdleTTL
  /\ age' = age + 1
  /\ UNCHANGED <<tracked, entry, cloud, store, job, mode, counts, past>>

-----------------------------------------------------------------------------
Get(a) ==
  \/ Found(a) \/ Create(a) \/ CreateLost(a) \/ CreateFails(a)
  \/ Hydrate(a) \/ HydratePartly(a) \/ HydrateFails(a)
Sync(a) == Snapshot(a) \/ SnapshotFails(a) \/ Put(a) \/ PutFails(a)

CallStep(c) ==
  \/ Get(c) \/ Sync(c) \/ Mirror(c)
  \/ Use(c) \/ UseFails(c) \/ UseLost(c) \/ Gone(c) \/ Glitch(c)
  \/ Rebuild(c) \/ RebuildLost(c) \/ RebuildFails(c)
  \/ Rehydrate(c) \/ RehydratePartly(c) \/ RehydrateFails(c) \/ RehydrateBreaks(c)

Sweep == Scan \/ Get(Sweeper) \/ Sync(Sweeper) \/ Release \/ Close

Next ==
  \/ \E c \in Callers : CallStep(c) \/ \E k \in Kinds : Call(c, k)
  \/ Sweep \/ StopSweep \/ CloseAll \/ Tick
  \/ \E b \in Boxes : Expire(b)

Spec == Init /\ [][Next]_vars

\* Calls come to an end, the sweeper runs, and time passes.  A creator holds
\* the lock for a while only, and a mutex starves nobody: what waits for it is
\* fair in the strong sense.
FairSpec ==
  /\ Spec /\ WF_vars(Tick) /\ SF_vars(Sweep)
  /\ \A c \in Callers : SF_vars(CallStep(c))

-----------------------------------------------------------------------------
(* Properties.                                                             *)

\* What a call may find at the path; Raw makes it fail.
Good(v) == v = Raw \/ Alike(v, current) \/ (InProject /\ v = 0)

\* "Hydrate is called once per sandbox ... so the sandbox already contains the
\* files written in past sessions" (workspace_hydrate.go:12-15), "write_file ...
\* calls that ... disappear on idle eviction" no more (lifecycle.go:346-351): a
\* tool call works on what the calls before it left, or on what has its size,
\* through evictions, expired sandboxes and failed creations, unless a transfer
\* between sandbox and store failed or calls overlapped.  In a chat of a project
\* the file may be missing, but is never an older one.
SeesPastCalls ==
  calm => \A c \in Callers : job[c].at \in {"use", "again"} /\ Works(c) => Good(files[Box(c)])

\* The same with no regard to sizes and projects: the last version itself.
SeesLatest ==
  calm => \A c \in Callers :
    job[c].at \in {"use", "again"} /\ Works(c) => files[Box(c)] \in {Raw, current}

\* "skipping this would leak E2B instances that cost money" (lifecycle.go:249):
\* a sandbox that exists is named by the map, or in the hands of who creates or
\* closes it, or known to be lost: given up after a 502, made by a request whose
\* answer was lost, its DELETE failed, made for a call the sweep of its scope
\* overtook, or recreated while calls overlapped.
Held ==
  {box[x] : x \in {entry} \ {0}}
    \cup {Box(a) : a \in {a \in Actors : job[a].at \in {"hydrate", "close"}}}
NoneLeaks == alive \subseteq Held \cup stray

\* "Idle eviction: a background sweeper Release()s sandboxes that have been unused
\* for IdleTTL" (lifecycle.go:25-27): calls come to an end, and then no sandbox
\* stays but the lost ones, however calls, evictions and failures interleaved.
IdleReclaimed == [](mode = "open") => <>[](alive \subseteq stray)

\* CloseAll "tears down every live sandbox" (lifecycle.go:248): after it none is
\* left but the lost ones.
ClosedForGood == mode = "closed" => alive \subseteq stray
=============================================================================
