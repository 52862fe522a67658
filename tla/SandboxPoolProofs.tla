------------------------- MODULE SandboxPoolProofs -------------------------
(***************************************************************************)
(* Theorems about SandboxPool: its types, that no sandbox leaks, and that  *)
(* a call sees what the calls before it left.                              *)
(***************************************************************************)
EXTENDS SandboxPool, TLAPS

\* Executors and sandboxes are numbered up to the last one made.
Numbered ==
  /\ entry \in 0 .. made
  /\ box \in [Boxes -> 0 .. made]
  /\ \A a \in Actors : job[a].ex \in 0 .. made

\* One goroutine creates at a time, and only when the map has no executor.
Locked ==
  \A a \in Actors : At(a, "hydrate") =>
    entry = 0 /\ \A b \in Actors : At(b, "hydrate") => b = a

\* What is rebuilt is gone, or was given up.
GivenUp ==
  \A a \in Actors : At(a, "rebuild") /\ Works(a) => Box(a) \in stray

\* As long as nothing overlapped, one goroutine is busy at a time ...
Alone ==
  calm => \A a, b \in Actors : At(a, "idle") \/ At(b, "idle") \/ a = b

\* ... and works with the executor of the map.
InMap ==
  calm => \A a \in Actors : job[a].at \in {"use", "rebuild"} => job[a].ex = entry

\* NoneLeaks, sandbox by sandbox.
Named ==
  \A b \in alive :
    \/ b \in stray
    \/ entry # 0 /\ b = box[entry]
    \/ \E a \in Actors : job[a].at \in {"hydrate", "close"} /\ b = Box(a)

Typed == TypeOK /\ Numbered /\ Equipped
Names == Locked /\ GivenUp /\ Alone /\ InMap /\ Named
IInv  == Typed /\ Names

-----------------------------------------------------------------------------
(* What a step of a goroutine leaves of the others.                        *)

\* Goroutine a is now at p with executor x, the others are where they were.
Moves(a, p, x) ==
  /\ job' \in [Actors -> Jobs]
  /\ \A b \in Actors : b # a => job'[b] = job[b]
  /\ job'[a].at = p
  /\ job'[a].ex = IF p = "idle" THEN 0 ELSE x

\* Goroutine a goes on with a job.
LEMMA Done ==
  ASSUME job \in [Actors -> Jobs], NEW a \in Actors, NEW j \in Jobs, Do(a, j)
  PROVE  Moves(a, j.at, j.ex)
<1>1. Rest \in Jobs
  BY PoolAssumption DEF Rest, Jobs, Places, Kinds, Versions
<1> QED
  BY <1>1 DEF Do, Rest, Jobs, Moves

\* It goes to another place.
LEMMA Went ==
  ASSUME job \in [Actors -> Jobs], NEW a \in Actors, NEW p \in Places, Go(a, p)
  PROVE  Moves(a, p, job[a].ex)
<1>1. [job[a] EXCEPT !.at = p] \in Jobs
  BY DEF Jobs
<1>2. /\ [job[a] EXCEPT !.at = p].at = p
      /\ [job[a] EXCEPT !.at = p].ex = job[a].ex
  BY DEF Jobs
<1> QED
  BY <1>1, <1>2, Done DEF Go

\* It takes an executor with it.
LEMMA Took ==
  ASSUME job \in [Actors -> Jobs], NEW a \in Actors, NEW p \in Places, NEW x \in 0 .. MaxBoxes,
         Do(a, [job[a] EXCEPT !.at = p, !.ex = x])
  PROVE  Moves(a, p, x)
<1>1. [job[a] EXCEPT !.at = p, !.ex = x] \in Jobs
  BY DEF Jobs
<1>2. /\ [job[a] EXCEPT !.at = p, !.ex = x].at = p
      /\ [job[a] EXCEPT !.at = p, !.ex = x].ex = x
  BY DEF Jobs
<1> QED
  BY <1>1, <1>2, Done

\* It takes a version with it.
LEMMA Read ==
  ASSUME job \in [Actors -> Jobs], NEW a \in Actors, NEW p \in Places, NEW v \in Versions,
         Do(a, [job[a] EXCEPT !.at = p, !.hold = v])
  PROVE  Moves(a, p, job[a].ex)
<1>1. [job[a] EXCEPT !.at = p, !.hold = v] \in Jobs
  BY DEF Jobs
<1>2. /\ [job[a] EXCEPT !.at = p, !.hold = v].at = p
      /\ [job[a] EXCEPT !.at = p, !.hold = v].ex = job[a].ex
  BY DEF Jobs
<1> QED
  BY <1>1, <1>2, Done

\* Where the helpers send a goroutine.
LEMMA Ways ==
  ASSUME NEW a \in Actors
  PROVE  /\ Ready(a) \in {"sync", "use"} /\ Failed(a) \in {"release", "idle"}
         /\ Synced(a) \in {"release", "idle"} /\ Ended(a) \in {"sync", "idle"}
         /\ {"idle", "get", "hydrate", "use", "rebuild", "rehydrate", "again",
             "sync", "put", "mirror", "release", "close"} \subseteq Places
  BY DEF Ready, Failed, Synced, Ended, Places

-----------------------------------------------------------------------------
(* Types.                                                                  *)

\* The sandbox of a goroutine past the pool is one.
LEMMA HasBox ==
  ASSUME Typed, NEW a \in Actors, job[a].at \notin {"idle", "get", "release"}
  PROVE  job[a].ex \in Boxes /\ job[a].ex \in 1 .. made /\ Box(a) \in 0 .. made
  BY PoolAssumption DEF Typed, TypeOK, Numbered, Equipped, Box, Boxes

\* One that works is among those made.
LEMMA WorkingBox ==
  ASSUME Typed, NEW a \in Actors, job[a].at \notin {"idle", "get", "release"}, Works(a)
  PROVE  job[a].ex \in 1 .. made /\ Box(a) \in 1 .. made /\ Box(a) \in Boxes
<1>1. job[a].ex \in 1 .. made
  BY HasBox
<1>2. Box(a) \in alive /\ alive \subseteq 1 .. made /\ made \in 0 .. MaxBoxes
  BY DEF Works, Typed, TypeOK
<1>3. Box(a) \in 1 .. made
  BY <1>2
<1> QED
  BY <1>1, <1>2, <1>3, PoolAssumption DEF Boxes

\* The parts of Typed that speak of the goroutines, after one of them moved.
LEMMA JobsTyped ==
  ASSUME Typed, NEW a \in Actors, NEW p, NEW x, Moves(a, p, x),
         made' \in 0 .. MaxBoxes, made' >= made,
         x \in 0 .. made', p \notin {"idle", "get", "release"} => x # 0
  PROVE  /\ job' \in [Actors -> Jobs]
         /\ \A b \in Actors : job'[b].ex \in 0 .. made'
         /\ Equipped'
  BY PoolAssumption DEF Typed, TypeOK, Numbered, Equipped, Moves

\* Destroy and Lose keep the types of what they change.
LEMMA Closed ==
  ASSUME Typed, NEW b, Destroy(b) \/ Lose(b)
  PROVE  /\ alive' \subseteq alive
         /\ files' \in [Boxes -> Versions \cup {Raw}]
         /\ stray' \subseteq 1 .. made
         /\ b \in alive' => b \in stray'
         /\ alive' \cap stray \subseteq stray'
  BY DEF Destroy, Lose, Typed, TypeOK

\* What a hydration leaves is a version.
LEMMA RestoredTyped ==
  ASSUME TypeOK
  PROVE  Restored \in Versions /\ 0 \in Versions
  BY PoolAssumption DEF TypeOK, Restored, Versions

\* The numbers of executors and sandboxes, and those of one more that is lost.
NumbersTyped ==
  /\ made \in 0 .. MaxBoxes /\ entry \in 0 .. made /\ box \in [Boxes -> 0 .. made]
  /\ entry \in 0 .. MaxBoxes /\ box \in [Boxes -> 0 .. MaxBoxes]
  /\ alive \subseteq 1 .. made /\ stray \subseteq 1 .. made

LEMMA OneMore ==
  ASSUME Typed, made' = made + 1, made < MaxBoxes, UNCHANGED <<entry, box>>,
         alive' = alive \cup {made + 1}, stray' = stray \cup {made + 1}
  PROVE  NumbersTyped'
<1>1. /\ made \in 0 .. MaxBoxes /\ entry \in 0 .. made /\ box \in [Boxes -> 0 .. made]
      /\ entry \in 0 .. MaxBoxes /\ box \in [Boxes -> 0 .. MaxBoxes]
      /\ alive \subseteq 1 .. made /\ stray \subseteq 1 .. made
  BY DEF Typed, TypeOK, Numbered
<1>2. /\ made' \in 0 .. MaxBoxes /\ 0 .. made \subseteq 0 .. made'
      /\ 1 .. made \subseteq 1 .. made' /\ made + 1 \in 1 .. made'
  BY <1>1, PoolAssumption
<1> QED
  BY <1>1, <1>2 DEF NumbersTyped

LEMMA TypedGet ==
  ASSUME Typed, NEW a \in Actors, Get(a)
  PROVE  Typed'
<1>0. /\ job \in [Actors -> Jobs] /\ made \in 0 .. MaxBoxes
      /\ entry \in 0 .. made /\ job[a].ex \in 0 .. made
  BY DEF Typed, TypeOK, Numbered
<1>1. CASE Found(a)
  <2>1. Moves(a, Ready(a), entry)
    <3>1. Ready(a) \in Places /\ entry \in 0 .. MaxBoxes
      BY <1>0, PoolAssumption, Ways
    <3>2. Do(a, [job[a] EXCEPT !.at = Ready(a), !.ex = entry])
      BY <1>1 DEF Found
    <3> QED
      BY ONLY <1>0, <3>1, <3>2, Took
  <2>2. entry # 0 /\ UNCHANGED <<pool, cloud, store, mode, counts, past>>
    BY <1>1 DEF Found
  <2>3. job' \in [Actors -> Jobs] /\ (\A b \in Actors : job'[b].ex \in 0 .. made') /\ Equipped'
    BY <1>0, <2>1, <2>2, PoolAssumption, JobsTyped DEF cloud
  <2> QED
    BY <2>2, <2>3 DEF Typed, TypeOK, Numbered, pool, cloud, counts, past
<1>2. CASE Create(a)
  <2>1. made + 1 \in Boxes /\ made' = made + 1 /\ alive' = alive \cup {made + 1}
    BY <1>0, <1>2, PoolAssumption DEF Create, Make, Boxes
  <2>2. Moves(a, "hydrate", made + 1)
    <3>1. "hydrate" \in Places /\ made + 1 \in 0 .. MaxBoxes
      BY <1>0, <2>1, PoolAssumption, Ways DEF Boxes
    <3>2. Do(a, [job[a] EXCEPT !.at = "hydrate", !.ex = made + 1])
      BY <1>2 DEF Create
    <3> QED
      BY ONLY <1>0, <3>1, <3>2, Took
  <2>3. job' \in [Actors -> Jobs] /\ (\A b \in Actors : job'[b].ex \in 0 .. made') /\ Equipped'
    BY <1>0, <2>1, <2>2, PoolAssumption, JobsTyped DEF Boxes
  <2>4. box' \in [Boxes -> 0 .. made'] /\ stray' \subseteq 1 .. made' /\ alive' \subseteq 1 .. made'
    BY <1>0, <1>2, <2>1, PoolAssumption DEF Create, Typed, TypeOK, Numbered
  <2>5. made' \in 0 .. MaxBoxes /\ entry' \in 0 .. made' /\ box' \in [Boxes -> 0 .. MaxBoxes]
    BY <1>0, <1>2, <2>1, <2>4, PoolAssumption DEF Create, pool, Boxes
  <2> QED
    BY <1>2, <2>1, <2>3, <2>4, <2>5 DEF Create, pool, counts, Typed, TypeOK, Numbered
<1>3. CASE CreateFails(a)
  <2>1. Moves(a, Failed(a), job[a].ex)
    BY <1>0, <1>3, Ways, Went DEF CreateFails
  <2>2. job' \in [Actors -> Jobs] /\ (\A b \in Actors : job'[b].ex \in 0 .. made') /\ Equipped'
    BY <1>0, <1>3, <2>1, Ways, PoolAssumption, JobsTyped DEF CreateFails, cloud
  <2>3. faults' \in 0 .. MaxFaults
    BY <1>3, PoolAssumption DEF CreateFails, Fault, Typed, TypeOK
  <2> QED
    BY <1>3, <2>2, <2>3 DEF CreateFails, Count, pool, cloud, past, Typed, TypeOK, Numbered
<1>6. CASE CreateLost(a)
  <2>1. Moves(a, Failed(a), job[a].ex)
    BY <1>0, <1>6, Ways, Went DEF CreateLost
  <2>2. made' = made + 1 /\ alive' = alive \cup {made + 1} /\ made < MaxBoxes
    BY <1>6 DEF CreateLost, Make
  <2>3. job' \in [Actors -> Jobs] /\ (\A b \in Actors : job'[b].ex \in 0 .. made') /\ Equipped'
    BY <1>0, <2>1, <2>2, Ways, PoolAssumption, JobsTyped
  <2>4. stray' = stray \cup {made + 1} /\ UNCHANGED <<pool, box, files, store, mode, current, calm>>
    BY <1>6 DEF CreateLost
  <2>5. NumbersTyped'
    BY <2>2, <2>4, OneMore DEF pool
  <2>6. faults' \in 0 .. MaxFaults
    BY <1>6, PoolAssumption DEF CreateLost, Fault, Typed, TypeOK
  <2> QED
    BY <1>6, <2>3, <2>4, <2>5, <2>6 DEF CreateLost, NumbersTyped, Count, pool, Typed, TypeOK, Numbered
<1>4. CASE Hydrate(a) \/ HydratePartly(a)
  <2>1. Moves(a, Ready(a), job[a].ex)
    BY <1>0, <1>4, Ways, Went DEF Hydrate, HydratePartly
  <2>2. job[a].ex \in 1 .. made
    BY <1>4, HasBox DEF Hydrate, HydratePartly, At
  <2>3. job' \in [Actors -> Jobs] /\ (\A b \in Actors : job'[b].ex \in 0 .. made') /\ Equipped'
    BY <1>0, <1>4, <2>1, <2>2, PoolAssumption, JobsTyped DEF Hydrate, HydratePartly
  <2>4. files' \in [Boxes -> Versions \cup {Raw}]
    <3>1. 0 \in Versions /\ Restored \in Versions /\ files \in [Boxes -> Versions \cup {Raw}]
      BY RestoredTyped DEF Typed, TypeOK
    <3> QED
      BY <1>4, <3>1 DEF Hydrate, HydratePartly
  <2>5. faults' \in 0 .. MaxFaults /\ entry' \in 0 .. made /\ entry' \in 0 .. MaxBoxes
    BY <1>0, <1>4, <2>2, PoolAssumption DEF Hydrate, HydratePartly, Fault, Typed, TypeOK, counts
  <2> QED
    BY <1>4, <2>3, <2>4, <2>5 DEF Hydrate, HydratePartly, Count, counts, past, Typed, TypeOK, Numbered
<1>5. CASE HydrateFails(a)
  <2>1. Moves(a, Failed(a), job[a].ex)
    BY <1>0, <1>5, Ways, Went DEF HydrateFails
  <2>2. job' \in [Actors -> Jobs] /\ (\A b \in Actors : job'[b].ex \in 0 .. made') /\ Equipped'
    BY <1>0, <1>5, <2>1, Ways, PoolAssumption, JobsTyped DEF HydrateFails
  <2>3. alive' \subseteq alive /\ stray' \subseteq 1 .. made /\ files' \in [Boxes -> Versions \cup {Raw}]
    BY <1>5, Closed DEF HydrateFails
  <2>4. faults' \in 0 .. MaxFaults
    BY <1>5, PoolAssumption DEF HydrateFails, Fault, Typed, TypeOK
  <2> QED
    BY <1>5, <2>2, <2>3, <2>4 DEF HydrateFails, Count, pool, Typed, TypeOK, Numbered
<1> QED
  BY <1>1, <1>2, <1>3, <1>4, <1>5, <1>6 DEF Get

\* Goroutine a moves and takes no other executor.
LEMMA TypedMove ==
  ASSUME Typed, NEW a \in Actors, NEW p \in Places, Go(a, p), made' = made,
         p \in {"idle", "get", "release"} \/ job[a].at \notin {"idle", "get", "release"}
  PROVE  /\ job' \in [Actors -> Jobs]
         /\ \A b \in Actors : job'[b].ex \in 0 .. made'
         /\ Equipped'
<1>1. job \in [Actors -> Jobs] /\ made \in 0 .. MaxBoxes /\ job[a].ex \in 0 .. made
  BY DEF Typed, TypeOK, Numbered
<1>2. Moves(a, p, job[a].ex)
  BY <1>1, Went
<1>3. p \notin {"idle", "get", "release"} => job[a].ex # 0
  BY DEF Typed, Equipped
<1> QED
  BY <1>1, <1>2, <1>3, PoolAssumption, JobsTyped

LEMMA TypedSync ==
  ASSUME Typed, NEW a \in Actors, Sync(a) \/ Mirror(a)
  PROVE  Typed'
<1>0. job \in [Actors -> Jobs] /\ made \in 0 .. MaxBoxes /\ job[a].ex \in 0 .. made
  BY DEF Typed, TypeOK, Numbered
<1>1. CASE Snapshot(a)
  <2>1. job[a].ex \in 1 .. made /\ Box(a) \in Boxes
    BY <1>1, WorkingBox DEF Snapshot, At
  <2>2. Go(a, Synced(a)) \/ Do(a, [job[a] EXCEPT !.at = "put", !.hold = files[Box(a)]])
    BY <1>1 DEF Snapshot
  <2>3. UNCHANGED <<pool, cloud, store, mode, counts, past>>
    BY <1>1 DEF Snapshot
  <2>4. CASE Go(a, Synced(a))
    <3>1. job' \in [Actors -> Jobs] /\ (\A b \in Actors : job'[b].ex \in 0 .. made') /\ Equipped'
      BY <2>3, <2>4, Ways, TypedMove DEF cloud
    <3> QED
      BY <2>3, <3>1 DEF pool, cloud, counts, past, Typed, TypeOK, Numbered
  <2>5. CASE files[Box(a)] \notin {Raw, 0}
    <3>1. files[Box(a)] \in Versions
      BY <2>1, <2>5 DEF Typed, TypeOK
    <3>2. Do(a, [job[a] EXCEPT !.at = "put", !.hold = files[Box(a)]]) /\ "put" \in Places
      BY <1>1, <2>5, Ways DEF Snapshot
    <3>3. Moves(a, "put", job[a].ex)
      BY ONLY <1>0, <3>1, <3>2, Read
    <3>4. job' \in [Actors -> Jobs] /\ (\A b \in Actors : job'[b].ex \in 0 .. made') /\ Equipped'
      BY <1>0, <2>1, <2>3, <3>3, PoolAssumption, JobsTyped DEF cloud
    <3> QED
      BY <2>3, <3>4 DEF pool, cloud, counts, past, Typed, TypeOK, Numbered
  <2> QED
    BY <1>1, <2>4, <2>5 DEF Snapshot
<1>2. CASE SnapshotFails(a) \/ PutFails(a)
  <2>1. job' \in [Actors -> Jobs] /\ (\A b \in Actors : job'[b].ex \in 0 .. made') /\ Equipped'
    BY <1>2, Ways, TypedMove DEF SnapshotFails, PutFails, cloud
  <2>2. faults' \in 0 .. MaxFaults
    BY <1>2, PoolAssumption DEF SnapshotFails, PutFails, Fault, Typed, TypeOK
  <2>3. calm' \in BOOLEAN
    BY <1>2 DEF SnapshotFails, PutFails
  <2> QED
    BY <1>2, <2>1, <2>2, <2>3 DEF SnapshotFails, PutFails, Count, pool, cloud, Typed, TypeOK, Numbered
<1>3. CASE Put(a) \/ Mirror(a)
  <2>1. job' \in [Actors -> Jobs] /\ (\A b \in Actors : job'[b].ex \in 0 .. made') /\ Equipped'
    BY <1>3, Ways, TypedMove DEF Put, Mirror, cloud
  <2>2. store' \in Versions
    BY <1>0, <1>3 DEF Put, Mirror, Jobs, Typed, TypeOK
  <2> QED
    BY <1>3, <2>1, <2>2 DEF Put, Mirror, pool, cloud, counts, past, Typed, TypeOK, Numbered
<1> QED
  BY <1>1, <1>2, <1>3 DEF Sync

\* Requests to a sandbox.
LEMMA TypedUse ==
  ASSUME Typed, NEW c \in Callers, Use(c) \/ UseFails(c) \/ UseLost(c) \/ Gone(c) \/ Glitch(c)
  PROVE  Typed'
<1>0. c \in Actors /\ job \in [Actors -> Jobs] /\ made \in 0 .. MaxBoxes /\ job[c].ex \in 0 .. made
  BY DEF Actors, Typed, TypeOK, Numbered
<1>1. CASE Use(c)
  <2>1. job[c].ex \in 1 .. made /\ Box(c) \in Boxes
    BY <1>0, <1>1, WorkingBox DEF Use
  <2>2. UNCHANGED <<pool, box, made, alive, store, mode, calls, faults, expired, calm, stray>>
    BY <1>1 DEF Use
  <2>3. CASE Go(c, Ended(c)) /\ UNCHANGED <<files, writes, current>>
    <3>1. job' \in [Actors -> Jobs] /\ (\A b \in Actors : job'[b].ex \in 0 .. made') /\ Equipped'
      BY <1>0, <1>1, <2>2, <2>3, Ways, TypedMove DEF Use
    <3> QED
      BY <2>2, <2>3, <3>1 DEF pool, Typed, TypeOK, Numbered
  <2>4. ASSUME writes < MaxWrites, writes' = writes + 1, current' = writes + 1,
               files' = [files EXCEPT ![Box(c)] = writes + 1],
               \/ Go(c, "sync")
               \/ Do(c, [job[c] EXCEPT !.at = "mirror", !.hold = writes + 1])
        PROVE  Typed'
    <3>1. writes + 1 \in Versions
      <4>1. writes \in Versions
        BY DEF Typed, TypeOK
      <4> QED
        BY <2>4, <4>1, PoolAssumption DEF Versions
    <3>2. files' \in [Boxes -> Versions \cup {Raw}]
      BY <2>4, <3>1 DEF Typed, TypeOK
    <3>3. "mirror" \in Places /\ "sync" \in Places
      BY <1>0, Ways
    <3>4. Moves(c, "sync", job[c].ex) \/ Moves(c, "mirror", job[c].ex)
      <4>1. CASE Go(c, "sync")
        BY ONLY <1>0, <3>3, <4>1, Went
      <4>2. CASE Do(c, [job[c] EXCEPT !.at = "mirror", !.hold = writes + 1])
        BY ONLY <1>0, <3>1, <3>3, <4>2, Read
      <4> QED
        BY <2>4, <4>1, <4>2
    <3>5. job' \in [Actors -> Jobs] /\ (\A b \in Actors : job'[b].ex \in 0 .. made') /\ Equipped'
      BY <1>0, <2>1, <2>2, <3>4, PoolAssumption, JobsTyped
    <3> QED
      BY <2>2, <2>4, <3>1, <3>2, <3>5 DEF pool, Typed, TypeOK, Numbered
  <2> QED
    BY <1>1, <2>3, <2>4 DEF Use, Touch
<1>2. CASE UseFails(c) \/ Gone(c)
  <2>1. job' \in [Actors -> Jobs] /\ (\A b \in Actors : job'[b].ex \in 0 .. made') /\ Equipped'
    BY <1>0, <1>2, Ways, TypedMove DEF UseFails, Gone, cloud
  <2> QED
    BY <1>2, <2>1 DEF UseFails, Gone, pool, cloud, counts, past, Typed, TypeOK, Numbered
<1>3. CASE Glitch(c)
  <2>1. job' \in [Actors -> Jobs] /\ (\A b \in Actors : job'[b].ex \in 0 .. made') /\ Equipped'
    BY <1>0, <1>3, Ways, TypedMove DEF Glitch, At, cloud
  <2>2. faults' \in 0 .. MaxFaults
    BY <1>3, PoolAssumption DEF Glitch, Fault, Typed, TypeOK
  <2>3. stray' \subseteq 1 .. made
    <3>1. Box(c) \in 1 .. made /\ stray' = stray \cup {Box(c)}
      BY <1>0, <1>3, WorkingBox DEF Glitch, At
    <3> QED
      BY <3>1 DEF Typed, TypeOK
  <2> QED
    BY <1>3, <2>1, <2>2, <2>3 DEF Glitch, Count, pool, cloud, Typed, TypeOK, Numbered
<1>4. CASE UseLost(c)
  <2>1. job' \in [Actors -> Jobs] /\ (\A b \in Actors : job'[b].ex \in 0 .. made') /\ Equipped'
    BY <1>0, <1>4, Ways, TypedMove DEF UseLost
  <2>2. faults' \in 0 .. MaxFaults /\ calm' \in BOOLEAN
    BY <1>4, PoolAssumption DEF UseLost, Fault, Typed, TypeOK
  <2>3. writes + 1 \in Versions
    <3>1. writes \in Versions /\ writes < MaxWrites
      BY <1>4 DEF UseLost, Typed, TypeOK
    <3> QED
      BY <3>1, PoolAssumption DEF Versions
  <2>4. /\ files' = [files EXCEPT ![Box(c)] = writes + 1]
        /\ writes' = writes + 1 /\ current' = writes + 1
        /\ UNCHANGED <<pool, box, made, alive, store, mode, calls, expired, stray>>
    BY <1>4 DEF UseLost
  <2>5. files' \in [Boxes -> Versions \cup {Raw}]
    BY <2>3, <2>4 DEF Typed, TypeOK
  <2> QED
    BY <2>1, <2>2, <2>3, <2>4, <2>5 DEF pool, Typed, TypeOK, Numbered
<1> QED
  BY <1>1, <1>2, <1>3, <1>4

\* Rebuilding one.
LEMMA TypedRebuild ==
  ASSUME Typed, NEW c \in Callers,
         \/ Rebuild(c) \/ RebuildLost(c) \/ RebuildFails(c)
         \/ Rehydrate(c) \/ RehydratePartly(c) \/ RehydrateFails(c) \/ RehydrateBreaks(c)
  PROVE  Typed'
<1>0. c \in Actors /\ job \in [Actors -> Jobs] /\ made \in 0 .. MaxBoxes /\ job[c].ex \in 0 .. made
  BY DEF Actors, Typed, TypeOK, Numbered
<1>1. CASE Rebuild(c)
  <2>1. made + 1 \in Boxes /\ made' = made + 1 /\ alive' = alive \cup {made + 1}
    BY <1>0, <1>1, PoolAssumption DEF Rebuild, Make, Boxes
  <2>2. Moves(c, "rehydrate", job[c].ex) /\ job[c].ex \in 1 .. made
    BY <1>0, <1>1, Ways, Went, HasBox DEF Rebuild, At
  <2>3. job' \in [Actors -> Jobs] /\ (\A b \in Actors : job'[b].ex \in 0 .. made') /\ Equipped'
    BY <1>0, <2>1, <2>2, PoolAssumption, JobsTyped DEF Boxes
  <2>4. box' \in [Boxes -> 0 .. made'] /\ stray' \subseteq 1 .. made' /\ alive' \subseteq 1 .. made'
    <3>1. box \in [Boxes -> 0 .. made] /\ stray \subseteq 1 .. made /\ alive \subseteq 1 .. made
      BY DEF Typed, TypeOK, Numbered
    <3>2. /\ box' = [box EXCEPT ![job[c].ex] = made + 1]
          /\ stray' = IF calm THEN stray ELSE stray \cup {made + 1}
      BY <1>1 DEF Rebuild
    <3>3. /\ 0 .. made \subseteq 0 .. made' /\ 1 .. made \subseteq 1 .. made'
          /\ made + 1 \in 0 .. made' /\ made + 1 \in 1 .. made'
      BY <1>0, <2>1, PoolAssumption
    <3>4. box' \in [Boxes -> 0 .. made']
      BY ONLY <3>1, <3>2, <3>3
    <3>5. stray' \subseteq 1 .. made' /\ alive' \subseteq 1 .. made'
      BY ONLY <2>1, <3>1, <3>2, <3>3
    <3> QED
      BY <3>4, <3>5
  <2>5. made' \in 0 .. MaxBoxes /\ entry' \in 0 .. made' /\ box' \in [Boxes -> 0 .. MaxBoxes]
    BY <1>0, <1>1, <2>1, <2>4, PoolAssumption DEF Rebuild, pool, Boxes, Typed, Numbered
  <2> QED
    BY <1>1, <2>3, <2>4, <2>5 DEF Rebuild, pool, counts, Typed, TypeOK, Numbered
<1>2. CASE Rehydrate(c) \/ RehydratePartly(c) \/ RehydrateBreaks(c)
  <2>1. job' \in [Actors -> Jobs] /\ (\A b \in Actors : job'[b].ex \in 0 .. made') /\ Equipped'
    BY <1>0, <1>2, Ways, TypedMove DEF Rehydrate, RehydratePartly, RehydrateBreaks, At
  <2>2. \E v \in {0, Restored} : files' = [files EXCEPT ![Box(c)] = v]
    BY <1>2 DEF Rehydrate, RehydratePartly, RehydrateBreaks
  <2>3. files' \in [Boxes -> Versions \cup {Raw}]
    BY <2>2, RestoredTyped DEF Typed, TypeOK
  <2>4. UNCHANGED <<pool, box, made, alive, store, mode, calls, writes, expired, current, stray>>
    BY <1>2 DEF Rehydrate, RehydratePartly, RehydrateBreaks, Count, counts, past
  <2>5. faults' \in 0 .. MaxFaults
    BY <1>2, PoolAssumption DEF Rehydrate, RehydratePartly, RehydrateBreaks, Fault, counts, Typed, TypeOK
  <2>6. calm' \in BOOLEAN
    <3>1. CASE Rehydrate(c)
      BY <3>1 DEF Rehydrate, past, Typed, TypeOK
    <3>2. CASE RehydratePartly(c) \/ RehydrateBreaks(c)
      BY <3>2 DEF RehydratePartly, RehydrateBreaks
    <3> QED
      BY <1>2, <3>1, <3>2
  <2> QED
    BY <2>1, <2>3, <2>4, <2>5, <2>6 DEF pool, Typed, TypeOK, Numbered
<1>4. CASE RebuildLost(c)
  <2>1. made' = made + 1 /\ alive' = alive \cup {made + 1} /\ made < MaxBoxes
    BY <1>4 DEF RebuildLost, Make
  <2>2. Moves(c, Ended(c), job[c].ex) /\ job[c].ex \in 1 .. made
    BY <1>0, <1>4, Ways, Went, HasBox DEF RebuildLost, At
  <2>3. job' \in [Actors -> Jobs] /\ (\A b \in Actors : job'[b].ex \in 0 .. made') /\ Equipped'
    BY <1>0, <2>1, <2>2, PoolAssumption, JobsTyped
  <2>4. stray' = stray \cup {made + 1} /\ UNCHANGED <<pool, box, files, store, mode, current, calm>>
    BY <1>4 DEF RebuildLost
  <2>5. NumbersTyped'
    BY <2>1, <2>4, OneMore DEF pool
  <2>6. faults' \in 0 .. MaxFaults
    BY <1>4, PoolAssumption DEF RebuildLost, Fault, Typed, TypeOK
  <2> QED
    BY <1>4, <2>3, <2>4, <2>5, <2>6 DEF RebuildLost, NumbersTyped, Count, pool, Typed, TypeOK, Numbered
<1>3. CASE RebuildFails(c) \/ RehydrateFails(c)
  <2>1. job' \in [Actors -> Jobs] /\ (\A b \in Actors : job'[b].ex \in 0 .. made') /\ Equipped'
    BY <1>0, <1>3, Ways, TypedMove DEF RebuildFails, RehydrateFails, At, cloud
  <2>2. faults' \in 0 .. MaxFaults
    BY <1>3, PoolAssumption DEF RebuildFails, RehydrateFails, Fault, Typed, TypeOK
  <2> QED
    BY <1>3, <2>1, <2>2
    DEF RebuildFails, RehydrateFails, Count, pool, cloud, past, Typed, TypeOK, Numbered
<1> QED
  BY <1>1, <1>2, <1>3, <1>4

LEMMA TypedCall ==
  ASSUME Typed, NEW c \in Callers, NEW k \in Kinds, Call(c, k)
  PROVE  Typed'
<1>0. c \in Actors /\ job \in [Actors -> Jobs] /\ made \in 0 .. MaxBoxes /\ job[c].ex \in 0 .. made
  BY DEF Actors, Typed, TypeOK, Numbered
<1>1. [Rest EXCEPT !.at = "get", !.kind = k] \in Jobs
  <2>1. Rest \in Jobs
    BY PoolAssumption DEF Rest, Jobs, Places, Kinds, Versions
  <2>2. "get" \in Places
    BY DEF Places
  <2> QED
    BY <2>1, <2>2 DEF Jobs
<1>2. /\ [Rest EXCEPT !.at = "get", !.kind = k].at = "get"
      /\ [Rest EXCEPT !.at = "get", !.kind = k].ex = 0
  BY DEF Rest
<1>3. Do(c, [Rest EXCEPT !.at = "get", !.kind = k])
  BY DEF Call
<1>4. Moves(c, "get", 0)
  BY <1>0, <1>1, <1>2, <1>3, Done
<1>5. job' \in [Actors -> Jobs] /\ (\A b \in Actors : job'[b].ex \in 0 .. made') /\ Equipped'
  BY <1>0, <1>4, PoolAssumption, JobsTyped DEF Call, cloud
<1>6. age' \in 0 .. IdleTTL + 1 /\ calls' \in 0 .. MaxCalls /\ calm' \in BOOLEAN
  BY PoolAssumption DEF Call, Typed, TypeOK
<1> QED
  BY <1>5, <1>6 DEF Call, cloud, Typed, TypeOK, Numbered

\* The sweeper.
LEMMA TypedSweep ==
  ASSUME Typed, Scan \/ Release \/ Close
  PROVE  Typed'
<1>0. /\ Sweeper \in Actors /\ job \in [Actors -> Jobs] /\ made \in 0 .. MaxBoxes
      /\ entry \in 0 .. made
  BY DEF Actors, Typed, TypeOK, Numbered
<1>1. CASE Scan
  <2>1. job' \in [Actors -> Jobs] /\ (\A b \in Actors : job'[b].ex \in 0 .. made') /\ Equipped'
    BY <1>0, <1>1, Ways, TypedMove DEF Scan, cloud
  <2>2. age' \in 0 .. IdleTTL + 1 /\ calm' \in BOOLEAN
    BY <1>1, PoolAssumption DEF Scan, Typed, TypeOK
  <2> QED
    BY <1>1, <2>1, <2>2 DEF Scan, cloud, counts, Typed, TypeOK, Numbered
<1>2. CASE Release /\ entry = 0
  <2>1. job' \in [Actors -> Jobs] /\ (\A b \in Actors : job'[b].ex \in 0 .. made') /\ Equipped'
    BY <1>0, <1>2, Ways, TypedMove DEF Release, cloud
  <2> QED
    BY <1>2, <2>1 DEF Release, cloud, counts, past, Typed, TypeOK, Numbered
<1>3. CASE Release /\ entry # 0
  <2>1. "close" \in Places /\ entry \in 0 .. MaxBoxes
    BY <1>0, PoolAssumption, Ways
  <2>2. Do(Sweeper, [job[Sweeper] EXCEPT !.at = "close", !.ex = entry])
    BY <1>3 DEF Release
  <2>3. Moves(Sweeper, "close", entry)
    BY ONLY <1>0, <2>1, <2>2, Took
  <2>4. job' \in [Actors -> Jobs] /\ (\A b \in Actors : job'[b].ex \in 0 .. made') /\ Equipped'
    BY <1>0, <1>3, <2>3, PoolAssumption, JobsTyped DEF Release, cloud
  <2>5. entry' \in 0 .. made /\ entry' \in 0 .. MaxBoxes
    BY <1>0, <1>3, PoolAssumption DEF Release
  <2> QED
    BY <1>3, <2>4, <2>5 DEF Release, cloud, counts, past, Typed, TypeOK, Numbered
<1>4. CASE Close
  <2>1. job' \in [Actors -> Jobs] /\ (\A b \in Actors : job'[b].ex \in 0 .. made') /\ Equipped'
    BY <1>0, <1>4, Ways, TypedMove DEF Close
  <2>2. alive' \subseteq alive /\ stray' \subseteq 1 .. made /\ files' \in [Boxes -> Versions \cup {Raw}]
    BY <1>4, Closed DEF Close
  <2>3. faults' \in 0 .. MaxFaults
    BY <1>4, PoolAssumption DEF Close, Fault, Typed, TypeOK
  <2> QED
    BY <1>4, <2>1, <2>2, <2>3 DEF Close, Count, pool, Typed, TypeOK, Numbered
<1> QED
  BY <1>1, <1>2, <1>3, <1>4

\* Shutdown, the provider and time.
LEMMA TypedRest ==
  ASSUME Typed, StopSweep \/ CloseAll \/ Tick \/ (\E b \in Boxes : Expire(b))
  PROVE  Typed'
<1>1. CASE StopSweep
  BY <1>1 DEF StopSweep, pool, cloud, counts, past, Typed, TypeOK, Numbered, Equipped
<1>2. CASE CloseAll
  <2>1. alive' \subseteq alive /\ stray' \subseteq 1 .. made /\ files' \in [Boxes -> Versions \cup {Raw}]
    BY <1>2, Closed DEF CloseAll, Typed, TypeOK
  <2>2. faults' \in 0 .. MaxFaults /\ entry' \in 0 .. made /\ entry' \in 0 .. MaxBoxes /\ age' \in 0 .. IdleTTL + 1
    BY <1>2, PoolAssumption DEF CloseAll, Fault, Typed, TypeOK
  <2> QED
    BY <1>2, <2>1, <2>2 DEF CloseAll, Count, Typed, TypeOK, Numbered, Equipped
<1>3. CASE Tick
  <2>1. age' \in 0 .. IdleTTL + 1
    BY <1>3, PoolAssumption DEF Tick, Typed, TypeOK
  <2> QED
    BY <1>3, <2>1 DEF Tick, cloud, counts, past, Typed, TypeOK, Numbered, Equipped
<1>4. ASSUME NEW b \in Boxes, Expire(b) PROVE Typed'
  <2>1. alive' \subseteq alive /\ stray' \subseteq 1 .. made /\ files' \in [Boxes -> Versions \cup {Raw}]
    BY <1>4, Closed DEF Expire
  <2>2. expired' \in 0 .. MaxExpired
    BY <1>4, PoolAssumption DEF Expire, Typed, TypeOK
  <2> QED
    BY <1>4, <2>1, <2>2 DEF Expire, pool, Typed, TypeOK, Numbered, Equipped
<1> QED
  BY <1>1, <1>2, <1>3, <1>4

LEMMA TypedNext ==
  ASSUME Typed, [Next]_vars
  PROVE  Typed'
<1>1. CASE \E c \in Callers : CallStep(c)
  <2> PICK c \in Callers : CallStep(c)
    BY <1>1
  <2> c \in Actors
    BY DEF Actors
  <2> QED
    BY TypedGet, TypedSync, TypedUse, TypedRebuild DEF CallStep
<1>2. CASE \E c \in Callers, k \in Kinds : Call(c, k)
  BY <1>2, TypedCall
<1>3. CASE Sweep
  <2> Sweeper \in Actors
    BY DEF Actors
  <2> QED
    BY <1>3, TypedGet, TypedSync, TypedSweep DEF Sweep
<1>4. CASE StopSweep \/ CloseAll \/ Tick \/ \E b \in Boxes : Expire(b)
  BY <1>4, TypedRest
<1>5. CASE UNCHANGED vars
  BY <1>5 DEF vars, pool, cloud, counts, past, Typed, TypeOK, Numbered, Equipped
<1> QED
  BY <1>1, <1>2, <1>3, <1>4, <1>5 DEF Next

LEMMA TypedInit ==
  ASSUME Init
  PROVE  Typed
<1>1. Rest \in Jobs /\ Rest.ex = 0 /\ Rest.at = "idle"
  BY PoolAssumption DEF Rest, Jobs, Places, Kinds, Versions
<1>2. job \in [Actors -> Jobs] /\ \A a \in Actors : job[a] = Rest
  BY <1>1 DEF Init
<1>3. 0 \in Versions /\ 0 \in 0 .. MaxCalls /\ 0 \in 0 .. MaxFaults /\ 0 \in 0 .. MaxExpired
      /\ 0 \in 0 .. MaxBoxes /\ 0 \in 0 .. IdleTTL + 1
  BY PoolAssumption DEF Versions
<1>4. TypeOK
  BY <1>1, <1>2, <1>3 DEF Init, TypeOK, Equipped, Rest
<1> QED
  BY <1>1, <1>2, <1>3, <1>4 DEF Init, Typed, Numbered, Equipped

\* Every execution keeps the types: a goroutine past the pool has an executor of
\* the map's numbering, whatever failed, expired or was swept before
\* (e2b_executor.go:58-147, lifecycle.go:129-330).
THEOREM TypeCorrect == Spec => []TypeOK
<1>1. Init => Typed
  BY TypedInit
<1>2. Typed /\ [Next]_vars => Typed'
  BY TypedNext
<1>3. Typed => TypeOK
  BY DEF Typed
<1> QED
  BY <1>1, <1>2, <1>3, PTL DEF Spec

-----------------------------------------------------------------------------
(* No sandbox leaks.                                                       *)

\* A step of goroutine a that neither closes nor renames a sandbox, and makes none
\* but one that is lost.
LEMMA Quiet ==
  ASSUME IInv, NEW a \in Actors, NEW p, NEW x, Moves(a, p, x),
         UNCHANGED <<entry, box>>, alive' \subseteq alive \cup stray',
         stray \subseteq stray', calm' => calm,
         job[a].at \notin {"hydrate", "close"}, p \notin {"hydrate", "close"},
         p = "rebuild" => box[x] \notin alive \/ box[x] \in stray',
         calm' /\ p \in {"use", "rebuild"} => x = entry,
         calm' /\ p # "idle" => ~At(a, "idle") \/ \A b \in Actors : b # a => At(b, "idle")
  PROVE  Names'
<1> USE DEF IInv, Names, Moves, At
<1>1. Locked'
  BY DEF Locked
<1>2. GivenUp'
  BY DEF GivenUp, Works, Box
<1>3. Alone'
  BY DEF Alone
<1>4. InMap'
  BY DEF InMap
<1>5. Named'
  BY DEF Named, Box
<1> QED
  BY <1>1, <1>2, <1>3, <1>4, <1>5

\* Nobody moves, and sandboxes only go or are given up.
LEMMA Still ==
  ASSUME IInv, UNCHANGED <<box, job>>, alive' \subseteq alive, alive' \cap stray \subseteq stray',
         \/ UNCHANGED <<entry, calm>>
         \/ /\ Unlocked /\ entry' = 0 /\ ~calm'
            /\ entry # 0 /\ box[entry] \in alive' => box[entry] \in stray'
  PROVE  Names'
<1> USE DEF IInv, Names, At
<1>1. Locked'
  BY DEF Locked, Unlocked
<1>2. GivenUp'
  BY DEF GivenUp, Works, Box
<1>3. Alone' /\ InMap'
  BY DEF Alone, InMap
<1>4. Named'
  BY DEF Named, Box
<1> QED
  BY <1>1, <1>2, <1>3, <1>4

\* From the map, or made, hydrated and put there.
LEMMA NamesGet ==
  ASSUME IInv, NEW a \in Actors, Get(a)
  PROVE  Names'
<1>0. /\ job \in [Actors -> Jobs] /\ made \in Nat /\ entry \in 0 .. made
      /\ alive \subseteq 1 .. made /\ box \in [Boxes -> 0 .. made] /\ made + 1 # made
  BY PoolAssumption DEF IInv, Typed, TypeOK, Numbered
<1>1. CASE Found(a)
  <2>1. Moves(a, Ready(a), entry)
    <3>1. Ready(a) \in Places /\ entry \in 0 .. MaxBoxes
      BY PoolAssumption, Ways DEF IInv, Typed, TypeOK
    <3>2. Do(a, [job[a] EXCEPT !.at = Ready(a), !.ex = entry])
      BY <1>1 DEF Found
    <3> QED
      BY ONLY <1>0, <3>1, <3>2, Took
  <2> QED
    BY <1>1, <2>1, Ways, Quiet DEF Found, At, pool, cloud, past
<1>2. CASE Create(a)
  <2>1. made + 1 \in Boxes /\ made' = made + 1 /\ alive' = alive \cup {made + 1}
    BY <1>0, <1>2, PoolAssumption, SMTT(30) DEF Create, Make, Boxes, IInv, Typed, TypeOK
  <2>2. Moves(a, "hydrate", made + 1)
    <3>1. "hydrate" \in Places /\ made + 1 \in 0 .. MaxBoxes
      BY <1>0, <2>1, PoolAssumption, Ways DEF Boxes
    <3>2. Do(a, [job[a] EXCEPT !.at = "hydrate", !.ex = made + 1])
      BY <1>2 DEF Create
    <3> QED
      BY ONLY <1>0, <3>1, <3>2, Took
  <2>3. \A b \in Actors : b # a /\ ~At(b, "idle") /\ ~At(b, "get") /\ ~At(b, "release") =>
          Box(b)' = Box(b) /\ Box(b) # made + 1
    BY <1>0, <1>2, <2>1, <2>2, HasBox DEF Create, Box, Moves, At, IInv
  <2>4. box'[made + 1] = made + 1 /\ Box(a)' = made + 1 /\ entry = 0 /\ entry' = 0
    BY <1>0, <1>2, <2>1, <2>2 DEF Create, Box, Moves, pool
  <2>5. At(a, "get") /\ Unlocked /\ stray \subseteq stray' /\ calm' = calm
    BY <1>2 DEF Create
  <2>6. Locked' /\ Alone' /\ InMap'
    BY <2>2, <2>4, <2>5 DEF IInv, Names, Locked, Alone, InMap, Moves, At, Unlocked
  <2>7. GivenUp'
    BY <2>1, <2>2, <2>3, <2>5 DEF IInv, Names, GivenUp, Moves, At, Works
  <2>8. Named'
    BY <2>1, <2>2, <2>3, <2>4, <2>5 DEF IInv, Names, Named, Moves, At
  <2> QED
    BY <2>6, <2>7, <2>8 DEF Names
<1>3. CASE CreateFails(a)
  <2>1. Moves(a, Failed(a), job[a].ex)
    BY <1>0, <1>3, Ways, Went DEF CreateFails
  <2> QED
    BY <1>3, <2>1, Ways, Quiet DEF CreateFails, At, pool, cloud, past
<1>6. CASE CreateLost(a)
  <2>1. Moves(a, Failed(a), job[a].ex)
    BY <1>0, <1>6, Ways, Went DEF CreateLost
  <2> QED
    BY <1>6, <2>1, Ways, Quiet DEF CreateLost, Make, At, pool
<1>4. CASE Hydrate(a) \/ HydratePartly(a)
  <2>1. Moves(a, Ready(a), job[a].ex)
    BY <1>0, <1>4, Ways, Went DEF Hydrate, HydratePartly
  <2>2. At(a, "hydrate") /\ entry' = job[a].ex /\ UNCHANGED <<box, alive, stray>> /\ (calm' => calm)
    BY <1>4 DEF Hydrate, HydratePartly, past
  <2>3. entry = 0 /\ entry' # 0 /\ \A b \in Actors : At(b, "hydrate") => b = a
    BY <1>0, <2>2, HasBox DEF IInv, Names, Locked, At
  <2>4. Ready(a) \in {"sync", "use"}
    BY Ways
  <2>5. Locked' /\ Alone' /\ InMap'
    BY <2>1, <2>2, <2>3, <2>4 DEF IInv, Names, Locked, Alone, InMap, Moves, At
  <2>6. GivenUp'
    BY <2>1, <2>2, <2>4 DEF IInv, Names, GivenUp, Moves, At, Works, Box
  <2>7. Named'
    BY <2>1, <2>2, <2>3, <2>4 DEF IInv, Names, Named, Moves, At, Box
  <2> QED
    BY <2>5, <2>6, <2>7 DEF Names
<1>5. CASE HydrateFails(a)
  <2>1. Moves(a, Failed(a), job[a].ex)
    BY <1>0, <1>5, Ways, Went DEF HydrateFails
  <2>2. At(a, "hydrate") /\ UNCHANGED <<entry, box>> /\ calm' = calm
    BY <1>5 DEF HydrateFails, pool
  <2>3. alive' \subseteq alive /\ (Box(a) \in alive' => Box(a) \in stray') /\ alive' \cap stray \subseteq stray'
    BY <1>5, Closed DEF HydrateFails, IInv
  <2>4. Failed(a) \in {"release", "idle"}
    BY Ways
  <2>5. Locked' /\ Alone' /\ InMap'
    BY <2>1, <2>2, <2>4 DEF IInv, Names, Locked, Alone, InMap, Moves, At
  <2>6. GivenUp'
    BY <2>1, <2>2, <2>3, <2>4 DEF IInv, Names, GivenUp, Moves, At, Works, Box
  <2>7. Named'
    BY <2>1, <2>2, <2>3, <2>4 DEF IInv, Names, Named, Moves, At, Box
  <2> QED
    BY <2>5, <2>6, <2>7 DEF Names
<1> QED
  BY <1>1, <1>2, <1>3, <1>4, <1>5, <1>6 DEF Get

LEMMA NamesSync ==
  ASSUME IInv, NEW a \in Actors, Sync(a) \/ Mirror(a)
  PROVE  Names'
<1>0. job \in [Actors -> Jobs]
  BY DEF IInv, Typed, TypeOK
<1>1. /\ UNCHANGED <<entry, box, made, alive, stray>> /\ (calm' => calm)
      /\ job[a].at \in {"sync", "put", "mirror"}
  <2>1. CASE Snapshot(a)
    BY <2>1 DEF Snapshot, At, pool, cloud, past
  <2>2. CASE SnapshotFails(a) \/ PutFails(a)
    <3>1. UNCHANGED <<entry, box, made, alive, stray>> /\ job[a].at \in {"sync", "put", "mirror"}
      BY <2>2 DEF SnapshotFails, PutFails, At, pool, cloud
    <3>2. calm' => calm
      BY <2>2 DEF SnapshotFails, PutFails
    <3> QED
      BY <3>1, <3>2
  <2>3. CASE Put(a) \/ Mirror(a)
    BY <2>3 DEF Put, Mirror, At, pool, cloud, past
  <2> QED
    BY <2>1, <2>2, <2>3 DEF Sync
<1>2. (\E p \in {"idle", "release"} : Go(a, p)) \/ Snapshot(a)
  BY Ways DEF Sync, Mirror, SnapshotFails, Put, PutFails
<1>3. CASE \E p \in {"idle", "release"} : Go(a, p)
  <2> PICK p \in {"idle", "release"} : Go(a, p)
    BY <1>3
  <2>1. Moves(a, p, job[a].ex)
    BY <1>0, Ways, Went
  <2> QED
    BY <1>1, <2>1, Quiet DEF At
<1>4. CASE Snapshot(a) /\ ~\E p \in {"idle", "release"} : Go(a, p)
  <2>1. Do(a, [job[a] EXCEPT !.at = "put", !.hold = files[Box(a)]]) /\ files[Box(a)] # Raw /\ Box(a) \in Boxes
    BY <1>4, Ways, WorkingBox DEF Snapshot, At, IInv
  <2>2. files[Box(a)] \in Versions /\ "put" \in Places
    BY <2>1, Ways DEF IInv, Typed, TypeOK
  <2>3. Moves(a, "put", job[a].ex)
    BY ONLY <1>0, <2>1, <2>2, Read
  <2> QED
    BY <1>1, <2>3, Quiet DEF At
<1> QED
  BY <1>2, <1>3, <1>4

LEMMA NamesUse ==
  ASSUME IInv, NEW c \in Callers,
         \/ Use(c) \/ UseFails(c) \/ UseLost(c) \/ Gone(c) \/ Glitch(c)
         \/ RebuildLost(c) \/ RebuildFails(c)
         \/ Rehydrate(c) \/ RehydratePartly(c) \/ RehydrateFails(c) \/ RehydrateBreaks(c)
  PROVE  Names'
<1>0. c \in Actors /\ job \in [Actors -> Jobs]
  BY DEF Actors, IInv, Typed, TypeOK
<1>1. /\ UNCHANGED <<entry, box>> /\ alive' \subseteq alive \cup stray'
      /\ stray \subseteq stray' /\ (calm' => calm)
      /\ job[c].at \in {"use", "again", "rebuild", "rehydrate"}
  <2>1. CASE Use(c) \/ UseFails(c) \/ UseLost(c) \/ Gone(c) \/ Glitch(c)
    <3>1. CASE Use(c) \/ UseFails(c) \/ Gone(c)
      BY <3>1 DEF Use, UseFails, Gone, At, pool, cloud, past
    <3>2. CASE UseLost(c)
      BY <3>2 DEF UseLost, pool
    <3>3. CASE Glitch(c)
      BY <3>3 DEF Glitch, At, pool, cloud
    <3> QED
      BY <2>1, <3>1, <3>2, <3>3
  <2>2. CASE RebuildLost(c) \/ RebuildFails(c)
    BY <2>2 DEF RebuildLost, RebuildFails, Make, At, pool, cloud, past
  <2>3. CASE Rehydrate(c) \/ RehydratePartly(c) \/ RehydrateFails(c) \/ RehydrateBreaks(c)
    <3>1. CASE Rehydrate(c) \/ RehydrateFails(c)
      BY <3>1 DEF Rehydrate, RehydrateFails, At, pool, cloud, past
    <3>2. CASE RehydratePartly(c)
      BY <3>2 DEF RehydratePartly, At, pool
    <3>3. CASE RehydrateBreaks(c)
      BY <3>3 DEF RehydrateBreaks, At, pool
    <3> QED
      BY <2>3, <3>1, <3>2, <3>3
  <2> QED
    BY <2>1, <2>2, <2>3
<1>2. CASE \E p \in {"idle", "sync", "again"} : Go(c, p)
  <2> PICK p \in {"idle", "sync", "again"} : Go(c, p)
    BY <1>2
  <2>1. Moves(c, p, job[c].ex)
    BY <1>0, Ways, Went
  <2> QED
    BY <1>0, <1>1, <2>1, Quiet DEF At
<1>3. CASE Go(c, "rebuild") /\ At(c, "use") /\ (Gone(c) \/ Glitch(c))
  <2>1. Moves(c, "rebuild", job[c].ex)
    BY <1>0, <1>3, Ways, Went
  <2>2. Box(c) \notin alive \/ Box(c) \in stray'
    BY <1>3 DEF Gone, Glitch, Works
  <2>3. calm' => job[c].ex = entry
    BY <1>0, <1>1, <1>3 DEF IInv, Names, InMap, At
  <2> QED
    BY <1>0, <1>1, <2>1, <2>2, <2>3, Quiet DEF At, Box
<1>4. CASE writes < MaxWrites /\ Do(c, [job[c] EXCEPT !.at = "mirror", !.hold = writes + 1])
  <2>1. writes + 1 \in Versions
    <3>1. writes \in Versions
      BY DEF IInv, Typed, TypeOK
    <3> QED
      BY <1>4, <3>1, PoolAssumption DEF Versions
  <2>2. "mirror" \in Places
    BY <1>0, Ways
  <2>3. Moves(c, "mirror", job[c].ex)
    BY ONLY <1>0, <1>4, <2>1, <2>2, Read
  <2> QED
    BY <1>0, <1>1, <2>3, Quiet DEF At
<1>5. \/ \E p \in {"idle", "sync", "again"} : Go(c, p)
      \/ Go(c, "rebuild") /\ At(c, "use") /\ (Gone(c) \/ Glitch(c))
      \/ writes < MaxWrites /\ Do(c, [job[c] EXCEPT !.at = "mirror", !.hold = writes + 1])
  <2>1. Ended(c) \in {"sync", "idle"}
    BY <1>0, Ways
  <2>2. CASE Use(c)
    BY <2>1, <2>2 DEF Use, Touch
  <2>3. CASE UseFails(c) \/ UseLost(c) \/ RebuildLost(c) \/ RebuildFails(c)
    BY <2>1, <2>3 DEF UseFails, UseLost, RebuildLost, RebuildFails
  <2>4. CASE Rehydrate(c) \/ RehydratePartly(c) \/ RehydrateFails(c) \/ RehydrateBreaks(c)
    BY <2>1, <2>4 DEF Rehydrate, RehydratePartly, RehydrateFails, RehydrateBreaks
  <2>5. CASE Gone(c) \/ Glitch(c)
    BY <2>1, <2>5 DEF Gone, Glitch
  <2> QED
    BY <2>2, <2>3, <2>4, <2>5
<1> QED
  BY <1>2, <1>3, <1>4, <1>5

\* recreate: the old sandbox is gone or given up; the new one is that of the map,
\* or lost when calls overlapped.
LEMMA NamesRebuild ==
  ASSUME IInv, NEW c \in Callers, Rebuild(c)
  PROVE  Names'
<1>0. /\ c \in Actors /\ job \in [Actors -> Jobs] /\ made \in Nat /\ entry \in 0 .. made
      /\ alive \subseteq 1 .. made /\ stray \subseteq 1 .. made /\ box \in [Boxes -> 0 .. made]
      /\ entry # 0 => entry \in Boxes
  BY PoolAssumption DEF Actors, IInv, Typed, TypeOK, Numbered, Boxes
<1>1. /\ alive' = alive \cup {made + 1} /\ UNCHANGED <<entry, calm>>
      /\ box' = [box EXCEPT ![job[c].ex] = made + 1]
      /\ stray' = IF calm THEN stray ELSE stray \cup {made + 1}
      /\ At(c, "rebuild")
  BY DEF Rebuild, Make, pool
<1>2. Moves(c, "rehydrate", job[c].ex)
  BY <1>0, Ways, Went DEF Rebuild
<1>3. job[c].ex \in Boxes /\ job[c].ex # 0
  BY <1>0, <1>1, HasBox DEF At, IInv, Boxes
<1>4. Box(c) \in alive => Box(c) \in stray
  BY <1>0, <1>1 DEF IInv, Names, GivenUp, Works
<1>5. \A a \in Actors : job[a].at \notin {"idle", "get", "release"} =>
        job[a].ex \in Boxes /\ Box(a) # made + 1
  BY <1>0, HasBox DEF IInv
<1>6. \A a \in Actors : a # c /\ job[a].at \notin {"idle", "get", "release"} =>
        Box(a)' = IF job[a].ex = job[c].ex THEN made + 1 ELSE Box(a)
  BY <1>0, <1>1, <1>2, <1>5 DEF Box, Moves
<1>7. Locked' /\ Alone' /\ InMap'
  BY <1>1, <1>2 DEF IInv, Names, Locked, Alone, InMap, Moves, At
<1>8. GivenUp'
  <2> SUFFICES ASSUME NEW a \in Actors, At(a, "rebuild")', Works(a)'
               PROVE  Box(a)' \in stray'
    BY DEF GivenUp
  <2>1. a # c /\ job'[a] = job[a] /\ At(a, "rebuild")
    BY <1>2 DEF Moves, At
  <2>2. ~calm
    BY <1>0, <1>1, <2>1 DEF IInv, Names, Alone, At
  <2>3. CASE job[a].ex = job[c].ex
    BY <1>1, <1>6, <2>1, <2>2, <2>3 DEF At
  <2>4. CASE job[a].ex # job[c].ex
    BY <1>1, <1>5, <1>6, <2>1, <2>2, <2>4 DEF IInv, Names, GivenUp, Works, At
  <2> QED
    BY <2>3, <2>4
<1>9. Named'
  <2> SUFFICES ASSUME NEW b \in alive', b \notin stray'
               PROVE  \/ entry' # 0 /\ b = box'[entry']
                      \/ \E a \in Actors : job'[a].at \in {"hydrate", "close"} /\ b = Box(a)'
    BY DEF Named
  <2>1. CASE b = made + 1
    <3>1. calm
      BY <1>1, <2>1
    <3>2. job[c].ex = entry
      BY <1>0, <1>1, <3>1 DEF IInv, Names, InMap, At
    <3> QED
      BY <1>0, <1>1, <1>3, <2>1, <3>2
  <2>2. CASE b \in alive
    <3>1. b \notin stray /\ b # Box(c)
      BY <1>1, <1>4, <2>2
    <3>2. CASE entry # 0 /\ b = box[entry]
      BY <1>0, <1>1, <3>1, <3>2 DEF Box
    <3>3. ASSUME NEW a \in Actors, job[a].at \in {"hydrate", "close"}, b = Box(a)
          PROVE  a # c /\ job'[a].at \in {"hydrate", "close"} /\ b = Box(a)'
      BY <1>1, <1>2, <1>6, <3>1, <3>3 DEF At, Moves, Box
    <3> QED
      BY <2>2, <3>1, <3>2, <3>3 DEF IInv, Names, Named
  <2> QED
    BY <1>1, <2>1, <2>2
<1> QED
  BY <1>7, <1>8, <1>9 DEF Names

LEMMA NamesCall ==
  ASSUME IInv, NEW c \in Callers, NEW k \in Kinds, Call(c, k)
  PROVE  Names'
<1>0. c \in Actors /\ job \in [Actors -> Jobs]
  BY DEF Actors, IInv, Typed, TypeOK
<1>1. Moves(c, "get", 0)
  <2>1. Rest \in Jobs /\ "get" \in Places
    BY PoolAssumption DEF Rest, Jobs, Places, Kinds, Versions
  <2>2. [Rest EXCEPT !.at = "get", !.kind = k] \in Jobs
    BY <2>1 DEF Jobs
  <2>3. /\ [Rest EXCEPT !.at = "get", !.kind = k].at = "get"
        /\ [Rest EXCEPT !.at = "get", !.kind = k].ex = 0
    BY DEF Rest
  <2> QED
    BY <1>0, <2>2, <2>3, Done DEF Call
<1>2. /\ UNCHANGED <<entry, box, made, alive, stray>> /\ At(c, "idle")
      /\ calm' = (calm /\ \A a \in Actors : At(a, "idle"))
  BY DEF Call, cloud
<1> QED
  BY <1>0, <1>1, <1>2, Quiet DEF At

LEMMA NamesSweep ==
  ASSUME IInv, Scan \/ Release \/ Close
  PROVE  Names'
<1>0. /\ Sweeper \in Actors /\ job \in [Actors -> Jobs] /\ entry \in 0 .. MaxBoxes
      /\ Actors = Callers \cup {Sweeper}
  BY DEF Actors, IInv, Typed, TypeOK
<1>1. CASE Scan
  <2>1. Moves(Sweeper, "get", job[Sweeper].ex)
    BY <1>0, <1>1, Ways, Went DEF Scan
  <2>2. /\ UNCHANGED <<entry, box, made, alive, stray>> /\ At(Sweeper, "idle")
        /\ calm' = (calm /\ \A c \in Callers : At(c, "idle"))
    BY <1>1 DEF Scan, cloud
  <2>3. calm' => calm /\ \A b \in Actors : b # Sweeper => At(b, "idle")
    BY <1>0, <2>2
  <2> QED
    BY <1>0, <2>1, <2>2, <2>3, Quiet DEF At
<1>2. CASE Release /\ entry = 0
  <2>1. Moves(Sweeper, "idle", job[Sweeper].ex)
    BY <1>0, <1>2, Ways, Went DEF Release
  <2> QED
    BY <1>0, <1>2, <2>1, Quiet DEF Release, At, cloud, past
<1>3. CASE Release /\ entry # 0
  <2>1. Moves(Sweeper, "close", entry)
    <3>1. "close" \in Places
      BY <1>0, Ways
    <3>2. Do(Sweeper, [job[Sweeper] EXCEPT !.at = "close", !.ex = entry])
      BY <1>3 DEF Release
    <3> QED
      BY ONLY <1>0, <3>1, <3>2, Took
  <2>2. UNCHANGED <<box, alive, stray, calm>> /\ entry' = 0 /\ Unlocked /\ At(Sweeper, "release")
    BY <1>3 DEF Release, cloud, past
  <2>3. Locked' /\ Alone' /\ InMap'
    BY <1>0, <2>1, <2>2 DEF IInv, Names, Locked, Alone, InMap, Moves, At, Unlocked
  <2>4. GivenUp'
    BY <1>0, <2>1, <2>2 DEF IInv, Names, GivenUp, Moves, At, Works, Box
  <2>5. Named'
    BY <1>0, <1>3, <2>1, <2>2 DEF IInv, Names, Named, Moves, At, Box
  <2> QED
    BY <2>3, <2>4, <2>5 DEF Names
<1>4. CASE Close
  <2>1. Moves(Sweeper, "idle", job[Sweeper].ex)
    BY <1>0, <1>4, Ways, Went DEF Close
  <2>2. At(Sweeper, "close") /\ UNCHANGED <<entry, box>> /\ calm' = calm
    BY <1>4 DEF Close, pool
  <2>3. /\ alive' \subseteq alive /\ (Box(Sweeper) \in alive' => Box(Sweeper) \in stray')
        /\ alive' \cap stray \subseteq stray'
    BY <1>4, Closed DEF Close, IInv
  <2>4. Locked' /\ Alone' /\ InMap'
    BY <1>0, <2>1, <2>2 DEF IInv, Names, Locked, Alone, InMap, Moves, At
  <2>5. GivenUp'
    BY <1>0, <2>1, <2>2, <2>3 DEF IInv, Names, GivenUp, Moves, At, Works, Box
  <2>6. Named'
    BY <1>0, <2>1, <2>2, <2>3 DEF IInv, Names, Named, Moves, At, Box
  <2> QED
    BY <2>4, <2>5, <2>6 DEF Names
<1> QED
  BY <1>1, <1>2, <1>3, <1>4

LEMMA NamesRest ==
  ASSUME IInv, StopSweep \/ CloseAll \/ Tick \/ (\E b \in Boxes : Expire(b)) \/ UNCHANGED vars
  PROVE  Names'
<1>1. CASE StopSweep \/ Tick \/ UNCHANGED vars
  <2>1. UNCHANGED <<entry, box, alive, job, calm, stray>>
    BY <1>1 DEF StopSweep, Tick, vars, pool, cloud, past
  <2> QED
    BY <2>1, Still
<1>2. CASE CloseAll
  <2>1. /\ UNCHANGED <<box, job>> /\ Unlocked /\ entry' = 0 /\ ~calm'
    BY <1>2 DEF CloseAll
  <2>2. /\ alive' \subseteq alive /\ alive' \cap stray \subseteq stray'
        /\ entry # 0 /\ box[entry] \in alive' => box[entry] \in stray'
    BY <1>2, Closed DEF CloseAll, IInv
  <2> QED
    BY <2>1, <2>2, Still
<1>3. ASSUME NEW b \in Boxes, Expire(b) PROVE Names'
  <2>1. UNCHANGED <<entry, box, job, calm>> /\ alive' \subseteq alive /\ alive' \cap stray \subseteq stray'
    BY <1>3, Closed DEF Expire, IInv, pool
  <2> QED
    BY <2>1, Still
<1> QED
  BY <1>1, <1>2, <1>3

LEMMA NamesNext ==
  ASSUME IInv, [Next]_vars
  PROVE  Names'
<1>1. CASE \E c \in Callers : CallStep(c)
  <2> PICK c \in Callers : CallStep(c)
    BY <1>1
  <2> c \in Actors
    BY DEF Actors
  <2> QED
    BY NamesGet, NamesSync, NamesUse, NamesRebuild DEF CallStep
<1>2. CASE \E c \in Callers, k \in Kinds : Call(c, k)
  BY <1>2, NamesCall
<1>3. CASE Sweep
  <2> Sweeper \in Actors
    BY DEF Actors
  <2> QED
    BY <1>3, NamesGet, NamesSync, NamesSweep DEF Sweep
<1>4. CASE StopSweep \/ CloseAll \/ Tick \/ (\E b \in Boxes : Expire(b)) \/ UNCHANGED vars
  BY <1>4, NamesRest
<1> QED
  BY <1>1, <1>2, <1>3, <1>4 DEF Next

\* "skipping this would leak E2B instances that cost money" (lifecycle.go:249): at
\* any time, a sandbox that exists is in the map, or in the hands of the goroutine
\* that creates or closes it, or lost for a reason NoneLeaks lists.
THEOREM NoLeak == Spec => []NoneLeaks
<1>1. Init => IInv
  <2>1. Init => Rest.at = "idle"
    BY DEF Rest
  <2>2. Init => Names
    BY <2>1 DEF Init, Names, Locked, GivenUp, Alone, InMap, Named, At
  <2> QED
    BY <2>2, TypedInit DEF IInv
<1>2. IInv /\ [Next]_vars => IInv'
  BY TypedNext, NamesNext DEF IInv
<1>3. IInv => NoneLeaks
  BY DEF IInv, Names, Named, NoneLeaks, Held
<1> QED
  BY <1>1, <1>2, <1>3, PTL DEF Spec

-----------------------------------------------------------------------------
(* A call sees what the calls before it left.                              *)

\* Files of the same size are alike, and what is alike to the current version is
\* no less good after a hydration.
LEMMA Likeness ==
  /\ \A u : Alike(u, u)
  /\ \A u, v, w : Alike(u, v) /\ Alike(v, w) => Alike(u, w)
  /\ \A u, v : Alike(u, v) => Alike(v, u)
  /\ \A u : Alike(u, 0) \/ Alike(0, u) => u = 0
  BY DEF Alike

LEMMA RestoredGood ==
  ASSUME Alike(store, current)
  PROVE  Good(Restored)
  BY DEF Restored, Good

\* What does not exist has no workspace.
DeadRaw == \A b \in Boxes : b \notin alive => files[b] = Raw

\* The places of a call that has its executor from the map.
InUse == {"use", "rebuild", "rehydrate", "again", "sync", "put", "mirror"}

\* When only goroutine a is busy, the store has the current version or its like,
\* unless a is about to save it, and the sandbox of the map has what is good.
OnTrack(a) ==
  /\ job[a].at \in InUse => job[a].ex = entry
  /\ Alike(store, current) \/ job[a].at \in {"sync", "put", "mirror"}
  /\ job[a].at \in {"put", "mirror"} => Alike(job[a].hold, current)
  /\ At(a, "sync") /\ Works(a) /\ files[Box(a)] \in {Raw, 0} => Alike(store, current)
  /\ entry # 0 /\ box[entry] \in alive => Good(files[box[entry]])

\* As long as nothing overlapped and no sync failed, that goroutine exists.
Fresh == calm => \E a \in Actors : (\A b \in Actors : b # a => At(b, "idle")) /\ OnTrack(a)

FInv == Typed /\ DeadRaw /\ Fresh

\* The goroutine that moves is the one that is busy.
LEMMA Leads ==
  ASSUME Fresh, calm, NEW a \in Actors, ~At(a, "idle")
  PROVE  (\A b \in Actors : b # a => At(b, "idle")) /\ OnTrack(a)
  BY DEF Fresh

\* It stays the one.
LEMMA Led ==
  ASSUME NEW a \in Actors, NEW p, NEW x, Moves(a, p, x), OnTrack(a)',
         \A b \in Actors : b # a => At(b, "idle")
  PROVE  Fresh'
<1>1. \A b \in Actors : b # a => At(b, "idle")'
  BY DEF Moves, At
<1> QED
  BY <1>1 DEF Fresh

\* A step with everything saved that touches no sandbox but a new one.
LEMMA Steady ==
  ASSUME NEW a \in Actors, NEW p, NEW x, Moves(a, p, x), OnTrack(a),
         UNCHANGED <<entry, box, files, current>>, Alike(store', current),
         \A b \in alive' : b \in alive \/ files[b] = Raw,
         p \notin {"put", "mirror"}, p \in InUse => x = entry
  PROVE  OnTrack(a)'
<1>1. job'[a].at = p /\ job'[a].ex = IF p = "idle" THEN 0 ELSE x
  BY DEF Moves
<1>2. "idle" \notin InUse
  BY DEF InUse
<1>3. entry' # 0 /\ box'[entry'] \in alive' => Good(files[box[entry]])
  BY DEF OnTrack, Good
<1>4. Alike(store', current') /\ (Good(files[box[entry]]) => Good(files[box[entry]])')
  BY DEF Good
<1> QED
  BY <1>1, <1>2, <1>3, <1>4 DEF OnTrack, At

\* The files of the sandboxes that go are gone.
LEMMA Erased ==
  ASSUME Typed, DeadRaw, NEW b, Destroy(b) \/ Lose(b)
  PROVE  /\ DeadRaw'
         /\ \A x \in Boxes : x \in alive' => x \in alive /\ files'[x] = files[x]
  BY DEF Destroy, Lose, DeadRaw, Typed, TypeOK

\* A goroutine that closes sandbox b, or a sandbox that goes while a is at work.
LEMMA Less ==
  ASSUME Typed, DeadRaw, NEW a \in Actors, OnTrack(a), NEW b, Destroy(b) \/ Lose(b),
         entry' \in {0, entry}, UNCHANGED <<box, store, current>>,
         job' = job \/ (Alike(store, current) /\ job'[a].at \notin InUse),
         job' = job => entry' = entry
  PROVE  OnTrack(a)'
<1>1. entry # 0 => box[entry] \in 0 .. MaxBoxes
  BY DEF Typed, TypeOK, Boxes
<1>2. \A x \in Boxes : x \in alive' => x \in alive /\ files'[x] = files[x]
  BY Erased
<1>3. alive' \subseteq Boxes
  <2>1. alive' \subseteq alive
    BY Closed
  <2>2. alive \subseteq 1 .. made /\ made \in 0 .. MaxBoxes
    BY DEF Typed, TypeOK
  <2> QED
    BY <2>1, <2>2, PoolAssumption DEF Boxes
<1>4. entry' # 0 /\ box'[entry'] \in alive' => Good(files[box[entry]])'
  BY <1>2, <1>3 DEF OnTrack, Good
<1>5. CASE job' = job
  BY <1>2, <1>3, <1>4, <1>5 DEF OnTrack, At, Works, Box
<1>6. CASE Alike(store, current) /\ job'[a].at \notin InUse
  BY <1>4, <1>6 DEF OnTrack, At, InUse
<1> QED
  BY <1>5, <1>6

LEMMA FreshGet ==
  ASSUME FInv, NEW a \in Actors, Get(a)
  PROVE  DeadRaw' /\ Fresh'
<1>0. /\ Typed /\ DeadRaw /\ Fresh /\ job \in [Actors -> Jobs] /\ made \in 0 .. MaxBoxes
      /\ alive \subseteq 1 .. made /\ box \in [Boxes -> 0 .. MaxBoxes]
      /\ files \in [Boxes -> Versions \cup {Raw}]
  BY DEF FInv, Typed, TypeOK
<1>1. CASE Found(a)
  <2>1. Moves(a, Ready(a), entry)
    <3>1. Ready(a) \in Places /\ entry \in 0 .. MaxBoxes
      BY PoolAssumption, Ways DEF FInv, Typed, TypeOK
    <3>2. Do(a, [job[a] EXCEPT !.at = Ready(a), !.ex = entry])
      BY <1>1 DEF Found
    <3> QED
      BY ONLY <1>0, <3>1, <3>2, Took
  <2>2. UNCHANGED <<entry, box, alive, files, store, current, calm>> /\ At(a, "get")
    BY <1>1 DEF Found, pool, cloud, past
  <2>3. ASSUME calm PROVE Fresh'
    <3>1. (\A b \in Actors : b # a => At(b, "idle")) /\ OnTrack(a)
      BY <1>0, <2>2, <2>3, Leads DEF At
    <3>2. Alike(store, current) /\ Ready(a) \notin {"put", "mirror"}
      BY <2>2, <3>1, Ways DEF OnTrack, At
    <3>3. OnTrack(a)'
      BY <2>1, <2>2, <3>1, <3>2, Steady
    <3> QED
      BY <2>1, <3>1, <3>3, Led
  <2> QED
    BY <1>0, <2>2, <2>3 DEF DeadRaw, Fresh
<1>2. CASE Create(a)
  <2>1. made + 1 \in Boxes /\ made' = made + 1 /\ alive' = alive \cup {made + 1}
    BY <1>0, <1>2, PoolAssumption DEF Create, Make, Boxes
  <2>2. Moves(a, "hydrate", made + 1)
    <3>1. "hydrate" \in Places /\ made + 1 \in 0 .. MaxBoxes
      BY <1>0, <2>1, PoolAssumption, Ways DEF Boxes
    <3>2. Do(a, [job[a] EXCEPT !.at = "hydrate", !.ex = made + 1])
      BY <1>2 DEF Create
    <3> QED
      BY ONLY <1>0, <3>1, <3>2, Took
  <2>3. UNCHANGED <<entry, files, store, current, calm>> /\ At(a, "get") /\ entry = 0
    BY <1>2 DEF Create, pool
  <2>4. ASSUME calm PROVE Fresh'
    <3>1. (\A b \in Actors : b # a => At(b, "idle")) /\ OnTrack(a)
      BY <1>0, <2>3, <2>4, Leads DEF At
    <3>2. OnTrack(a)'
      BY <2>2, <2>3, <3>1 DEF OnTrack, Moves, At, InUse
    <3> QED
      BY <2>2, <3>1, <3>2, Led
  <2> QED
    BY <1>0, <2>1, <2>3, <2>4 DEF DeadRaw, Fresh
<1>3. CASE CreateFails(a)
  <2>1. Moves(a, Failed(a), job[a].ex)
    BY <1>0, <1>3, Ways, Went DEF CreateFails
  <2>2. UNCHANGED <<entry, box, alive, files, store, current, calm>> /\ At(a, "get")
    BY <1>3 DEF CreateFails, pool, cloud, past
  <2>3. ASSUME calm PROVE Fresh'
    <3>1. (\A b \in Actors : b # a => At(b, "idle")) /\ OnTrack(a)
      BY <1>0, <2>2, <2>3, Leads DEF At
    <3>2. Alike(store, current) /\ Failed(a) \notin {"put", "mirror"} /\ Failed(a) \notin InUse
      BY <2>2, <3>1, Ways DEF OnTrack, At, InUse
    <3>3. OnTrack(a)'
      BY <2>1, <2>2, <3>1, <3>2, Steady
    <3> QED
      BY <2>1, <3>1, <3>3, Led
  <2> QED
    BY <1>0, <2>2, <2>3 DEF DeadRaw, Fresh
<1>7. CASE CreateLost(a)
  <2>1. Moves(a, Failed(a), job[a].ex)
    BY <1>0, <1>7, Ways, Went DEF CreateLost
  <2>2. /\ UNCHANGED <<entry, box, files, store, current, calm>> /\ At(a, "get")
        /\ alive' = alive \cup {made + 1} /\ made < MaxBoxes
    BY <1>7 DEF CreateLost, Make, pool
  <2>3. made + 1 \in Boxes /\ made + 1 \notin alive /\ files[made + 1] = Raw
    BY <1>0, <2>2, PoolAssumption DEF Boxes, DeadRaw
  <2>4. ASSUME calm PROVE Fresh'
    <3>1. (\A b \in Actors : b # a => At(b, "idle")) /\ OnTrack(a)
      BY <1>0, <2>2, <2>4, Leads DEF At
    <3>2. Alike(store, current) /\ Failed(a) \notin {"put", "mirror"} /\ Failed(a) \notin InUse
      BY <2>2, <3>1, Ways DEF OnTrack, At, InUse
    <3>3. OnTrack(a)'
      BY <2>1, <2>2, <2>3, <3>1, <3>2, Steady
    <3> QED
      BY <2>1, <3>1, <3>3, Led
  <2> QED
    BY <1>0, <2>2, <2>4 DEF DeadRaw, Fresh
<1>4. CASE Hydrate(a)
  <2>1. Moves(a, Ready(a), job[a].ex)
    BY <1>0, <1>4, Ways, Went DEF Hydrate
  <2>2. /\ UNCHANGED <<box, alive, store, current, calm>> /\ At(a, "hydrate") /\ Works(a)
        /\ files' = [files EXCEPT ![Box(a)] = Restored] /\ entry' = job[a].ex
    BY <1>4 DEF Hydrate, past
  <2>3. DeadRaw'
    BY <1>0, <2>2 DEF DeadRaw, Works
  <2>4. ASSUME calm PROVE Fresh'
    <3>1. (\A b \in Actors : b # a => At(b, "idle")) /\ OnTrack(a)
      BY <1>0, <2>2, <2>4, Leads DEF At
    <3>2. Alike(store, current) /\ Ready(a) \notin {"put", "mirror"}
      BY <2>2, <3>1, Ways DEF OnTrack, At
    <3>3. Box(a) \in Boxes /\ Box(a) = box[entry'] /\ files'[Box(a)] = Restored
      BY <1>0, <2>2, WorkingBox DEF At, Box
    <3>4. job'[a].at = Ready(a) /\ (Ready(a) # "idle" => job'[a].ex = entry')
      BY <2>1, <2>2 DEF Moves
    <3>5. Alike(store', current') /\ Good(files[box[entry]])'
      <4>1. files'[box'[entry']] = Restored /\ current' = current /\ Good(Restored)
        BY <2>2, <3>2, <3>3, RestoredGood
      <4> QED
        BY <2>2, <3>2, <4>1 DEF Good
    <3>6. "idle" \notin InUse
      BY DEF InUse
    <3>7. OnTrack(a)'
      BY <3>2, <3>4, <3>5, <3>6 DEF OnTrack
    <3> QED
      BY <2>1, <3>1, <3>7, Led
  <2> QED
    BY <2>2, <2>3, <2>4 DEF Fresh
<1>5. CASE HydratePartly(a)
  <2>1. /\ UNCHANGED alive /\ Works(a) /\ ~calm'
        /\ files' = [files EXCEPT ![Box(a)] = 0]
    BY <1>5 DEF HydratePartly
  <2> QED
    BY <1>0, <2>1 DEF DeadRaw, Works, Fresh
<1>6. CASE HydrateFails(a)
  <2>1. Moves(a, Failed(a), job[a].ex)
    BY <1>0, <1>6, Ways, Went DEF HydrateFails
  <2>2. /\ UNCHANGED <<entry, box, store, current, calm>> /\ At(a, "hydrate")
        /\ Destroy(Box(a)) \/ Lose(Box(a))
    BY <1>6 DEF HydrateFails, pool
  <2>3. DeadRaw'
    BY <1>0, <2>2, Erased
  <2>4. ASSUME calm PROVE Fresh'
    <3>1. (\A b \in Actors : b # a => At(b, "idle")) /\ OnTrack(a)
      BY <1>0, <2>2, <2>4, Leads DEF At
    <3>2. Alike(store, current) /\ job'[a].at \notin InUse
      BY <2>1, <2>2, <3>1, Ways DEF OnTrack, At, Moves, InUse
    <3>3. job' # job
      BY <2>1, <2>2, Ways DEF Moves, At
    <3>4. OnTrack(a)'
      BY <1>0, <2>2, <3>1, <3>2, <3>3, Less
    <3> QED
      BY <2>1, <3>1, <3>4, Led
  <2> QED
    BY <2>2, <2>3, <2>4 DEF Fresh
<1> QED
  BY <1>1, <1>2, <1>3, <1>4, <1>5, <1>6, <1>7 DEF Get

LEMMA FreshSync ==
  ASSUME FInv, NEW a \in Actors, Sync(a) \/ Mirror(a)
  PROVE  DeadRaw' /\ Fresh'
<1>0. /\ Typed /\ DeadRaw /\ Fresh /\ job \in [Actors -> Jobs]
      /\ files \in [Boxes -> Versions \cup {Raw}] /\ store \in Versions /\ current \in Versions
  BY DEF FInv, Typed, TypeOK
<1>1. /\ UNCHANGED <<entry, box, alive, files, current>> /\ (calm' => calm)
      /\ job[a].at \in {"sync", "put", "mirror"}
  <2>1. CASE Snapshot(a)
    BY <2>1 DEF Snapshot, At, pool, cloud, past
  <2>2. CASE SnapshotFails(a) \/ PutFails(a)
    <3>1. /\ UNCHANGED <<entry, box, alive, files, current>>
          /\ job[a].at \in {"sync", "put", "mirror"}
      BY <2>2 DEF SnapshotFails, PutFails, At, pool, cloud
    <3>2. calm' => calm
      BY <2>2 DEF SnapshotFails, PutFails
    <3> QED
      BY <3>1, <3>2
  <2>3. CASE Put(a) \/ Mirror(a)
    BY <2>3 DEF Put, Mirror, At, pool, cloud, past
  <2> QED
    BY <2>1, <2>2, <2>3 DEF Sync
<1>2. DeadRaw'
  BY <1>0, <1>1 DEF DeadRaw
<1>3. ASSUME calm' PROVE Fresh'
  <2>1. (\A b \in Actors : b # a => At(b, "idle")) /\ OnTrack(a) /\ job[a].ex = entry
    <3>1. (\A b \in Actors : b # a => At(b, "idle")) /\ OnTrack(a)
      BY <1>0, <1>1, <1>3, Leads DEF At
    <3> QED
      BY <1>1, <3>1 DEF OnTrack, InUse
  <2>2. CASE Alike(store', current) /\ \E p \in {"idle", "release"} : Go(a, p)
    <3> PICK p \in {"idle", "release"} : Go(a, p)
      BY <2>2
    <3>1. Moves(a, p, job[a].ex)
      BY <1>0, Ways, Went
    <3>2. p \notin {"put", "mirror"} /\ (p \in InUse => job[a].ex = entry)
      BY <2>1
    <3>3. OnTrack(a)'
      BY <1>1, <2>1, <2>2, <3>1, <3>2, Steady
    <3> QED
      BY <2>1, <3>1, <3>3, Led
  <2>3. CASE Snapshot(a) /\ files[Box(a)] \notin {Raw, 0}
    <3>1. /\ Do(a, [job[a] EXCEPT !.at = "put", !.hold = files[Box(a)]])
          /\ At(a, "sync") /\ Works(a) /\ store' = store
      BY <2>3 DEF Snapshot
    <3>2. Box(a) \in Boxes /\ files[Box(a)] \in Versions /\ "put" \in Places
      <4>1. Box(a) \in Boxes
        BY <1>0, <3>1, WorkingBox DEF At
      <4> QED
        BY <1>0, <2>3, <4>1, Ways
    <3>3. Moves(a, "put", job[a].ex)
      BY ONLY <1>0, <3>1, <3>2, Read
    <3>4. job'[a].hold = files[Box(a)]
      BY <1>0, <3>1 DEF Do, Jobs
    <3>5. entry # 0 /\ Box(a) = box[entry] /\ box[entry] \in alive
      BY <1>0, <2>1, <3>1 DEF Typed, Equipped, At, Box, Works
    <3>6. Alike(files[Box(a)], current)
      BY <2>1, <2>3, <3>5 DEF OnTrack, Good
    <3>7. Alike(job'[a].hold, current') /\ (Good(files[box[entry]]) => Good(files[box[entry]])')
      BY <1>1, <3>4, <3>6 DEF Good
    <3>8. job'[a].at = "put" /\ job'[a].ex = entry'
      BY <1>1, <2>1, <3>3 DEF Moves
    <3>9. OnTrack(a)'
      BY <1>1, <2>1, <3>7, <3>8 DEF OnTrack, At
    <3> QED
      BY <2>1, <3>3, <3>9, Led
  <2>4. \/ Alike(store', current) /\ \E p \in {"idle", "release"} : Go(a, p)
        \/ Snapshot(a) /\ files[Box(a)] \notin {Raw, 0}
    <3>1. Synced(a) \in {"idle", "release"}
      BY Ways
    <3>2. CASE Snapshot(a) /\ files[Box(a)] \in {Raw, 0}
      <4>1. At(a, "sync") /\ Works(a) /\ Go(a, Synced(a)) /\ store' = store
        BY <3>2 DEF Snapshot
      <4>2. entry # 0 /\ Box(a) = box[entry] /\ box[entry] \in alive
        BY <1>0, <2>1, <4>1 DEF Typed, Equipped, At, Box, Works
      <4>3. Alike(store, current)
        BY <2>1, <3>2, <4>1, <4>2 DEF OnTrack
      <4> QED
        BY <3>1, <4>1, <4>3
    <3>3. CASE SnapshotFails(a) \/ PutFails(a)
      <4>1. Go(a, Synced(a)) /\ store' = store /\ calm' = (calm /\ Alike(store, current))
        BY <3>3 DEF SnapshotFails, PutFails
      <4> QED
        BY <1>3, <3>1, <4>1
    <3>4. CASE Put(a)
      <4>1. /\ Go(a, Synced(a)) /\ At(a, "put")
            /\ store' = IF Alike(store, job[a].hold) THEN store ELSE job[a].hold
        BY <3>4 DEF Put
      <4>2. Alike(job[a].hold, current)
        BY <2>1, <4>1 DEF OnTrack, At
      <4>3. Alike(store', current)
        BY <4>1, <4>2, Likeness
      <4> QED
        BY <3>1, <4>1, <4>3
    <3>5. CASE Mirror(a)
      <4>1. Go(a, "idle") /\ At(a, "mirror") /\ store' = job[a].hold
        BY <3>5 DEF Mirror
      <4> QED
        BY <2>1, <4>1 DEF OnTrack, At
    <3> QED
      BY <3>2, <3>3, <3>4, <3>5 DEF Sync
  <2> QED
    BY <2>2, <2>3, <2>4
<1> QED
  BY <1>2, <1>3 DEF Fresh

LEMMA FreshUse ==
  ASSUME FInv, NEW c \in Callers,
         \/ Use(c) \/ UseFails(c) \/ UseLost(c) \/ Gone(c) \/ Glitch(c)
         \/ RebuildFails(c) \/ RehydrateFails(c)
  PROVE  DeadRaw' /\ Fresh'
<1>0. /\ c \in Actors /\ Typed /\ DeadRaw /\ Fresh /\ job \in [Actors -> Jobs]
      /\ files \in [Boxes -> Versions \cup {Raw}] /\ writes \in Versions
  BY DEF Actors, FInv, Typed, TypeOK
<1>1. /\ UNCHANGED <<entry, box, alive, store>> /\ (calm' => calm)
      /\ job[c].at \in {"use", "again", "rebuild", "rehydrate"}
  <2>1. CASE Use(c) \/ UseFails(c) \/ Gone(c) \/ RebuildFails(c) \/ RehydrateFails(c)
    BY <2>1 DEF Use, UseFails, Gone, RebuildFails, RehydrateFails, At, pool, cloud, past
  <2>2. CASE UseLost(c)
    BY <2>2 DEF UseLost, pool
  <2>3. CASE Glitch(c)
    BY <2>3 DEF Glitch, At, pool, cloud
  <2> QED
    BY <2>1, <2>2, <2>3
<1>2. Ended(c) \in {"sync", "idle"}
  BY <1>0, Ways
<1>3. CASE UNCHANGED <<files, current>> /\ \E p \in {"idle", "sync", "rebuild"} : Go(c, p)
  <2> PICK p \in {"idle", "sync", "rebuild"} : Go(c, p)
    BY <1>3
  <2>1. Moves(c, p, job[c].ex)
    BY <1>0, Ways, Went
  <2>2. ASSUME calm' PROVE Fresh'
    <3>1. (\A b \in Actors : b # c => At(b, "idle")) /\ OnTrack(c)
      BY <1>0, <1>1, <2>2, Leads DEF At
    <3>2. Alike(store', current) /\ job[c].ex = entry
      BY <1>1, <3>1 DEF OnTrack, InUse
    <3>3. OnTrack(c)'
      BY <1>0, <1>1, <1>3, <2>1, <3>1, <3>2, Steady
    <3> QED
      BY <1>0, <2>1, <3>1, <3>3, Led
  <2> QED
    BY <1>0, <1>1, <1>3, <2>2 DEF DeadRaw, Fresh
<1>4. CASE Works(c) /\ writes < MaxWrites /\ current' = writes + 1
           /\ files' = [files EXCEPT ![Box(c)] = writes + 1]
           /\ \/ ~calm'
              \/ Go(c, "sync")
              \/ Do(c, [job[c] EXCEPT !.at = "mirror", !.hold = writes + 1])
  <2>1. Works(c) /\ Box(c) \in Boxes
    BY <1>0, <1>1, <1>4, WorkingBox
  <2>2. writes + 1 \in Versions /\ writes + 1 # 0 /\ writes + 1 # Raw
    BY <1>0, <1>4, PoolAssumption DEF Versions, Raw
  <2>3. DeadRaw'
    BY <1>0, <1>1, <1>4, <2>1 DEF DeadRaw, Works
  <2>4. "mirror" \in Places /\ "sync" \in Places
    BY <1>0, Ways
  <2>5. ASSUME calm' PROVE Fresh'
    <3>1. (\A b \in Actors : b # c => At(b, "idle")) /\ OnTrack(c)
      BY <1>0, <1>1, <2>5, Leads DEF At
    <3>2. job[c].ex = entry
      BY <1>1, <3>1 DEF OnTrack, InUse
    <3>3. files'[Box(c)] = current' /\ Box(c) = box'[entry'] /\ entry' = entry
      BY <1>0, <1>1, <1>4, <2>1, <3>2 DEF Box
    <3>4. CASE Go(c, "sync")
      <4>1. Moves(c, "sync", job[c].ex)
        BY ONLY <1>0, <2>4, <3>4, Went
      <4>2. job'[c].at = "sync" /\ job'[c].ex = entry'
        BY <3>2, <3>3, <4>1 DEF Moves
      <4>3. /\ current' # 0 /\ files'[box'[entry']] = current' /\ current' # Raw
            /\ Good(files[box[entry]])'
        BY <1>4, <2>2, <3>3, Likeness DEF Good
      <4>4. OnTrack(c)'
        BY <4>2, <4>3 DEF OnTrack, Box
      <4> QED
        BY <1>0, <3>1, <4>1, <4>4, Led
    <3>5. CASE Do(c, [job[c] EXCEPT !.at = "mirror", !.hold = writes + 1])
      <4>1. Moves(c, "mirror", job[c].ex)
        BY ONLY <1>0, <2>2, <2>4, <3>5, Read
      <4>2. job'[c].at = "mirror" /\ job'[c].ex = entry' /\ job'[c].hold = current'
        <5>1. job'[c].hold = writes + 1
          BY <1>0, <3>5 DEF Do, Jobs
        <5> QED
          BY <1>4, <3>2, <3>3, <4>1, <5>1 DEF Moves
      <4>3. Good(files[box[entry]])' /\ Alike(job'[c].hold, current')
        BY <3>3, <4>2, Likeness DEF Good
      <4>4. OnTrack(c)'
        BY <4>2, <4>3 DEF OnTrack, At
      <4> QED
        BY <1>0, <3>1, <4>1, <4>4, Led
    <3> QED
      BY <1>4, <2>5, <3>4, <3>5
  <2> QED
    BY <2>3, <2>5 DEF Fresh
<1>5. CASE Glitch(c)
  BY <1>0, <1>5 DEF Glitch, DeadRaw, Fresh, cloud
<1> QED
  <2>1. CASE Use(c)
    BY <1>2, <1>3, <1>4, <2>1 DEF Use, Touch
  <2>4. CASE UseLost(c)
    <3>1. Go(c, "sync") \/ ~calm'
      BY <2>4 DEF UseLost, Ended
    <3> QED
      BY <1>4, <2>4, <3>1 DEF UseLost
  <2>2. CASE UseFails(c) \/ RebuildFails(c) \/ RehydrateFails(c)
    BY <1>2, <1>3, <2>2 DEF UseFails, RebuildFails, RehydrateFails, cloud, past
  <2>3. CASE Gone(c)
    BY <1>2, <1>3, <2>3 DEF Gone, cloud, past
  <2> QED
    BY <1>5, <2>1, <2>2, <2>3, <2>4

\* The executor of the map gets a sandbox without a workspace, then the stored one.
LEMMA FreshRebuild ==
  ASSUME FInv, NEW c \in Callers,
         \/ Rebuild(c) \/ RebuildLost(c)
         \/ Rehydrate(c) \/ RehydratePartly(c) \/ RehydrateBreaks(c)
  PROVE  DeadRaw' /\ Fresh'
<1>0. /\ c \in Actors /\ Typed /\ DeadRaw /\ Fresh /\ job \in [Actors -> Jobs]
      /\ made \in 0 .. MaxBoxes /\ alive \subseteq 1 .. made
      /\ files \in [Boxes -> Versions \cup {Raw}] /\ box \in [Boxes -> 0 .. MaxBoxes]
  BY DEF Actors, FInv, Typed, TypeOK
<1>1. /\ UNCHANGED <<entry, store, current>> /\ (calm' => calm)
      /\ job[c].at \in {"rebuild", "rehydrate"}
  <2>1. CASE Rebuild(c) \/ RebuildLost(c) \/ Rehydrate(c)
    BY <2>1 DEF Rebuild, RebuildLost, Rehydrate, At, pool, past
  <2>2. CASE RehydratePartly(c)
    BY <2>2 DEF RehydratePartly, At, pool
  <2>3. CASE RehydrateBreaks(c)
    BY <2>3 DEF RehydrateBreaks, At, pool
  <2> QED
    BY <2>1, <2>2, <2>3
<1>2. job[c].ex \in Boxes
  BY <1>0, <1>1, HasBox
<1>3. calm => (\A b \in Actors : b # c => At(b, "idle")) /\ OnTrack(c)
              /\ Alike(store, current) /\ job[c].ex = entry
  <2> HAVE calm
  <2>1. (\A b \in Actors : b # c => At(b, "idle")) /\ OnTrack(c)
    BY <1>0, <1>1, Leads DEF At
  <2> QED
    BY <1>1, <2>1 DEF OnTrack, InUse
<1>4. CASE Rebuild(c)
  <2>1. made + 1 \in Boxes /\ made + 1 \notin alive
    BY <1>0, <1>4, PoolAssumption DEF Rebuild, Boxes
  <2>2. /\ alive' = alive \cup {made + 1} /\ box' = [box EXCEPT ![job[c].ex] = made + 1]
        /\ files' = files
    BY <1>4 DEF Rebuild, Make
  <2>3. Moves(c, "rehydrate", job[c].ex)
    BY <1>0, <1>4, Ways, Went DEF Rebuild
  <2>4. DeadRaw'
    BY <1>0, <2>2 DEF DeadRaw
  <2>5. ASSUME calm' PROVE Fresh'
    <3>1. box'[entry'] = made + 1 /\ files'[made + 1] = Raw
      BY <1>0, <1>1, <1>2, <1>3, <2>1, <2>2, <2>5 DEF DeadRaw
    <3>2. job'[c].at = "rehydrate" /\ job'[c].ex = entry'
      BY <1>1, <1>3, <2>3, <2>5 DEF Moves
    <3>3. Good(files[box[entry]])' /\ Alike(store', current')
      BY <1>1, <1>3, <2>5, <3>1 DEF Good
    <3>4. OnTrack(c)'
      BY <3>2, <3>3 DEF OnTrack, At
    <3> QED
      BY <1>0, <1>1, <1>3, <2>3, <2>5, <3>4, Led
  <2> QED
    BY <2>4, <2>5 DEF Fresh
<1>5. CASE RebuildLost(c)
  <2>1. /\ alive' = alive \cup {made + 1} /\ made < MaxBoxes /\ UNCHANGED <<box, files>>
        /\ Go(c, Ended(c))
    BY <1>5 DEF RebuildLost, Make
  <2>2. made + 1 \in Boxes /\ made + 1 \notin alive /\ files[made + 1] = Raw
    BY <1>0, <2>1, PoolAssumption DEF Boxes, DeadRaw
  <2>3. Moves(c, Ended(c), job[c].ex) /\ Ended(c) \in {"sync", "idle"}
    BY <1>0, <2>1, Ways, Went
  <2>4. ASSUME calm' PROVE Fresh'
    <3>1. OnTrack(c)'
      BY <1>0, <1>1, <1>3, <2>1, <2>2, <2>3, <2>4, Steady
    <3> QED
      BY <1>0, <1>1, <1>3, <2>3, <2>4, <3>1, Led
  <2> QED
    BY <1>0, <2>1, <2>4 DEF DeadRaw, Fresh
<1>6. CASE Rehydrate(c) \/ RehydratePartly(c) \/ RehydrateBreaks(c)
  <2>1. PICK v \in {0, Restored}, p \in {"again", "sync", "idle"} :
          /\ UNCHANGED <<box, alive>> /\ Works(c) /\ files' = [files EXCEPT ![Box(c)] = v]
          /\ Go(c, p) /\ (calm' => v = Restored)
    BY <1>0, <1>6, Ways DEF Rehydrate, RehydratePartly, RehydrateBreaks
  <2>2. Moves(c, p, job[c].ex)
    BY <1>0, <2>1, Ways, Went
  <2>3. DeadRaw'
    BY <1>0, <2>1 DEF DeadRaw, Works
  <2>4. Box(c) \in Boxes
    BY <1>0, <1>1, <2>1, WorkingBox
  <2>5. ASSUME calm' PROVE Fresh'
    <3>1. Box(c) = box'[entry'] /\ files'[Box(c)] = Restored
      BY <1>0, <1>1, <1>3, <2>1, <2>4, <2>5 DEF Box
    <3>2. job'[c].at = p /\ (p # "idle" => job'[c].ex = entry')
      BY <1>1, <1>3, <2>2, <2>5 DEF Moves
    <3>3. Good(Restored)
      BY <1>1, <1>3, <2>5, RestoredGood
    <3>4. Good(files[box[entry]])' /\ Alike(store', current')
      BY <1>1, <1>3, <2>5, <3>1, <3>3 DEF Good
    <3>5. "idle" \notin InUse
      BY DEF InUse
    <3>6. OnTrack(c)'
      BY <3>2, <3>4, <3>5 DEF OnTrack, At
    <3> QED
      BY <1>0, <1>1, <1>3, <2>2, <2>5, <3>6, Led
  <2> QED
    BY <2>3, <2>5 DEF Fresh
<1> QED
  BY <1>4, <1>5, <1>6

\* A call or a sweep that finds everything at rest.
LEMMA FreshCall ==
  ASSUME FInv, (\E c \in Callers, k \in Kinds : Call(c, k)) \/ Scan
  PROVE  DeadRaw' /\ Fresh'
<1>0. Typed /\ DeadRaw /\ Fresh /\ job \in [Actors -> Jobs] /\ Actors = Callers \cup {Sweeper}
  BY DEF FInv, Typed, TypeOK, Actors
<1>1. /\ UNCHANGED <<entry, box, alive, files, store, current>>
      /\ calm' => calm /\ \A a \in Actors : At(a, "idle")
  <2>1. CASE Scan
    BY <1>0, <2>1 DEF Scan, cloud
  <2>2. CASE \E c \in Callers, k \in Kinds : Call(c, k)
    BY <2>2 DEF Call, cloud
  <2> QED
    BY <2>1, <2>2
<1>2. \E a \in Actors, x \in 0 .. MaxBoxes : Moves(a, "get", x)
  <2>1. CASE Scan
    <3>1. Sweeper \in Actors /\ job[Sweeper].ex \in 0 .. MaxBoxes
      BY <1>0 DEF Jobs
    <3>2. Moves(Sweeper, "get", job[Sweeper].ex)
      BY <1>0, <2>1, <3>1, Ways, Went DEF Scan
    <3> QED
      BY <3>1, <3>2
  <2>2. ASSUME NEW c \in Callers, NEW k \in Kinds, Call(c, k)
        PROVE  \E a \in Actors, x \in 0 .. MaxBoxes : Moves(a, "get", x)
    <3>1. Rest \in Jobs /\ "get" \in Places
      BY PoolAssumption DEF Rest, Jobs, Places, Kinds, Versions
    <3>2. [Rest EXCEPT !.at = "get", !.kind = k] \in Jobs
      BY <3>1 DEF Jobs
    <3>3. /\ [Rest EXCEPT !.at = "get", !.kind = k].at = "get"
          /\ [Rest EXCEPT !.at = "get", !.kind = k].ex = 0
      BY DEF Rest
    <3>4. Moves(c, "get", 0)
      BY <1>0, <2>2, <3>2, <3>3, Done DEF Call
    <3> QED
      BY <1>0, <3>4, PoolAssumption
  <2> QED
    BY <2>1, <2>2
<1>3. DeadRaw'
  BY <1>0, <1>1 DEF DeadRaw
<1>4. ASSUME calm' PROVE Fresh'
  <2>1. PICK a \in Actors, x \in 0 .. MaxBoxes : Moves(a, "get", x)
    BY <1>2
  <2>2. \A b \in Actors : At(b, "idle")
    BY <1>1, <1>4
  <2>3. PICK b \in Actors : OnTrack(b)
    BY <1>0, <1>1, <1>4 DEF Fresh
  <2>4. Alike(store, current) /\ store' = store
    BY <1>1, <2>2, <2>3 DEF OnTrack, At
  <2>5. OnTrack(a)
    BY <2>2, <2>3, <2>4 DEF OnTrack, At, InUse
  <2>6. OnTrack(a)'
    BY <1>1, <2>1, <2>4, <2>5, Steady DEF InUse
  <2> QED
    BY <2>1, <2>2, <2>6, Led
<1> QED
  BY <1>3, <1>4 DEF Fresh

\* The rest of a sweep: the sandbox that goes has been saved.
LEMMA FreshSweep ==
  ASSUME FInv, Release \/ Close
  PROVE  DeadRaw' /\ Fresh'
<1>0. /\ Typed /\ DeadRaw /\ Fresh /\ job \in [Actors -> Jobs]
      /\ Sweeper \in Actors /\ entry \in 0 .. MaxBoxes
  BY DEF FInv, Typed, TypeOK, Actors
<1>1. /\ UNCHANGED <<box, store, current, calm>> /\ entry' \in {0, entry}
      /\ job[Sweeper].at \in {"release", "close"}
  BY DEF Release, Close, At, pool, cloud, past
<1>2. calm => /\ \A b \in Actors : b # Sweeper => At(b, "idle")
              /\ OnTrack(Sweeper) /\ Alike(store, current)
  <2> HAVE calm
  <2>1. (\A b \in Actors : b # Sweeper => At(b, "idle")) /\ OnTrack(Sweeper)
    BY <1>0, <1>1, Leads DEF At
  <2> QED
    BY <1>1, <2>1 DEF OnTrack
<1>3. CASE Release
  <2>1. UNCHANGED <<alive, files>>
    BY <1>3 DEF Release, cloud
  <2>2. \E p \in {"idle", "close"}, x \in 0 .. MaxBoxes : Moves(Sweeper, p, x)
    <3>1. CASE entry = 0
      <4>1. Moves(Sweeper, "idle", job[Sweeper].ex)
        BY <1>0, <1>3, <3>1, Ways, Went DEF Release
      <4> QED
        BY <1>0, <4>1 DEF Jobs
    <3>2. CASE entry # 0
      <4>1. Do(Sweeper, [job[Sweeper] EXCEPT !.at = "close", !.ex = entry]) /\ "close" \in Places
        BY <1>0, <1>3, <3>2, Ways DEF Release
      <4>2. Moves(Sweeper, "close", entry)
        BY ONLY <1>0, <4>1, Took
      <4> QED
        BY <1>0, <4>2
    <3> QED
      BY <3>1, <3>2
  <2>3. PICK p \in {"idle", "close"}, x \in 0 .. MaxBoxes : Moves(Sweeper, p, x)
    BY <2>2
  <2>4. ASSUME calm PROVE Fresh'
    <3>1. job'[Sweeper].at = p
      BY <2>3 DEF Moves
    <3>2. p \notin {"sync", "put", "mirror"} /\ p \notin InUse
      BY <2>3 DEF InUse
    <3>3. Alike(store', current') /\ (entry' # 0 /\ box'[entry'] \in alive' => Good(files[box[entry]])')
      BY <1>1, <1>2, <2>1, <2>4 DEF OnTrack, Good
    <3>4. OnTrack(Sweeper)'
      BY <3>1, <3>2, <3>3 DEF OnTrack, At
    <3> QED
      BY <1>0, <1>2, <2>3, <2>4, <3>4, Led
  <2> QED
    BY <1>0, <1>1, <2>1, <2>4 DEF DeadRaw, Fresh
<1>4. CASE Close
  <2>1. entry' = entry /\ (Destroy(Box(Sweeper)) \/ Lose(Box(Sweeper))) /\ At(Sweeper, "close")
    BY <1>4 DEF Close, pool
  <2>2. Moves(Sweeper, "idle", job[Sweeper].ex)
    BY <1>0, <1>4, Ways, Went DEF Close
  <2>3. ASSUME calm PROVE Fresh'
    <3>1. job'[Sweeper].at = "idle" /\ job' # job /\ "idle" \notin InUse
      BY <2>1, <2>2 DEF Moves, At, InUse
    <3>2. OnTrack(Sweeper)'
      BY <1>0, <1>1, <1>2, <2>1, <2>3, <3>1, Less
    <3> QED
      BY <1>0, <1>2, <2>2, <2>3, <3>2, Led
  <2>4. DeadRaw'
    BY <1>0, <2>1, Erased
  <2> QED
    BY <1>1, <2>3, <2>4 DEF Fresh
<1> QED
  BY <1>3, <1>4

LEMMA FreshRest ==
  ASSUME FInv, StopSweep \/ CloseAll \/ Tick \/ (\E b \in Boxes : Expire(b)) \/ UNCHANGED vars
  PROVE  DeadRaw' /\ Fresh'
<1>0. Typed /\ DeadRaw /\ Fresh
  BY DEF FInv
<1>1. CASE StopSweep \/ Tick \/ UNCHANGED vars
  <2>1. UNCHANGED <<entry, box, alive, files, store, job, current, calm>>
    BY <1>1 DEF StopSweep, Tick, vars, pool, cloud, past
  <2> QED
    BY <1>0, <2>1 DEF DeadRaw, Fresh, OnTrack, Good, At, Works, Box
<1>2. CASE CloseAll
  <2>1. ~calm' /\ (Destroy(box[entry]) \/ Lose(box[entry]) \/ UNCHANGED <<alive, files>>)
    BY <1>2 DEF CloseAll
  <2>2. DeadRaw'
    <3>1. CASE UNCHANGED <<alive, files>>
      BY <1>0, <3>1 DEF DeadRaw
    <3> QED
      BY <1>0, <2>1, <3>1, Erased
  <2> QED
    BY <2>1, <2>2 DEF Fresh
<1>3. ASSUME NEW b \in Boxes, Expire(b) PROVE DeadRaw' /\ Fresh'
  <2>1. UNCHANGED <<entry, box, store, job, current, calm>> /\ Destroy(b)
    BY <1>3 DEF Expire, pool
  <2>2. DeadRaw'
    BY <1>0, <2>1, Erased
  <2>3. ASSUME calm PROVE Fresh'
    <3>1. PICK a \in Actors : (\A d \in Actors : d # a => At(d, "idle")) /\ OnTrack(a)
      BY <1>0, <2>3 DEF Fresh
    <3>2. OnTrack(a)'
      BY <1>0, <2>1, <3>1, Less
    <3>3. \A d \in Actors : d # a => At(d, "idle")'
      BY <2>1, <3>1 DEF At
    <3> QED
      BY <3>2, <3>3 DEF Fresh
  <2> QED
    BY <2>1, <2>2, <2>3 DEF Fresh
<1> QED
  BY <1>1, <1>2, <1>3

\* "Hydrate is called once per sandbox ... so the sandbox already contains the
\* files written in past sessions" (workspace_hydrate.go:12-15): through evictions,
\* expired sandboxes, rebuilds and failed creations a tool call works on what the
\* calls before it left, or what Stat takes for it, or fails for want of a workspace,
\* as long as calls did not overlap and no transfer between sandbox and store failed;
\* in a chat of a project it may find nothing, but never an older version.
THEOREM PastCallsSeen == Spec => []SeesPastCalls
<1>1. Init => FInv
  <2> SUFFICES ASSUME Init PROVE FInv
    OBVIOUS
  <2>1. /\ \A a \in Actors : At(a, "idle")
        /\ Sweeper \in Actors
    BY DEF Init, Actors, At, Rest
  <2>2. OnTrack(Sweeper)
    BY <2>1, Likeness DEF Init, OnTrack, At, InUse
  <2> QED
    BY <2>1, <2>2, TypedInit DEF Init, FInv, DeadRaw, Fresh
<1>2. FInv /\ [Next]_vars => FInv'
  <2> SUFFICES ASSUME FInv, [Next]_vars PROVE DeadRaw' /\ Fresh'
    BY TypedNext DEF FInv
  <2>1. CASE \E c \in Callers : CallStep(c)
    <3> PICK c \in Callers : CallStep(c)
      BY <2>1
    <3> c \in Actors
      BY DEF Actors
    <3> QED
      BY FreshGet, FreshSync, FreshUse, FreshRebuild DEF CallStep
  <2>2. CASE (\E c \in Callers, k \in Kinds : Call(c, k)) \/ Scan
    BY <2>2, FreshCall
  <2>3. CASE Sweep /\ ~Scan
    <3> Sweeper \in Actors
      BY DEF Actors
    <3> QED
      BY <2>3, FreshGet, FreshSync, FreshSweep DEF Sweep
  <2>4. CASE StopSweep \/ CloseAll \/ Tick \/ (\E b \in Boxes : Expire(b)) \/ UNCHANGED vars
    BY <2>4, FreshRest
  <2> QED
    BY <2>1, <2>2, <2>3, <2>4 DEF Next
<1>3. FInv => SeesPastCalls
  <2> SUFFICES ASSUME FInv, calm, NEW c \in Callers, job[c].at \in {"use", "again"}, Works(c)
               PROVE  Good(files[Box(c)])
    BY DEF SeesPastCalls
  <2>1. c \in Actors /\ OnTrack(c)
    BY Leads DEF Actors, FInv, At
  <2>2. job[c].ex = entry /\ entry # 0
    BY <2>1 DEF OnTrack, InUse, FInv, Typed, Equipped
  <2> QED
    BY <2>1, <2>2 DEF OnTrack, Box, Works
<1> QED
  BY <1>1, <1>2, <1>3, PTL DEF Spec

=============================================================================
