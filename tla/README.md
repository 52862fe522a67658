# fastclaw in TLA+

fastclaw is a gateway for AI agents: people write to an agent over chat services or a
web console, the gateway routes the message, runs a turn of the agent's model and its
tools, and sends the answer back. Much of it is I/O; what can go subtly wrong is the
coordination between goroutines, between replicas that share a database, and between a
turn and what happens to its session meanwhile. This directory models that coordination,
checks it with TLC and proves the central facts with TLAPS. Paths below are relative to
the repository's root, `src/` here.

Line numbers in comments and in PROJECT.json refer to the modelled commit.

## 1. The system

| component | state it keeps | operations | talks to | what is hard | what must hold |
|---|---|---|---|---|---|
| task queue, `internal/taskqueue/queue.go` | tasks, one channel and worker per chat, a semaphore, `lastUsed` stamps | Submit, worker loop, executeTask, cleanup ticker, prune, Stop | called by the gateway, calls the agent's turn | Submit sends after it unlocked; cleanup closes channels; slots are scarce; handlers time out | one chat runs its tasks in order, one at a time; no send on a closed channel; no task stranded; every task ends |
| session manager, `internal/session/manager.go` | the working set of messages, the stored row, the archive, `turnDepth`, the steer buffer | Get (with reload), Append, ReplaceMessages, BeginTurn, EndTurn, PushSteer, DrainSteer | the router and the turns of several workers share it | each call locks for itself: whoever combines two reads stale state | a steer is buffered only while a turn will drain it; no message is lost or doubled |
| agent turn loop, `internal/agent/loop.go`, `compaction.go` | the turn's messages, its round, the steers in hand | a turn from BeginTurn through model calls, tools, drains, compaction and padding to EndTurn | session, provider, tools | messages arrive during every wait; turns fail, are cancelled or cut off | a request's tool calls are all answered in place; steers of the loop are answered by the turn |
| provider wire format, `internal/provider/openai.go`, `anthropic.go` | none | toAPIMessages, toAnthropicMessages | gets any history a session can have | histories of interrupted, overlapping and injected turns | the request has no unanswered call; a healthy history is not touched |
| channel lease, `internal/channels/lease.go`, `internal/store/database.go` | the row (holder, expiry), the runner, its renewal goroutine, its adapter | acquire, renew, release, start and stop of the adapter | replicas, through the database | crashes, late replies, clocks, slow shutdown | one adapter per account; failover |
| cron scheduler, `internal/cron/scheduler.go`, the cron tools and handlers | rows of jobs (next run, lock, failures), the notify flag, each replica's poll | pollStore, processDueJobs, create, delete, toggle, NextOccurrenceIn | the bus, the channel manager, the store | the list is read before the lock; three writes after a push; sleeps computed from old rows | jobs fire when due, once where they should, and not never |
| goal loop, `internal/agent/goal*`, `slash_goal.go` | the goal row (status, tokens, budget) | create, pause, resume, clear, accounting, complete, continuation | hooks of the turn loop, bus, router | four writers read the row, decide, and write it whole; prompts come back through the bus | no goal runs past its budget; a cleared goal stays cleared; a stopped goal is not continued |
| message bus, `internal/bus/bus.go` | channels of 100, Redis streams with a consumer group | publish, read, deliver, ack | adapters, scheduler, router | a message leaves one place before it is in the next | an accepted message is handled unless a fault took it |
| gateway routing, `internal/gateway/routing.go`, `dedup.go`, `pairing.go` | the dedup map, the owner of each channel | processInbound: dedup, pairing gate, routeDM, routeGroup | bus, session, task queue | each bot of a group gets its own copy; platforms repeat; replicas share the stream | a post comes into the session of an agent once |
| sandbox pools, `internal/sandbox` | sandboxes by scope, `lastUsed`, their files and those of the store | Get, Exec, ReadFile, WriteFile, recreate, sync, evict, CloseAll | tools of a turn side by side, the sweeper, the provider | eviction, expiry and rebuilding race calls; each of several requests may fail | a call works on what the calls before it left; no sandbox is forgotten; idle ones go |
| remote agents, `internal/agl` | connections, pending calls | call, reply, reconnect | tools | late replies, lost connections | every call gets one answer |

How they interact: a message goes from an adapter (one replica, by the lease) or the
scheduler to the bus; `processInbound` takes it off, drops duplicates, and either steers
it into a running turn of its session or submits it to the task queue; the worker of its
chat runs the turn; the turn appends to the session and calls the provider with the
history in the provider's wire format, and its tools work in the sandbox of the session.
When the turn ends its hook publishes the next prompt of an active goal, which comes
back over the bus like a message.

The remaining components (store, adapters, web server, API, connectors, runtime, plugin
and MCP hosts, accounts, configuration, usage, command line, console) are listed in
PROJECT.json with the reason each has no module: they are record keeping, formats or
I/O. PROJECT.json also lists the hazards, each at its line with the properties that are
aimed at it.

## 2. Modules

| module | models | extended or used by |
|---|---|---|
| `TaskQueue` | the task queue | `MCTaskQueue`, `TaskQueueProofs` |
| `ChatSerial` | abstract: each chat is served first come, first served, one task at a time | refined by `TaskQueue` |
| `SessionTurn` | session manager, router side of steering, and the turn loop composed | `MCSessionTurn`, `SessionTurnProofs` |
| `WireMessages` | a history of messages and both conversions, as operators | `SessionTurn` (shape of messages), `RequestWire` |
| `RequestWire` | every history of bounded length, for the conversions to be checked on | `MCRequestWire`, `RequestWireProofs` |
| `ChannelLease` | lease row, runners, renewals, adapters, processes | `MCChannelLease`, `ChannelLeaseProofs` |
| `CronScheduler` | the pollers of all replicas over the table of jobs, and those who change it | `MCCronScheduler`, `CronSchedulerProofs` |
| `CronExpression` | NextOccurrenceIn and the rescheduling with it | `MCCronExpression`, `CronSchedulerProofs` |
| `GoalLoop` | the goal row, its writers, the prompts and their way through bus and router | `GoalLoopProofs` and its own run |
| `Delivery` | adapter, bridge over the Redis stream, dedup, pairing and routing on all replicas | `MCDelivery`, `DeliveryProofs` |
| `SandboxPool` | the hosted sandboxes of one scope: calls, sweeper, provider, store | `MCSandboxPool`, `SandboxPoolProofs` |

Operators commented as faulty or as a mutant are plausible bugs: each property is
checked to fail when the named definition is replaced by one.

### TaskQueue

A queue instance is a `chatQueue` struct with its worker; the task whose Submit created
it names it, so a chat whose queue was cleaned up gets another name. `Submit` is the
part under `q.mu` (find or create the instance, stamp it, record the task), `Send` the
channel send after the unlock. A worker goes through `Receive`, `Start` (takes a slot)
or `Abandon` (the queue stopped), `Finish`, `Release`, `Stamp`, or `Exit` when its
channel is closed. `Cleanup`, `Prune` and `Stop` are the other goroutines. Time is only
what the code compares: the age of `lastUsed` and of `StartedAt`, in cleanup periods.
`Tick` waits for goroutines with an instantaneous step and for handlers at their
timeout: a handler returns when its context ends. That is an assumption about tools.

### SessionTurn

`messages` is the working set, `row` what a read of the session returns and `archive`
the append-only table; `StoreMode` picks database or file. Each action is what one lock
of `s.mu` or one store call makes atomic. The router reads and reloads the session
(`RouterGet`, `RouterLoad`), then steers or submits (`PushOrSubmit`), or appends the
post of another bot (`Inject`). A worker runs `TurnGet`, `TurnLoad`, `BeginTurn`,
`AppendUser`, `BuildContext`, `Compact`, model calls (`CallAnswers`, `CallsTools`,
`CallFails`, `CallCancelled`), tools (`ToolsReturn`, `AppendResult`), the drains
(`LastDrain`, `NextRound`, `Fold`), the ways out (`EndOnCard`, `CutOff`,
`FinalDelivery`), padding (`Pad`, `AppendPad`) and `End`, `Park`. A model call and a
tool return nondeterministically. A message is its role, its id, its calls and whether
it has text.

The store may fail, as `manager.go` lets it. `AppendMsg` has both of its writes: the
row, whose error is dropped, and the insert into the archive, whose error is printed
(502-505; in a file they are one line). `ReplaceMessages` writes the row best effort
(474-477), and `ReadFails` is the read that fails and skips the reload (415). `unkept`
are the messages of people whose own insert failed, `faults` counts appends and rewrites
with a failed write, and `MaxDisturbances` bounds them together with the posts of bots.

Not in it: trust levels (every sender is the owner), slash commands, plan mode, hooks,
streaming to the console, undo, clear and /new; the restart of a process, after which a
session whose first read fails starts empty and its next append overwrites the row; a
file rewrite that is cut off half way.

### WireMessages and RequestWire

`Stripped`, `OpenAIWire` and `AnthropicWire` are findOrphanToolCalls, the sweep and the
conversions on sequences of messages, merging of neighbours and image parts left out. An
assistant message of an old session (`OldAsst`) has its calls in `RawAssistant` only:
the scan for orphans reads them (`assistantToolCallIDs`), the OpenAI request echoes
them, and the Anthropic one has no `tool_use` for them (`Uses`). `RequestWire` puts any
message the session can append after any history, so the run sees every sequence up to
`MaxLength`. Ids repeat: the ids of recovered calls start again each round
(`tool_recovery.go:138`).

### ChannelLease

The row is `holder` and `left`, the ticks of 2.5 s to its expiry. A runner acquires,
launches its adapter and renewal, waits, drains and releases. Processes are cancelled
(`Cancel`), crash and restart; a call to the database may fail, applied or not,
`MaxFaults` times; a release that is applied and not answered is like one that is
answered, whose error the code drops. `Skew` bounds how early a peer may see the row
expire. A runner acts as soon as it can; an adapter stops within `StopWithin`. With a
Redis URL the gateway takes the leaser of `internal/rediscoord/lease.go` for the same
loop (`gateway.go:396`): the contract is the same over keys with a time to live, and the
clock that of the server. That leaser is not modelled.

### CronScheduler

`row[j]` has the ticks to `next_run`, the enabled flag, the failures and the age of the
lock. A replica goes through `List`, then for each listed job `Lock`, `Reachable` or
`Miss` (and `Reap`), `Push`, `Settle`, and at the end `Rest` and `Wake`. A statement may
fail unapplied (`ListFails`, `LockFails`, `MissFails`, `ReapFails`, `SettleFails`,
`RestFails`, bounded by `MaxFaults`). A lock may be taken and its answer lost
(`LockLost`): the replica goes on to the next job and the lock stays until it is stale.
A miss is two statements: its count may be written and not read back (`MissUnread`).
`Create` notifies the pollers, `ToggleRead` and `ToggleSave` are the dashboard's read
and save, `Attach` and `Detach` change which adapters a replica has. `Prompt` says that
a replica is done with a job before its lock goes stale (five minutes); without it the
push may block on a full bus for longer. Time is relative, so the state space is finite
without a bound on it. Not in it: jobs kept in memory and the heartbeat.

### CronExpression

Days, months and weeks of a calendar with small fields; `NextOccurrenceIn` scans minutes
as the code does, with its limit and its fallback; `Rescheduling` is a row whose runs
are taken up one after the other, each by a poll as late as `Lateness` has it: by
nothing, by minutes, by more than the two days of the scan. The next run counts from
that poll, as `scheduler.go:227` and 331 do. `Matches` is the reference definition.

### GoalLoop

One session. `goal` is its row; `copy[a]` what goroutine `a` read of it and changed,
until its statement writes it back. The goroutines are the worker of the task queue and
a web page that has the conversation open: `handleChatStream` lets one turn of a page
run at a time, and nothing keeps it apart from the worker. A turn is `Begin`, a model
call (`Call` folds the usage into the copy, `Bill` writes it, `Wrap` publishes the
wrap-up prompt), tools (`Tools`, `MarkDone` for update_goal), drains, `TryFire`, `Fire`
and `End`. Commands are `Insert`, `Check`/`Flip`, `Erase`/`Erased`. `Route` steers into
a running turn or queues, prompts and commands alike. Text and prompts have no content.
With `Faults` a read may fail, and then there seems to be no goal (`Seen`), and a
statement may fail, or be made and not answered (`Unanswered`, `Insert`). Left out: the
retry after a reply cut off at the output limit, which repeats the call of the same
round twice at most, and the other hooks.

Nothing under `internal/` sets `token_budget` on creation; the columns and the hook
enforce one when the row has it, and the model gives every goal one.

### Delivery

A copy is a post and the bot that got it. `Arrive` is an adapter's send on the bus,
`Publish` the bridge's XADD, `ReadGroup` and `Deliver` its consumer, `Process` one round
of processInbound: the owner's lookup, which may fail and drops the message before dedup
knows it (`Unresolved`), the key (`Duplicate`), the pairing gate (`Gate`), routeDM or
routeGroup (`Route`), up to the submit or steer (`turns`) or InjectGroupMessage
(`notes`). An edit of a direct message and a press on one of its buttons are posts with
the id of that message (`MessageId`). `Bindings` are the owner's in their order; in
`Route` some agents may not be attachable (`up`), so that fewer, other or no agents get
the post. Without a mention the turn goes to `Lead`, the default agent of the team, or
else to the first that is bound (`DefaultTarget`). Who wrote a group post and whom it
mentions is chosen at the start. `Crash` empties what the process had; what it had read,
and what XREADGROUP handed out in a reply that got lost (`ReadGroup`), stays pending
under a consumer name nobody uses again. A bot is polled by any of its `Pollers`: which
one is the business of `ChannelLease`. `faults` counts crashes, failing commands and
messages for which no owner or not every agent was found, and `lost` has the copies they
took. Left out: the expiry of dedup entries (posts and repeats happen within it), more
than one team, chatter identities, wrong pairing codes.

### SandboxPool

The workspace is one file whose content is a version number. `entry` is the executor in
the map, `box` the sandbox an executor names (recreate changes it), `files` and `store`
the version in each sandbox and in the store. A call is `Call` (stamps the scope),
`Found` or `Create` and `Hydrate` under the lock of Get, `Use`, and `Snapshot`/`Put`
after a command or `Mirror` after a write; `Gone`, `Rebuild`, `Rehydrate` and a second
try when the provider answers 404 or 502. The sweeper runs `Scan`, Get, sync, `Release`,
`Close`; `StopSweep` and `CloseAll` are a reload of the settings or a shutdown. A
request fails before it does anything (`CreateFails`, `UseFails`, `RebuildFails`, ...),
or it is carried out and its answer is lost: a sandbox is made whose name nobody learns
(`CreateLost`, `RebuildLost`), a write is not mirrored (`UseLost`). A hydration may
leave out what it cannot list or read (`HydratePartly`, `RehydratePartly`) or stop half
way (`RehydrateBreaks`). All are bounded by `MaxFaults`; the provider takes sandboxes
back (`Expire`) and refuses more than `MaxBoxes`. For a chat of a project (`InProject`)
a call saves its file in the session's own scope (`lifecycle.go:215`, 377-382), and a
hydration lists all sessions and puts it under `/workspace/<session>/`
(`e2b_executor.go:224-246`), so the next sandbox does not have it at its path
(`Restored`). History variables: `current`, the version the last command or write left;
`calm`, that no call overlapped another or a teardown and no transfer between sandbox
and store failed; `stray`, sandboxes lost in a way the code cannot know: given up after
a 502, made by a request whose answer was lost, not reached by their DELETE, made after
the sweep of their scope, or recreated while calls overlapped. Left out: docker and
boxlite, which mount the workspace, and file tools that write to the store directly.

## 3. Runs

| run | instance | shows |
|---|---|---|
| `taskqueue` | 2 chats, 3 tasks, 1 slot, channels of 1, handlers that may outlive the idle limit, 1 task retained | slots are counted right, no send on a closed channel, no stranded task, every task ends |
| `taskqueue_sized` | 2 chats, 4 tasks, 2 slots, timeout = idle limit | `ChatSerial` is implemented; one task of a chat at a time |
| `request_wire` | all histories up to 5 messages, 2 call ids that repeat, messages of old sessions among them | both conversions answer the calls of every history, the Anthropic one but for what it strips by an id that repeats; no Anthropic reply is without its call, and healthy histories are left alone |
| `session_file` | 1 worker, 2 messages, 3 rounds, 3 tool calls, compaction over 4 messages, a failing write | steers folded, context well formed, every message ends |
| `session_store` | 2 workers, 2 messages, 1 bot post or failing write, reads that fail, tools that end the turn | no steer stranded, no message lost or doubled but the one whose insert failed |
| `lease` | 2 replicas, 30 s / 10 s / 10 s in ticks of 2.5 s, stops within 5 s, clocks apart by a tick, 2 restarts, 2 failing calls | one adapter at a time as long as failures are affordable; a live row is taken from nobody; failover |
| `cron_pods` | 2 replicas, a one-shot job and one of an unknown type | the lock excludes; a one-shot fires once |
| `cron_live` | 1 replica that is restarted, a cron job on a channel, a crash, 2 statements that fail or are not answered, a toggle, a slow bus | sleeps no longer than it may, fires only what is due, gives up after three misses, a due job is pushed |
| `cron_expression` | 4-minute hours, 3-hour days, 5-day months; 252 expressions; polls late by 0, 1, 3, 10 or 50 half minutes | daily times are right; each minute that matches gets one run, and is passed over only by a poll that came later |
| `goal` | worker and page, 2 goals of budget 2 with calls of 0 or 1 token, bus of 2, 2 rounds, 3 messages, reads, statements and calls that fail or are not answered | the budget holds, a cleared goal stays cleared, a stopped goal runs dry |
| `delivery` | 2 replicas that poll a bot each, 2 bots with an agent each and one agent bound to every bot, a group post by a person or the first bot that mentions the second, a direct message and its edit, which has its id, a pairing code, channels of 1, 1 fault | an agent gets a post once per process; an accepted message gets its turn |
| `sandbox` | 2 callers, 2 sandboxes, 2 calls, 1 write, 1 request that fails or is not answered, 1 sandbox taken back, a reload | a call sees what the calls before it left; nothing leaks unknown; idle sandboxes go |

Why the bounds are enough. Two actors of each kind and one more message than they can
hold at once are what the races need: one task running, one in the channel, one blocked
sender; one turn in its loop and another starting while a third message is with the
router. Three misses, the limit of the scheduler, are reached by letting relative time
run on. The lease's timings are those of the code; one failed call of its two is
affordable, so both sides of that condition occur. The goal's budget is reached by two
calls, from two goroutines or one. Two copies of a group post, and the two copies of one
message id, meet on one replica or on two; repeats of a platform and a project's chat
are in the theorems only. One file and two versions of it are what a stale sync can
confuse. No bound cuts a case off silently: a counter at its bound disables only the
action that spends it (a fault, a crash, a toggle, a restart, a tool call).

Deadlock checking is off because each instance really stops: all tasks ended, all
messages answered, the process shut down, the calendar's horizon reached.

Fairness. `TaskQueue`: the Go scheduler runs every goroutine that can move (WF); a
blocked channel send is served in FIFO order, hence SF for taking a slot. `SessionTurn`:
WF of the router and of each worker; calls of models and tools have timeouts.
`ChannelLease`: WF of the runners of processes that run, and of time. `CronScheduler`:
WF of each replica's own steps, of restart and of time. `GoalLoop`: WF of the router,
the worker and the steps of a turn; nobody has to send anything. `Delivery`: WF of the
three goroutines of a replica; platforms need not repeat. `SandboxPool`: WF of time, SF
of the sweeper and of each call, since what waits for the pool's lock, a Go mutex, is
not starved. No failure, submission, message, toggle or restart beyond those is assumed
to happen.

## 4. Proofs

All theorems hold for every value of the constants under the assumptions the modules
name. Each has an inductive invariant, checked step by step.

- `TaskQueueProofs`. `TypeCorrect` from `Shape`, which adds how an instance, its channel
  and its worker's place go together. `SlotsNeverExceeded`: the semaphore counts the
  workers between `Start` and `Release`. `NeverSendsOnClosed` from `Sends`: the instance
  a submitter is about to send to is still mapped by its chat and has a fresh stamp,
  which keeps `Cleanup` away; time does not pass while a send is ready, and a full
  channel has a worker that will not let it be idle. `SerialWhileQuick`: of every
  execution in which no task keeps its worker busy beyond the idle limit (`Quick`), with
  any number of chats and slots, from `Served`: an instance that is not idle is never
  replaced then, so two running tasks of a chat would have one worker. Without `Quick`
  it is false (section 5). `QuickWhenSized` says that sizing alone can keep an execution
  quick: a slot for each chat and `TaskTimeout <= IdleTimeout` (`Sized`), as in the run.
  `QueueImplementsChatSerial` is the refinement, step by step, of every quick execution,
  from the same invariants: `Start` is the abstract `Begin`, `Finish` is `End`,
  `Abandon` is `Drop`, the part of `Submit` under the lock is `Accept`, and all else
  stutters. It needs one goroutine that submits, as in the gateway: two that block on
  one channel are served in the order of their sends, not of their `Submit`s.
  `NoTaskIsStranded` from `Placed`, for every sizing: a pending task is with one sender,
  at one position of one channel or with one worker, and a channel whose worker has gone
  is closed and empty.
- `SessionTurnProofs`. For any number of workers, messages and rounds:
  `NoSteerEverStranded` from `Handoff`: `turnDepth` is the number of workers between
  `BeginTurn` and `End`, and the buffer is empty at zero, because push and end decide
  under one lock. `TypeCorrect` from that and `Typed`, which adds what each place of a
  turn says of its round, its history and its steers. `EveryMessageOnce`, with sessions
  in the database, from `Once`: what a person sent is with the router, in the queue, in
  a turn about to append it, in the buffer, in the hands of one loop, refused or in the
  archive, in one of them and there once; a message whose own insert failed is in
  `unkept` instead of the archive, which the code only prints. In a file the working set
  is the only record, and what compaction cut off it is in none of these places. For one
  worker: `AnswerCoversSteers`, without cards, from `Folded`: a turn leaves its loop
  with an answer only when its last drain found nothing. `ContextStaysWellFormed`,
  without bot posts, from `Sound`: in a file always, in the database as long as each
  load puts back what memory holds (`ExactLoads`): each call of the working set is
  answered right behind it, or it is still to be answered, is in the turn's `todo` and
  has only tool messages behind it; call ids count up, so no later round reuses one;
  what compaction keeps starts at a message that is no reply. Section 5 has the
  counterexamples with two workers, cards, reloads and a bot post: each of these
  hypotheses is needed.
- `RequestWireProofs`. For histories of any length, with ids that repeat and messages of
  old sessions: `RequestsAnswer`, which excepts only a call whose id a stripped message
  declares too, `HealthyUntouched` and `NoStrayReply`, which leaves out the reply to a
  call of an old message. The conversions pick positions of a history and keep their
  order (`InOrder`); the lemmas count the positions kept up to one (`Rank`), so the
  message right after one that is kept, and the block an Anthropic reply goes into, are
  found without recursion. Section 5 has the counterexamples for both exceptions.
- `ChannelLeaseProofs`. `TypeCorrect`, and `OneClient`: with one runner per process
  (`Alone`), and as long as the failed calls are affordable, at most one adapter is
  connected. Each failed renewal costs one `RenewEvery` of the row's life, hence
  `Affordable`: `faults * RenewEvery + RenewEvery + StopWithin + Skew < TTL`. The
  invariant is `Affordable => Leased`: a process whose adapter runs holds the row
  (`Connected`), and its expiry is further away than what the failures so far, the
  renewal, the stop and the skew can use up (`Fresh`, `Kept`, `Stopping`). A failure
  never makes `Affordable` true again, so the implication is inductive. `NeverStolen`: a
  live row is taken from nobody, however many calls fail, from `Left`: a runner that
  leaves, which is when it releases the row late, has no adapter any more.
- `CronSchedulerProofs`. `TypeCorrect`, for any number of replicas. `LockExcludes`: with
  `Prompt` and no toggles, two replicas never work on one job; `Guarded` says that the
  replica that works on a job has its lock and the lock is not stale. `PushedOnce`:
  without faults and crashes either, a one-shot is pushed once; `Spent` says that the
  row of a pushed one is gone, or locked by the replica that is about to delete it, and
  ids are never used twice. For one replica: `FiredWhenDue`, whatever crashes, fails or
  is toggled, from `Fresh`: what is listed and not settled is due, and the copy a toggle
  holds of it says so too, because time brings the copy and the row closer alike.
  `GivenUpAfterMisses` and `WokenInTime`, undisturbed, from `Counted` (a row counts no
  more failures than there were misses, but between a delivery and its statement) and
  `Rested` (asleep and not notified, it sleeps past no row). That there is one replica
  is needed: section 5 has the counterexamples with two for the first and the second;
  and of two replicas, a new job wakes only the one it is created on. For expressions,
  `FiresOnTime` and `ServesEachMinuteOnce`, for every calendar, every expression and
  every lateness of a poll: the next run is in a later minute than the poll, the scan
  takes the first minute that matches (`NextFound`), so what is passed over lies before
  the poll, and an expression without a date has a match within two days
  (`WithinTwoDays`), which the scan's limit of 48 hours covers.
- `GoalLoopProofs`. `TypeCorrect` from `IInv`: where a goroutine is says what its
  message, round and copy can be (`Shaped`), and `turnDepth` counts the goroutines in a
  turn (`Counted`), so it never goes below zero. `BudgetHolds`: status and tokens are
  one write, so it is enough that the row and every copy afford their status
  (`AllAfford`); whoever overwrites whom, a state that afforded it is put back.
  `ClearedForGood`: ids are never used twice and each write names the id it read.
- `DeliveryProofs`. `TypeCorrect`, and `DeliveredOnce` from `Remembered`: what a process
  brought into a session has its key in that process's dedup map, and each copy of a
  person's post has the same key.
- `SandboxPoolProofs`. `TypeCorrect`, and `NoLeak` from `Names`: under the lock of Get
  one goroutine creates, and only when the map is empty (`Locked`), so putting an
  executor in forgets none; what recreate replaces is gone or was given up (`GivenUp`);
  while nothing overlapped, one goroutine is busy at a time (`Alone`) and works with the
  executor of the map (`InMap`), so what it recreates is the map's again. What a request
  whose answer was lost has made is in `stray` from that step on. `PastCallsSeen`,
  whatever the sizes and in a project or not, from `Fresh`: while no call overlapped and
  no transfer failed, the store has the current version or one of its size, unless the
  busy goroutine is about to save it, and the sandbox of the map has such a version, no
  file if it is a project's, or no workspace at all, in which case the call fails
  (`OnTrack`). Section 5 has the counterexamples to finding the last version itself
  (`SeesLatest`).

Every invariant and every action property of the runs, and the refinement of
`ChatSerial`, is stated by a theorem. Only model-checked: the liveness properties
(`EveryTaskEnds`, `EveryMessageEnds`, `Failover`, `DueJobServed`, `StoppedGoalRunsDry`,
`Reached`, `IdleReclaimed`), which are out of this prover's reach.

## 5. Where the code departs from its comments

None of these is a listed run: the listed properties except them or their instances
leave them out. Each can be seen by checking the property named on the instance named;
"as `x`" is the configuration of run `x` with the changes given.

| what the code does | property | how to see it |
|---|---|---|
| cleanup removes the queue of a chat whose task waited for a slot and is running; the next task starts on a second queue (`queue.go:237`, against 142) | `TaskQueue!SerialPerChat` | as `taskqueue` with three chats, `MaxTasks = 4`, `MaxConcurrent = 2`, `ChanCap = 2`, `IdleTimeout = TaskTimeout = 1`, `Retain = 4` |
| the OpenAI conversion drops only the replies right after the stripped message; later ones dangle (`openai.go:248`, against 103-105) | `OpenAINoDangling` | as `request_wire` |
| the Anthropic sweep drops the reply of another call with the same id (`anthropic.go:82`; ids repeat by `tool_recovery.go:138`) | `AnthropicAnswered` | as `request_wire` |
| a reload overwrites what was appended since its read (`manager.go:417`, against 475) | `NothingForgotten` | as `session_store` with one worker, no bot, no failing write |
| the padding of one turn answers running calls of another (`loop.go:3115`, against 3099-3101) | `AnsweredOnce` | as `session_file` with two workers, no compaction, no failing write |
| a turn that ends on a card does not drain (`loop.go:2969`, against 1982-1983) | `RoundSteersFolded` | as `session_file` with `Cards = TRUE`, no failing write |
| of two turns, the one that answers and ends last parks a steer that came while the other, which failed, was in its loop (`manager.go:569-599`, against `loop.go:1982-1983`) | `RoundSteersFolded` | as `session_file` with two workers, three messages, one round, one tool call, no compaction, no failing write |
| a reload between a call and its results drops the message that made the call (`manager.go:417`) | `ContextWellFormed` | as `session_store` with one worker, no bot, no cards, no failing write |
| a group post is appended between a call and its results (`InjectGroupMessage`) | `ContextWellFormed` | as `session_file` with a bot post; the conversions repair it |
| a replica that cannot renew keeps its adapter past the expiry (`lease.go:174`) | `SingleClient` without `Affordable` | as `lease`: its second failure |
| a second registration in one process shares the holder id (`channels/manager.go:139`) | `SingleClient` | as `lease` with a third runner whose `Home` is the first's |
| at shutdown the select may take a case that does not release (`lease.go:136`, against 60-61) | `ReleasedOnReturn` | as `lease` |
| a replica fires from a list read before another fired the job (`database.go:4736`) | `FiresWhenDue` | as `cron_live` with two replicas |
| three misses follow each other at once (`scheduler.go:257`, against 67-68) | `GracePeriod` | as `cron_live` |
| a delivery between the third miss and the delete does not save the job (`scheduler.go:267`) | `ReapedAfterMisses` | as `cron_live` with two replicas, no crash, fault or toggle |
| the toggle does not notify the poller (`handlers_cron.go:78`, against `scheduler.go:202`) | `SleepsUntilDue` without `Undisturbed` | as `cron_live` with `Direct = {j1}`, `Prompt = TRUE`, no crash or fault |
| with no match within 48 hours an expression fires hourly (`scheduler.go:560`, against 539-540) | `FiresOnMatch` | as `cron_expression` with weekly `Schedules` |
| PostTurn publishes the next prompt while its turn still counts as running; the router steers it into that turn, which parks it, and an active goal stands still (`loop.go:3185`, against `goal/goal.go:2-5`) | `ChainAlive` | `GoalLoop` with `Spec`, no page, no faults, `Budget = 3`, `Cost = 2`, `BusCap = 3`, `MaxSent = 1` |
| a group post is dropped as a copy of the one another bot got, though only this bot was mentioned (`dedup.go:48`, against `routing.go:518-520`) | `MentionAnswered` | as `delivery` |
| an edited direct message has the id of the message, and a press on a button that of the message it is on; within a minute it is dropped as a duplicate (`dedup.go:59`, `telegram.go:95`, 213-223, against 92) | `EachReached` | as `delivery` |
| a command that leaves a file of the same size is not synced (`lifecycle.go:212`) | `SeesLatest` | as `sandbox` with `Size <- Equal`, `MaxCalls = 3`, `MaxWrites = 2`, no faults |
| the files of a project's chat come back one directory deeper (`e2b_executor.go:224-246`, against `workspace_hydrate.go:12-15`) | `SeesLatest` | as `sandbox` with `InProject = TRUE`, no faults |
| a call that is under way at CloseAll makes a sandbox in the closed pool, which nobody sweeps (`lifecycle.go:272`, against 248) | `ClosedForGood` | as `sandbox` |

More of the kind that needs no run to see, in `SandboxPool`: recreate never destroys the
old sandbox, although its comment says so (`e2b_executor.go:126`), so a 502 or 404 for
another reason, a file that is not there among them, leaks one (`Glitch`); so does a
create whose answer is lost (`e2b_executor.go:82-108`, `CreateLost`); calls of one round
that find their sandbox gone each rebuild it; a call racing the eviction gets a sandbox
that is then destroyed (`lifecycle.go:148-150`); a call that waits for the lock while
its scope is swept makes one the sweeper does not know (`Create`). In `GoalLoop`: a
stale write undoes a pause or a completion; two goroutines may publish two chains or two
wrap-ups; the final delivery is not billed; a command sent during a turn is steered into
it as text. In `Delivery`: what a replica read and did not deliver when it crashed, and
what a failing XADD held, is lost; the target of a bot's mention gets the post twice, as
a note and as a turn (`routing.go:343-351`). In `RequestWire`: the reply to a call of an
old message goes to Anthropic without a `tool_use`, because the sweep takes it for
answered and the conversion has no block for it (`anthropic.go:158`,
`openai.go:256-284`).

## 6. Plan and what is not modelled

Next, in this order:

1. Trust in `SessionTurn`: BeginTurn and MarkTurnTrusted are two critical sections.
2. `RemoteAgents`: calls and replies of `internal/agl` over connections that break.
3. `ChatStream`: the events of a turn, a page that reconnects, the recovery by sequence
   number (`internal/setup/chat_stream_turn.go`).
4. Proofs: the part of the liveness arguments that is within reach, a measure that each
   fair step of a task, a message and a job brings down and no other raises.

Not modelled, and why:

- Store, web server, API, connectors, usage, accounts, configuration, skills, webhook
  and push: requests that read and write rows or files one at a time. Where a sequence
  of such statements matters (leases, jobs, goals, sessions) it is in a module.
- The Redis leaser (`internal/rediscoord/lease.go`), which the gateway takes for the
  loop of `ChannelLease` when it has a Redis URL: its contract is the row's, its clock
  the server's.
- Switching the provider of a running agent, and what the old one still answers.
- Channel adapters, provider transport, plugin and MCP hosts, runtime, command line,
  console: protocols of external programs; the modules have their outcomes.
- The docker and boxlite sandboxes mount the workspace or run locally; the flag
  `hydrated` of `lifecycle.go:278` matters only there.
- The outbound half of the bus, whose code is that of the inbound half; trimming of the
  streams at 10000 entries.
- Jobs that a configuration file used to keep in memory, which nothing creates now.
