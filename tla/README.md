# Channel Automation in TLA+

A verification project for the Mattermost plugin *Channel Automation*: TLA+
models of its server side, checked with TLC on small instances, and theorems
about them proved with TLAPS for every value of the constants. Every definition
is translated from the source; `PROJECT.json` ("map") gives the lines of each.

## 1. The system and its components

The plugin runs on every server node of a Mattermost cluster. Nodes share the
plugin KV store and nothing else; cluster mutexes serialise index updates.

```
 hooks (plugin.go) --> Dispatcher --Enqueue--> work queue store --ClaimNext--> worker pool
 cluster jobs --> ScheduleManager --Enqueue-->  (KV, 2 indexes)                 |  |  |
      ^                                                                         |  |  +-> notifier (DM, cooldown)
      | SyncAutomation                                     Save(disabled)       |  +----> execution history (KV)
 REST API (api.go) --Save/Delete--> automation store <--------------------------+-------> executor, actions, AI service
                                     (KV, 7 kinds of index)   Get
```

| Component | State it keeps | Operations | What makes it hard |
|---|---|---|---|
| Work queue store, `workqueue/store.go` | `wq:<id>` records; id lists `wq_pending`, `wq_running` | Enqueue, ClaimNext, Complete, Fail, ResetRunningToPending | one operation is several KV writes; records are written without the mutex; crashes between writes; another node resets while items run |
| Worker pool, `workqueue/worker.go` | semaphore, wake-up channel of capacity 1, stop channel, goroutines | Start, Stop, Notify, dispatchLoop, drainPending, runWorker | lost wake-ups, leaked slots, shutdown against a drain, panics, failing store calls |
| Dispatcher and triggers, `automation/dispatcher.go`, `trigger.go`, `trigger/` | none | Dispatch, FindMatchingAutomations, BuildTriggerData | reads an index and then records without the mutex, while they are rewritten |
| Automation store, `automation/store.go` | `automation:<id>` records; global, message, membership, channel, schedule, channel-created and team indexes | Save, SaveWithChannelLimit, Delete, lists | up to seven index writes per save; partial failure and retry; quota; stale copies |
| Automation API, `automation/api.go` | none | list, create, get, update, delete | reads the record long before it saves it |
| Schedule manager, `automation/schedule.go` | per node: automation to cluster job; shared: when each automation last ran | Start, Stop, SyncAutomation, RemoveAutomation, fireSchedule, wait function | jobs are started and closed outside the map's mutex; only the node of a request is told; workers disable without telling; several nodes' jobs share one clock |
| Life cycle, `plugin.go` | the above | OnActivate, OnDeactivate, hooks | restarts of one node while others work |
| Execution history, `execution/` | `xh:` records, global and per-automation index | Save, Get, lists, PurgeAutomation | caps, expiry, lazy pruning, purge against save |
| Creator notifier, `automation/notifier/` | cooldown keys with expiry | NotifyFailure, NotifyDisabled | claim and release of a key that may have expired |
| Permissions and guardrails, `permissions/` | none | CheckAutomationPermissions, CanEdit/View, CheckGuardrailsRequired | denial against transient error |
| Executor and actions, `executor.go`, `action/`, `model/context.go` | run context, typing goroutine of a prompt | Execute, send message, AI prompt, thread snapshot | order and error path of the actions; a goroutine that must end with its prompt |
| Tool hooks, `hooks/` | none | before-hook of the AI service's tools | decision tables over channels |
| Validation, `model/validate.go`, `validator.go` | none | ValidateTrigger, ValidateActions, ... | many small rules |
| Command, instructions, helpers, web application, build | none | | left out: no state of the server |

What each must guarantee:

* **Queue**: a queued item is executed, one worker at a time, in order; a restart
  finds what was interrupted; nothing is lost or repeated.
* **Pool**: bounded concurrency, no leaked slot, no lost wake-up, an orderly
  stop, and every outcome reported.
* **Automation store**: indexes agree with records, the channel quota holds,
  a stale writer undoes nothing.
* **Schedule manager**: the running jobs are those the stored automations ask for.
* **Schedule clock**: a run per interval in the whole cluster, no sooner and no later.
* **Dispatcher**: an automation that listens to an event gets its item, nobody else.
* **History**: one record per execution, found as long as it lives, none left after a purge.
* **Notifier**: at most one message per cooldown window, and silence only where
  there was one; what a message says is true.
* **Executor**: partial outputs tell what was posted; typing ends with the prompt.
* **Checks, executor and tool hooks**: nothing runs that its creator was not
  entitled to, no access is borrowed, guardrails confine the tools; and what was
  accepted is not turned off without a reason.

`PROJECT.json` ("hazards") lists what is hard to test, with its line and the
properties that watch it.

## 2. Plan

Modules are written in the order in which they carry the system's promises.

| # | Modules | State |
|---|---|---|
| 1 | `JobQueue` (abstract queue), `WorkQueue` (KV level), refinement, proofs | done |
| 2 | `WorkerPool` on top of `JobQueue`, liveness, proofs | done |
| 3 | `AutomationStore` with its writers, proofs | done |
| 4 | `ScheduleManager` on several nodes, proofs | done |
| 5 | `History`: saves, lists with lazy pruning, purge, expiry, proofs with `Delivery` | done |
| 6 | `RunGate`: permissions, guardrails, validation, matching, executor and tool hooks around one automation, proofs | done |
| 7 | `Notifier`: cooldown claims with expiry on several nodes, disabling and re-enabling, liveness, proofs | done |
| 8 | `Triggers`: event matching over the indexes of `AutomationStore`, read without the mutex, proofs | done |
| 9 | `ScheduleClock`: when the jobs of several nodes fire, liveness, proofs | done |
| 10 | `Executor`: outputs, errors and the typing goroutine, proofs | done |
| 11 | `ThreadSnapshot`: order and cut of a thread, names of its authors, proofs with `Delivery` | done |
| 12 | `Delivery`: `ThreadSnapshot` and `Executor` composed, from an event to the end of its execution, liveness, proofs | done |

Every safety invariant and action property that the passing runs check is also proved
(section 5); what is left to the runs alone is liveness.

## 3. The modules and the code

Common conventions. A KV call that writes is one step; a failing call may or may
not have taken effect. A step that happens while a mutex is held excludes others
that need it. A message, automation or item is a model value; wording, logging
and payloads are left out. Operators marked `MUTANT` are plausible bugs that
show a property can fail; nothing but `PROJECT.json` uses them.

### JobQueue and WorkQueue

`JobQueue` is the abstract specification: jobs in line, started in order, worked
on by one worker, finished by it; a *mishap* (failing call, crash) may orphan or
lose a job, and a restart puts orphans back in line, behind the others. What a mishap
may do to the line is bounded: it lists the waiting jobs, each once (`InLineOnce`), and
jobs that stay waiting stay in their order (`Ahead`); a claim that is rolled back keeps
its place. A worker may finish its job once more when it panics
after the first time (`FinishAgain`).

`WorkQueue` is `workqueue/store.go` with its callers. `record[i]` is the key
`wq:<i>`, `pending` and `running` the index keys; `owner`, `stage`, `cur`, `todo`
and `moved` are the locals of the operation that holds `wq_index_mutex`. ClaimNext
is `ClaimPop`, `ClaimGet`, `ClaimMark`, `ClaimIndex`, and on failure
`ClaimUndoRecord` and `ClaimUndoIndex`; Enqueue is `EnqueueSave` (without the
mutex) and `EnqueueIndex`; Complete and Fail are `FinishDelete` and
`FinishUnindex`. A worker has its item until it returns, after the reports on the run
(`WorkerEnds`); when it panics there, the recovery of runWorker calls Fail a second
time (`FailAgain`), which on one node finds the record gone unless the first call
failed. The reset is `ResetBegin` to `ResetRequeue`. Reading an index is part of the
step after it, since only the mutex holder touches it. The module ends with the refinement mapping `Jobs == INSTANCE JobQueue WITH ...`: the abstract
line (`Line`) is the item being claimed, if any, and then the pending index; the
phase of an item (`Phase`) is told by its record, so that an item is done when the
record is deleted. `QueueInv` and `ForgetInv` are the inductive invariants of
section 5, with their parts.

### WorkerPool

`WorkerPool` extends `JobQueue` and adds one node's goroutines: the dispatcher's
position `dpc`, the semaphore `slots`, the wake-up token `notify`, `stop`, and for
each item the step of its worker. `SelectStop`/`SelectSlot` and `WaitNotify`/
`WaitTick`/`WaitStop` are the two `select` statements; when both cases are ready,
either is taken. `Load`, `Check`, `Execute`, `Settle`, `Record`, `Tell` and `Panic`
are runWorker in the order of the code (a denial is recorded and then notified, a
failed action notified and then recorded). What a worker finds is a free choice.
`recorded` and `told` are what the creator sees of an outcome; `unheard` counts the runs
that end where the code reports nothing, in a panic or on an automation that cannot be
read (`Mute`). `Reported` owes these a record too, and a panic a notice as well, so that
`LossesAreBounded` counts them as the losses they are, each as one.
A failing store call is a mishap of `JobQueue`, as `WorkQueue` refines to it; a panic
after the item has left the queue is `FinishAgain`. So the pool takes no step on the
jobs that the abstract queue does not have, which is proved (`PoolTakesQueueSteps`).

### AutomationStore

`record` and `index` are the KV keys. A caller first reads a record without the
mutex (`Create`, `Update`, `Delete`, `Disable`), later takes the mutex
(`Acquire`, or `TurnAway` when the quota is reached), writes the record
(`WriteRecord`) and then each index whose entry changes, kind by kind, removal
before addition (`WriteIndex`). `Edits(a, b)` is the difference that
saveLocked derives from old and new record, including its choice to rewrite
message, membership and team entries always and the others only on change;
`snap` is the copy of the channel index that SaveWithChannelLimit appends to.

### ScheduleManager

Per node the map `jobs`, the running jobs `live`, and what Start has listed.
`Save` is the store's save as one step; `Sync` decides as SyncAutomation does;
`StopJob`/`CloseJob` and `StartJob`/`RegisterJob` are the two halves of stopJob and
startJob, inside and outside the map's mutex. `Stop` and `Exit` may overlap with
calls under way. `strayed` is a history variable: the pairs of node and
automation for which the node was not told of everything (a request on another
node, a disabling, a failure, two overlapping requests).

### Triggers

`Triggers` extends `AutomationStore` and leaves its steps as they are: a hook reads
the index of its event (`ListCandidates`), then the listed records one after the
other (`LoadCandidate`), and queues an item per match (`Enqueue`), without the mutex
and between any two writes of a save. Any call of the hook may fail: before the first
item that gives the event up (`Drop`), afterwards only the item. The filters for
replies, joining or leaving and guests are one set in the trigger, `only`: the sorts
of event it lets through. `seen` and `missed` are history variables: who listened at
some time of the dispatch, who did all the time without being saved, and who of
those got no item. What becomes of the items is `WorkerPool`, `RunGate` and
`Delivery`.

### ScheduleClock

The wait function of `schedule.go`, `Wait`, in the loop of the cluster package, which
is external and modelled as the code relies on it: a job sleeps for what the
function says of its start or its last run; then, under the mutex of its key and
with the shared metadata, it asks again (`Wake`), fires (`Fire`), and notes the run
down (`Save`). Times are kept relative to now and cut at the longest interval.
`quiet` is a history variable: the time since a job last fired, whatever the
metadata say; `unsaved` that a run was not noted down.

### History

`rec` and `idx` are the keys `xh:<id>`, `xhi:<automation>` and `xh_index`, with
the ticks they have left to live: `Expire` is the expiry of the KV store. `run[p]`
is what a process is doing and its locals, one step per KV call; reading an index
under the mutex and taking the mutex are one step (`Enter`), writing it and
letting go another. Save is `SaveRecord`, then `PrependRead`/`PrependWrite` for
each index (the second also when the first failed); PurgeAutomation is
`PurgeRead`, `PurgeRecord` per id, `PurgeStripRead`/`PurgeStripWrite` and
`PurgeIndex`; a list is `ListRead`, `ListGet` per id, `PruneRead`/`PruneWrite`.
`Without` keeps the ids that the code's filter loops keep, each in the place that
counting the kept ones before it gives: a form the prover can reason about.

`log`, `saves`, `purges`, `wiped` and `clean` are history variables, `alone` tells a
purge that no save of the automation has overlapped. The properties have two exceptions.
An id may be saved twice, as an item is executed again when it could not be taken off
the queue; the properties then speak of the other ids (`Once`). And an automation may
be purged twice, by two deletes at a time: when a save overlaps the first purge, its
record may outlive the index that listed it, and the second purge, which finds no
index, leaves the record until it expires. So `PurgesAreThorough` is about first
purges, and what is promised of an automation's own index ends with its first purge
(`Plain`, and the condition of `LivingRecordsAreListed`).

### RunGate

One automation and the state of the Mattermost server: memberships, roles,
accounts (`world`). `Create`, `Update` and `Delete` are the handlers with all
their checks, translated as operators (`MayManage` is CheckAutomationPermissions,
`LacksGuardrails` is CheckGuardrailsRequired, and so on). The events of
`plugin.go` and `fireSchedule` queue an item; `Load`, `CheckCreator`,
`CheckPermissions`, `CheckGuardrails` and `Disable` are runWorker before the
execution, on the copy that `Load` took; `SendMessage`, `StartPrompt` and
`FinishPrompt` are the actions; `UseTool` is a tool use of the agent and the
decision of handleBefore, and `Answer` its end, which nothing interrupts. A check
is one step on one state of the world, however many API calls it makes, and the
world may change between any two steps. A check that needs an answer of the
server may fail for want of one, which ends the item and leaves the automation on. The
look-ups of roles in CheckAutomationPermissions (`check.go:26,42,75,112`) are different: they answer
with a boolean, so that one that fails reads as "no", and may turn the automation off
(`MisreadRoles`, with `Roleless` for the answers; `misread` remembers it). A fault stands
for any number of failing calls of one check. Answers with a status below 500 are
answers, here as in the code. A look-up that fails in a request handler only refuses the
request, which the model covers by a request that is not made.

`seen` collects what stood against the run in each state of the world since the
automation was loaded, `old` marks items queued before the last save, `fresh` a
world unchanged since then. An old item is executed by the code with the trigger
data of the earlier configuration, so `PromptsBorrowNothing` promises less for it.

Abstractions: one tool stands for each sort in the catalog; an automation names a
channel, or "trigger" for a template; bots and deleted accounts have no session;
channels and teams are never deleted, so lookups do not come back empty. Names,
intervals, the thread, join/leave and user-type filters are left out: fewer events
match than the model allows.

### Notifier

The cooldown keys of one automation, one for failures and one for disablings (`Slot`),
with the ticks they have left; `Claim`, `Open`, `Post` and `Release` are the calls of
NotifyFailure and NotifyDisabled, any of which may fail before or after it took
effect. `TurnOff` is disableAutomation, `BeginUpdate` and `EndUpdate` an update request
as far as it decides about `enabled`. What a notice means is kept in `promised` (the
creator believes the automation off) and `due` (it is off and he was not told);
`overtaken` and `repeated` remember the two ways in which a notice may be untrue or
missing without a failure. `mine` is what is left of a worker's own claim, `recent` of
the claim under which the latest notice was sent (the longest, if several were), also
by a post that was made though CreatePost failed (`sent`). A release may delete the claim
of another, or its own after such a post: `bared` is what was left of the claim it struck,
and runs out with it.

### Executor, ThreadSnapshot and Delivery

`Executor` is one execution: `Settle` is what the loop of Execute does with the outcome
of an action, `SendMessage` and `Refuse` are single steps, a prompt is `StartPrompt`,
`Respond`, `Cancel` and `Join`. The typing goroutine is `SelectDone`, `SelectTick`,
`Recheck` and `Publish`; its ticker may tick at any moment. An error and a panic of the
AI call leave by the deferred stopTyping as the answer does. `late` counts
publications after the cancellation.

`ThreadSnapshot` is NewSafeThread: `Arrange` sorts and cuts, `Name` takes the next
message and looks its author up, through the cache. Post ids are numbers because the
sort compares them; the root is any post that is not later than the others.

`Delivery` composes the two: an event builds its trigger data in the hook, with a
snapshot of the thread for a reply (`BuildThread`) or without it, is queued, and is
executed on the automation as it is when a worker loads it (`LoadAutomation`), which
need not be the one that matched. What `RunGate` decides in between is a free choice
here.

## 4. The runs

| Run | Expected | What it shows |
|---|---|---|
| `WorkQueue_single` | pass | 3 items, 1 node, 2 slots, 2 failing calls, 2 crashes: no repeated id, one worker per item, an executing item always recoverable; implements `JobQueue`, so that only failures and crashes drop an item |
| `WorkQueue_cluster` | pass | 2 items, 2 nodes: resets of items in use repeat no id; without failure nothing is lost |
| `WorkQueue_crash` | violation | README of the plugin, line 14, "durably queued ... automatic crash recovery": a crash inside ClaimNext loses the item |
| `WorkerPool` | pass | 3 items, 2 workers, 1 mishap, 1 shutdown: slots balanced on every path, quiet after stop, no lost wake-up; a mishap costs at most one report per worker, a panic or an unreadable automation that of its own item, nothing else costs any |
| `WorkerPool_live` | pass | 2 items, 1 worker, 2 mishaps: waiting items are served, Stop returns |
| `Triggers` | pass | 2 automations, 2 callers, quota 1, 1 hook, 1 failing call of a save, any of the hook: indexes match records, the quota holds against concurrent requests, an automation left alone gets its item, nobody else gets one |
| `ScheduleManager` | pass | 1 automation, 2 schedules, 2 nodes, 2 calls, 1 failing call: entries are live, told nodes run what the record says |
| `ScheduleClock` | pass | 2 nodes, intervals up to 3 ticks, start_at up to 2 ahead, 2 updates, 2 failures or crashes: runs keep their distance, none is skipped, a node that stays keeps the schedule going |
| `RunGate` | pass | 3 users, 3 channels, 8 drafts, 1 item, 2 saves, 1 change of the world, 1 failing check or save: runs are entitled, disabling has a reason (or a look-up of roles that failed), accepted saves run, prompts borrow nothing, tool uses are confined and served |
| `History` | pass | 2 processes, 3 ids of 2 automations, caps 1 and 2, life of 2 ticks, 1 purge, 1 list at a time, 1 mishap: indexes are in order and in size, living records are listed, lists show the newest, first purges are thorough |
| `Notifier` | pass | 2 workers, 1 request at a time, a window of 2 ticks, 1 failure or crash: of the notices posted under a live claim one per window, but in what is left of a claim that a release struck; silence has a reason, notices are true, disablings are told, and who goes on failing is reported again and again |
| `Delivery` | pass | 6 kinds of trigger, threads of up to 5 posts at 3 times of which 2 replies are kept, every list of up to 3 actions: snapshots are in order, cut to the recent and name an author once; typing ends with the prompt, as the bot that posts; outputs tell of every message; every event comes to an end |

**Bounds.** Three items and two slots let two items run while a third waits and
is overtaken or recovered; one failing call breaks any operation at any write and
a second one breaks its roll-back or the reset after it; two crashes allow a
crash during recovery from the first. Two nodes, callers or automations are
enough for every pairwise interleaving: the conditions relate at most two of
each. In `ScheduleManager` automations only meet through whole-map operations, so
one automation with two schedules covers the sequences, and the proof covers any
number. `Serials` only tells two live jobs of one automation on one node apart:
a third start waits, which cuts off behaviours with more leaked jobs.
`Triggers` allows deadlock because its supply of fresh ids ends, `Delivery` because an
execution does,
`RunGate` and `History` because their supplies of saves, changes and ticks do.
In `RunGate` one item is enough: items share nothing but the record, which a save
in between changes just as another item's disabling does; two saves are needed
to change an automation under a queued or executing item. In `History` the caps
are small so that three ids overflow them, and a life of two ticks lets an index
and its records age apart; only one id, `Repeated`, may be saved again, and doing
so uses the mishap up.
In `Triggers` one hook and two callers are enough for every order of two saves' writes and
a dispatch's reads, which share no lock; two automations let one be disturbed or
fail while the other is not. One trigger has a quota, the other has none, so that
two automations can listen at once. In `ScheduleClock` two nodes are a job that
fires and one that must not, and three ticks are an interval with a time inside it. In
`Notifier` two workers and one fault suffice for a claim against a release or an expiry,
for the second notice that follows (a worker that is done comes back as the third), and
for each exception of `OneNoticePerWindow`: without any one of them the run fails. The
proof covers any number of workers and
faults. In `Delivery` three actions put a message before, after and between prompts,
and five posts with two replies kept are a thread that is cut by two.
Symmetry sets contain only interchangeable values and are used for safety runs
only.

**Fairness.** `WorkerPool` assumes weak fairness of the dispatcher and of each
worker: the Go scheduler runs what can run, the ticker of `dispatchLoop` ticks
every 30 seconds, and every action call returns (the AI request has a timeout).
Strong fairness is assumed for the stop case of the dispatcher's `select` alone:
a closed channel stays ready and `select` chooses at random, so it is taken
eventually. Nothing is assumed about hooks, crashes, shutdowns or restarts;
`WaitingIsServed` is therefore stated up to the end of the pool.
`Notifier` assumes that time passes and that workers under way go on; runs and
requests may stop for ever, and `NoticesResume` only speaks of failures that keep
coming. `ScheduleClock` assumes weak fairness of each living job's loop, and strong
fairness of time, since nodes that restart over and over interrupt the clock of the
model, not that of the world. `Delivery` assumes that the hook, the worker and the
goroutine are scheduled and that calls return; nothing about the ticker, so a goroutine
whose ticker is always due must still see the cancellation: its second look does.

**What the properties leave out, on purpose.** Some texts of the repository promise more
than the code does. `WorkQueue_crash` shows one such case; the others are excepted in
the properties, each by a named variable or condition, so that the rest can be
checked:

* "atomically drain running and prepend to pending" (`store.go:186-187`): the ids of the
  running index are appended behind those that wait (`store.go:227`), so recovered items
  are executed last. `Recover` in `JobQueue` says what the code does.
* A node that activates resets the running index of the whole cluster
  (`plugin.go:113`), which it reports as "orphaned work items": items that workers
  of other nodes execute run twice. `WorkQueue_cluster` claims only that ids are
  neither repeated nor lost.
* "reconciles every secondary index" (`store.go:166-168`): index updates are the
  difference between the stored record and the new one, so a save after one that
  failed between record and indexes repairs nothing. `IndexesMatchRecords` speaks of
  stores without failures; `OnlyListenersRun` holds after them too.
* "rate-limited to once per hour per automation" (`README.md:15`): the hour is that of a
  claim, not of a message, which may be posted late in it and be followed by the next soon
  after. Even so there are three ways to a second message within the hour: a worker whose
  own claim expired before CreatePost posts anyway, whoever holds the key by then
  (`notifier.go:84-121`); a release deletes the key that another has claimed since
  (`notifier/store.go:53-59`); a release follows a post that was made although CreatePost
  failed. `OneNoticePerWindow` says nothing of the first kind of message (`mine` is 0) and
  bounds the damage of the other two by what was left of the claim (`bared`).
* "leave the automation enabled" on a "transient API error" (`worker.go:214`): a failing
  look-up of a role is no error in the code but the answer "no" (`check.go:28-30` says so of
  one of them), and the automation is disabled (`worker.go:231-233`).
  `DisablingHasReason` and `AcceptedSavesRun` except it as `misread`.
* "a queued event that resolves to another user is rejected ... (without disabling the
  automation)" (`docs/api.md:580`): the worker checks first, takes this for missing
  guardrails, and disables (`worker.go:236-267`, whose comment says so). `RunGate`
  follows the code: `LacksGuardrails` includes `Foreign`, and counts as a reason.
* A run that panics, or whose automation cannot be read, leaves the queue for good with no
  record and no notice (`worker.go:131-161`), although a message to the creator is announced
  for every action that fails (`README.md:15`). `LossesAreBounded` counts it (`unheard`).
* "all enabled automations whose trigger matches" (`trigger.go:20-22`): a save removes the
  index entry and adds it back, and an event in between misses the automation being
  saved. `SteadyListenersRun` is about those that are not.
* "updates the schedule job" (`schedule.go:93`): a worker's disabling stops no job, so
  that the next update starts a second one beside it, and an update is not told to
  other nodes, whose jobs keep the former interval (`docs/api.md:604`). `strayed` in
  `ScheduleManager` marks these; `RunsAreSpaced` speaks of each job's own interval.
* "The first execution is scheduled at that time" (`docs/api.md:606`, of `start_at`): the
  interval since the last run of the former schedule may defer it further
  (`schedule.go:223`). `RunsAreOnTime` counts from that run.
* "will not run again until you review and re-enable it" (`notifier.go:237`): an update
  that read the record before the disabling saves it as enabled (`overtaken`).
* "DMs the automation creator when the system turns their automation off"
  (`notifier.go:131`): a second disabling within the hour is silent, although the
  automation was turned on in between (`repeated`).
* The typing indicator (`docs/api.md:663`) is shown as the bot of the next message rather
  than the channel-automation bot, in the thread of a root post too when that message is
  a reply, and for schedules, whose data carry a channel. `TypistPosts` follows the
  comment in the code.
* "the root post (Messages[0]) is preserved" (`context.go:50-52`): a reply of the root's
  millisecond with a smaller id takes its place. `KeepsTheRecent` excepts equal
  times.

## 5. What is proved

All proofs are for any number of nodes, items, slots, callers, automations and
failures; the assumptions are the named ones of the modules (the bounds are
numbers, index sizes and lives positive, `None` is no item or record, item sets are
finite, triggers are typed).
Each proof has the same shape: an inductive invariant, a lemma per action that
keeps it, and the temporal step.

* `WorkQueue_proofs`: `IndexInvHolds` on any number of nodes. "No repeats" alone
  is not inductive: an enqueue could append an id that a reset just put back, so
  `FreshInv` says an id not yet queued is nowhere, and `ClaimInv` that an item
  being claimed has left the pending index. `TypeCorrect` and `PendingNeverRepeats`
  follow. `UndisturbedQueuesForgetNothing`, for any number of nodes too, rests on
  `ForgetInv`: as long as nothing failed, the running index only lists items that are
  claimed, executed, waiting again, or finished, and a reset carries every other one over.
  `SingleNodeHolds` adds `WorkerInv`: on one node a worker's item is neither waiting
  nor being claimed, and a reset only runs when there are no workers.
* The refinement, in the same module: `QueueImplementsJobQueue`, for one node, any
  number of slots, items, failures and crashes. It needs `QueueInv`: an id in line has its
  record (`LineRecorded`), what a finishing worker has left behind is known
  (`FinishingInv`), and a reset carries all that the running index lists with a record
  (`ResetInv`). Each action is then a step of `JobQueue` or leaves its variables alone. The
  de-duplication at the end of the reset is the hard case: the ids that waited keep their
  places and the recovered ones follow, each once, which is shown by counting the places
  before an id (`PlaceFacts`), without induction.
* `WorkerPool_proofs`: `PoolInvHolds`. The semaphore count (`SlotsAccounted`)
  needs `LineInv` (a waiting item has no worker, so a claim adds one) and
  `ShutdownInv` (only the shutdown loop fills slots). `NoSlotLeaks`,
  `ConcurrencyIsBounded` and `StoppedIsQuiet` follow. `WakeupsAreNotLost` is inductive
  on top of it: the token is sent after the item is in line and taken before the dispatcher
  looks. `LossesStayBounded` counts the items whose outcome went astray (`ReportInv`): a
  mishap adds at most one per worker, a panic or an unreadable automation its own item,
  and no other step adds any. `PoolTakesQueueSteps` shows that every behaviour of
  the pool is one of `JobQueue`'s (`WaitingInLine` says that who waits is in line), so
  that the pool stands on the store by two theorems.
* `Triggers_proofs`, the store: `StoreInvHolds`. `LockInv` says that the holder's
  copies are still what the store holds, `EntriesInv` that an index entry follows
  the old record until its turn comes and the new one afterwards. From it
  `IndexesAlwaysMatch` and `QuotaIsGuarded`, which counts the channel through the
  index copy.
* `Triggers_proofs`, the dispatch: `HooksOnlyRead` (every behaviour with hooks is one of
  the store, so its theorems hold under them), and `DispatchInvHolds`: who listened
  undisturbed so far still does, and is listed, found or served (`SteadyInv`).
  `SteadyListenersAlwaysRun` and `OnlyListenersEverRun` follow.
* `ScheduleManager_proofs`: `SchedInvHolds`. Entries being live is not inductive:
  `HeldInv` says that a job a call is about to close or register is in no map and
  in no other call's hands. `EntriesAlwaysLive` follows. `JobsAlwaysFollow` needs
  `FollowInv`: on a node that was told of everything a call on an automation is the only
  one, and the node is settled as before it, or the call holds just what is missing
  (`Between`); a node that starts has no job of what it has yet to start (`Prepared`).
* `Notifier_proofs`: `NoticeInvHolds`. That no two notices share a window needs
  `ClaimsAreKeys`: a claim that outlives all that releases have struck (`bared`) is the
  key, is the only such claim, and no notice was sent under it unless its worker is about
  to give it up; every other claim, and every window, ends with what was struck.
  `WindowsAreKept` follows at once, and `SilenceIsJustified` with an induction of its own:
  a key that is there belongs to a claim, a notice sent or a loss. `NoticeStaysTrue` and
  `DisablingReachesCreator` follow from `TellInv`: while a worker is about to say that the
  automation is off, it is, and a request that would turn it on unasked counts as late.
* `ScheduleClock_proofs`: `ClockInvHolds`. That runs are spaced needs that the
  metadata are never younger than the last run (`MetadataTellRuns`) and that what a
  job found out still holds when it fires, as one job runs at a time; that they are
  on time needs a bound on every sleeper's wait (`WakesInTime`).
  `RunsKeepTheirDistance` and `RunsComeInTime` are action properties proved from it.
* `RunGate_proofs`: `GateInvHolds`, for any users, channels, drafts, items and changes of
  the world. `SeenInv` ties what the worker checks to what it saw: what stands against
  the run now has been seen since it was loaded, and what a check let pass was once in
  order; the one exception is a denial for look-ups of roles that failed (`MisreadKeeps`).
  `FitInv` says that an item no save has overtaken fits the stored automation,
  `PromptInv` and `CallInv` in whose name a prompt runs and a tool is used. From them
  `RunsAlwaysEntitled`, `DisablingsHaveReason`, `AcceptedSavesAlwaysRun`,
  `PromptsNeverBorrow`, `UsesAlwaysConfined` and `UsesAlwaysServed`.
* `Execution_proofs`, one execution: `ExecutorInvHolds`, `NothingTypesAfterwards` and
  `StoppingWins`, from `CancelInv`, which ties the context of the goroutine to the place
  of the action; `OutputsAlwaysTell`; and `TypistAlwaysPosts`, by the fact that typing
  was shown as the author of the nearest message behind the prompt, for automations of
  any length.
* `Execution_proofs`, the composition: the same three results for `DeliverySpec`. Until
  the worker has loaded the automation the execution is in an initial state of
  `Executor`, whatever the automation and its trigger data will be (`NotBegunYet`); from
  then on every step is one of `Executor` or leaves it alone.
* `Execution_proofs`, the snapshot: `SnapshotsKeepTheRecent` and `NamesAlwaysAgree`, for
  threads and limits of any size, from `SnapshotInv`: messages and what is left to name
  make up the cut of the sorted thread, and every author asked for is in the cache. The
  order is stated by rank (`Rank`, the number of posts before one), so that the sort is a
  bijection by counting.
* `Execution_proofs`, the history: `FullInvHolds`, for any workers, requests, records,
  purges and lists, any limits, and failures and crashes at any step. The four invariants
  of the run are not inductive, and each needs what the others say of the steps between:
  - `LogInv`: an id saved once is in a log once, and not before its save has put it there;
    so a place in a log is a fact about an id, which the other parts compare.
  - `IndexInv`: an index, and the copy that a critical section holds, is a subsequence of
    its log within its size; no index expires before what it lists; and the copy is the
    index, unless that has expired or was purged under the mutex holder.
  - `DropInv`: what a purge or a list is about to remove is gone, or about to go.
  - `PurgeInv`: what a lone first purge has behind it, and that no copy of the global
    index and no save under way can bring back what it removed (`Stripped`).
  - `ListInv`: what a request should be shown and has not been is ahead in its copy, and
    no record that is alive and not wanted comes before a wanted one.

  `Onward` is what every step, whoever takes it, leaves true: a log only grows, a
  record saved once only ages, a purge is not undone. With it each part is shown for
  the process that moves and for the others (`Stays`). The lemmas about sequences carry
  the rest: filtering, cutting and prepending keep a subsequence (`WithoutFacts`,
  `SubNewest`, `SubPrepend`), an id stands in a subsequence no later than in the
  whole (`SubPlace`), and filtering is a bijection by counting (`Ranks`). From
  `FullInv` follow `HistoryIsSound`, `NoLivingRecordIsLost`, `FirstPurgesAreThorough` and
  `RequestsSeeTheNewest`.

Only model-checked: liveness (the prover treats neither fairness with `ENABLED` nor
leads-to). The inductive invariants that the proofs use
and no run lists (`StoreInv`, `ClockInv`, `NoticeInv`, `QueueInv`, `FollowInv`, `FullInv` and so on)
were checked by TLC on the instances of the runs before they were proved.

## 6. What is not modelled

* The content of messages and templates, the AI service and the HTTP layer: free
  choices or left out.
* The permission checks of the execution API, and list and get of the automation
  API: they change nothing.
* A cluster mutex that expires under a live holder, and KV reads that return stale
  data: the models take the mutex and the store at their word, except that a
  crash frees the mutex.
* The cluster package: its jobs and mutexes are modelled as the code uses them
  (`ScheduleClock`, the mutex of every store), not from its source.
* Rules about a single text or number of an automation (names, slugs, the format of
  an interval), the configuration and the routing of requests: they keep no state
  and relate none.
* The web application, build tools, instructions text and the command stub.

## 7. Running

    tlc -workers 2 -config WorkQueue_single.cfg MCWorkQueue
    tlapm WorkQueue_proofs.tla

Each `X.cfg` belongs to the module that `PROJECT.json` ("runs") names.
