# LeastAction: a TLA+ model of the workflow platform

LeastAction is a workflow platform: users keep tasks, workflows, connections
and projects as items of a catalog in MongoDB, a cron per project finds the
tasks that are due, a queue per connection bounds how many run at a time, and
Celery workers execute them with an operator (Python code kept in the catalog).
A React front end shows the catalog and edits it. This directory models what in
that program depends on who does what when: the connection queue, the cron and
the execution of a task, each in a module with its own runs and proofs; the
catalog tree, edits of its items, actions, licence seats, access control, the
deployment script and the setup it runs; and the parts of the front end that
hold state of their own between requests.

Paths below are relative to `backend/src/core/` unless they start elsewhere.

## 1. The system

### Components, their state and their operations

| Component | Code | State it keeps | Operations |
|---|---|---|---|
| Connection queue | `task/connection/` | one `connection_queue` document per waiting or running task; per connection `max_parallelism`, `current_parallelism`, `in_queue` | `load_balance_tasks` (filter, enqueue, snapshot, pop), `dequeue_task` |
| Task manager and pipeline | `task/task_manager.py`, `task/celery_orchestrator.py` | none | validate, pre-actions, hand to the queue, send to Celery |
| Cron | `cron/` | `folder_metadata.cron_status` and `latest_heartbeat` of the project; two or three coroutines per executor | `start_cron`, `stop_cron`, `CronExecutor.run`, heartbeat, work and cleanup loops |
| Task worker | `celery/executors/task_executor.py`, `celery/registry/tasks.py` | the coroutine's own; the task document's `state`, `latest_heartbeat`, `executor`, `retry_number`, dates | `execute_task`: first update, load, poll loop, final update, finish, post-actions |
| Requests on tasks | `catalog/orchestrator.py`, `catalog/service.py` | `state`, `user_set_state` of the task | run, run multiple, cancel, finish, `dangerously_reset_task` |
| Ready-to-run query | `catalog/item/repo.py` | none | `get_tasks_ready_to_run` |
| Workers' API client | `celery/client.py` | none | requests with time-outs and retries |
| Document locks, transactions | `backend/src/common/mutex.py`, `db/transaction.py` | Redis locks that expire; one MongoDB session per context | `lock_multiple_docs`, `lock_pk`, `transactional` |
| Catalog tree | `catalog/` | items, links, revisions, the trash | create or update, link, delete, delete for good, restore |
| Action worker | `celery/executors/action_executor.py`, `task/action/` | `actions_status` of the task | pre-, running and post-actions |
| Access control | `db/change_streams/`, `ee/keto/` | Keto tuples derived from items, links and users; a Redis stream | the watcher, the writer |
| Licences | `ee/license/`, `admin/`, `ee/iam/user/` | `user_list`, the licence of a user | create, add, remove, delete users; expiry |
| Version manager | `version_manager/` | none | `validate_version_transition` |
| Setup | `backend/setup.py`, `ee/iam/user/repo.py` | the root user, the administrators' group, the account; the API's copy of the root user | `setup_with_retry`; `find_root_user`; create and delete users meanwhile |
| Deployment | `blue-green-run.sh` | `.deploy_state`, the edge's configuration, the containers of two slots | deploy, roll back, drain, frontend only |
| Browse screen | `frontend/src/screens/Browse/` | the folder tree, the item shown, tabs, the browser's history | expand, load more, refresh, open, go back, deep link |
| Task form | `frontend/src/components/modals/RunTaskModal.tsx` | the form, its list of actions, its payload | add, edit, remove actions, choose, submit |
| Use case import | `frontend/src/components/marketplace/`, `browse/modals/ImportModal.tsx` | what was found, picked and created of the dependencies; the run and its report | look up, pick, create, hand over, import files, create tasks, resolve a conflict |
| Log viewer | `frontend/src/components/logs/`, `logs_details/` | the lines shown, two streams | tail, poll, load more, switch file |
| AI editor | `frontend/src/components/ai/slides/` | the conversation and its session item | send, save, load, clear, delete, leave |
| Sign-in, API routes, validation, dataplane, MCP, e-mail, other screens, dbt server | see PROJECT.json | | |

### How they interact

    user ---- run, cancel, reset, edit ----------------+
                                                       v
    cron executor -- query, run_multiple_tasks --> API: execute_tasks
        |                                              | load_balance_tasks
        | cleanup loop: lists nothing                  v
        +--------------------------> task document <-- connection queue
                                          ^            | run_task
                     first update,        |            v
                     heartbeats, final    +------- Celery worker
                     update, finish

All of it is asynchronous. The API is one asyncio process (or several) in which
every `await` lets another request in. Workers and cron executors are Celery
prefork processes that talk to the API over HTTP, with time-outs and retries,
and share nothing but the documents. MongoDB transactions make single
operations atomic; nothing spans two of them. The front end runs one event loop
per browser tab, in which a handler goes to its next `await` without interruption
and then finds whatever the other handlers have done.

    browser -- requests --> API -- transactions --> MongoDB
      ^ answers in any order |                        | change stream
                             +-> Redis locks          v
                                           watcher -> Redis stream -> writer -> Keto

### What is hard

* **Check, then act.** Free slots, duplicates, "is there a cron already" and
  "was a cancel asked for" are read in one request and acted on in a later one.
* **Whole-copy writes.** The cron's heartbeat writes back the `folder_metadata`
  it read; a worker's heartbeat writes `state = running` whatever it finds.
* **Partial failure.** Retry loops that give up in silence, a final update whose
  failure skips `finish_task`, a dispatch loop that stops in the middle.
* **Crashes.** Celery acknowledges a message when it is taken (`acks_late:
  false` in `config/system.yml`): a killed worker's task is not delivered again.
* **Late calls.** A request the client gave up on still reaches the API, and one
  whose reply is lost was carried out all the same.
* **Threads nobody can stop.** A cancelled or timed-out execution leaves the thread
  of its operator at work.
* **Answers out of order.** A screen asks for several things at once and applies
  each answer to what it shows by then; React closures keep older copies.
* **Two copies of one fact.** A seat is in the licence and in the user, a link
  in MongoDB and in Keto, the active slot in a file and in nginx, the root user
  in MongoDB and in the memory of each API process.

`PROJECT.json` lists each of these hazards at its line with the properties that
would catch it.

### What makes each component correct

* Connection queue: counters and entries agree; no more executions than
  `max_parallelism`; a waiting task can be found and is eventually picked; what
  is marked as sent is sent.
* Cron: one executor per project; a stored stop is carried out; `STOPPED` means
  it; a project does not claim for ever a cron that is dead.
* Task execution: one execution at a time, each holding its slot; retries are
  bounded; a cancel is obeyed; a slot is given back; nobody but a failure takes a
  run from its task, and then somebody notices.
* Catalog: one item per primary key, one true parent, every version archived,
  what is in the trash can be restored, and nothing else is.
* Edits of an item: what was answered as stored is stored, whoever else wrote the
  item meanwhile; a release does not fall; each version left can be looked up.
* Actions: a task is sent only when every pre-action has succeeded.
* Licences: no more users than seats; whoever holds a licence is on its list.
* Access control: what Keto grants is what the documents grant.
* Deployment: the edge never points at a slot that is down, and a deploy that
  was cut can be repeated.
* Setup: a run that succeeds leaves the configured user as the one root, and
  somebody who administrates; one that fails leaves what was there.
* Front end: what is shown is what was asked for last, what is sent is what was
  entered, and no indicator stays on for ever.

## 2. The modules

| Module | What it is |
|---|---|
| `ConnectionQueue` | the queue: `load_balance_tasks` await by await, workers' and users' effects on it |
| `SlotPool` | what a connection promises: a pool of slots that are granted when free and given back |
| `ConnectionQueueProofs` | its theorems, for calls that may overlap; then for calls one at a time, when the queue implements `SlotPool` |
| `CronScheduler` | the cron of one project |
| `CronSchedulerProofs` | its theorems |
| `TaskExecution` | the life of one task across scheduler, user, worker and the operator's thread |
| `TaskLife` | what the states of a task promise: one lease, one owner at a time |
| `ActionRuns` | the actions of one task, waited for or not |
| `TaskOrder` | the order in which a connection's tasks are picked |
| `TaskProofs` | theorems of `TaskExecution`, `ActionRuns` and `TaskOrder`; that the first implements `TaskLife` |
| `CatalogTree`, `CatalogTreeProofs` | items, links, revisions and the trash under overlapping requests; theorems |
| `ItemEdits`, `ItemEditsProofs` | overlapping edits of one item and what the system writes to it; theorems |
| `LicenseSeats` | seats and holders under overlapping transactions |
| `AccessPipeline` | changes on their way from MongoDB to Keto |
| `AccessProofs` | theorems of the last two |
| `BlueGreenDeploy` | the deployment script, command by command |
| `RootSetup` | `setup.py`, its root user and group, beside an API in use |
| `UsecaseImport` | a use case's dependencies and its import |
| `DeploymentProofs` | theorems of the last three |
| `SidebarTree` | the folder tree of the Browse screen |
| `ItemView` | the details pane against the address bar |
| `TaskForm` | the task form |
| `LogStream` | the log viewer |
| `AiSession` | the AI editor and its stored session |
| `FrontendProofs` | theorems of `SidebarTree`, `ItemView`, `TaskForm`, `LogStream` and `AiSession` |
| `MCSafeParts`, `MCLiveParts` | the fourteen parts above, composed |
| `MC...` | instances for TLC: model values, functions for the constants, symmetry |

Operators named as mutants in a comment are variants of the definition below
them with one plausible programming error; nothing in the specification uses
them. They show that each property can fail.

### ConnectionQueue

An action is one database command or one transaction. A call of
`load_balance_tasks` (`Callers` are calls that may overlap) goes through
`pc`: *idle*; `LoadBalance` filters duplicates outside any lock; *enqueue*, one
`EnqueueTasks` transaction per connection; `GetConnectionsWithTasks`, the
aggregation that takes the snapshot; *pick*, then `GetConnectionMetrics` reads
the counters outside the transaction; *pop*, `UpdateConnectionWithTasks` applies
the `pop_count` computed before. Then `RunTask` sends the picked tasks one at a
time. `entries` is a set of pairs (task, call that inserted it), so two
documents of one task can exist. `SliceLen` is Python's `list[:n]`, which
accepts a negative `n`. The sort is abstracted: any subset of the right size may
be picked, so what holds here holds under every order.

`WorkerRunning`, `WorkerEnds`, `FinishTask`, `ResetDequeues`, `ResetWrites` and
`EditMaxParallelism` are what workers and users do to the queue. `ReapStale` is
what the cleanup loop would do to a running task it lists; it lists none
(section 5), so the action allows more than the code does, and no fairness is
asked of it. That it is there only strengthens the safety properties. An
exception while tasks are picked, prepared or sent ends the call, and what was picked
is never sent (`RunTaskRaises`, `task_manager.py:111-122`). Failures are actions guarded by `Fault(kind)`:
transactions that abort, loops whose five attempts are used up, Celery's broker
refusing a message, a killed worker, a repeated `finish`.

### CronScheduler

`status` and `fresh` stand for `cron_status` and for a `latest_heartbeat` at
most three intervals old (`cron_manager.py:86`). A request is a check
(`StartChecks`, `StopChecks`), a write, and for a start a message. An executor
holds the copy (`seen`) it read. `HeartbeatReads`, `HeartbeatWrites` and
`HeartbeatAnswered` are three steps: the API stores the copy's status, or
`STOPPED` where the copy says `STOP`, and only the answer lets the executor go on
or sets its stop event (`cron_executor.py:76-89`). Between the last two (*written*)
the answer may be lost, and then the executor loops on under `STOPPED`
(`HeartbeatFails`); a write that was given up may be carried out later, over
whatever was stored since (`WriteGivenUp`, `LateWrite`). `calls` counts
`run_multiple_tasks` requests that the API still executes, `awaiting` the
executors that wait for one; the client's time-out separates the two. `Patient`
restricts the *user*, never the code: one request at a time and no start while
`STOP` is shown.

### TaskExecution

One task. `entry` is its `connection_queue` document, `pending` the callers that
found it ready, or were asked to run it, and have not submitted it yet; what
they read may be old when they do. Each execution has a place in
`execute_task` (`pc`): *sent*, *loading*, *polling*, *checking*, *looking*,
*ending*, *finishing*, *posting*. `snapRetry` is `retry_number` in the copy the
worker was sent. `thread` is the thread in which the operator's `run()` works:
it *runs* while the execution polls it, and is *left* at work when the execution
ends by a cancel or a time-out, because nothing can stop it
(`task_executor.py:365`, `471-480`); only `OperatorReturns` ends it, or the death
of the process. A cancel ends the execution as `cancelled`, or as `error` when
`finish()` or the ended `run()` raises. `late` holds requests that were given up
and are still on their way: a *running* of the first update or of a heartbeat, a
*finish* that was sent twice. The final update may fail, may be stored with its
reply lost, in which case `finish_task` is skipped just the same, or may not be
reached because the report cannot be written (`ReportRaises`). A call of
`load_balance_tasks` is one step here; `ConnectionQueue` is the same call in
detail. Dates are Booleans that `TimePasses` turns true. `attempts` is a history
variable: runs the scheduler started since the last success or reset.

The cleanup loop of the cron asks for running tasks whose parent is the project
(`celery/client.py:234-255`, `catalog/service.py:306-335`). `ParentType` is the
type of the task's parent, one of those `config/catalog.json` lets contain a
task; a project is none of them, so `Listed` is false in every state and a turn
of the loop (`CleanupTurn`) changes nothing. What the loop would do with a listed
task is not modelled, since it never happens.

`TaskLife` is the abstract view of it, with two variables: the state the
document shows, and the phase of the task's lease. `ImplementsTaskLife` maps the
state to itself and the lease to the queue entry and the place of the execution
that has it (`Phase`): *free*, *waiting*, *sent*, *executing*, *closing*, or
*abandoned* when the entry is there and no execution has it. A task that is
abandoned stays so: only a cancel changes what it shows. Resets and requests that
land late have no counterpart in `TaskLife`; it is implemented where there are none.

### The parts

The other modules share no state with one another, and most of them are small
enough to be checked together. `MCSafeParts` and `MCLiveParts` extend several of
them and add a variable `running`: a behaviour of the composition is a behaviour
of the one part it names, while the others rest in one initial state, so the
state space is the sum of the parts' and not their product. `PartsFairness`
asks fairness only of the part that runs.

**CatalogTree.** A request is a process; `req[p]` says what it has read and what
it does next. A create takes the Redis lock of its primary key (`LockPk`),
looks for the item outside any transaction (`FindExisting`) and then opens the
transaction that inserts or updates (`CreateItem`, `UpdateExisting`). A
transaction reads the snapshot it opened with and commits only if no document
it writes was written since (`missed`), which is MongoDB's write conflict.
`CheckLink` and `InsertLink` are two steps because `create_link` has no
transaction. `SoftDelete`, `HardDelete`, `Unlink` and `Restore` are the branches
of `delete_item` and `restore_item`; `children_links_lookup` is a closure over
the links. `overlapped` is a history variable: `AloneLinksResolve` and
`RestoreSparesOthers` are promised only while requests do not overlap, the rest
always.

**ItemEdits.** One item that exists and the requests that edit it. `TakesLock`,
`ReadsItem` (with `ReleaseAllowed`, the version manager), `OpensEdit` and
`CommitsEdit` are the awaits of `create_item`: the copy that is written back was
read under the lock but before the transaction. `current` is the set of open
transactions that no write has outdated. `SystemWrites` are writes in one step
(`batch_update_tasks`, the queue's `$inc`), `TaskReads` and `TaskWrites` a
worker's update, which reads inside its transaction and writes the whole task.
`LockExpires` frees the lock under its holder; `overrun` remembers that somebody
else then got it while the last holder was at work. A field's value is the number
of the edit that set it, 0 when empty.

**ActionRuns.** One task, several run requests. Each pre-action is sent and
waited for with a time-out that blocks the API process (`Blocked`,
`CallWorks`: a call of the action worker needs a process that does not wait);
running and post-actions are sent and not waited for. A message is acknowledged
when it is taken, so an action whose worker is lost is not run again. `RunsAndReads`,
`WritesStatus` and `Returns` are the three parts of `execute_action` between its
calls, so a status may be written over.

**TaskOrder.** `SortStep` is one pass of the loop of `_sort_tasks`, a stable
sort by one field; `PickedInOrder` compares the outcome with the lexicographic
order over the whole of `sort_dict`, ties in the order of arrival.

**LicenseSeats.** An administrator's request holds the snapshot its transaction
reads (`txn[a].snap`); `Commits` refuses when a document it writes has a newer
`version`. What it computes (new users, seats left, who leaves) comes from the
snapshot, what it writes is applied to the present documents, as `$push` and
`$pullAll` do.

**AccessPipeline.** `oplog` holds the changes the watcher has not seen,
`stream` the messages the writer has not read, `job` the one it works on.
`WatcherStops` loses what happens until it is started again, `MessageIsLost` is a
message read and never acknowledged. `missed` marks documents with a lost event,
about which nothing is promised. No request asks whether the users it shares with
exist (`Patch`): what is shared with a user who has been deleted stays in Keto for
ever, and `sharedLate` remembers it.

**BlueGreenDeploy.** One step per command of `main_deploy`, `drain_old` and
`deploy_frontend_only`. `stateFile`, `conf`, `edge` and `up` survive the script;
`Interrupted` may end it before any command, and `EdgeRestarts` lets nginx read
the configuration file on its own. `agreed` remembers that the edge served the
recorded slot when a deploy began.

**RootSetup.** `setup` up to the catalog, step by step, in at most two attempts.
A deploy starts an API that knows no root user yet and, if the setup fails, goes back
to the one before (`Deploys`, `AttemptFails`); the plain compose file runs the
setup again beside the API that is there (`RunsAgain`). `knownRoot` is what
`UserRepository.find_root_user` keeps once it has found one. The unique indexes
on e-mail address, name and type are `Taken` and `CanBeStored`. `KetoCatchesUp`
is the access writer, for which the script waits one second: whether it is in
time is open. Registering the shipped items is one step, which may fail.

**SidebarTree.** `tree` maps each path that has a node to the children it
shows. A handler runs to its first `await` in one step; its requests are then
sent, read by the server and answered in three steps, in any order with those
of other handlers. `patient` chooses, once, a user who waits for answers.
Listings are filtered by a recursive function of the module (`Filter`), because
the provers cannot expand `SelectSeq`. `SidebarAssumption` says what the server
is at first: the trash is below the account, every folder that is shown has its
parents up to the account, parents are nearer to it than their children, and the
server lists each folder once.

**ItemView.** `history` and `position` are the browser's, `resolved` is the ref
by which in-app navigation tells `useDeepLink` not to resolve an address again.
`thread` holds the asynchronous handlers. What the pane shows is whatever the
setters called last have left. `calm` is the user who waits; `astray` records a
view that was set without the address.

**TaskForm.** The list of actions has two editors, the form and an expanded
row, both keyed by index, and an asynchronous fetch of an action's details. An
action is the number of its selection, a value the number of the edit that typed
it, so `entered` can say what was typed last for each. `Populate` fills the form of a
saved task: of its actions it keeps those that the search for available actions
has returned, one page (`RestoreActions`), and drops the others; they count as
`removed`, for the submit removes them. `sending` holds the submissions with their
duplicate check.

**UsecaseImport.** Two screens and what passes between them. The dialog
(`UsecaseDepsDialog`) keeps a status per dependency (`depStatuses`, what is
shown) and the laui found (`depCache`, the `depCacheRef` of the tabs, what tasks
are created with); a check, a creation and the import of one dependency are
under way side by side. `OpenImport` is the click in `MarketplaceItemTabView`
that hands a copy of the cache and the state of the gate to the modal (or
nothing: the button of the sidebar). `RunStep` is one file of
`handleImportFilesOnly` or `handleCreateTasks`, `ItemAnswered` the end of
`handleConfirm` or `handleResolveConflict`. `shown` and `made` are history
variables: the dialog at the click, and what the run has stored. The fields of
the modal's form are one flag; one use case is in view, since `MarketplaceLayout`
puts up new components for another.

**LogStream.** Two streams, `tail` and `older`; a stream that is aborted calls
no handler. Lines are numbered as written, so that gaps, repetitions and lines
of another file show. `Poll` is the viewer's own timer, which fires without bound
and aborts the request before it. A stream may break off (`TailFails`,
`OlderFails`: `onError`), or bring an error event and end in order
(`OlderErrorEvent`): `onDone` then moves `currentSkip` on and the page is passed over.

**AiSession.** `editors` holds the state and refs of each editor component,
`chains` where its `handleSendMessage` stands, `histories` the stored sessions.
An editor that is left goes on with its send. A deletion may fail, be refused (a
session in the trash has no link left), or be carried out with its answer lost
(*lost*): the editor then stays on a session that is in the trash. `unhurried` is
the user who waits.

## 3. The runs

| Run | Checks | Shows |
|---|---|---|
| `CQ_overlap` | `QueuedInRedisIsBacked` | two overlapping calls, two tasks, one slot: a task marked as sent is sent |
| `CQ_faults` | `TypeOK`, `Conservation`, `CeilingRespected` | one call at a time, one connection, two of the eight failures in any order, a reset, an edit of the limit: counters and entries stay together, under a limit that was set |
| `CQ_serial` | `ExecutionsAreCounted`, `OneExecutionPerTask`, `QueuedIsReachable`, `ImplementsSlotPool`, `WaitingIsPickedUp` | one call at a time, four tasks on two connections, one aborted transaction: the queue is right, refines `SlotPool` and drains |
| `CQ_overlap_limit` | `ParallelismLimit`, violated | two calls fill the same free slot |
| `CS_patient` | `TypeOK`, `OneExecutor`, `StoppedMeansHalted` | a patient user, four kinds of failure, every write that is carried out answered |
| `CS_claims` | `ClaimHoldsOrExpires` | impatient overlapping requests, all eight kinds of failure, lost replies and late writes included |
| `CS_lost_stop` | `StopIsObeyed`, violated | a heartbeat writes over the stop |
| `TE_core` | `OneExecution`, `RunHoldsItsSlot`, `AttemptsBounded`, `ImplementsTaskLife` | two executions, the scheduler, two user runs, a cancel, two failures of the eleven kinds that land nothing late |
| `TE_live` | `TypeOK`, `AbandonedAfterFailure`, `CancelIsObeyed`, `ReadyTaskRuns`, `SlotIsReturned` | one failure of any of the thirteen kinds, a reset, a run and a cancel: who strands a task, and what must happen to one that is not |
| `TE_orphan` | `OrphanIsNoticed`, violated | the task of a lost worker stays *running* for ever |
| `SAFE_parts` | `OneItemPerKey`, `EachVersionArchivedOnce`, `RestoreSparesOthers`, `TreeIsSound`, `ActionsAreGated`, `OrderIsRight`, `SeatsAgree`, `SlotsAreSound`, `FormIsFaithful`, `ImportIsRight`, `EditsAreSound`, `SetupIsRight` | each part of the next table on its own, with all its failures |
| `LIVE_parts` | `SidebarIsRight`, `PaneIsRight`, `LogIsRight`, `KetoAgrees`, `SessionIsRight`, `NothingHangs` | likewise for the table after, with fairness |

A property of a part is the conjunction of its type invariant and the named
facts in the table; each fact has its own definition and comment in the part's
module. `SAFE_parts`:

| Part | Property = facts | Instance |
|---|---|---|
| `CatalogTree` | `OneItemPerKey`; `EachVersionArchivedOnce`; `RestoreSparesOthers`; `TreeIsSound` = `OneTrueParent`, `DeletedIsInTrash`, `AloneLinksResolve` | two requests at a time and three in all; an account, the trash, a folder, a connection and two tasks that want one key; two versions |
| `ActionRuns` | `ActionsAreGated` = `GateHolds`, `LoneRequestIsRecorded` | two run requests, two pre-actions, one follow-up, two API processes, one call that fails |
| `TaskOrder` | `OrderIsRight` = `PickedInOrder` | every list of three tasks over two fields of two values or none, every `sort_dict` |
| `LicenseSeats` | `SeatsAgree` = `SeatsAreCounted`, `HoldersAreSeated` | licences of one and two seats, one of which lapses; two users, two administrators, four requests |
| `BlueGreenDeploy` | `SlotsAreSound` = `ServedThroughout`, `RecordedIsComplete`, `EndsSettled` | four deploys, three failures or interruptions |
| `TaskForm` | `FormIsFaithful` = `SentAsEntered`, `SentPayloadIsChosen`, `NoTwinUnasked` | a form that edits a task with two actions, or creates one; four acts, two clicks on submit, one error |
| `UsecaseImport` | `ImportIsRight` = `TasksUseWhatWasShown`, `GatedTasksResolve`, `ReportIsTrue` | an operator that is looked up, a connection that is picked, two files, one of which needs both; two checks, one opening of the modal |
| `ItemEdits` | `EditsAreSound` = `EditsAreKept`, `ReleaseNeverFalls`, `ArchiveIsTrue`, unless a lock was overrun | two editors, two edits, one field, two releases, a cleared one and a malformed one; one system write, one expiry |
| `RootSetup` | `SetupIsRight` = `RootIsConfigured`, `RootIsLostToClash`, `ApiKnowsRootKept` | two addresses, two names, two users, two runs with any settings, one failed step |

And `LIVE_parts`, where `NothingHangs` is the conjunction of what each part must
come to in the end (the last column but one):

| Part | Property = facts | `NothingHangs` | Instance |
|---|---|---|---|
| `SidebarTree` | `SidebarIsRight` = `SiblingsAreUnique`, `ShownWhereItIs` | `SpinnerStops` | account, trash and two folders, pages of one; two handlers, three acts, one failure |
| `ItemView` | `PaneIsRight` = `ViewFollowsUrl`, `ActiveTabIsOpen` | `NavigationSettles` | two items, two folders, two pages, one tab; two handlers, four moves, one error |
| `LogStream` | `LogIsRight` = `OneFileShown`, `LinesAreATail` | `OlderPageEnds`, `TailArrivesInLogs` | a growing file and an empty one, pages of one; any number of polls, two switches, one error |
| `AccessPipeline` | `KetoAgrees` = `GrantsConverge`, `ParentsAreKnown` | `ChangesArrive` | two documents, one user, three changes, one fault |
| `AiSession` | `SessionIsRight` = `ConversationsAreWhole`, `ShownIsStored`, `AddressIsShown` | `EditorUnlocks` | two editors, two prompts, three turns, two errors |

### Bounds, and why they are enough

* Two callers, executors, requests or executions: every race here is between
  two parties, each of which acts on what it read before the other wrote. The
  theorems of section 4 hold for any number.
* Two or three tasks and limits of 1 or 2: a free slot, a full connection and a
  task left over all occur.
* `MaxFaults` is 1 or 2: two where one failure can follow from another or hide it
  (a heartbeat that fails and a worker that is lost). `TE_live` has one, of any kind:
  what a second would strand is stranded by one.
* `MaxSubmits`, `MaxRequests`, `MaxRuns`, `MaxCancels`, `MaxResets`, `MaxEdits`
  keep the state space finite. They are guards of the users' actions only: no
  loop of the system is cut short by them. `Tick`, `CronQuery` and the poll
  loop are unbounded.
* In the parts, `MaxCalls`, `MaxActs`, `MaxMoves`, `MaxFormActs`, `MaxTurns`,
  `MaxSends`, `MaxSwitches`, `MaxChanges`, `MaxLookups`, `MaxOpenings`,
  `MaxUsers` and the like bound what users do, and
  `MaxLosses`, `MaxMishaps`, `MaxSetupMishaps`, `MaxExpiries`, `MaxFailures`, `MaxErrors`
  and the like what fails. Two edits, one system write and one expiry are a race of each
  two of them; the theorems hold for any number. `RootSetup` was also checked
  with three users and three runs.
  Pages of one and a tab bar of one make the limits of paging and tabs occur
  after one step. Three deletes, creates or restores are what it takes to
  delete a subtree, change it and bring it back.
* The runs of `CronScheduler`, `TaskExecution` and the parts allow deadlock:
  a stopped cron, a cancelled or failed task, a screen whose user does nothing
  more, rest. Those of `ConnectionQueue` do not: the scheduler ticks for ever.

### Fairness

* `ConnectionQueue!FairSpec`: the work loop ticks, a call that began goes on
  (an asyncio coroutine with retries), an execution ends and `finish_task` is
  called. Nothing is assumed of failures, users or the cleanup loop.
* `CronScheduler!FairSpec`: Celery delivers, coroutines go on, the API answers,
  time passes. No request is assumed to arrive.
* `TaskExecution!PollingSpec`: the loops of the scheduler, the queue and each
  worker go on, and a request that is on its way arrives; *nothing* is assumed of
  operators, whose `run()` may go on for ever. `PollsEnd` adds that a poll loop
  that looks again and again ends at last, which it does after
  `check_completion_timeout_seconds`. It is strong fairness because looking is
  interrupted by heartbeats. `FairSpec` assumes it; `SlotIsReturned` has it as
  its premise; `CancelIsObeyed` and `ReadyTaskRuns` do without.
* `LIVE_parts`: a request that was sent is answered or fails (the HTTP clients
  have time-outs), the watcher and the writer, which their containers restart,
  go on. Nothing is assumed of users. `TailArrives` of the log viewer has as its
  premise that from some time on each answer is there before the timer fires
  again (`AnswersBeatPolls`): slower answers are given up, one after the other.

From some failures the code does not recover. A lost message or worker and an
execution that ends before its final write leave a state that nothing looks for
(`TE_orphan`); a final update whose reply is lost, one that fails, and a `finish_task`
that fails leave the entry; a *running* that lands late is written over a final state;
a submission between the two steps of a reset leaves an entry nobody can use.
`Stranded` is what they have in common: nobody has the task, and its document and its
entry disagree. `TE_live` has all of them as steps. `AbandonedAfterFailure` says
that nothing else strands a task, and the three liveness properties that a task
which is not stranded comes to what they promise; section 5 lists what happens
to one that is. `TE_live` has one execution identity, which is used again by each
run, since a second execution beside the first is what `TE_core` and its theorem
exclude.

## 4. The proofs

Checked by TLAPS for every value of the constants; only the named assumptions
on the constants (such as `ConstantsAssumption`) are used.

**ConnectionQueueProofs.** `TypeCorrect`. `ConservationHolds`: `current_parallelism
+ in_queue` is the number of entries of the connection, for any callers,
overlaps and failures. It is inductive only with `FreshBatch` (a call never has
in its batch what it has inserted already, so an enqueue adds exactly as many
entries as it counts), which is `FreshBatchHolds`. `QueuedInRedisBacked`: a task shown as `queued_in_redis`
is still to be sent by a call or has an execution, whatever overlaps, aborts, is
reset or edited; the invariant is inductive as it stands, from the types. It
assumes that no message is refused and no worker killed, and section 5 shows
that it is false otherwise. `CeilingHolds`: if calls do not overlap, the count stays
under a limit that was set; the invariant relates the `pop_count` a call holds to
the count it will be added to, and to every value the limit can have by then.

Its last part is about calls one at a time. The assumption `SerialQueue`: one call at a time, no
edit of a limit and no reset, and none of the failures `pop_exhausted`,
`false_reap` and `finish_retried`. Aborted transactions, loops that give up on
enqueueing or dequeueing, messages the broker refuses and killed workers are
allowed. `SerialInv` has four parts. An entry is the ticket of one execution: a
task without one neither runs nor is to finish, a task with one does so once
(`EntryIsTicket`). What the call holds is still so: its batch has no entries,
what it will send is marked and not started, its snapshot is exactly the tasks
that wait on the connections it has yet to visit, and the `pop_count` it holds
lies between zero and what waits and is free (`CallIsCurrent`). `in_queue` is
the number of tasks that wait and `current_parallelism` the number of entries
that are held (`CountersAreTrue`). `SerialInvHolds` proves it; a configuration with four tasks, two
connections and five kinds of failure agreed beforehand. Its consequences:
`ExecutionsAreCountedHolds`, `ParallelismLimitHolds`, `OneExecutionPerTaskHolds`,
`QueuedIsReachableHolds`, and `ImplementsSlotPoolHolds`, a refinement in which an
enqueue is an arrival, a pop a grant and a `finish_task` a release.
`CQ_overlap_limit` and section 5 show that each assumption is needed: the same
properties fail when two calls overlap or one of the three failures happens.

**CronSchedulerProofs.** `CronTypeCorrect`, with the invariant that a call that is awaited
exists. `OneExecutorHolds` and `StoppedMeansHaltedHolds` for a patient user,
executors whose heartbeats are on time and writes that are answered when they are
carried out (`WritesAnswered`: none of `reply_lost`, `late_write`,
`slow_heartbeat`). `TicketInv` says that a start that is under way, its message and an
executor that may still loop are one ticket, of which there is one, and none while
the status would let a start through. The step that needs care is the one between
the commit of `STOPPED` and its answer: there the status already lets a start
through while the executor has yet to set its stop event. Its ticket ends with the
commit, because the copy it acts on says `STOP` and the answer, which comes under
`WritesAnswered`, can only halt it. Each assumption is needed: the traces of section 5
show `OneExecutor` false with a lost reply and with overlapping starts, and
`CS_lost_stop` that all of them together do not give `StopIsObeyed`.

**TaskProofs**, `TaskExecution`. `TaskTypeCorrect`. Under `OnlyRunsDequeue` (no
reset, and no `finish_task` that lands after the next run began):
`OneExecutionHolds` and `RunHoldsItsSlotHolds` from `RunInv`, which says that the
entry is the right to execute. It is there before dispatch and until the execution
calls `finish_task`, and an operator that was not given up has an execution that
still polls it; an entry is never dispatched beside one. Lost workers, failed or
unanswered writes, and heartbeats that land late are allowed: they leave an entry
behind or a wrong state, never a second execution. `AttemptsBoundedHolds`
(the first run counts as one of `total_retries`, and a task with zero still runs
once) from `RetryInv`, which relates what the scheduler has started to `retry_number`
in the document and in the copy a worker holds.

`AbandonedAfterFailureHolds`, without any assumption: a task is stranded only once
something has failed or was reset. Its invariant (`CareInv`) is that as long as
nothing did (`Undamaged`), `RunInv` and `LifeInv` hold and every entry is that of a
task that waits or of an execution (`Attended`).

`ImplementsTaskLifeHolds`, under `NothingLate` (no reset and no request that lands
late): scheduler, users and workers, each of which writes from what it read some time
before, implement `TaskLife`. It needs of the state what `RunInv` does not say
(`LifeInv`): a task that is under way has its entry; while an execution has the
entry the state is the one its place allows; a run that has ended is final. Each
action is then a step of `TaskLife` or leaves state and phase alone: a submission
takes the lease, and whatever ends an execution without `finish_task`, be it the
worker's death, a report that cannot be written, a final write that fails or one whose reply
is lost, is an abandoned lease. TLC checked `RunInv`, `RetryInv` and
`LifeInv` on the instance of `TE_core`, and `CareInv` on that of `TE_live`, before
they were proved.

**TaskProofs**, `ActionRuns`. `ActionsGated` for any requests, actions, failed calls
and lost workers. The gate needs to know, of every request, how
far it has come: the pre-actions before the one it waits for have passed, those
after it have not begun, and no follow-up has while it waits (`GateKept`). What a
request that is alone was admitted on is in the document (`RecordKept`): while
no other request has begun, no call has failed and no follow-up was sent, what
was recorded is in `actions_status`, and the list an action has read has
all that is stored when it writes, because at most one action is under way.

**TaskProofs**, `TaskOrder`. `OrderHolds` for any number of tasks. Ranks count
those that come earlier (`RankIsPosition`: they number the entries from 1 to n,
so a sort is a permutation), and after each pass the list is ordered by the
entries of `sort_dict` applied so far (`SortedSoFar`), which the next stable
pass extends by one. The passes are steps of the specification, so their number
needs no induction beyond that of the invariant.

**CatalogTreeProofs.** For any items, requests and overlaps. `CatalogTypesHold`.
`PrimaryKeysAreUnique` (`OneItemPerKey`): inductive only with what the holder of
a primary key's lock knows, namely that what `find_existing_item_by_pk` told it
is still so, since nobody else can create that key while it holds the lock.
`VersionsAreArchivedOnce` (`EachVersionArchivedOnce`): an update that holds an
old version must write an item that has been written since, so its transaction
is refused; the invariant relates the version a request has read to `missed`.

`CatalogTreeIsSound` (`TreeIsSound`) and `RestoreLeavesOthersInTrash`
(`RestoreSparesOthers`) are about the tree. What `$graphLookup` finds is the
value of a recursive function, `LinksBelow`. The proofs need two facts of it:
that it is contained in every set of links closed under going one link further
(`LinksBelowLeast`), and that it is closed itself after as many rounds as there are
items, since a round that finds no new item is the last (`LinksBelowClosed`).
They are proved by induction over the rounds. The induction is stated of a set of
natural numbers (`NaturalsInductive`, from the well-foundedness of `<`), which
needs no theorem with an operator as parameter; that the recursive function
exists is one more such induction (`LookupRounds`).

The invariant has three layers.
`ParentInv`: the store is a tree (`TreeOf`), so is the snapshot of every open
transaction, and the two have the same true links except those to an item the
transaction misses. A delete or restore writes the item whose link it moves, so
if it commits, that link is where it read it: `ItemsHaveOneTrueParent`.
`TrashInv`: every deleted item is below the trash, and what hangs by a link that an
open transaction does not know, from an item it knows, is not deleted nor has
anything deleted below it (`GrownAlive`). Without the second part a restore or a
removal could cut off an item that was deleted below it since:
`DeletedStaysInTrash`.
`AloneInv`, for requests that do not overlap: one at most is under way, what it
read is what is stored, and the links resolve. Between the steps of one create
the item it found stays live, so its update brings nothing back from the trash.

They assume that the account and the trash are folders (`CatalogAssumption`).

**AccessProofs**, `LicenseSeats`. For any licences, users and administrators.
`SeatTypesHold`; `HoldersAreSeatedHolds` and `SeatsAreCountedHolds` from
`SeatInv`, which says of every transaction that a licence whose version is still
the one it read has the list it read. Seats counted from the snapshot are then
the seats there are, whenever the transaction can commit. `SeatsAgreeHolds` is
the conjunction that `SAFE_parts` checks.

**AccessProofs**, `AccessPipeline`. `KetoAgreesAlways` for any documents, users,
changes, restarts and lost messages. `KetoInv` applies what is still on its way
to what Keto has, in order: the writer's job, the Redis stream, and the part of
the oplog the watcher has yet to read. The outcome is what the documents grant,
for every document of which nothing was lost. A step of the watcher or the writer
moves the head of one stage to the end of the next and leaves the outcome alone,
and a message that is lost changes no tuple of another document
(`OutcomeDrops`). The outcome keeps what was shared with a user after his deletion
(`Granted`, `sharedLate`): the messages of the deletion take every grant made
before it and none made after. Of parents it says that those Keto knows of
are the ones the documents had (`ParentsFollow`).

**ItemEditsProofs.** For any editors, fields, releases and bounds.
`EditsInvariant`: the types hold; a transaction that no write has outdated has a
snapshot equal to the item; and, unless a lock was overrun, at most one editor is
at work, whose copy has the item's version, release and contents. Progress may
differ, because the system takes no lock. `EditsAreSoundHolds` follows: the copy
written back is what the item holds, so the edit changes only what it asks for,
and what is archived is the version left.

**DeploymentProofs**, `BlueGreenDeploy`. For any number of deploys, failed waits, cuts and
restarts of the edge. `DeployInv` says, for each place in the script, what it
knows of the record, the edge and the services of both slots: until `Record` the
active slot is the one on record, from `verify` on the edge is on the new slot,
and while it may be on either of two slots both have their backend. It needs
that there are exactly two slots (`TwoSlots`), and that before the first record
only the first slot was ever started. `SlotsAreSoundHolds` follows, with the
clause about a place where no deploy is under way: what the edge serves, and
what it would serve after a restart, has its backend.

**DeploymentProofs**, `RootSetup`. `SetupIsAlwaysRight` for any deploys, settings,
failing steps and requests to the API. `SetupInv` says what the place in
`setup.py` tells of the accounts: at most one has the type root (`OneRoot`), at
*create* none has it, and, unless the API was used meanwhile, from the group on the
configured user has it, in this attempt and in what an earlier one left. That
a user is root only by `unset` and `create` needs that laui are numbers in order of
creation and `NoOne` is none of them.

**DeploymentProofs**, `UsecaseImport`. `ImportIsAlwaysRight` for any files and
dependencies. `ImportInv`: the dialog lists all dependencies as the cache has
them or none at all (`ListedAsCached`), so the gate, computed from what is
listed, speaks of what is handed over (`HandedOver`); and a run is exact
(`RunIsExact`): no step stands twice among what is to be done and what has a
line, and every file is still to be done, made, or reported as failed. It uses
that the files of a payload are distinct, being told apart by their position.

**FrontendProofs**, `LogStream`. `LogIsAlwaysRight` for any files, pages, polls and
switches. Every stream that is received, and what is shown, has lines of the
current file only, since a switch aborts both streams; and while the file does
not grow, what is shown ends at the end of the file and the page under way ends
where it begins, as the skip was counted from it (`SteadyView`). A poll that meets
an older page, a tail that fails and an error event in place of an older page end
that (`steady`): after the last the skip has moved past lines that were never shown.

**FrontendProofs**, `SidebarTree`. `SidebarStaysRight` for any folders, page sizes,
handlers, moves on the server, failures and orders of the answers. What is shown
is a map of paths, and an answer puts children under every node of a folder that
is shown, so two things could go wrong: a path that comes back to a folder, and a child
that is listed twice or under the wrong parent. Against the first the invariant
(`SidebarInv`) has a rank of the folders that grows along every parent link on the
server, every path of the tree and every answer under way (`Served`, `IsTree`,
`Going`). A delete moves a folder below the trash, which ranks below all that it
may receive; a restore moves it back below where it was at first; a folder that is
created is ranked anew; so what the browser kept from before a move still agrees
with the rank. That is why a path has no folder twice, every answer to be inserted is a list without twins,
and the ancestry that the server computes for a deep link ends at the account.
Against the second there is, for a user who waits and while no request has
failed (`Timely`): every answer under way is of the server as it is (`UpToDate`),
and the tree is the server's (`RightTree`) or about to be replaced by it
(`RootAsked`), which is what the refresh after a delete or a restore is for. For others only
the rank is kept, and `ShownWhereItIs` does not speak of them. The lemmas on
which it rests: what a filter of a list contains and that it keeps lists without
twins so (induction over positions), that the recursive ancestry of a folder
exists (induction over ranks), and what each operation on trees (`WithChildren`,
`WithMore`, `RootTree`, `LinkTree`) does to paths, lists and parents.

**FrontendProofs**, `ItemView`. `PaneIsAlwaysRight` for any items, folders, tabs
and moves. `ViewInv` says, of a user who waits for each handler and while no
request has failed, that at most one handler is under way (`OneAtATime`), and that it is in one of two
states. Settled, the URL that was resolved last is the current one, the pane
shows what it names, an item there has its tab, and the list kept aside is that
of the folder that was opened (`SettledView`). With a handler under way, what it
will make of the pane is what the URL will then name (`Leads`), for each of the
four kinds of handler. That the URL is
changed before the pane or after it makes no difference to either.

**FrontendProofs**, `TaskForm`. `FormIsAlwaysFaithful` for any number of actions,
payloads, acts and clicks. What a search restores of the saved actions are those it
returned, in their order, and the others are not in the form: the form loses them
(`SavedActionsAreKept`, section 5), and the theorem speaks of what is in it.
`FormInv` says of a user who ends one edit before the next: every action that was given a number and not removed is in the list once,
or its details are awaited; outside the expanded row it has there what was
entered; and the form and the expanded row are on different actions and have
what was entered for theirs (`Kept`), so that neither writes an old value over the
other's. The payload chosen last is the one in the form, whatever
the user did before (`PayloadHolds`), and for this user also the one whose content
is awaited (`PayloadTidy`). At most one click is under way; while the form of a new
task is open, a task that is stored is one whose answer is awaited or was lost;
and while at most one request has failed, no more are stored than were
confirmed, and one (`SendTidy`). The actions in the list, those awaited and those a saved task has
yet to bring are no more than were numbered, which bounds the list.

**FrontendProofs**, `AiSession`. `SessionIsAlwaysRight` for any editors, prompts,
openings, deletions and failures. A conversation is of prompts already sent and is one a
chat can have (`Whole`); that holds of every editor, of what every send will save,
of what every load brings and of what is stored, whichever of them writes last. A
send names a session at its prompt or at its reply (`CountsAreRight`), which bounds
the names. `SessionInv` says more of a user who waits: what is under way is of the editor
shown (`AtWork`) or nothing is (`AtHome`); a send works on what the editor shows
(`ChainIsShown`), a load brings what is stored for its session (`LoadsAreCurrent`),
and no save runs while a load or a deletion does (`Exclusive`). What is shown is
stored also after a deletion whose answer was lost: in the trash, and the editor does
not know. For the address
it counts failures: with none, an editor's name is its session; after one, the
next save that succeeds brings the address back (`Addressed`). A second one
undoes that: an editor whose load failed saves its prompt as a new session, and
if its reply then fails to be saved, the address stays where it was. `LIVE_parts`
allows two failures, so the clause about them is exercised.

**Model-checked only.** Liveness (`WaitingIsPickedUp`, `ClaimHoldsOrExpires`,
`CancelIsObeyed`, `ReadyTaskRuns`, `SlotIsReturned`, and `NothingHangs` of
`LIVE_parts`): out of the prover's reach. Every other property of
a run that passes has a theorem.

## 5. Where the code and its documentation differ

Three disagreements are runs of the project: `CQ_overlap_limit`, `CS_lost_stop` and
`TE_orphan`. `PROJECT.json` quotes what they contradict. The others below were found
by TLC with the same modules. The property each violates is defined in the module;
with a configuration that has the constants shown (what is not shown as in the runs
above, with no failure, reset or edit) TLC prints the trace.

| Property | Constants | What happens |
|---|---|---|
| `OneEntryPerTask` | as `CQ_overlap` | both calls pass the duplicate filter (`connection_queue_manager.py:56`) and insert an entry each; `docs/10-reference/api/03-task.md:805`: "tasks already in the queue are skipped" |
| `QueuedIsReachable` | as `CQ_overlap` | the late enqueue writes `queued_for_connection` over a later state (`connection_queue_repo.py:113`) and the task waits without an entry; with `LimitTwo` and `FairSpec`, `WaitingIsPickedUp` fails too, against 03-task.md:811 |
| `CountIsNotNegative` | `CQ_overlap`, one caller, `MaxResets = 1` | resetting a task that waits decrements `current_parallelism` (`catalog/orchestrator.py:284`); 03-task.md:799: "Number of tasks currently running" |
| `ParallelismLimit` | one caller, fault `pop_exhausted` | five failed attempts return `None`, and `sorted_tasks[:None]` is everything (`connection_queue_manager.py:132`) |
| `QueuedInRedisIsBacked` | one caller, fault `publish_failed` | the dispatch loop stops (`task/task_manager.py:122`); 03-task.md:650: "Task has been dispatched" |
| `OneExecutor` | `CS_patient`, `Patient = FALSE`, no failure | stop then start at once (`cron/README.md:717`, option 2): the old executor never sees `STOP` |
| `OneExecutor` | `CS_patient`, `Faults = {"reply_lost"}` | `STOPPED` is stored and its reply lost: the catch-all (`cron_executor.py:89`) logs it, the stop event is not set, and the next start is accepted beside the executor that goes on; `cron/README.md:118`: "`ConflictError` if already running" |
| `OneExecutor` | `CS_patient`, `Patient = FALSE`, `Requests = {r1, r2}`, no failure | two overlapping starts pass the same check (`cron_manager.py:127`) and both send an executor; `06-cron.md:88`: "409 Conflict — Cron already running" |
| `StoppedMeansQuiet` | `CS_patient` | `STOPPED` is written while a `run_multiple_tasks` is under way (`cron_executor.py:75`); `06-cron.md:134`: "Executor has fully stopped" |
| `StaleCronIsRestarted` | `CS_claims`, `Requests = {r1}`, `MaxRequests = 1`, fault `executor_lost` | a stale heartbeat is looked at only when a user asks (`cron_manager.py:89`); `06-cron.md:142`: "a new cron is automatically restarted" |
| `SlotIsReturned` without `Stranded` | `TE_live`, `Faults = {}`, `MaxCancels = 0` | a submission between the two steps of a reset leaves an entry nobody can use (`orchestrator.py:284-296`); 03-task.md:881 |
| `RetryRuns` | `TE_live`, `FairSpec`, `Faults = {"final_reply_lost"}` or `{"finish_failed"}`, `MaxResets = 0` | the final update is stored and its reply lost (`task_executor.py:611`), or `finish_task` fails: the entry of the ended run stays, and the retry that is due is filtered out as a duplicate for ever; 03-task.md:295: "picks up tasks eligible for retry when `retry_number < total_retries`" |
| `CancelEndsTheThread` | `TE_live`, `Faults = {}` | `run_task.cancel()` (`task_executor.py:392`) cancels the future of a thread that nothing can stop: the run ends, with its slot, and the operator works on; 03-task.md:856: "operator.finish() called, then thread cancelled" |
| `SavedActionsAreKept` | as `SAFE_parts` | a form opened on a saved task keeps the actions it finds in `availableActions`, one page of a search (`RunTaskModal.tsx:245`, `464`): the others are left out without a word and a submit removes them |
| `PickedIntoFreeSlots` | one caller, four tasks, `LimitTwo`, `NewLimits <- LowerToOne`, `MaxEdits = 1` | a limit lowered under the count makes `pop_count` negative, and `[:pop_count]` takes all but the last tasks (`connection_queue_manager.py:156`); 03-task.md:808 |
| `PurgeSparesSurvivors` | `Requests = {p1}`, `Items = {root, trash, f, c, t1, t2}`, `Settled = {f, c, t1}` | the closure of a hard delete follows links of second parents (`catalog/link/repo.py:147`), so deleting one item for good takes an item that lives elsewhere with it |
| `SeatsAreUsed` | as `SAFE_parts` | a user moved to another licence keeps the old seat, and deleting a user under a lapsed licence leaves the seat taken (`ee/iam/user/service.py:126-135`) |
| `ActiveKeepsServing` | as `SAFE_parts` | a deploy cut between switch and record makes the next one clear the slot that serves; `deploy/README.md:7-8`: "the active one just keeps serving" |
| `ConcurrentEntriesKept` | `RunRequests = {p1}`, `FollowUps = 2` | two actions read `actions_status` and write it back in turn (`celery/executors/action_executor.py:302`, comment at 262) |
| `SelectedPayloadIsShown` | as `SAFE_parts` | the operator's payload arrives after a payload was selected and replaces what is shown (`RunTaskModal.tsx:665`) |
| `ExpansionSurvivesRefresh` | as `LIVE_parts` | refreshing a parent leaves its expanded subfolders without children until the next refresh (`refreshHandlers.ts:90`) |
| `LinesAreInOrder` | as `LIVE_parts` | older lines are put above a tail fetched anew since (`StreamLogViewer.tsx:206`) |
| `ParentsAreForgotten` | as `LIVE_parts` | the relation of a removed link is deleted with `subject_id` although it was written with `subject_set` (`access_writer.py:63`) and stays |
| `ReplyStaysShown` | as `LIVE_parts`, `MaxAiErrors = 0` | the load that the first save starts arrives after the reply and takes it away; the next prompt then writes over the stored reply (`ManualEditor.tsx:885`) |
| `RootIsKept` | `RootSetup` as in `SAFE_parts` | with only `ROOT_EMAIL` or only `ROOT_USERNAME` changed, the old root loses his type before the new user is refused (`backend/setup.py:184`, `195`); both attempts fail and the installation has no root; `docs/02-installation/03-production-blue-green.md:37`: "Any failure rolls back to the old slot automatically" |
| `ApiKnowsRoot` | likewise | an API process keeps the first root user it found (`ee/iam/user/repo.py:76-87`); a setup beside it changes the root, not its copy |
| `RootIsNotDeleted` | likewise | with that copy, an administrator may delete the new root (`ee/iam/user/service.py:120`: "Cannot delete root or system user") |
| `RootOwnsGroup` | likewise | the request that makes root an owner is refused if the access writer needs more than a second, and its answer is not looked at (`backend/setup.py:226-235`); a root made later is never added; docstring at 205: "ensure only the root user is an owner" |
| `EditsAreKept`, `ReleaseNeverFalls`, `ArchiveIsTrue` without `~overrun` | `ItemEdits` as in `SAFE_parts` | a request that takes longer than the lock's 30 s (`backend/src/common/mutex.py:63`) writes back a copy from before another edit that was answered meanwhile |

Met while modelling, without a property of its own:

* The cleanup loop (`cron/cron_executor.py:179-240`) lists the running tasks whose
  parent is the project, and a task's parent is a workflow: the list is empty
  (`TE_orphan`). A task that were listed would be judged without its
  `latest_heartbeat` and `executor`, which the projection of `config/task.json:310`
  leaves out: `is_heartbeat_stale(None)` is true (`celery/utils.py:25-26`), so every
  running task would be failed, and Celery's record of it never looked at.
* A run request for a running task is filtered as a duplicate, but has withdrawn
  its cancel by then (`catalog/orchestrator.py:188`); 03-task.md:524.
* `finish_task` comes before the post-actions (`task_executor.py:618`, `630`);
  03-task.md:864 has them the other way round.
* Permissions may be given to a user who has just been deleted: nothing asks whether
  he exists, and the tuples stay (`AccessPipeline`).
* A failure in the log server comes as an error event in a stream that ends in order
  (`routes/logs.py:165-172`), so the viewer passes over the page
  (`StreamLogViewer.tsx:195-208`).

* An edit writes back a task's system fields as they were before its transaction
  (`catalog/orchestrator.py:65-97`): a count, state or date written between the
  read and the opening of the transaction is lost. `EditMaxParallelism` of
  `ConnectionQueue` takes an edit as one step.
* `cron/cron_manager.py:44-57` writes a project's metadata through the
  repository, past the lock of its primary key.
* A version field that is cleared makes no revision (`common/utils.py:64-69`), and a
  release may be lower after `version_details` has been cleared
  (`backend/tests/integration/catalog/test_version_bump.py`).
* A setup stops where a shipped folder or item lies in the trash (409), overwrites
  what users changed in shipped items, and gives the sample tasks new start dates;
  an item file that cannot be registered is only logged.

* `core/catalog/links.md` (soft delete, step 4) has the link to the trash with
  `true_parent=False`; the code writes it with `True`, and restoring relies on it.
* Links of second parents that a delete to the trash removes do not come back
  with a restore.
* `core/task/action/README.md` says pre-actions do not block; the code waits for
  each of them in the API process (`task_manager.py:60`, `pre_action_manager.py:93`).
* `action_manager.py:50` calls `connection.get(...)` on an item object; the
  error is caught, and running and post-actions never get their connection.
* `docker-compose.app.yml:178` says the setup is waited for before traffic is
  switched; the script switches first.
* A deep link replaces the tree with first pages and forgets their pagination
  (`useDeepLink.ts:245`), so a folder with more than ten subfolders offers no
  *Load more* any more.
* A switch of files while older lines load leaves `loadingMore` set
  (`StreamLogViewer.tsx:150`), and a file polled faster than it answers shows
  nothing new, for each poll aborts the one before: `TailArrives` is promised of
  answers that come before the next poll.
* In the task form, removing a row above the expanded one leaves
  `expandedActionIndex` on another row, and a connection edited in the row still
  expanded at submission is not sent (`RunTaskModal.tsx:560-571`, `893-905`).
  `SentAsEntered` is therefore stated for a user who collapses a row first.

* Importing a single item after *Rename* does not ask whether the new name is
  taken, and its form can be edited while a conflict is shown: *Overwrite* then
  replaces an item the conflict was not about (`ImportModal.tsx`,
  `handleResolveConflict`).

`AttemptsBounded` is stated as the code has it. `retry_number` is incremented at
the first failure already (`celery/executors/task_executor.py:609`) and a retry
asks for `retry_number < total_retries` (`catalog/item/repo.py:578`), so a task
gets `total_retries - 1` retries, and none when `total_retries` is 1.
`docs/10-reference/api/03-task.md:69` calls the field the "max number of automatic
retries on error/timeout". `backend/tests/integration/task/test_task_retry.py`
expects what the code does.

`cron/README.md:133` says a heartbeat is stale after four intervals; the code
(`cron_manager.py:86`) and `06-cron.md` say three.

## 6. What is not modelled

* In `ConnectionQueue`, `CronScheduler` and `TaskExecution` a locked operation
  or a transaction is one step. `CatalogTree`, `LicenseSeats` and `ItemEdits` have
  snapshots and conflicts, the first and the last the primary-key lock, and the
  last its expiry; the locks of `lock_multiple_docs` do not expire in any module.
* Deletion, start and end dates and paused workflows in the ready-to-run query;
  editing a queued task's connection.
* What the cleanup loop would do with a task it lists, since it lists none.
* In `TaskExecution`, a final update that lands late; the soft time limit, which
  raises in the Celery task while the suspended coroutine stays in the loop its
  process shares (`celery/registry/tasks.py:78-86`). The operator's `initialize`,
  `check_completion` and `finish` are assumed to return or raise; its `run` is not.
* In `ConnectionQueue`, an exception of the enqueue stage other than those it
  repeats (`connection_queue_manager.py:118`): the tasks not yet enqueued are then found
  again by the next turn.
* What an operator or an action computes; the files of operators and actions on
  disk; what the language model answers.
* Permissions: who may do what is decided per request from the tuples
  `AccessPipeline` models; the look-up itself has no state.
* Backend parts that handle one request at a time on one document, or none:
  sign-in, groups, routes, validation, dataplane, MCP, e-mail; the version
  manager's patterns of compatible core versions; the dbt server.
* The registration of the shipped items by `setup.py`: a list of creates and
  updates, each of them `CatalogTree`'s or `ItemEdits`'.
* The table of a folder's contents (`FolderView`, `ItemsTable`, `ItemsView`): each
  navigation asks for a page and shows what arrives. Other screens that render what
  one request returned. A large share of the front
  end is markup and styling, of which a model has nothing to say, so the lines
  the map names are a small part of it.
* `--fresh` in the deployment script, the databases, the images.

## 7. Plan

Done: `ConnectionQueue` with `SlotPool`, `CronScheduler`, `TaskExecution`;
`CatalogTree`, `LicenseSeats`, `ActionRuns`, `TaskOrder`, `AccessPipeline`,
`BlueGreenDeploy`, `ItemEdits`, `RootSetup`; `SidebarTree`, `ItemView`, `TaskForm`, `UsecaseImport`,
`LogStream`, `AiSession`; type correctness and the safety properties of all of
them proved, that the queue implements `SlotPool`, and that the execution of a task
implements `TaskLife`.

Next modules: a composition of several tasks of one connection with the queue and
a worker each; the locks of `lock_multiple_docs`
with their expiry; the table of a folder's contents.
