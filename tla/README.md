# A TLA+ development for reflectt-node

reflectt-node is a coordination server for teams of AI agents: one Node process
(Fastify and SQLite) that keeps a task board, routes chat and notifications, runs
software actions on behalf of humans and watches that nobody is stuck. This
directory holds TLA+ modules of its core, the TLC configurations that check them on
small instances, and theorems that TLAPS proves for every instance.

Paths below are relative to the repository (`src/tasks.ts` is the TypeScript file,
listed in `PROJECT.json` as `src/src/tasks.ts`).

## 1. Inventory

### How the parts interact

Everything runs in one event loop. A handler runs without interruption from one
`await` to the next; SQLite calls are synchronous, so a read and a write with no
`await` between them are atomic. All concurrency therefore sits at the awaits: a
handler reads a row, awaits the network, the file system or a dynamic import, and
writes what it computed from the row it read. Timers (sweeps, tickers, the approval
timeout) are macrotasks; promise continuations run before the next one. The process
may die anywhere; what is in SQLite survives, what is in a `Map` does not.

The task board is the hub. HTTP routes in `src/server.ts` check gates and call
`TaskManager.updateTask` in `src/tasks.ts`; sweeps (hoarding guard, working contract,
execution sweeper, PR auto-merge, board health) call the same function from a
snapshot; recurring definitions and lane successors create tasks; the cloud mirror
overwrites rows with newer remote ones; chat, notifications and escalations react to
the events these writes emit.

### Components

| Component | State | Operations | What is hard | What makes it correct |
|---|---|---|---|---|
| Task board: `tasks.ts`, `server.ts` | rows: status, assignee, reviewer, metadata (approval, bounce count, transition, close reason) | create, PATCH, claim, next/pull, review, cancel, bulk close, delete | gates run on a row that is older than the one written; several ways into the same status with different gates | nobody loses a task in progress silently; a close is signed off; an approval that names somebody is a reviewer's; rework is counted |
| Todo hoarding guard: `todoHoardingGuard.ts` | snapshot of the overflow | sweep: unassign one by one | the snapshot ages while the loop awaits; a throw ends the sweep | only surplus todos are unassigned |
| Agent interface: `agent-interface.ts` | runs, `pendingApprovals`, timers, executors | create, approve, reject, decide, time out, abort | decision, timeout and abort race for one promise; answers arrive after an abort; an executor that throws half-way into the gate | nothing irreversible without a yes; every run ends |
| macOS harness: `macos-accessibility.ts` | kill switch | execute intent, engage, release | switch engaged between approval and execution | nothing starts behind the switch |
| Execution guardrail: `agent-exec-guardrail.ts` | none | verdict on a target | the verdict is ignored by the route | a denied run fails |
| Recurring tasks: `tasks.ts` | definitions (Map and table), passes in flight, created tasks | create, edit, delete, materialise, load | passes run at once on objects an edit has replaced; crash before the save | one task for a slot; no pile of open tasks; definitions catch up |
| Dependencies: `tasks.ts` | `blocked_by` | create, update, delete | cycles through several updates; deleted tasks that come back | no update of the node closes a circle |
| Cloud mirror: `taskStateSync.ts` | local rows, remote rows | push, pull, merge | pushes that overtake each other or get lost; other clients that change the same rows; a pull under way during writes | the node's last change never gives way to one of its own older states |
| Task ledger: `db.ts`, `cloud.ts` | `sync_ledger`, POSTs under way | refresh, send a page, mark | a task that changes while its row is sent; POSTs that overlap; a page full of rows that are never sent | "synced" means received; every change arrives |
| Chat sync: `chat.ts`, `cloud.ts` | messages, cursor, flags, timers | store, request, sync a page, relay | messages stored during a POST; lost answers; flags that wait for each other | nothing behind the cursor is unsent; every message arrives |
| Working contract: `working-contract.ts` | warnings, stale doing tasks | warn, requeue, claim gate | requeue writes over what the task has become; warning from an earlier spell | a requeue follows its own warning and grace |
| Execution sweeper, PR auto-merge: `executionSweeper.ts`, `prAutoMerge.ts` | snapshot, escalation marks in memory and in the row, digests | auto-close, requeue, reassign, page | snapshot age; restarts between pages; sweeps started by a query | one page per level; a close by people stands; nobody waits unseen |
| Board health worker: `boardHealthWorker.ts` | action log, rate counters | act, roll back | rollback after the task moved on | rollback only restores what it changed |
| Lane successor: `lane-template-successor.ts` | created successors | create on close | check, awaits, create | one successor for a task |
| Agent runs: `agent-runs.ts` | run rows, events | decide, wait, resume | a decision on a run that has ended | a decided run stays decided |
| Process lock: `pidlock.ts`, `index.ts` | lockfile, port, processes | acquire, release, fail, shut down | an old process that leaves while a new one takes over; two starts at once; kills, scans and writes that fail; hanging, crashed, reused PIDs | one instance serves unless something failed and was logged; the lockfile names it |
| Webhooks: `webhooks.ts` | rows, places in use | enqueue, deliver, retry, purge, configure | crash between attempts; all places in use | at least once or dead letter; places are counted exactly |
| Inbox, chat, noise budget: `inbox.ts`, `chat.ts`, `noise-budget.ts` | messages, acks, digest queue | send, ack, digest | debounced save and restart; queue at its limit | a queued message is delivered or in the digest |
| Notification dedupe: `notificationDedupeGuard.ts` | cursor per task | check, record | events out of order | no stale event after a newer one |
| Escalation: `escalation.ts` | escalations, levels | raise, acknowledge, tick | acknowledgement racing the timer | no level after the acknowledgement |
| Continuity and stall detection: `continuity-loop.ts`, `stall-detector.ts` | cooldowns, levels | tick | recovery between two levels | one action for a cooldown |
| Insights and bridge: `insights.ts`, `insight-task-bridge.ts` | insights, links | promote, create task | concurrent events for one insight | one task for an insight |

The remaining parts (presence, settings, polls, calendar, canvas and rooms, dashboards,
MCP and CLI front ends, record stores, keepalives, assets) are listed in
`PROJECT.json` with the reason each is not modelled: they keep no protocol of their
own, or only display what the parts above hold.

## 2. Plan

Done, in the order of importance:

1. `TaskBoard`: the life of a task through the routes that gate or move it, with
   suspended requests and the hoarding sweep. Proofs in `TaskBoardProofs`.
2. `AgentInterface` over `ApprovalGate`: runs behind the approval gate, and the abstract
   gate they implement. Proofs in `AgentInterfaceProofs`.
3. `RecurringTasks`: definitions and concurrent passes. Proofs in
   `RecurringTasksProofs`.
4. `WebhookDelivery` over `AtLeastOnce`: retries, dead letters and crashes, and the abstract
   delivery they implement. Proofs in `WebhookDeliveryProofs`.
5. `WorkingContract`: warnings and requeues by a tick that awaits. Proofs in
   `BoardSweepProofs`.
6. `ProcessLock`: several processes, one lockfile, one port. Proofs in `ProcessLockProofs`.
7. `TaskDependencies`: `blocked_by` and the copy of the table in the cloud. Proofs in
   `TaskDependenciesProofs`.
8. `ChatSync`: the cursor over the chat table. Proofs in `CloudSyncProofs`.
9. `TaskLedger`: the ledger of unsent task changes. Proofs in `CloudSyncProofs`.
10. `ExecutionSweeper`: the sweep over the tasks in review, and the automatic close. Proofs
    in `BoardSweepProofs`.

Not begun: lane successors (a check before several awaits), notification dedupe, noise
budget, escalation levels, the board health worker, the bridge from insights to tasks.
Every invariant and every action property of a passing run is proved. Worth proving next:
that `ChatSync` and `TaskLedger` implement one abstract outbox.

## 3. Modules and code

| Module | Models | Notes |
|---|---|---|
| `TaskBoard` | PATCH `/tasks/:id`, claim, next, review, cancel, bulk close, create, delete, `updateTask` with `applyLaneStateLock`, `sweepTodoHoarding` | `MCTaskBoard` gives it request bodies and drafts |
| `ApprovalGate` | what the agent interface promises: new, asked, granted or refused, acting, ended | abstract |
| `AgentInterface` | `createRun`, both executors, approve, reject, decide, timeout, abort, kill switch | |
| `RecurringTasks` | `createRecurringTask`, `updateRecurringTask`, `deleteRecurringTask`, `materializeDueRecurringTasks`, `persistRecurringTasks`, `loadRecurringTasks` | |
| `AtLeastOnce` | what the delivery engine promises of an event: accepted, sent, delivered, dead or purged | abstract |
| `WebhookDelivery` | `enqueue`, `deliver`, `processRetries`, `purgeExpired`, PATCH `/webhooks/config`, crash | |
| `WorkingContract` | `tickWorkingContract` with the activity signal, `updateTask`, comments, restart | |
| `ProcessLock` | `acquirePidLock`, `killProcess`, `releasePidLock`, `main`, `fatal`, `shutdown` | `MCProcessLock` adds a symmetry set for `ProcessLock_three.cfg` |
| `TaskDependencies` | `createTask`, `updateTask` (`checkCircular`), `deleteTask`, `syncFromCloud`, the Supabase adapter | `MCTaskDependencies` adds a symmetry set |
| `ChatSync` | `sendMessage`, `requestChatSync`, `syncChat` | |
| `TaskLedger` | the triggers of `sync_ledger`, `refreshTaskLedger`, `getDirtyTaskLedgerRows`, `syncTasks`, `markTaskRowsSynced` | |
| `ExecutionSweeper` | `sweepValidatingQueue`, `escalateViolations`, `tryAutoCloseTask`, POST `/pr-event` | |
| `*Proofs` | theorems about the module they extend | `CloudSyncProofs` and `BoardSweepProofs` extend two; so what both would call `Init`, `Next`, `Restart`, ... begins with `Ledger` in `TaskLedger` and with `Sweeper` in `ExecutionSweeper` |

`PROJECT.json` maps every definition to its lines. Modules without an `MC` module need no
definitions of their own for TLC and are run as they are.

### TaskBoard

`row` is the table of tasks. `pending[q]` is a request that stands at an await: the whole
update a PATCH is going to write (`PatchAdmit` computes it from the row it reads,
`PatchCommit` writes it), or the task that `GET /tasks/next?claim=1` has chosen
(`NextPull`, then `NextClaim`). A PATCH that happens not to be interrupted is `PatchNow`.
`sweep` is what is left of the hoarding sweep's snapshot. `history` remembers who was
reviewer, the latest verdict, whether the last write explained itself and whether its
request, or an approval before it, met a row without a reviewer; nothing but the
properties reads it.

The gates are the operators `StateMachineGate`, `ReviewerIdentityGate`, `QaBundleGate`,
`SignOffGate` and `WipGate`, in the order of the handler. `LaneLock` is
`applyLaneStateLock`: unlike the gates it sees the row at the moment of the write, and
that is why some of the properties survive stale requests while others do not.
`MergedMeta` is the handler's merge of stored and incoming metadata and `WrittenMeta` what
`updateTask` makes of it. `LifecycleGate` is the gate inside `createTask` and `updateTask`.

An approval in the metadata names the agent an identity check has let through, or is one of
two values no check has seen. `Claimed` came with `POST /tasks`, which stores the status,
the people and the metadata of its client (`Drafts`), done tasks with an approval included.
`Truthy` is a `reviewer_approved` that is true for the close gate's `if` and not for the
identity gate's `=== true`. Both close a task. A PATCH may also clear the reviewer with
`""`; then anybody may approve, and `done` asks for no approval.

Left out: evidence and format checks (a PATCH that fails them is one that was not sent, or
`PatchRefuse` when they are behind the await); display metadata (`lane_state`,
`review_state`, stamps); `blocked_by`; comments and history rows; routes that do not touch
the modelled fields (outcome, external blocks). Idle times and priorities, which decide
what the hoarding sweep picks, are a choice. One sweep runs at a time. A PATCH that
sets `bounce_count` itself and the exceptions for `NODE_ENV=test` are left out.

### AgentInterface

`cont[r]` says where the executor of a run stands: at the gate, woken with yes or no,
submitting to GitHub, executing on macOS, at its end. `Settle` is the call of the
promise's `resolve`: it only queues the continuation, which runs (`Resume`) before any other
handler or timer (`Quiet`). The timeout is never cleared, so `timer` keeps the run until
it fires and finds the entry gone. `works` and `ok` stand for a missing token, an
unimplemented intent and the answer of the outside world. The event log, subscribers and
replay packets only read runs and are left out.

The text of a request is a string, a list, or something else (`text`). `POST /runs` only looks
whether it is there, so an executor may throw on it: at once, inside the approval gate, or
when it acts. `Ask` therefore has two halves: `Announce` sets "awaiting_approval" and
`EnterGate` makes the entry and the timer. A text that is neither string nor list throws between
them, the route logs it, and the run stays as it is (`NoRunHangs`, refuted by
`AgentInterface_hung.cfg`). A list passes the gate and throws when AppleScript is built.
`NoUnapprovedAction` is about irreversible actions: a reversible macOS intent runs without a
human, although the comment at `agent-exec-guardrail.ts:22` speaks of all actions of the
first version.

`GateSpec` maps each executor to a phase of `ApprovalGate`; an abort does not show there
except through the gate it refuses.

### RecurringTasks

A pass works on the definition object it found in the Map; `heap[d]` keeps all the objects
that existed since the process started, `map[d]` the one in use, and an edit appends a copy.
`Work` is one round of the while loop up to `createTask`'s first await, `Created` what
follows, `Scan` the loop over the Map and the save after it. A pass holds the event loop
(`running`) except while it awaits, so several passes stand at their awaits at once.
`Restart` may interrupt anything and reads the table. Tasks are the rows that carry
`metadata.recurring`; the board moves them to done or cancelled or deletes them.

Schedules are intervals, since weekly ones differ only in the arithmetic of the next slot. A
generated task starts "open" whatever its configured status; a task that is reopened after
it was done and ties of `createdAt` are not modelled. The fields `forced` and `late` of a
task are history.

### WebhookDelivery

`row[k]` is the row of an event, named by its idempotency key, `flight[k]` the attempt whose
request is under way, `active` the counter `activeDeliveries`. Everything up to the await of
`fetch` is one turn, so `Enqueue` and `ProcessRetries` mark rows and start requests at once;
`ProcessRetries` takes as many rows as there is room for (`Batches`, with SQLite's meaning of a
negative LIMIT). `Answer` is what follows the await, on success, failure and throw alike.
`BackoffElapses` makes `next_retry_at` due; the backoff's length does not matter. A crash
keeps the rows and loses the requests. `PhaseOf` maps a row to `AtLeastOnce`; there a crash may
strand what was being sent, which is what `WebhookDelivery_stranded.cfg` refutes.

### WorkingContract

Ages stop growing at the threshold they are compared with, which makes the state space finite
without a clock. `scan[p]` is what is left of the list a tick took; `Turn` handles one task up
to its next await, `Resume` goes on after it. `warned[<<a, t>>]` is the age of a warning (memory
and disk hold the same; `KeptAtRestart` is what seeding brings back), `unlogged` the tasks whose
row is written while `updateTask` awaits the cloud and has not yet written the history the
activity signal reads. `nagged` and `answered` are history. Left out: dry run, excluded agents,
the claim gate and the text of the messages; `Moves` has the statuses the board allows.

### ProcessLock

Every file and signal operation is a step, since processes really run in parallel. `pc` is
where `main` stands, `exiting` how far a process is on its way out; both may be under way at
once (a `fatal` while `main` goes on). A process that was told to leave may take for ever
(`app.close` waits for its clients) and is killed after three seconds if somebody waits for it.
The initial lockfile is any, and starts overlap as they like.

Every call may fail as it does in the code, with a warning and nothing else: reading and
writing the lockfile, listing the port's owners, SIGTERM, SIGKILL, the unlink. `mishaps` remembers
which of them has happened since a process was last alone on the host: "overlap" (a start met
another start), "lockSpared" and "portSpared" (it went on past a live process of the lockfile
or the port), "unwritten" (it serves without its PID in the lockfile), "hidden" (neither the port
nor the lockfile leads to an instance that serves). Nothing but the properties reads it: they say
which mishaps they survive, and `ProcessLock_overlap.cfg` shows what a mere overlap does.

### TaskDependencies

A row is its `blocked_by` and `updated_at`; the status is left out, since neither the check nor
the merge reads it. `wire` holds the pushes and deletes under way, `pulls` the answers of pulls
under way, as the table was when the cloud answered. `Arrive` takes any of them, `Lose` drops
one. `Circular` is `checkCircular`, by the sets closed under blockers (`ClosedSets`) rather than
by recursion. `ChangeInCloud` and `DeleteInCloud` are the other clients of the table: they
create, update and delete rows with times of their own clocks (`MaxOthers` of them). `by` says
whether a version of a row is the node's or theirs, `edited` which tasks the node was the last
to change, `pulled` which rows a pull has ever written; these three are history.

One node writes. Its pushes may overtake each other or be lost, so a pull may bring one of the
node's own older versions: `PullsTakeOnlyNews` says that the merge never takes it. A newer change
of another client does replace the node's, which is what the merge is for.

### ChatSync

`log` is the table of messages in the order of their times. `batch` is the page under way, with
the messages that came from the cloud taken out; `queued`, `waiting`, `timer` and `debounce` are
the flags and timers of `requestChatSync`. `Succeed` and `Fail` are the two sides of the POST
(`arrived` in `Fail`: the cloud has it, the answer was lost), `Relay` stores one message of the
answer. `floor` is where the cursor stood when the process started. `Stuck` says that the page at
the cursor holds relayed messages and nothing else: `syncChat` then returns without moving the
cursor, and stays there. `AllArrive` excepts it, `WalksThroughAll` does not and is refuted.

### TaskLedger

`rows` and `ledger` are the tables; the triggers are `Touched` and `Forgotten`. `Sync` takes the
snapshot, refreshes the ledger with it, and sends the oldest dirty rows in one turn; `SyncSucceeds`
marks what is still as it was sent. `Posts` bounds the POSTs that overlap. `Hidden` are the test
tasks that `getTasks` filters out. Two changes of one task in one millisecond
(`SameMillisecond`) are excluded in the checked run and shown to matter in another.

### ExecutionSweeper

`left` is the snapshot of a sweep: `Handle` takes one of its tasks with the metadata as read
(`m`), and writes from it, as the code does. The awaits that matter are those of `updateTask`,
which only wait if a cloud adapter is set up (`Yields`); otherwise a sweep is one turn and
nothing else runs (`Free`). `Reassign` is the one step after which a sweep goes on with the same
task (`paging`). The loops of the code run one after the other over all tasks, the model task by
task: the tasks share nothing but the digest. `Finish` is the clean-up of marks, the automatic
close of merged tasks and, if the interval started the sweep, the digest. People and GitHub act
in one step each; what their handlers check is `TaskBoard`. "author" stands for every status
that is neither in review nor closed.

`pages` are the levels recorded in marks, `sent` the pages handed to people, `swallowed` those of
sweeps whose result the caller drops (`GET /execution-health`). `FirstReviewIsPaged` is about the
latter two, `OncePerLevel` about the first. A merged duplicate without references is refused by
the lifecycle gates and stays in review.

Left out: orphan pull requests and the drift report, which only add lines to the digest; the
slow-task flags; the loop for reconciled tasks, which does what drift repair does for tasks
without a code change; `attemptAutoMerge`; the alert preflight.

## 4. Runs

Run one with `tlc -workers 2 -config <cfg> <module>.tla`.

| Run | Shows | Instance | States |
|---|---|---|---|
| `taskboard_board` | `TypeOK`, `ApprovalFromReviewer`, `NoSilentTakeover`, `ClosedOnlyWithSignOff`, `BounceCounted` | one task with drafts of every kind, two agents, one suspended request, unchecked approvals, reviewers replaced and cleared, two bounces, the sweep | 2.2 M |
| `agent_gate` | `TypeOK`, `NoUnapprovedAction`, `AwaitingIsDecidable`, `KillSwitchStops`, `EveryRunEnds`, `GateSpec` | two runs, every input | 74 k |
| `recurring_catchup` | `TypeOK`, `OneInstancePerSlot`, `OnlyForcePilesUp`, `CatchesUp` | two slots, two passes, one edit, one deleted task, one restart, forced or not | 2 180 000 |
| `webhook_contract` | `TypeOK`, `ActiveCounted`, `AttemptsBounded`, `ContractSpec` | three events, one or two places, zero or two attempts, a purge, a crash | 25 k |
| `contract_enforce` | `TypeOK`, `OnlyDoingRequeued`, `OneWarningPerSpell`, `SilentIsRequeued` | two tasks, two agents, one tick, a restart, with the cloud | 960 k |
| `lock_instance` | `TypeOK`, `OneInstance`, `LockNamesServing`, `StartEnds` | two PIDs, any lockfile, every call may fail | 88 k |
| `deps_mirror` | `TypeOK`, `CirclesComeFromPulls`, `PullsTakeOnlyNews` | two tasks, a push and a pull under way, one change by another client | 4.7 M |
| `chat_cursor` | `TypeOK`, `NoneSkipped`, `AllArrive` | four messages, two relayed, pages of two, a restart | 196 k |
| `task_ledger` | `LedgerTypeOK`, `SyncedMeansReceived`, `ChangesArrive` | two tasks and a test task, pages of one, two POSTs, a fault | 285 k |
| `sweeper_ladder` | `OncePerLevel`, `CloseStands`, `ApprovedIsSettled`, `FirstReviewIsPaged` | one task, three moves of people or GitHub, sweeps that wait, a restart at any point | 1.05 M |
| `webhook_stranded` | refutes `EveryEventSettles` | two events, a crash | |
| `sweeper_swallowed` | refutes `EscalatedIsSent` | one review | |

Why the bounds are enough. The operations on a task read and write that task, apart from the
counts of the WIP gate and of the sweep, so one task and one suspended request show every stale
write: a request in flight and another handler that runs to its end between its two halves. Two
agents are the old owner and the new one, or the reviewer and an impostor. Two bounces are what
a count from an old row needs to go wrong; the third, which needs a reason, is in
`TaskBoard_bounce.cfg`. `TODO_CAP` is 3 in the code and scaled down so that one task is already
surplus. Reopened tasks, and closes that step around the reviewer, multiply the states; they are
in `TaskBoard_signoff.cfg` (1.1 M states, one bounce), and the theorems of `TaskBoardProofs` are
for all bodies and drafts at once. Two approval runs share only the kill switch; two passes race
for one slot, and `CatchUp = 1` (16 in the code) makes a pass leave slots behind. Three webhook
events are one more than there are places. Two processes are one that serves, or leaves, or has
crashed, and one that starts, or two that start at once; `ProcessLock_three.cfg` checks the
safety properties with a third (1.3 M states up to symmetry), and the theorems for any number. A
circle of two tasks is the smallest. One push under way is enough for an old version to come
back: a second one that overtakes it leaves in the cloud what a lost one does. Four messages are
two pages, and two relayed ones fill a page; one row to a page of the ledger makes two tasks
compete for it and a hidden row fill it. The thresholds of the contract and of the sweeper keep
their order (`Sla <= Cooldown <= Critical <= Day`) on a clock of few ticks. `EnoughTime` leaves
two instants at which a reviewer's silence may begin, so the second can be that of a reviewer
who has replaced another. For larger instances there are the theorems.

Agents and suspended requests, or tasks in `TaskDependencies`, are interchangeable, and the runs
without liveness say so with a symmetry set. Deadlock is checked for `ProcessLock` and `WorkingContract` only: a board
on which nobody does anything, a bounded clock and runs that have ended are proper ends.

### Fairness

`AgentInterface`: queued continuations run, a timer that is due fires, and a call that left the
process comes back, since `fetch` has a timeout of 15 s and `osascript` one of 10 s. Humans
owe nothing; a run nobody decides must still end. `RecurringTasks`: the minute ticker starts
passes without force for ever, and the event loop runs what is runnable. Clients and whoever
works on the generated tasks owe nothing. `TaskBoard` has no liveness property: nothing in the
code obliges anyone to move a task.

`WebhookDelivery`: the retry timer ticks, a request comes back (it has a timeout) and a backoff
elapses. `WorkingContract`: ticks come and go on; `Pass` has strong fairness because requests
and ticks take no time in the model and must not stop the clock. `ProcessLock`: a starting
process reads, scans, writes and listens, and its waits have deadlines: it goes on, or kills, or
gives up. That a process leaves or that a signal is delivered is nobody's promise, and
`StartEnds` holds without it. `ChatSync`: the poll, the window and every POST end; success has
strong fairness, i.e. the cloud answers now and then. `TaskLedger`: the interval ticks, and
POSTs succeed but for a bounded number of faults. `ExecutionSweeper`: time passes, the interval
never stops, and a sweep goes on after its awaits. `TaskDependencies` has no liveness property:
pushes are never retried.

### Disagreements between the code and what it says

Two listed runs refute a statement of a comment or a doc; `PROJECT.json` ("findings") quotes
them. A webhook event that is being delivered when the process dies is never delivered again
nor declared dead (`webhook_stranded`). A query of `GET /execution-health` runs a whole sweep:
it records that a reviewer was paged, silences the next sweeps, and sends nothing
(`sweeper_swallowed`).

Further configurations refute further statements; run them the same way, on the module (or the
`MC` module) of their name:

| Configuration | Refutes | What happens |
|---|---|---|
| `TaskBoard_unchecked.cfg` | `SignedOffByReviewer` | a task in review is closed with an approval no identity check has seen: it came with `POST /tasks`, or is truthy without being `true` (`server.ts:9735`, `9963`) |
| `TaskBoard_bounce.cfg` | `LateBounceExplained` | a third bounce passes with the reason of an earlier transition (`tasks.ts:1562`) |
| `TaskBoard_reopen.cfg` | `TerminalNeedsReopen` | claiming starts a closed task with no reopen |
| `TaskBoard_rejection.cfg` | `NoCloseAgainstRejection` | a PATCH to done that awaits the PR check overwrites a rejection that came meanwhile |
| `TaskBoard_sweep.cfg` | `SweepOnlyTodos` | the hoarding sweep unassigns tasks that are no longer todos |
| `AgentInterface_hung.cfg` | `NoRunHangs` | a request whose body is no text throws on the way into the gate (`agent-interface.ts:186`, `535`); the run is shown as awaiting approval, nobody can decide it, and it never times out |
| `AgentInterface_abort.cfg` | `AbortIsFinal` | the continuation that an abort wakes overwrites "aborted" |
| `AgentInterface_denied.cfg` | `DeniedRunFails` | the route executes a run the guardrail denied |
| `RecurringTasks_deleted.cfg` | `DeletedStaysDeleted` | a deleted definition keeps its row and comes back |
| `RecurringTasks_poisoned.cfg` | `CatchesUpDespiteOthers` | one definition that cannot be created stops all that follow |
| `RecurringTasks_cancelled.cfg` | `SkipsOnlyBehindOpen` | a cancelled predecessor blocks the definition as an open one does |
| `WorkingContract_unwarned.cfg` | `WarnedBeforeRequeue` | the warning of an earlier spell counts for the next |
| `WorkingContract_race.cfg` | `NeverRequeuesSubmitted` | a task is put back while its submission awaits the cloud |
| `ProcessLock_overlap.cfg` | `OneThoughStartsOverlap` | two starts that overlap both go on to serve, although no call failed: the lockfile is read, and later written unconditionally (`pidlock.ts:119`, `165`) |
| `ProcessLock_self.cfg` | `KillsOthersOnly` | a process with the PID of the stale lockfile kills itself |
| `TaskDependencies_circle.cfg` | `NoCircles` | a pull brings a deleted task back with blockers that wait for it |
| `ChatSync_stalled.cfg` | `WalksThroughAll` | a page of nothing but relayed messages stops the sync for good, although the comment says the cursor walks through all (`cloud.ts:1185`, `1226`) |
| `TaskLedger_samems.cfg` | `SyncedMeansReceived` | a second change in the same millisecond is taken for the first |
| `ExecutionSweeper_stale.cfg` | `EveryReviewIsPaged` | the mark of one review silences the next, if no sweep came in between |
| `ExecutionSweeper_overlap.cfg` | `OncePerLevel` | two overlapping sweeps page a reviewer twice |

`ExecutionSweeper_stale.cfg` also checks `SweeperTypeOK`. `TaskBoard_signoff.cfg` and
`ProcessLock_three.cfg` check properties of the listed runs on other instances, and hold.

## 5. Theorems

Check a module with `tlapm <module>.tla`. The assumptions are those the modules name: the
markers (`Nobody`, `Rejected`, `Claimed`, `Truthy`, `Keep`, `NoPass`) are different and no
agents, tasks or passes, the bodies are request bodies, the drafts rows without a checked
approval, the numbers are natural and periods positive; the keys of the webhook events are
finitely many. No other set is assumed finite.

`TaskBoardProofs`: `TypeCorrect`, `ApprovalCorrect`, `TakeoverCorrect`, `CloseCorrect`,
`BounceCorrect`. The inductive invariant is `TypeOK /\ RowsSound /\ PendingSound`.
`ApprovalFromReviewer` alone is not inductive: a suspended PATCH carries an approval that
will only be written later, perhaps after the reviewer was replaced. `PendingSound` says that every
suspended update is sound by the history that will be there when it is written, and
`ReviewerRecorded` that the present reviewer is in that history. An approval accepted while the
task had no reviewer is remembered for good (`HistoryGrows`); that exception, and the unchecked
values, are in the statement because the code makes them. One lemma about
`UpdateTask` (`SoundWrite`) carries every handler that writes through it; creation,
deletion, review and the sweep have cases of their own, and the three action properties
follow from the same step lemma.

`AgentInterfaceProofs`: `TypeCorrect`, `ApprovalCorrect`, `AwaitingCorrect`,
`KillSwitchCorrect`, `GateImplemented`. The invariant ties the place of an executor to the
status of its run, the pending map, the timer and the approvals: a run that stands at "yes" was
approved; one at the gate is pending with its timer armed; an action that left was reversible or
approved. `AwaitingCorrect` excepts the runs that throw between their status and the pending
map, for which it is false. `GateImplemented` is the safety part of the refinement, from the
initial states and a case for each action.

`RecurringTasksProofs`: `TypeCorrect` (no pass holds an object that does not exist, also
after a restart, and the table keeps its primary key), `SlotCorrect`, `OpenCorrect`. The
last two need only one lemma on what a step does to the tasks: nothing, move one, or add one
that passed both checks in the same turn of the event loop. `OpenCorrect` is the reason why
concurrent passes do not pile tasks up: were an open task not the latest, the task behind it
would already have come from a forced pass.

`WebhookDeliveryProofs`: `TypeCorrect`, `DeliveriesCounted`, `AttemptsAreBounded`,
`KeepsContract`. The invariant adds to the count what a row and its request have to do with
each other (`KeyInv`): a request belongs to the attempt its row is at, and a row at rest has
attempts left. Without it a turn of the retry loop could take a row twice. `KeepsContract` is
the safety part of the refinement: every action moves the phases of keys along the edges of
`AtLeastOnce`.

`BoardSweepProofs` on `WorkingContract`: `TypeCorrect`, `RequeueCorrect`, `WarningCorrect`, for
any number of ticks that overlap. `EntriesAreFresh` is the reason the stale list does no harm: a
task that was listed and has left doing has been touched since, so the silence the tick looks up
again is over. The one exception is a write whose history waits for the cloud;
`RequeueCorrectOffline` proves `NeverRequeuesSubmitted`, which has no exception, for a node without
a cloud adapter.

`BoardSweepProofs` on `ExecutionSweeper`: `SweeperTypeCorrect` and `CloseCorrect`, for any number of
sweeps that overlap, and `LadderCorrect`, under `NoOverlap`: sweeps do not await (no cloud), or
there is one. The hypothesis is needed: `ExecutionSweeper_overlap.cfg` is the counterexample
without it. `OncePerLevel` needs `MarksCover` (of a task in review, or still on a sweep's list, the
row and the memory remember the last level that was paged) and `ReadingsCover` (so does the
metadata the sweep read at its start, which it may write back). That the row alone covers the
pages is why a restart, which empties the memory, does not page again. A new review starts with
no page, and no mark can be behind that. For `CloseCorrect` it is enough what a step makes of one
row (`RowEffect`): what was closed by people is either left alone or reopened.

`ProcessLockProofs`: `TypeCorrect`, `InstanceCorrect`, `LockCorrect`, with no hypothesis on
overlaps or failures. Each property is an implication from the mishaps it does not survive, and
each has an invariant of its own. For the lockfile: `Held` (who holds it is named in it) needs
`Killing` and `Cleared` (past the kill, the lockfile names nobody alive) and `Removing` (a process
that has read its own PID and will unlink is still the one in the lockfile). For the instance:
`Visible` (the lockfile or the port leads to whoever serves), `Clearing` (a start that waits for the
port's owner waits for that one) and `NoRival` (who is about to write or to listen has no rival).

`TaskDependenciesProofs`: `TypeCorrect`, `CirclesCorrect`, `PullsCorrect`. `CopiesAreBehind`
says that no version of the node's own making, on the wire, in the cloud or in an answer, is newer
than the row, if the node was the last to change it; so the merge takes none of them for news.
Versions of other clients have their own clocks and are exempt. `AcceptedNoCircle` proves
`checkCircular` complete, from the closed set it computes.

`CloudSyncProofs` on `ChatSync`: `TypeCorrect`, `CursorCorrect`. `BatchIsNext` says that a message
between the cursor and one that is being sent is sent with it; messages stored meanwhile come
after the page because times only grow.

`CloudSyncProofs` on `TaskLedger`: `LedgerTypeCorrect`, `SyncedCorrectToTheMillisecond`,
`SyncedCorrect`. A ledger row always has the time of its task (`RowsFollowed`, the work of the
triggers), and a POST carries versions that were written (`VersionsWritten`). An answer marks a row
only if the row still has the time that was sent, so the cloud has a version of that time
(`SyncedAtItsTime`, which needs no hypothesis). That it is the version the table holds needs one
change per task and millisecond (`~SameMillisecond`, `OnePerMillisecond`);
`TaskLedger_samems.cfg` is the counterexample without it.

Only model-checked: liveness (`EveryRunEnds`, `CatchesUp`, `SilentIsRequeued`, `StartEnds`,
`AllArrive`, `ChangesArrive`, `ApprovedIsSettled`, `FirstReviewIsPaged`, the fairness parts of
`GateSpec` and `ContractSpec`), which the prover does not reach, and the refutations.

## 6. Not modelled

See `PROJECT.json` ("components") for every part and its reason. The front ends, dashboards,
record stores, assets and docs keep no protocol; they make up most of the lines of the
repository. Inside the modelled parts the omissions are those of section 3.

Hazards known and not covered by a property, besides those in `PROJECT.json` ("hazards") and
the configurations above:

- `todoHoardingGuard.ts:175`: a throw of the lane lock ends the sweep with the rest of the
  overflow assigned, until the next sweep.
- `tasks.ts:1707`: a PATCH that is no bounce writes `bounce_count` as it was when the request
  was read.
- `server.ts:9289`: the canvas subscription of a run that ends aborted is never removed.
- `lane-template-successor.ts:152`: two closes of a task both find no successor.
- `webhooks.ts:467`: with more deliveries active than a lowered maximum the LIMIT is negative,
  which SQLite takes for none.
- `cloud.ts:1110`: one row the cloud refuses fails the whole page, which is always the oldest.
- `db.ts:238`: a deleted task leaves the ledger, so the cloud is never told.
- `executionSweeper.ts:369`: the rejection for want of artifacts writes todo over whatever the
  task has become, and does not wait for the write.
- `executionSweeper.ts:439`: a rejection between the snapshot and the close is overwritten; the
  second look only asks whether the task is closed.
- `executionSweeper.ts:627`: the close of a merged task after 24 h stands behind the warning,
  where the close at 8 h has always come first.
- `review-state.ts:9`: `reviewer_decision` of a rejection stays when the task is submitted
  again, so the second review is never paged.
- `prAutoMerge.ts:474`: `updateTask` is not awaited, so a gate that throws is an unhandled
  rejection and the caller reports a close.
