# Run control of moyAI in TLA+

moyAI is a coding agent with a Desktop, a TUI and a command line.  A user
starts a root task in a session; the task runs model turns and tools, may spawn
child agents, may be stopped at any moment, and leaves its outcome in a SQLite
database that other processes open too.  This project specifies the part of it
that decides *how a run ends*: who may end it, who is told, what the database
says about it, and that nothing keeps running, or waiting, afterwards; and, for
the child agents, how a run begins: which message wakes which child, within
which capacity, and what becomes of the message.  Two parts that watch or
drive runs from outside are specified as well: the Desktop, which must notice
that the run on show has ended, and the shared Runner, which executes what a Hub
assigns to it and must not execute anything twice.

Paths below are relative to the repository; `src/` is its crate root.

## 1. Inventory

### The parts that are modelled

| Part | State | Operations | Talks to |
|---|---|---|---|
| Run classification, `RunControl` in `src/runtime/cancel.rs` | one `RunClassification` under a mutex, a cancellation token, RAII reservations | begin a tool or success reservation, release, seal, resolve or abandon it; request, commit, route or link a cancellation | agent loop, tools, permission dialogs, heartbeat, Stop |
| Root admission, second half of `cancel.rs` | pending plan, newest receipt, Stop lease, two id counters, a watch channel | begin, commit, abort a plan; seal for Stop, wait for its settlement, commit or release the seal; hold a turn at the gate | `run_service.rs` on both sides |
| Running a root task, `src/app/run_service.rs`, `src/app/agent_runtime.rs`, end of the loop in `src/agent/mod.rs` | process lease, admitted turn, heartbeat, tree that retains the scope | plan, admit, renew, gate, adopt, run, commit success, classify, settle, continue | database, root admission, run classification |
| Stopping a root task, same files | a Stop lease guard per request | Stop of a scope (`request_root_execution_stop`), Stop of one exact turn (`cancel_exact_root_execution`) | all of the above |
| The session's row, `src/storage/session_repo.rs` | latest turn, admission revision, active run, interrupt request, turn outcomes | admission, lease renewal, exact interrupt request, terminal, expiry and orphan recovery, rollback | every process that opens the database |
| Agent tree, `src/runtime/agent_control.rs` | per child a status, an execution marker, a run control and a mailbox of notices; capacity reservations; the delivery fence | spawn, send a follow-up, schedule, publish an admission, deliver mail, interrupt, complete, retire, release | agent workers, the mail tables of the database |
| Agent workers, `src/app/agent_runtime.rs` | registry of workers by path and generation, hard-abort monitors | launch, refuse, settle what never ran, run a turn, detach, capture and abort | agent tree, local task executor, database |
| Desktop session, `src/desktop/app.rs` | session on show, run status, the root run it launched, the listener slot, pending refreshes, two queues | select a session, launch a run, attach and retire a listener, refresh, drain | the run's worker, threads that read the database, runs of other processes |
| Shared Runner, `src/runner/shared/mod.rs`, `journal.rs`, `data.rs`, `src/runner/mod.rs` | journal of attempts, outcome spool, receipts of executions, registry of shells | poll, stop what is fenced, collect, reconcile services, flush reports, adopt orphans, claim, start, recover; operator requests | the Hub, workers and their processes |
| Local task executor, `src/runtime/local_task_executor.rs`, `src/runtime/task_owner.rs` | command queue, worker handles, shutdown token | spawn from outside and inside, hand over, time out, abort on drop, shut down | whoever starts a local future |

A run is cancelled under the classification mutex and its token is woken after
the mutex is dropped.  A root turn is *planned* in the root-admission state,
*admitted* by a database transaction and *published* back; a Stop seals the
same state, so that it either sees the plan or shuts it out.  A Stop then
records an interrupt request in the database before it touches a local control,
and the heartbeat of the run turns a request it finds there into a local Stop:
this is how a Stop from another process arrives.  The database decides between
a Stop and a success that race.

### What is hard about them

* A Stop, a failure and a heartbeat error race for one classification while a
  tool holds a reservation (interleaving, deferred effects).
* A linked cancellation changes two controls or none (partial failure).
* Every wake-up is sent after its mutex is dropped (atomicity, lost wake-up).
* A Stop meets a turn between its plan, its admission in the database and its
  publication; it may be dropped in any await (ordering, RAII release).
* A turn ends and its continuation starts while a Stop of the former is still
  at work (stale receipts).
* A Stop can reach a control the run no longer looks at, between the test of
  the scope and the adoption by the agent tree; only the durable request and
  the heartbeat are left to end the turn (liveness).
* A follow-up is committed to the database and then enqueued under a second
  lock, while its recipient may end, be admitted or be interrupted; the slot it
  needs is set aside under a third (atomicity, capacity).
* A worker that ends schedules and launches others, its own child included,
  while it is still registered (order of clean-up).
* An interrupt captures paths under one lock and workers under another, and the
  grace period of the hard abort races the worker's own end (stale state).
* A timeout of a spawn races the late delivery of the worker's handle.
* The Desktop learns of a turn through a listener thread, refresh threads and
  the worker's own messages, which overtake each other in two queues, one of
  them bounded; a listener may be replaced with its events still queued.
* The Runner may lose a call before or after the Hub has applied it, and may die
  between any two writes of its journal, while its workers and services go on.
* A yield, a handed-over service and a stop fence meet in one report: the service
  may die before, between and after the two calls that announce it.

`PROJECT.json` lists them one by one at their lines ("hazards").

### Parts that are not modelled yet, or not at all

| Part | Hard behaviour | Decision |
|---|---|---|
| Deferred owners and owner resumes of the agent tree | a child whose turn failed in a crash waits for its descendants; the settlement of a trigger may release it in the store and not in memory | next (see the plan) |
| Event hub and recording (`src/runtime/event_bus.rs`, `src/protocol/recording.rs`) | publication outside the hub's lock, lag | the consumer that must not miss anything, the Desktop listener, reads committed events and uses the hub only to wake up early; so the hub is left out and the listener is modelled |
| Resource admission, permission retry fence | locks of several processes, a fence that survives a crash | planned |
| Remote agent, device network | job stores with crashes, redelivery, late answers | planned |
| Side chat, harness recording | idempotent projections | planned, lower priority |
| Hub connection, sandbox broker, MCP | glue around external services or Windows system calls | only the parts above need |
| Model providers, compaction, patch and path handling, configuration, front ends | parsing, text selection, presentation: sequential and data-bound | not modelled |

## 2. Modules

| Module | What it is | Code |
|---|---|---|
| `RunVerdict` | abstract: every run is decided once; a binding Stop is the decision; only cancelled runs wake | promise of `cancel.rs` |
| `RunControl` | the classification state machine, one action per critical section | `cancel.rs`, the router of `agent_control.rs` |
| `RunControlProofs` | its invariants and the refinement of `RunVerdict`, proved | |
| `StopGate` | abstract: a gate through which turns are admitted; it closes only when nothing is in flight | promise of the seal in `cancel.rs` |
| `RootAdmission` | plans, guards, seals, leases, the two wait loops, the watch channel | `cancel.rs`, `claim_root_execution_stop` |
| `RootAdmissionProofs` | its invariants and the refinement of `StopGate`, proved | |
| `RootStop` | composes `RootAdmission` (by EXTENDS, every step of it is used as a whole) with the worker, its heartbeat, the Stops, the database row and other owners of the session | `run_service.rs`, `agent_runtime.rs`, `session_repo.rs`, `session/service.rs`, `agent/mod.rs` |
| `RootStopProofs` | the invariants of the composed system and its refinement of `RootAdmission`, proved | |
| `LocalTasks` | the executor thread and the ownership of workers | `local_task_executor.rs`, `task_owner.rs` |
| `LocalTasksProofs` | the handover of handles, proved | |
| `AgentTree` | the registry of executions, the workers, the hard-abort monitors and the durable trigger mail under one running root | `agent_control.rs`, `agent_runtime.rs`, `session_repo.rs` |
| `AgentTreeProofs` | its capacity, leases, turns and follow-ups, proved | |
| `DesktopSession` | the UI thread, its two queues, listener and refresh threads, the worker of a launched run, runs of other processes | `desktop/app.rs`, `desktop/open_session.rs`, `desktop/async_ops.rs`, `tui/state.rs`, `app/run_service.rs` |
| `DesktopSessionProofs` | no terminal is skipped and only an ended turn is shown as ended, proved | |
| `SharedRunner` | the loop of the Runner with its journal and spool, executions and their processes, the Hub as the Runner uses it, lost calls and crashes | `runner/shared/*.rs`, `runner/mod.rs`, `tool/managed.rs` |
| `SharedRunnerProofs` | at most one execution per attempt, proved | |
| `SharedRunnerReportProofs` | what the Hub accepted or released agrees with journal, spool and host, proved | |
| `MC*` | model-checking instances | |

Definitions keep the names of the functions they stand for; definitions whose
comment begins with *Faulty* are plausible mistakes and are used by no
specification, only to show that a property would notice them.

### RunControl

`class[c]` is the `RunClassification` of control `c` (a kind and a pending or
final cause), `wake[c]` its token, `token[t]` the RAII reservation a task holds,
`toWake[t]` the controls a task has cancelled and has yet to wake.  `evidence`,
`ack` and `verdict` record what producers wrote or were told; nothing reads
them but the properties.  The four reservations of the code are one action
`begin_reservation(t, c, k)`; `release` is what a dropped guard does.  A request
on a routed control acts on the control the router names (`Route`).  The
`route_terminal_outcome` of the agent tree is one step here although the code
drops the tree's lock before it cancels; the agent tree will split it.

Not in the module: the effect authority and the approval identity, which the
classification does not read.

### RootAdmission

One action per critical section of the `root_admission` mutex.  A
notification is a step of its own (`notify`), and so are, in both wait loops,
the subscription, the inspection of the state and the await (`wait`: `Check`,
`Empty`, `Parked`).  `changed[w]` is the unseen-value flag of the watch: it is
cleared by the subscription and by a wake-up.  `MaxId` stands for `u64::MAX`;
the ids are used up inside the bound and the exhaustion errors are taken.
Reasons for a refusal (`RootAdmissionBeginError`) are the conjuncts of
`MayBegin`.  The classification of the outer control is reduced to what is read
of it (`scope`).

### RootStop

`pc` follows `execute_single_run_inner`, `beat` follows
`renew_admitted_run_lease_with_terminal_cancel`, `at[s]` follows the Stop `s`.
`latest`, `revision`, `running`, `request` and `outcome` are the session's row;
a database transaction is one step.  `control` is the classification of the
current root turn and `deferred` the cause, an interruption or a failure, that is
pending behind its success commit; `scope`/`cause` the outer control's, `retained` says that the
agent tree owns the scope (then a Stop goes to the turn, before that to the
outer control).  `lock` is the process lease.

Another owner may run the session whenever the lease is free, a rollback may
move the revision whenever nothing runs, and a turn nobody owns is recovered
either by expiry (inside a later admission) or as an orphan at startup.  The two
recoveries differ: expiry recovery fails a turn even when it carries an
interrupt request, orphan recovery interrupts it.  No document says which one is
meant, so no property chooses.

The heartbeat distinguishes what a renewal can answer: renewed, the turn is over,
the turn was asked to stop, the lease is superseded or expired, and a storage
error.  A request leads to a Stop of the heartbeat's own; when the ids of seals are
used up that is an error, which fails the run.  `lost` says that the worker can no
longer settle its turn: the lease ran out (`lease_expires`), or storage failed
at the first renewal or at the terminal (`settle_fails`).  The row then keeps the turn as running
and recovery, by whoever comes next, decides its outcome.

Assumptions of the module: SQLite transactions are atomic; the process lock is
held for as long as the worker lives, so nobody recovers its turn before; the run
is a root run of one session without goal, shared or remote parts.  The answer
`StopFenced` of a renewal belongs to child sessions of a stopped tree and cannot
be given to such a root.

### LocalTasks

`call[c]` is the caller's side of a spawn, `worker[c]` the future made for it,
`reply[c]` the response channel, `commands` the bounded queue.  The time at
which `recv_timeout` finds its channel empty (`expire`) and the time at which
the receiver is dropped (`drop_receiver`) are two steps, as they are in the
library.  `shares[c]` says that the worker captured a clone of the executor, so
that the last clone may be dropped on the executor's own thread.

### AgentTree

Two threads act on a tree.  The root turn calls the agent tools on its own
thread; all child workers and monitors are tasks of one `LocalTaskExecutor`, so
they interleave with each other only at awaits, and with the root at every lock.
`job[t]` is the synchronous section thread `t` is in (a delivery, an interrupt, a
launch queue, a settlement), `work[c]` the await at which the worker of child `c`,
or the monitor that has aborted it, rests.

| Variable | Code |
|---|---|
| `status`, `mark`, `ctl`, `box` | `AgentEntry`: live status, `execution_marker`, `run_control`, `mailbox` (trigger notices with `schedule_ready`) |
| `gen` | the last marker made for the child; markers are pointers in the code and numbers here, and a worker's generation is the marker it was launched for |
| `wake` | `wake_cause` of the lease |
| `reserved` | `pending_capacity_reservations` |
| `row`, `turn` | durable messages with their state and claim, and whether the child's session has a running turn |
| `reg`, `monitors`, `taken` | `workers.tasks`, captured batches in their grace period, workers removed from the registry and not aborted yet |

A follow-up is three steps: `SendBegin` takes the delivery fence and sets a slot
aside, `SendCommit` (or `SendRefused`) is the storage transaction, which decides
by the durable turn whether the message may run now, `SendEnqueue` gives the slot
back, adds the notice and runs the scheduler.  The fence is `DeliveryFree`:
whatever locks `mail_delivery` waits for the delivery in flight.  The scheduler
(`Chosen`, `ReserveFrom`) is part of every action that calls it.  A launch queue
is worked off one lease at a time (`launch_agent_turn`, `launch_refused`); what
cannot be launched is settled as a turn that never ran, and what that frees joins
the queue.

A terminal settles mail according to its outcome, as the storage transaction does.
A completed turn has closed its mailbox with its final answer and settles the
trigger it claimed, a stopped one discards that trigger, and both leave later mail
pending for the next execution.  A failed turn is settled by `RunService` with the
mailbox phase open, wherever it failed: every pending message of the child is taken
into the history of that turn, and none of them is sampled.  The notices in the
live mailbox stay; each is scheduled later and retired when the admission finds
that its message is no longer pending (`settle_stale`).

Abstractions.  Registering, starting and signalling a worker is one step.  The
terminal of a turn and the change of its run control are one step (`RunControl`
and `RootStop` model the race between them).  Reading the expectation, the
configuration and the hub scope is `preflight`, which may fail.  `MaxFaults`
bounds failures of storage and of launches; the durable terminal of a running
turn does not fail here.  After a batch of workers is taken, the first is aborted
at once; the others may be aborted at any later time, where the code first
settles those before them.

Not in the module: trees restored from the store, and with them deferred owners
and owner resumes; informational mail and completion handoffs, which never
schedule; the end of the root and the tree Stop; the fallback that aborts without
a monitor; agents below children (a child may call the tools, but parentage does
not matter to any of these operations).

### DesktopSession

A session is the sequence `log[s]` of its committed events (`Stored`, `Update`,
`Terminal`, each with its turn).  What a thread reads of a session is the length
of the prefix it saw; status, active turn and revision are functions of that
prefix, and *newer* means longer.

| Variable | Code |
|---|---|
| `current`, `open`, `run_status`, `post_run` | `app_state.current_session_id`, `open_session`, `app_state.run_status`, the pending `TerminalRunRefresh` |
| `expectation` | `app_state.active_turn_expectation`: the turn the Desktop believes to be the latest, and whether it runs |
| `root`, `worker` | `run_lifecycle.root` with its generation and phase; the worker thread of the launched run |
| `listener`, `threads` | the listener slot; listener threads that have not returned, superseded ones included |
| `request`, `navigation`, `reads` | the newest refresh and the newest navigation, and the threads that read for them |
| `control`, `mailbox` | the unbounded queue, which is drained first, and the bounded one |

`listener_boot`, `listener_first` and `listener_poll` are the three database
accesses of `run_desktop_session_runtime_listener`; a page is one event.  A thread
that was superseded still runs and still sends: `Awaited` and
`listener_is_current` are the tests with which the UI thread drops what it sends.
A thread whose request is superseded before it reads is given the result `Failed`:
nobody will look at it.

The worker of a launched run follows `execute_single_run_inner`: the admission
commits the user turn, and only if the latest turn of the session is the one the
launch expected (`worker_store`); then `SessionStarted` and `UserTurnStored` are
announced (`worker_start`, `worker_announce`), the agent loop runs, and the terminal
is committed, by the loop or, for a run that failed anywhere after the admission, by
`settle_admitted_run_result` (`worker_terminal`).  The end is reported by
`worker_finish`, with an error for a run that was refused, and by
`worker_unsettled` when storage refuses the terminal or the read that confirms it.

Not in the module: Stop and steering from the Desktop, the continuations a goal adds
to one launch, the child agents' runs in the Desktop, side chat, the paging of
history, and what the panes show.

### SharedRunner

`journal[a]` is the durable entry of attempt `a`, `spool[a]` the report its outcome
payload is bound to, `run[a]` the receipt of its execution, `shell[a]` what the
registry of managed shells holds of its process and `process[a]` the operating
system process itself, which survives the Runner.  `hub[a]` is what the Hub knows.
`tick` is where the loop is, with the entries it still has to visit.  The steps of
a tick are taken in the order of `reconcile_tick`; a call of the Hub is one step
and is followed by the journal write the code makes after it, a write of the
journal after which the process could die is a step of its own.

The Hub is external and modelled from how the Runner uses it: a report is applied
once, a final report of an attempt that is over is accepted only if it is the same
one, a fenced attempt neither starts nor hands anything over; a repeated yield may
be accepted or rejected.  `Lossy` adds the two ways a call is lost.

`earlier` are attempts that an earlier host of the device was running when its
journal was lost; `effects[a]` counts the executions this Runner began.

A worker whose result was lost (`Lost`) does not end its process: only a run that
has a result cancels the lifetime of its processes.

Abstractions: one managed process per attempt; preparation of the workspace is one
step that may fail; the sequence numbers of events are the names of the reports.
Not in the module: entries of external hosts (`external.rs`), progress and approval
reports, local checkpoints of yielded turns, pairing, credentials, resource
discovery, the upload of outcome data, the capacity of the journal, and graceful
shutdown (a crash at the same point is modelled).  An outcome that can never be
frozen (more than 128 files, a file above 8 MiB, 192 MiB in all,
`src/runner/shared/data.rs:267`, `339-343` and `361-362`) is not modelled either: a
failure of `flush_persist` is one of the bounded faults and the next tick tries
again.  `ReportSettles` says nothing about such an outcome.

## 3. Runs

Run `tlc -config <cfg> <module>` in this directory.

| Run | Configuration | Question |
|---|---|---|
| `run_control` | `MCRunControl.cfg` | Do a scope control and its root turn keep what terminal producers were told? |
| `root_admission` | `MCRootAdmission.cfg` | Does a Stop act on the newest turn, and does nobody wait for ever? |
| `root_stop` | `MCRootStop.cfg` | Do the row, the controls and the admission state agree however Stops race the turn? |
| `root_stop_served` | `MCRootStopServed.cfg` | Does an accepted Stop end the run, and is a recorded request served? |
| `local_tasks` | `MCLocalTasks.cfg` | Are late workers aborted, owned ones kept, and does shutdown end? |
| `agent_tree` | `MCAgentTree.cfg` | Is no execution lost or doubled, does the scheduler know what the store still has to run, and is every message settled if no turn goes on for ever? |
| `agent_tree_full` | `MCAgentTreeFull.cfg` | Is the capacity kept when two children compete for one slot, and does an interrupt end an execution whose turn hangs? |
| `desktop_session` | `MCDesktopSession.cfg` | Does the Desktop miss no terminal, end no run that goes on, settle what it launched (unless the agent loop never ends) and retire its listeners? |
| `shared_runner` | `MCSharedRunner.cfg` | Is nothing executed twice or released too early, does the Hub hold what the journal says, and are fences and reports served? |
| `agent_tree_follow_up` | `MCAgentTreeRuns.cfg` | Expected violation, see *Findings*. |
| `desktop_running` | `MCDesktopSessionRunning.cfg` | Expected violation, see *Findings*. |
| `shared_runner_orphan` | `MCSharedRunnerOrphan.cfg` | Expected violation, see *Findings*. |

### Properties

`RunControl`
* `AcknowledgedStopKept`: what a producer was told (applied, or deferred) stays
  true for ever; a Stop deferred behind a success commit loses only to the
  durable record.
* `NoOrphanCause`: a rejected producer leaves no trace; linked requests are all
  or nothing.
* `EvidenceMatchesClass`: durable evidence and classification agree.
* `WakeOwed`: every cancelled run is woken or exactly one task is about to.
* `FirstTerminalWins`, `ImplementsVerdict`, `AcknowledgedStopConcludes`.

`RootAdmission`
* `SealOwned`, `PlanAccountedFor`, `OneSession`: the errors
  "Stop lease was lost before local commit", `StaleStopPlan`,
  `SettlementLost` and "admissions from different sessions" cannot be returned.
* `StopSelectsNewest`: the turn a Stop acts on is the newest admitted one, for
  as long as it holds the seal.
* `NoLostWakeup`: subscribe before inspect, notify after change: nobody sleeps
  over what it waits for.
* `ImplementsStopGate`, `StopConcludes`, `HeldTaskResumes`.

`RootStop`
* `NoTurnEscapesStop`: once a Stop is committed, a turn of the worker that still
  runs carries the durable request.
* `StopHitsOnlyItsTurn`: a control that was stopped belongs to a turn that
  carries the request, and the database never calls that turn completed; a Stop
  of a predecessor does not reach a continuation.
* `LocalMatchesDurable`: the control is sealed by success exactly when the
  database completed the turn.
* `ImplementsRootAdmission`: the composed system takes only steps of
  `RootAdmission`, so what is proved there holds here; in particular the
  heartbeat, which commits a seal without waiting, never does so over a pending
  admission.
* `AcceptedStopEnds` (liveness).
* `RequestIsServed`: a turn of the worker that carries a recorded request ends
  `Interrupted`, whatever else the run asks for, unless the worker is `lost`.  That
  the run ends is not enough: a requested turn that ended Completed or Failed, or
  was left running, would violate it.

`LocalTasks`
* `HandoverAgrees`: a worker is not aborted behind the back of a caller that has
  or will take its handle; a refused call never gets a worker.
* `LateWorkerEnds`, `ShutdownEndsWorkers` (liveness).

`AgentTree`
* `CapacityKept`: executions and slots set aside never exceed the capacity.
* `OneLease`: a marker is set exactly while one lease of it exists, in a launch
  queue, with a worker or with a monitor.  A lost lease would use up the slot for
  ever, a second one would run the child twice.
* `FollowUpKept`: an unclaimed durable follow-up has its notice in the mailbox or
  on its way there.  The converse is false: a failed turn settles follow-ups whose
  notices stay.
* `NoIdleFollowUp`: without failures no notice lies in the mailbox of a child
  that has no execution, although mail that arrives during a turn is not ready
  and is made ready only by the end of that turn.
* `TurnOwned`: a durable running turn has the task that will end it.
* `InterruptLands`: an interrupted execution frees its slot even if its turn hangs.
* `FollowUpSettled`: if no turn goes on for ever, every message is delivered to a
  turn, discarded by an interrupt or settled by a turn that never ran, unless
  storage or a launch failed.

`DesktopSession`
* `TerminalNotSkipped`: while a listener is in place, the terminal of its turn is
  ahead of its cursor, held, or in the mailbox.
* `EndsOnlyEndedTurn`: a run the Desktop did not launch is shown as ended only
  when the turn on show is over; leftovers of a replaced listener end nothing.
* `LaunchedRunSettles`: unless its agent loop is open for ever, a launched run
  leaves the Desktop's slot, also when it was refused, when it failed between the
  commit of its turn and the announcement, and when its terminal could not be stored.
* `ListenerRetires` (liveness).

`SharedRunner`
* `EffectsOnce`: an attempt is executed at most once, over crashes and lost calls.
* `ReleasedIsDrained`: the Hub holds an attempt for released only when its worker
  has ended and its process is gone or under a lease.
* `AcceptedIsRecorded`: what the Hub accepted as final is the report or the
  fallback in the journal, and a settled entry was accepted.
* `FenceEndsExecution`, `ReportSettles` (liveness).

The type invariants of `RunControl` and `RootAdmission`, `ReservationOwned` and
`GuardOwnsPlan` are proved (section 4) and not repeated in a run.

Every property has a mutant in `PROJECT.json`: a faulty variant of a definition
under which the same run finds the property violated.

### Bounds, and why they are enough

* `run_control`: two controls (a linked request needs two; routing needs a
  source and a target), two tasks (one holds the reservation, one races it; a
  third would only repeat the second's moves), two causes (first and later).
* `root_admission`: two admitters and two Stops, so that each can be in the way
  of another of its kind; two sessions for the session test; one turn and one
  revision, because the module only copies them into receipts; `MaxId = 3`, so
  that two plans and two seals are made (the second meets the leftovers of the
  first) and the counters run out.
* `root_stop`: two turns, so that there is a predecessor and a continuation or
  a turn of another owner in between; three revisions, so that a rollback can
  move the revision around both; two Stops besides the heartbeat.  A larger
  instance (three turns, four revisions, ids up to 4, one Stop) was also
  checked.  `root_stop_served` has two Stops as well, so that one may record a
  request and give up while the other is in the way, with two turns, two revisions
  and ids up to 2, so that the heartbeat finds the seals exhausted.
* `local_tasks`: three calls against a queue of one command: one served, one
  queued, one refused or nested.
* `agent_tree`: two children and room for both, three messages (two initial
  tasks and one follow-up, or one child and two follow-ups), one failure, one
  interrupt: enough for a follow-up to meet every await of its recipient and for
  a failure to hit a settlement.  `agent_tree_full` has one slot for two
  children, so that sends are refused and a released execution is scheduled again
  against another one.  `MaxNotices = 2` is never the reason a message is lost:
  a full mailbox refuses it before the store is touched.

* `desktop_session`: two sessions, so that one can be left with messages under
  way; a mailbox of one message, so that it is full all the time; three inputs of
  the user and of other processes (events other than terminals, sessions opened,
  runs launched) in any mixture: two turns of one session, or a turn with an
  update and a change of session.
* `shared_runner`: two attempts, the second of which finds the service of the
  first; the first may be one of an earlier host.  One fault, which can hit any
  call, write or step, and one stop.  `shared_runner_orphan` needs one attempt and
  one crash.

Deadlock is checked in `shared_runner`, whose loop never stops.  It is not checked
in the others: a scope that was stopped, a run that has ended, an
executor that was shut down and a tree in which nobody sends anything really are
final states, and ids run out.

### Fairness

Weak fairness, with one exception, of steps the code takes by itself:

* a guard dropped by its holder (Rust drops it on every path), a wake-up and a
  notification, which follow their critical section with nothing in between;
* a task that is polled: the runtime polls woken tasks;
* the heartbeat's timer and its renewal;
* in `RootStop`, the worker, except that an agent loop whose control is Open
  need not end (a model or a tool may take for ever); one whose control is
  cancelled does, after its grace period (`run_admitted_inner_with_cancel_grace`);
* a Stop that has its target goes on to a commit or a release.  Nothing makes
  anybody start a Stop, or give up one that waits;
* in `LocalTasks`, the executor thread, a caller past its deadline, and a worker
  that was aborted.  A worker that was not aborted may run for ever.

* in `AgentTree`, a synchronous section, which has nothing to wait for but the
  delivery fence, the monitors, whose timers fire, and the first check of a
  worker that was started.  `InterruptLands` assumes no more (`HangingSpec`): an
  admitted turn may hang.  It needs strong fairness of the sections: a root that
  sends follow-ups that are refused takes the fence again and again, but its
  calls are a model request apart, so whoever waits for the fence gets it.
  `FairSpec`, under which `FollowUpSettled` is checked, adds weak fairness of a
  worker while it has no durable turn; inside a turn nothing is assumed, and that
  turns end is the premise of the property;

* in `DesktopSession`, the UI thread, which drains on every frame, the worker of a
  launched run before and after its agent loop, the refresh threads, and the thread of the listener in place.  A
  thread that was cancelled need not go on, and nothing is assumed of the user or
  of other processes.  The agent loop need not end: that it is not open for ever is
  the premise of `LaunchedRunSettles`;
* in `SharedRunner`, the loop, a worker that was cancelled and a process that was
  told to end.  A worker nobody stopped may hang; the Hub, local clients and
  operators need not do anything.

`ReportSettles` names two exceptions: a service of a Runner that crashed, of which
only a person can say that it is gone (`AwaitsOperator`), and a receipt that was
retired too early (`ReceiptLost`, below).  `RequestIsServed` names its exception (`lost`): a
lease that ran out, or a storage error at the first renewal or at the settlement, ends the
run and leaves the row to recovery.

### Findings

Each has a run that ends in the counterexample.

* *A follow-up that never runs* (`src/app/agent_runtime.rs:817`).  A worker that
  ends completes its execution, which reserves the next one for a follow-up that
  arrived during the turn, and launches it while its own entry is still in the
  registry of workers; the guard that removes the entry is dropped after that.
  `reserve_worker_generation` refuses ("already has an owned runtime worker") and
  the follow-up is settled as a failed turn.  `agent_tree_follow_up` shows it with
  no failure of storage or launch, against the comment at `src/agent/mod.rs:993`
  ("It either starts a later triggered turn or is accepted by a later
  user/owner-resume turn").
* *A Desktop that shows Running for ever* (`src/desktop/app.rs:17708`).  A live
  refresh that already saw the terminal of the turn drops the listener that was
  about to deliver it, and leaves `run_status` alone; a run of another process
  sends nothing else.  `desktop_running` shows it, against the comment at
  `src/desktop/app.rs:20245` ("including any terminal that did not fit in the
  Desktop mailbox").
* *An attempt of an earlier host is executed* (`src/runner/shared/mod.rs:918`).  It
  is recorded in three writes, the first of which makes it an intent; a Runner
  that crashes before the second starts it after its restart.
  `shared_runner_orphan` shows it, against the comment at
  `src/runner/shared/mod.rs:912` ("No new claim or effect is permitted merely
  because this process has no worker").

Other disagreements met while modelling.  The models contain the steps; no run is
kept for them, and the properties either name the case or do not speak of it.

* The doc comment of the Stop gate (`src/runtime/cancel.rs:543`) says that a
  durable Stop "is published through the outer cancellation token"; a continuation
  held at the gate is told `Cancelled` while the outer control of a retained tree
  is Open.  A unit test of the file expects what the code does.
* `src/runtime/local_task_executor.rs:172` says "no unowned worker can survive the
  failed handoff"; one does when its handle is sent after `recv_timeout` gave up
  and before the receiver is dropped.
* `capture_cancelled_workers` (`src/app/agent_runtime.rs:915`) reads paths and
  generations under two locks; a worker launched in between is aborted although
  nobody cancelled it.
* `src/runtime/agent_control.rs:1845` says that a later scheduler pass "can reserve
  the retained trigger again"; the initial task of a child never was a notice of
  its mailbox, so after a failed settlement only another message wakes the child.
* `src/storage/session_repo.rs:5756` says that mail accepted after the selected wake
  "remains next-turn work unless the regular current-turn delivery phase was
  reached"; `settle_admitted_run_result` (`src/app/run_service.rs:3327`) settles with
  that phase open a turn that failed before any delivery boundary, so its follow-ups
  count as delivered and no turn samples them.
* `invalidate_session_target_requests` (`src/desktop/app.rs:12981`) forgets the
  refresh after a run, and with it the only message that clears `post_run`; if the
  load of the other session then fails, no launch is admitted (`app.rs:16448`)
  until another refresh ends.
* `flush_report` retires a drained receipt when its entry is settled
  (`src/runner/shared/mod.rs:1701`), although the stop of its service may still
  have to be acknowledged with it; every later tick then fails until a restart.

## 4. Proofs

`tlapm` checks every step of the eight `*Proofs.tla` modules.  Every safety
property that a passing run checks, invariant, action property or refinement, is
also a theorem, for every value of the constants: any number of controls, tasks,
Stops, turns, calls, children, messages, sessions, events, attempts, failures and
crashes.  The bounds of the runs are parameters of the theorems and may be any
natural number.

The assumptions are only that the null values are not members of the sets they
extend (`ControlAssumption`, `CauseAssumption`, `NoCallAssumption`,
`NoneAssumption`, `ReceiptAssumption`), that the router maps controls to controls
(`RouteAssumption`), that admitters and coordinators are different tasks
(`CallerAssumption`), that there is at least one id (`MaxIdAssumption`) and room
for at least one message (`MailboxAssumption`), that the other sizes and bounds are
natural numbers (`ChildrenAssumption`, `CapacityAssumption`, `BoundAssumption`),
and, in `RootStop`, that one worker with its heartbeat runs one session whose
turns and revisions are numbered (`WorkerAssumption`, `TurnAssumption`).  TLC
evaluates each of them in the run of its module.

Every inductive invariant below was checked by TLC on the instance of a run before
it was proved.

**RunControl.**  The invariants are proved one at a time, each with one case per
action: `TypeOK`, then `ReservationOwned`, `AcknowledgedStopKept`,
`EvidenceMatchesClass` and `WakeOwed`, each inductive relative to `TypeOK`;
`NoOrphanCause` also needs `AcknowledgedStopKept` (a pending cause that becomes
final was acknowledged).  `LinkedEffect` states once what a linked request does
to any one control.  `FirstTerminalWins` follows from `TypeOK` alone.  The
refinement of `RunVerdict` is a statement per control (`VerdictStepOf`): an
action that moves two controls is a step of each.  It needs `WakeOwed`, without
which a wake-up could be one of a control that is not cancelled.

**RootAdmission.**  The inductive invariant is

    IInv == TypeOK /\ GuardOwnsPlan /\ SealOwned /\ SettlementServed
            /\ PlanAccountedFor /\ LeaseTracksNewest /\ SessionsAgree /\ NoLostWakeup

`StopSelectsNewest` and `OneSession` are not inductive: both speak of the plan a
Stop holds, and nothing in them ties that plan to the lease.  `SealOwned` and
`SettlementServed` tie a Stop to the lease, `PlanAccountedFor` ties the lease to
the pending plan, and `LeaseTracksNewest` and `SessionsAgree` say of the lease
what the two properties say of a Stop.  `StepKinds` classifies a step of Next
once (quiet, begin, settle, seal, commit, release, learn), and an effect lemma
per kind says what it does to the variables, so that no invariant has to expand
an action again.  Under `IInv` every step is a step of `StopGate` or a stutter:
a commit closes the gate only when nothing is pending, which is
`PlanAccountedFor` with the guard of the commit.

**RootStop.**  The inductive invariant is

    SInv == IInv /\ SysTypeOK /\ RowOK /\ WorkerOwns /\ BeatOwned /\ ControlOK /\ StopsOK

where `IInv` is the invariant of `RootAdmission`.  `RowOK` is the consistency of the
session's row; `WorkerOwns` says that from its admission to its terminal the
worker's turn is the running one and its receipt is the newest; `BeatOwned` and
`StopOK` say what the heartbeat and a Stop know at each of their steps.  The idea
that carries the three properties is `Doomed(t)`: the turn carries a request or has
ended without success.  It is stable (`RowMonotone`), whatever another owner,
recovery or a rollback does to the row, and a Stop reaches a local control only
after its target is doomed.  `Covered` (the worker's turn does not run, or was asked
to stop) holds before a Stop commits and is kept because no turn is admitted after
it.  `ImplementsRootAdmission` is not a matter of syntax: the heartbeat commits a
seal without waiting for a settlement, and that this is a step of `RootAdmission`
needs `BeatOwned` (there is nothing to wait for while the heartbeat's turn runs).
`RequestedStopsAreFinal` adds that no outcome is ever replaced.

**LocalTasks.**  `HandoverAgrees` speaks of both ends of a handover, but not of the
command in between: `QueuedOnce` and `ServedOnce` add that a queued or served call
has been sent, once, and that the handle under delivery is nowhere else.

**AgentTree.**  Four layers, each proved on top of the one before.

* `CapInv`.  `CapacityKept` is not inductive: a delivery gives a slot back, and
  nothing in the property says that the slot was its own.  `Fenced` adds that the
  delivery fence has at most one holder, and `reserved` is 1 exactly when that
  holder has set a slot aside.  `ChosenFits` is the lemma about the scheduler: the
  rank of a candidate in spawn order is an injection of the chosen ones into the
  room that is left, so no more are chosen than fit.
* `LInv` adds `Leased`: the executions are shared out among the two launch queues
  and the tasks, each to one of them.  `Passes` states once how leases change hands
  in a step, and every action is an instance of it.
* `MInv` adds `Mail`: what is claimed, announced or the cause of an execution is
  stored, the delivery in flight agrees with the store, a retired execution has no
  unclaimed cause (`Retired`), and every unclaimed follow-up has its notice.
* `WInv` adds `Wakes`: a notice that is not ready has a turn whose end will make it
  ready, and mail for a child without execution comes with a slot of its own.

The scheduler lists the children by rank (`InOrder`), not with `SelectSeq`, about
which the provers know nothing.

**DesktopSession.**  `TerminalNotSkipped` is inductive only with what the log, the
messages and the listener have to do with each other:

    DInv == Logged /\ Typed /\ ReadsOK /\ WorkerRuns /\ RootAt /\ Listening /\ Shown

`Logged` says that a turn has no event after its terminal, so that a thread that
boots with the *latest* event of its turn holds the terminal if there is one.
`Listening` ties every thread and every letter of the listener's generation to the
listener's session and turn, and that session to the one on show: so the letter
with the terminal is never dropped as superseded while its listener is in place.
This needs `RootAt`, because `SessionStarted` changes the session on show without
touching the listener: the run it belongs to can only be one of that session.
`Shown` says that the listener of a run the Desktop did not launch is for the turn
of the open session, which gives `EndsOnlyEndedTurn`.  A step is described once, by
what it does to the listener (`ListenerKind`), by the effect of the head of either
queue (`ControlEffect`, `RuntimeEffect`) or of a thread (`ThreadEffect`), and each
part of the invariant is kept by these descriptions.

**SharedRunner.**  `EffectsOnce` is not inductive: nothing in it says that an attempt
that is about to be submitted has not been executed.  `IInv` adds that what was
begun is recorded and is no intent (`BegunIsRecorded`), that what is recorded is
no longer queued at the Hub (`RecordedIsAssigned`), so that a claim cannot return
it, that the entries the loop has left to visit are recorded and the orphans it
has seen are not (`TodoIsRecorded`, `SeenIsUnrecorded`), and that between the start
and the submission the one attempt at hand has no execution (`StartIsFresh`).  A
step that begins no execution and makes no new entry is *quiet*: it only advances
the Hub's rows and the journal (`HubAdvances`, `JournalAdvances`) and
moves the loop to a position between its calls (`Between`), and `QuietKeeps` is
proved once for all of them.  The others, adoption, claim, start, status and
submission, have a lemma each.  `FirstIsMember` (a set of attempts has a first
one) comes from the well-foundedness of the natural numbers.

`AcceptedIsRecorded` and `ReleasedIsDrained` relate four things that different steps
write: the Hub's row, the journal entry, the spool and the execution on the host.
`RInv` adds to `IInv` that they agree for every attempt (`RowOK`): the entry
is consistent with its phase, a report the Hub may have seen is the one the spool is
bound to, a bound report is never replaced, a lease belongs to a retained service, a
drained receipt has no process, and a process of this Runner outlives its turn only
as a service.  `DeliveryOK`, `StartOK` and `ExecutingOK` say what the position of the
loop means.  The state of one attempt changes in a dozen ways (`Moves`: it is
recorded, begins, concludes, is bound, sent, settled...); each move keeps `RowOK`
(`MoveKeepsRow`), and each action makes one move for one attempt.

**Only model-checked.**  The liveness properties (`AcknowledgedStopConcludes`,
`StopConcludes`, `HeldTaskResumes`, `AcceptedStopEnds`, `RequestIsServed`,
`LateWorkerEnds`, `ShutdownEndsWorkers`, `InterruptLands`, `FollowUpSettled`,
`LaunchedRunSettles`, `ListenerRetires`, `FenceEndsExecution`, `ReportSettles`): they
depend on fairness, which is out of the prover's reach.  The violations of section 3
are counterexamples and have nothing to prove.

## 5. Plan

In this order; each item is a module (or a pair: what is promised and what is
done), its instance, its mutants, and the theorems worth having.

1. `DeferredOwners` (`src/runtime/agent_control.rs`, `src/storage/session_repo.rs`):
   trees restored after a crash, deferred terminals that wait for descendants,
   owner resumes, their release in the store and its projection into the tree,
   purge epochs, and the blocked settlements that `AgentTree` leaves out.  Also
   `route_terminal_outcome` as two steps against a continuation that replaces the
   root, and the tree Stop as a fence over `AgentTree`.  Abstract specification: a
   mailbox that delivers every committed message once, or says why not.
2. `RetryFence` and `ResourceLocks`: the permission retry fence across a crash;
   publication, registry and resource locks of two processes.
3. `RemoteJobs`: the remote agent's job store, with the same promise as
   `SharedRunner` (executed at most once, accepted is recorded) as an abstract
   specification of both.
4. `SideChat`: projections that must be idempotent.
5. Proofs: every safety property of the runs is proved.  What is left is what the
   modules above will add, and a common abstract specification of `SharedRunner` and
   `RemoteJobs` with both refinements.
