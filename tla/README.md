# Verification of STA Core and its engine

This directory models the program in `src/orchestrator/src/` (all source paths below are
relative to it): a service that drives AI-written software changes as *work runs*, an engine
that executes the tasks of a plan in Git workspaces, and the ledgers, locks and stores they
share. `PROJECT.json` maps every definition to the lines it stands for.

## 1. Inventory

| Component | State | Operations | What makes it correct |
|---|---|---|---|
| **Work-run controller** `core/workRunService.ts`, `workRunStore.ts` | one JSON document per run in `core.db`: status, request flags, segments, Target groups, human gates | create, pause, resume, stop, approve, send back; the step of the timer: launch, watch, finish, finalize | a child is supervised while it lives, a request takes effect once and only once, groups are driven in order, review is offered for work that is done |
| **Child processes** `core/processes.ts`, `cli/verbs/boundedRun.ts` | a detached process, its log, its exit record | spawn, kill, poll; announce the bounded run, exit 0/1/2/4 | an exit is credited to the group that was driven |
| **Runtime pools** `core/runtimeHealth.ts`, `runtimeRouter.ts`, `commander.ts`, `runtime/coreRouteOverlay.ts`, `runtimeRouting.ts` | cooldowns and timeout counts per runtime in `core.db`, written by the service and by its children | record failure/success, clear, select, fail over, wait for an exhausted pool | a cooldown is not cut short by a newcomer, timeouts do not go on without one, a walk ends, a timed pause comes back |
| **Service and Local API** `core/service.ts`, `server.ts` | lock file, timer, HTTP handlers | start, tick, requests | one service per machine, one step of a run at a time |
| **Bounded run and task driver** `engine/`, `run/stateMachine.ts`, `run/journal.ts` | run status, journal, round counters | drive a set of tasks until DONE, WAITING, HALTED; repair rounds | no task is driven past a boundary, the repair budget is bounded |
| **Attempt executor and guarded Git** `run/ledgerAttemptExecutor.ts`, `git/` | attempts in the ledger, the Git branch, checkpoint commits | freeze, open, begin task, commit, record, reconcile, halt | one writer per attempt, every checkpoint on the branch is in the ledger or reconciled, nothing is committed outside the grant |
| **Run ledger** `ledger/` | runs, tasks, attempts, checkpoints, evidence (SQLite) | create, freeze, transition, record | transition tables are respected, records are idempotent |
| **Locks** `concurrency/` | one file per task and one per working tree: a pid and a time, trusted for an hour | acquire, look, refresh, release, reclaim | a live holder loses its lock only in known ways, nobody takes a lock on its way out, nothing is left behind, the loop ends |
| **Orchestrator** `orchestrator/`, `retry/`, `escalation/`, `gates/`, `evidence/`, `governance/` | one row per task: state, cursor, approvals, retries, reserved attempt, holds; an append-only evidence table | advance, dispatch, report, ask, answer, pause, cancel, lift a block | a done task has its stages, verdicts and approvals, rounds are bounded, a deployment is not started twice, a hold stands |
| **Task store** `store/` | rows, events and evidence in SQLite, saved whole | load, save | no update is lost: it is, and `TaskMachine` shows what of it survives |
| **Execute** `execute/`, `controller/` | one file per node of a tree of runs | plan, approve, execute, resume | what is executed is what was approved |
| **Roles** `roles/` | the sign-offs of the lanes in a ledger of their own | submit, accept, reject, propagate | no lane works on a superseded input |
| **Target transfer and registration** `threeRepo/targetTransfer.ts`, `targetRegistration.ts` | one `targets.yaml` per Knowledge root, one approval record per transfer; no lock and no journal covers them | plan (reads only), release, register, rollback, verify; configure a Target | a Target has at most one owning root, moves only through nobody, and no record closes over a Target nobody owns |
| **Runtime adapters** `runtime/` | a child AI CLI and its streams | run a turn, classify its failure | (text and I/O; only the failure classes matter here) |
| **Target CLI** `targetcli/` | rendered files with a manifest of hashes | init, sync, status | a user's edit is never overwritten |
| Knowledge, documents, QA, CLI output, packaging, web | text and files | parse, render, report | data transformations without a protocol: not modelled |

**How they interact.** A person calls the Local API of the service. The service keeps runs in
`core.db` and, on a timer, launches one *segment* of a run at a time: a detached
`bounded-run` child that takes the task locks, asks the pool for runtimes, freezes or resumes a bounded run in the engine's
ledger, drives its tasks through the task machine, runtime adapters and guarded Git workspaces, and leaves a log
line (its bounded run), an exit record and an exit code. The service learns of the child only
through those files and by probing its pid. Pausing and stopping go the other way, as a pause
flag on the engine's open tasks, read by the child between tasks.

**What is hard.** Handlers run between any two awaits of a step; the child is another process,
observed through files that change between two reads; the service and the child each crash
independently and recover from SQLite, files and Git, which are not written atomically together;
locks are files that expire; a task's row is saved whole by whoever holds a copy of it. The hazards, each with its line and the properties that would show it
going wrong, are in `PROJECT.json`.

## 2. Plan

| | Module | Implements | State |
|---|---|---|---|
| 1 | `WorkRun`, `WorkRunProofs` | the control loop of the Core with its children | done |
| 2 | `GuardedRun`, `GuardedRunProofs`, `GuardedRunLedgerProofs` over the abstract `AttemptLog`, `AttemptLogProofs` | driver, ledger and Git of one bounded run, with deaths between their writes | done |
| 3 | `TargetTransfer`, `TargetTransferProofs` over the abstract `Ownership` | release, register, rollback, verify, configure | done |
| 4 | `RuntimePool`, `RuntimePoolProofs` | cooldowns and failure counts as read-modify-write of service and children, the Commander's walk, the exhausted pool; justifies what `WorkRun!Dispatch` assumes of a pool | done |
| 5 | `Locks`, `LocksProofs` | task locks and workspace run locks, system call by system call: how far "one process drives a run", which `GuardedRun` assumes, can be relied on | done |
| 6 | `TaskMachine`, `TaskMachineProofs` | one task of the engine: walk, gates, verdicts, repair, approvals, reserved attempts, and every process that saves its row | done |
| 7 | details of a bounded run | the boundary `qa`, tasks held out of a run | left |
| 8 | execute runs, role lanes, the other tables of the task store, Target-group order as an algorithm against its definition | | left |

`WorkRun` sees the other modules through what they promise: a child is a process with an exit
(`GuardedRun`), a pool serves, recovers later or needs a person (`RuntimePool`). `GuardedRun`
takes the verifying stages as one step (`TaskMachine` has them one by one) and one process per run
(`Locks`).

Abstract specifications: `AttemptLog` for the ledger of `GuardedRun`, `Ownership` for
`TargetTransfer`. A mutex as the specification of `Locks` would be false of the code (section 6);
`HeldOrLost` says what the locks do keep.

Theorems: the type invariant of every component, both refinements, and the safety properties the
runs check, for every value of the constants (section 5 lists them with their arguments, and what
is only model-checked). Left: what commands over transfers promise one another when they overlap,
and the algorithm that orders Target groups.

## 3. The models and the code

### `WorkRun` - the control loop of the Core

One Node process runs every handler, so code is atomic up to its next `await`. An action is the
code between two awaits; `frame[r]` names the await at which the step of run `r` is standing
(`"start"`: the Commander's opening turn, `"snapshot"`: the snapshot of the engine's tasks after a
segment, `"assess"` and `"assess_waiting"`: the Commander's closing turn), and a request of a
person may run at any of them.

| State | Code |
|---|---|
| `run[r]` | the document of the run in `core.db`: status, request flags, segments by their exit, Target groups with their bounded runs, kinds of the open gates |
| `paused[r]` | the pause flag on the open tasks of a bounded run, in the engine's store: off, on, or erased by an older copy that the engine saved over it |
| `live[r]` | the detached children alive; `lost` marks one that no document recorded |
| `file[r][i]` | what log and exit record of segment `i` say: the announced bounded run, the exit code, a runtime the engine could not reach |
| `faults` | crashes, exceptions and unrecorded children so far, and as history the gaps between two writes that a death fell into |

`Create` … `SendBack` are the request handlers, `RequestFails` one that throws or dies after
some of its pauses reached the engine. `LaunchNext`, `StartReturns`, `AssessReturns`, `WatchLive`,
`WatchEnded`, `WatchMissesRecord`, `WatchBreaks`, `Finish` and `StepRequested` are the step of
the timer, `Dispatch` the choice it ends in (spawn, wait for a pool, a gate). `Child…` are the
process - `ChildSavesOver` the engine in it, whose whole-row save (`orchestrator.ts:774`) takes a pause
away -, `Crash` the death and restart of the service at an await. Time is
what the program does with it: a cooldown is "none", "later" or "due".

A step writes the document more than once (`store.update`). Nothing but a fault can come between
two writes of one step, so each such gap is a disjunct of the step: it `Throws` or `Dies` with what is
written by then. `SpawnUnrecorded` is the gap after a spawn (`workRunService.ts:401-404`): the child
lives, and the service dies or the store refuses. `FinishSettled` and `FinishHalted` have the one between
the group and the status of the run (`:516`/`:524`, `:530`/`:535`), `WatchBreaks` the one between the
bounded run and its pause (`:425`/`:431`), `AssessReturns` the one after an exhausted pool was written.
Where a property has to name such a gap, `faults.cut` remembers it ("learn", "halt", "assess").

Not modelled: documents written before runs had Target groups; reuse of a process id; the bounded
run an orphaned child freezes, which is taken for the one of its group; what the Commander says,
beyond whether its pool could serve it, it wants a person, or it agrees.

### `GuardedRun` - a bounded run over its Target

Three stores change one after the other and never together: the ledger (`run`, `attempts`,
`checkpoints`), the Git repository (`repo`) and the task engine's rows (`engine`). An action is
the code between two durable writes; `proc.pc` says which write the process is at, and `proc` is
all that a death loses. An invocation goes `reconcile` → `open` / `isolated` → `settle` (what an
earlier invocation left RUNNING is re-attributed or abandoned) → `pick` → `drive` → `begin` →
`inner` (the agent writes) → `accept` / `nochange` / `committed` → `engine` → `pick` … → `finish`.

| Action | Code |
|---|---|
| `Start`, `Reconcile`, `Finish` | `driveBoundedRun`: start or resume, look for an interrupted attempt, settle the status |
| `Adopt`, `Isolate`, `OpenBoundary`, `Reopen`, `OpenRefused` | opening the guarded Git session: the run branch created or adopted, or checked and reopened |
| `Reattribute`, `Abandon` | `reconcileInterrupted` |
| `Pick`, `StopBefore`, `Verify` | `runTasks` and `driveTask`; the verifying stages are one step that passes, fails into a repair round, or opens a gate |
| `Freeze`, `BeginTask`, `AgentReturns` | one attempt: freeze, writer slot, the inner executor |
| `TakeUnconsumed`, `CompleteWithoutChange`, `CheckpointRefused`, `CommitWork`, `RecordCheckpoint`, `EngineRecords` | from the agent's answer to the engine's STAGE_COMPLETED |
| `Crash`, `CrashLeavingAgent`, `Orphan`, `AgentWrites`, `PersonInRepo`, `PersonAnswers` | the world |

A commit of an attempt is named after it (its trailers name exactly one attempt), a person's
commit has a negative name; the working tree is the set of those whose changes it holds.

Not modelled: the locks (one process drives a run at a time; `Locks` shows when they fail to keep
that), other runs on the same Target, the boundary `qa`, tasks paused, held or cancelled
(`TaskMachine` has them, one task at a time), a person who resets or amends commits, evidence rows and the projection of a task's
status. The token budget is a block that may come at any record of a stage. Path guards, the secret scan and the checks of a checkpoint are
one nondeterministic refusal.

### `TargetTransfer` - who owns a Target

The Knowledge roots of an installation are different Git repositories, each with its
`targets.yaml`; an approval record, one more file, carries the status of a transfer. No lock
covers them. An action is one read or one write of a file, `proc[p].step` is the read or write
that comes next and `proc[p].seen` what the command has read: `ReadSource`, `CheckUses`,
`ReadDestination`, `Snapshot`, `Decide`, `Fresh`, `ScanOwners`, `Reread`, `Audit`, `Judge`,
then `WriteRegistry` and `SaveRecord`; `Die` may come anywhere. An entry is absent, active,
retired, or a *tombstone* (retired with its ownership released). A command writes a registry as
it read it, with its own entry changed, as the code serializes the document it parsed.

The release asks a person to keep new source tasks away while it runs (`targetTransfer.ts`, release,
step 3); nothing enforces it, so `Use` may come at any moment, and `late` remembers the uses that
began after the look and before the write. Not modelled:
alias forms of a repository (one coordinate per repository, one entry per root), half-written
YAML, edits by hand, changes of the installation's list of roots, a record whose identity does
not match its entry, and `plan`, which writes nothing.

### `RuntimePool` - the health the runtimes share

One row per runtime in `core.db` (`health`: timeouts counted, what is left of a cooldown), read and
written without a transaction by every process that runs a turn: work runs with their Commander
(`Consults`), stages of bounded-run children (`Stages`), a person's connection tests (`Tests`).
Time is what is left of a cooldown; `Tick` takes one from each. `streak` and `under` are history.

| Action | Code |
|---|---|
| `Consult`, `Choose` | `runCommander`, one round of its loop: `selectRuntime` over what was not tried and does not cool, or an exhausted pool with the time it reports |
| `PoolCheck` | `launchNext`'s look at the worker pool before a segment |
| `AutoResume`, `PersonResumes` | the timer's step of an exhausted run whose time is due, where `work.auto_resume_after_cooldown` is on (`ResumesItself`); a person's resume |
| `Dispatch`, `Test` | a stage of some role, routed by the health of that moment (`Routed`: a cooling runtime is left out when the order has another, and kept when it has not); `testRuntime` |
| `Succeed`, `WorkFails`, `RuntimeFails`, `Record` | the end of a turn: health cleared; nothing; the row read, and in a second step written and the next candidate asked |
| `Clear` | a person says it is fixed |

A stage keeps the candidates it was routed to and hops along them without looking again, as the code does;
a stage of a frozen attempt keeps none (`runtimeExecutor.ts:747`), and a hop that cannot be recorded ends
the stage (`:1271`). The Commander looks at every round. A role whose `fallback` is off has an order of one
runtime (`overlayOrderFor`). This is what `WorkRun!Dispatch` takes as "serves, recovers at a known time, or needs
a person". Not modelled: eligibility in the orders (they are given), outages known from a probe,
routes by flag or by role, and what a decision says.

### `Locks` - task locks and workspace run locks

A lock is a file with a process and a time in it, made, filled, read and removed by separate system
calls, each an action; nothing guards the steps in between. `file[f]` is what stands at a path and
which process created it (so that a write through a descriptor of a removed file goes nowhere),
`proc[p]` the step of an invocation, how many task locks it took and gave back, and what it read
last; `lost` is history: who was robbed of what, and how.

| Action | Code |
|---|---|
| `Create`, `Fill`, `Look`, `Reclaim` | the loop of `acquireTaskLock` and `acquireWorkspaceRunLock`: exclusive create, write, read and judge, remove and try again |
| `Check`, `Sweep` | `assertNoWorkspaceRunLock` in `sta run`, which removes a stale lock of the tree and never takes one |
| `OpenSession`, `Begin`, `Truncate`, `Rewrite`, `EndAttempt` | the guarded session of `sta bounded-run` and `refreshWorkspaceRunLock` before each attempt |
| `Close`, `Drop`, `Finish`, `Leave`, `Return` | `removeIfOwned` and `releaseTaskLock`: read, then remove |
| `Die`, `GrowOld` | a death at any step; a lock past its hour |

Not modelled: a process id that the operating system gives out again, a removal that fails, more
than one guarded session per process; a session that fails to open goes to `close`.

### `TaskMachine` - one task of the engine

`row` is the stored task, `mem[p]` the copy each process works on, `evidence` what the append-only
table says, `past` what the properties remember. The engine saves the *whole* copy in every
transaction (`Save`) and compares no version, so whoever saves last wins: that is the model's centre.

| Action | Code |
|---|---|
| `Load`, `Leave` | `TaskRegistry.open`, `resume`; the end or death of a process at any step |
| `Poll` | `driveTask` reads the hold fresh before each step |
| `Advance` | `status()`: `advance` through every state whose work is recorded and whose gate is open (`Advanced`), saved |
| `Dispatch` | `step()`: status again, and the reservation of a real deployment |
| `RecordDispatch` | a governed attempt is reserved before its adapter starts |
| `Report` | `reportCompletion`: evidence, verdict, repair route or block, the next walk, one transaction |
| `Ask`, `Answer` | status queries and `sta approve`, with the stored row read again before the answer |
| `Hold`, `Unpause`, `Release` | `sta pause`, `cancel`, the service's resume; `releaseRuntimeUnavailableBlock` |

The task lock keeps two drivers apart, so there is one (`Locks` shows when it does not). Not
modelled: the intake of a business analyst and its gate; the idempotence of a report delivered
twice; refusals over the identity of packets and knowledge; modes and coverage of QA; the rollback
after deployment and the recovery of a FAILED task, which no path reaches here;
publication. A spent `maxRepairRounds` of the drive and a stage guard that refuses a report end
the drive and are `Leave`.

## 4. The runs

A run ends at the first of: nothing left to explore, or (for the violations) the counterexample.

| Run | Question | Bounds, and why they are enough |
|---|---|---|
| `work_run_control` | With every request at every await, does the loop keep its children, its order and its promises, and come to rest? | one run, two groups, two segments, one crash, under `FairSpec`. Two groups let the wrong one be marked, paused or resumed; two segments give a second launch, the exhausted budget and the "interrupted twice" rule; one crash can fall at each await and between any two writes. 315,272 states |
| `work_run_faults` | What does the document still say truly when a step dies, throws or loses its child between two writes? | the same with any two faults of different kinds among one crash, one exception and one unrecorded child (`MaxFaults` 2), so that a second can fall in what follows the first. 7,885,320 states. The gaps "learn" and "halt" are reached; the stale request after "assess" needs more segments for each group than here, and is reached with `NumGroups` 1 |
| `guarded_run_crashes` | Do ledger, Git and engine stay reconcilable and implement `AttemptLog`? | one task, three invocations, two faults - deaths, lost writes, late errors of a checkpoint -, one act of a person. A second fault can fall in the recovery from the first, and a third invocation recovers from both. 1,532,859 states |
| `guarded_run_plan` | Does a plan keep one writer and its order, end settled, and does every invocation end? | a chain of two tasks, boundary `done`, two invocations, one fault which may be the late error of a checkpoint, under `FairSpec`. 70,407 states |
| `target_transfer` | Do transfers and registrations, one at a time and dying anywhere, implement `Ownership`? | three roots, two repositories (one that moves, one that must not be touched), records k1 → k2, k2 → k3 and k2 → k1: a chain and a way back. Deaths and uses are not bounded. 531,988 states |
| `locks` | How does a live process lose its lock, what is left behind, does the acquire loop end? | two manual runs of one task and a bounded run of that task after another, in one tree, under `FairSpec`: two rivals for a path and a third reader, both kinds of lock, and a process that holds one lock while it wants the next. Deaths and old locks are not bounded. 847,753 states |
| `task_machine` | What does a row still say truly however often the task is driven and whoever else writes it? | an increment of a screen - five stages with every kind of verdict -, `MaxRetry` 2 and one ordinary round so that both budgets can be spent, one process beside the driver, two questions asked. 1,290,557 states. The constraint `UntilLost` stops at the step with which an old copy overwrites the row: every property of the run is about rows before that step, or about the step |
| `task_drive` | Is a deployment started once, does every drive end? | a task is either a change with one implementation and a verifier that may send it back (`backend`, `security`; `MaxRetry` 2 and one ordinary round, so that rounds are spent and the budget ends the drive) or a production deployment with its approval: no classification of `taskClassifier.ts` has both a verifier and `devops`. Late saves and deaths included, under `MCTaskDrive!EitherSpec`. 207,686 states |
| `runtime_pool` | Do timeouts and cooldowns mean what they say when service and children write the same rows, and do walks and pauses end? | two runtimes, one process of each kind; the child's stages are of three roles - one of frozen attempts and one free to hop, which both prefer the runtime the Commander does not, and one with its fallback off -, limit 2, cooldowns of two lengths so that one can end while the other runs, auto-resume on, under `FairSpec`. 295,907 states. With auto-resume off nothing but a person ends a pause, timed or not (`KnownPauseEnds` then says nothing) |
| `work_run_settled`, `locks_one_stepper`, `task_hold` | one claim of the repository each, violated by the code: section 6 | the smallest instance in which it happens: one work run; three manual runs of one task with nobody dead and no lock old; one task beside one other process |

`CHECK_DEADLOCK FALSE` stands in the work-run configurations because a run that is APPROVED, with its
segments spent, has nothing left to do, in the guarded-run ones because invocations
are bounded by `MaxStarts`, and in the lock ones because every process may be done. The others check
deadlock: a command, a drive or a turn can always be started.

What the properties are about:

- *Work run.* `NoStaleRequest`: a request ends with what it asked for. `RecordedChild`,
  `ChildSupervised`: a child is the process of the last, open segment - one that is not comes of a
  step that failed between spawn and record -, and lives only under a status that says so.
  `PauseReachesEngine`: also when the request came before the bounded run was known; what takes the
  pause away again is the engine's own save. `GroupsInOrder`, `GroupsBacked`: what a document says of its groups is backed by gates and
  segments. `StopCompletes`, `ActiveRests`: a stop ends in STOPPED and no run is driven for ever.
- *Guarded run.* `OneWriter`, `CheckpointAttributed`, `Reconcilable`, `CompletionBacked`: whatever
  dies, every commit has one owner; one at most is unknown to the ledger, and it is found again or nothing
  is ever counted over it. `DependenciesFirst`,
  `CompletedIsSettled`, `InvocationEnds`: the plan as a whole. `ImplementsLog`: the ledger's
  promise, with processes and Git hidden.
- *Transfer.* `ImplementsOwnership`: one owner, and no move but through nobody. `CompletedPaired`,
  `NeverAbandoned`, `TombstoneUnused`: a record closes only over both of its entries, a Target
  without owner has an open record, and a use of a tombstone began while its release was
  at work.
- *Locks.* `HeldOrLost`: a live holder's file stands, or went away in one of three ways.
  `LeavingIsClean`: who releases or refreshes robs nobody, unless robbed before. `NothingLeft`,
  `AcquireEnds`.
- *Task.* `HoldLostOnlyByOldCopy`, `DoneIsBacked`, `RoundsAreBounded`, `OnlyOutagesReleased`,
  `DeployedAtMostOnce`: what is true of the row until an old copy overwrites it. `DriveEnds`.
- *Pool.* `TimeoutsBounded`: writers that overlap delay the cooldown, by a bounded number of
  timeouts. `CooldownRespected`: nobody new who has another runtime is sent to one that cools. `WalkEnds`,
  `KnownPauseEnds`.

### Fairness

- `WorkRun!FairSpec`: weak fairness of `Core(r)` and of the end of a child. The service's timer
  steps every active run (`core/service.ts:128`), a Commander turn has a timeout
  (`core/processes.ts:105`), and a child ends because each stage of the engine it drives is
  bounded by a timeout. Nothing is assumed of persons, cooldowns or faults.
- `GuardedRun!FairSpec`: weak fairness of `Drive`. A live process goes on, and an agent ends by
  the timeout of its adapter. Nothing is assumed of `World`.
- `Locks!FairSpec`: weak fairness of `Acquire`, a loop without a wait in it. Nothing makes a
  process start, begin another attempt or leave.
- `MCTaskDrive!EitherSpec`: weak fairness of the driving process of either task; every executor has a
  time limit. `DriveEnds` is checked of pipelines without the UX/UI consultant, whose questions cost no
  round of any budget (`orchestrator/orchestrator.ts:1922`): with an answerer that never satisfies it, a
  drive has no end. `TaskMachineProofs!DriveShortens` proves that there is no other such loop.
- `RuntimePool!FairSpec`: weak fairness of `Tick` - time passes - and of `Goes`: a turn ends by the
  timeout of its adapter, and the service's timer steps its runs.
- `TargetTransfer` has no liveness property: nothing makes a person go on with a transfer.

## 5. The proofs

| Theorem | Argument |
|---|---|
| `WorkRunProofs!TypeCorrect`, `NoStaleRequestHolds` | One inductive invariant: `TypeOK`, `DocInv` and `FrameInv`. `NoStaleRequest` alone is not inductive: a step that returns from the Commander's opening turn launches without looking at the flags. `FrameInv` says that such a run has no segment yet, and `DocInv` that a document without segments carries no request, that one which rests carries none, and that no segment comes before the Commander's note |
| `WorkRunProofs!RecordedChildHolds`, `ChildSupervisedHolds`, `PauseReachesEngineHolds`, `GroupsInOrderHolds`, `GroupsBackedHolds` | A second invariant over the first, `MoreInv`. `RunOK` speaks of one document and its await: the groups are split at once and leave `pending` from the first on; a halted group stands only under a parked status; at any await nothing is open or halted and no review is offered, which is what lets `assess` end in a review after the requests that came by; and while the snapshot is awaited a segment that completed has not been spent on a group. `ChildrenOK` ties the children to the last, open segment and says that segments not launched yet have no exit record; `SupervisedOK` ties them to status and pause flags. Every write inside a step is treated once, by what it leaves (a halted group stands under RUNNING, and a pause is missing, only where a death fell into the gap that does it), a child that was not recorded is counted by the fault that made it, and where an exception or such a child is excluded by the property the part that needs it is vacuous |
| `WorkRunProofs!HistoryKept`, `StopIsKept`, `SettledMovedByAwaited` | `DriveInv` adds `AwaitQuiet` to `MoreInv`: while a step awaits something its run is neither in review nor approved nor failed, a graceful stop can only have met the snapshot, and an exhausted pool is met between two segments. Every action is a request, a step of the loop with one of its outcomes, or a loss, and each of the three is treated once, by what it keeps |
| `WorkRunProofs!DriveShortens`, `StopShortens` | `WorkLeft` counts seven steps for every segment the budget still allows and those of the one in hand: its child is watched and closed, the next is launched, the last is judged (`Phase`). A launch spends a segment; nothing but a person, a cooldown that lapsed (`CooledDown`) or a restart sets a run to work again, and a person who asks once more to stop a run that stops touches neither its segments nor its child (`StopRepeated`) |
| `GuardedRunProofs!TypeCorrect` | `TypeOK` with `PcInv`: at each `pc` the process has the task and the attempt the next write names. Without it a step could write a row of task 0 |
| `GuardedRunProofs!InvocationShortens` | `StepsLeft` counts a fixed number of steps for every task the invocation has not settled (`ToCome`), the repair rounds its task can still pay for, and the steps of the attempt in hand. A task is picked once (`PickInv`), a round is paid for out of the budget of the policy, and what the agent or a person does is none of the driver's steps |
| `GuardedRunLedgerProofs!OneWriterHolds`, `CheckpointAttributedHolds` | `TypeInv` with `SlotInv` (the attempt the process holds is RUNNING or FROZEN as its `pc` says, for its task, and its commit exists once it has made it), the abstract `LogInv` and `CommitInv` (the commit of a checkpoint exists). A step of the process alone does not say that the attempt it writes still has the status it read |
| `GuardedRunLedgerProofs!RefinesLog` | From the same invariant: every action is a step of `AttemptLog` or leaves `attempts` and `checkpoints` alone |
| `GuardedRunLedgerProofs!DependenciesFirstHolds` | `PlanInv`: the task the process holds, and every attempt, have their dependencies done; no done task is taken up again |
| `GuardedRunLedgerProofs!CompletionBackedHolds` | `BackedInv`: at the step that lets the engine count a completion the ledger has one success more than were counted |
| `GuardedRunLedgerProofs!CompletedIsSettledHolds`, `StrandedForGoodHolds`, `ReconcilableHolds` | `GitInv`: above a commit of the run branch that the ledger does not know only a person commits, and an attempt before its commit has none. `StrandInv`: a commit that is neither known nor its RUNNING attempt's is `Stranded` - only a checkpoint that throws after its commit makes one -, and from then on no session is open and the commit's task stays at its engineer stage. With one `CleanExactBranch` is false on the run branch, so no opening succeeds and nothing is recorded any more; with `PlanInv` (all tasks of a COMPLETED run are done) such a run never completes. So an unknown commit is the RUNNING attempt's or a stranded one, and there are not two: nothing that counts is committed above an unknown commit (`GitInv`) |
| `AttemptLogProofs!LogSafe` | One running attempt and success recorded once, of the abstract log alone, for whatever else implements it |
| `TargetTransferProofs!TypeCorrect` | `TypeOK` with: every process is `Sound`, that is, unless idle it has a job, and its `next` is a position in `RootOrder` |
| `TargetTransferProofs!RefinesOwnership` | For commands that overlap, under `Apart`: no registry is written while another command relies on what it has read (`Relies`: it is at its write, or past the first of the reads its write rests on). `KnowInv` adds to the types `OneOwner`, `Shape` (a step belongs to the commands that have it) and `Knows` (what a command has seen, up to the position of its scan, is what the registries still say). Only with `Knows` is the write a `Take`, a `GiveUp` or a stutter. A command that relies on nothing yet knows nothing that another could spoil (`NotRelying`): that is why `Apart` need not keep whole commands apart |
| `TargetTransferProofs!TombstoneUnusedHolds` | Under `Apart`. `ClearInv`: a release past its check has a Target that nothing uses but what began since (`Steady`); a use that begins meanwhile is late by definition, and one that began earlier would have been seen by the check |
| `TargetTransferProofs!NeverAbandonedHolds`, `CompletedPairedHolds` | Under `Apart` and `OnePerTarget`: no two transfer commands are at work on one Target; `configure` may overlap with anything. `RecordInv`: a command on a record runs with that record's job and a status it accepts (`OnRecord`), and what it has found or made stands (`Found`): the entry at the source of a verification, which is a tombstone from the moment an owner was seen in its destination, that owner, and the owner that a rollback has restored before it closes its record. Another transfer moves another Target, and a `configure` that writes has found the Target owned by its own root or by nobody (`OthersFound`) |
| `LocksProofs!TypeCorrect`, `LiveLocksStand`, `SharedOnlyAfterLoss`, `EndLeavesNoLock`, `LeavingTakesNoMore` | `LockInv`: `HeldOrLost` with three facts about the steps between system calls. `Overwritten`: what a process is about to remove or empty was its own, or was judged gone. `Recalled`: what it judged as old or dead is so for good, so only a file put in its place meanwhile can be lost. `Covered`: a file names a process that took it and has not given it back, or has lost it |
| `LocksProofs!AcquireShortens` | For a finite set of processes. A process creates each of its lock files once, one for each task and one for its tree, so there are finitely many creations to come (`Pending`). Until the next of them a process in the loop comes nearer to its end with every look and every reclaim, and only a creation by somebody else, which is one less to come, sends it back (`Phase`) |
| `TaskMachineProofs!TypeCorrect`, `HoldsKept`, `BlocksStand`, `RoundsBounded`, `DeployOnce`, `DoneBacked` | `Whole`: while nothing was lost every copy that is behind belongs to a process that cannot save without losing something (`SeenBehind`, `Follow`), so the process that saves starts from the stored row; on top of that the row says what history says - `Counted` rounds, `BlockKnown` causes, `DeployKept` reservations, and `Sound`: behind the cursor everything is recorded, and past verification every verdict has seen the latest work. `Advanced` is treated once, by what it keeps |
| `TaskMachineProofs!DriveShortens` | Order the rows by the rounds still in the budget, then by what is still ahead of the cursor: five steps for each turn that is left (`TurnsLeft`) and those of the turn in hand. A verdict that sends the task back spends a round, every other report passes a stage, prepares the deployment or ends the drive; a row that somebody else writes is seen only by a new drive. The one report that does neither is the consultant's question handed back (`Consults`, `orchestrator.ts:1922`) |
| `RuntimePoolProofs!TypeCorrect`, `CooldownKept`, `BoundedTimeouts`, `DefaultLimitBounded` | `BoundInv`: whoever is at a runtime that cools, or keeps it for a hop, chose it before the cooldown, or has a role with no other runtime (`Alone`). `RankInv`: order the ways the processes can be spread over the counts (`Ladders`) by the lowest count they differ in; a timeout that is counted raises the place reached in this order, since nobody loses a count up to the one written and the writer gains it, and nothing else moves the place without ending the streak. So the streak is never longer than the ladders below the place. With the limit of 2 there is one ladder per number of processes (`DefaultLimitBounded`). `TypeCorrect` is not the shape alone: the stored count stays below the limit however writers overlap |
| `RuntimePoolProofs!WalkShortens` | `WalkInv`: a runtime that is asked is one the walk has not tried (`Untried`), and it is spent when its answer is recorded. Three steps for each untried runtime, and those of the answer in hand |
| `RuntimePoolProofs!PauseCountsDown` | What a run waits for is changed by time, by its own resume and by the step that pauses it, and by nothing else (`WaitMoves`) |

Assumptions are those named in the modules (`ConstantsAssumption`, `TransferAssumption`,
`LocksAssumption`, `PipelineAssumption`, `PoolAssumption`; the runs evaluate them), and those that a
theorem states itself: the limit of two,
a finite set of processes, and `Apart` and `OnePerTarget`. Commands that run one at a time meet the last two
(`TargetTransferProofs!SerialSuffices`), and the run `target_transfer` has one. The code relies on
`Apart` and does not enforce it: with two processes TLC refutes `ImplementsOwnership` (two `configure`
commands that both pass the fresh read of `targetRegistration.ts:215` before either writes), although
lines 25-26 of that file say a stale snapshot never lands. `Apart` also says what would mend it: a lock
from the first read a write rests on to the write. With `Apart` but without `OnePerTarget` TLC
refutes `NeverAbandoned` and `CompletedPaired`: one command closes the record that another still works on.

Out of reach of the prover, and left to TLC: liveness under fairness (`StopCompletes`,
`ActiveRests`, `InvocationEnds`, `AcquireEnds`, `DriveEnds`, `WalkEnds`, `KnownPauseEnds`). Of each
the safety part is proved: a measure in the natural numbers that each step lowers and nothing
around it raises (`StopShortens` with `StopIsKept`, `WorkRunProofs!DriveShortens` for `ActiveRests`,
`InvocationShortens`, `AcquireShortens`, `TaskMachineProofs!DriveShortens` for `DriveEnds`,
`WalkShortens`, `PauseCountsDown`). What stays with TLC is that a next step is possible and is
taken, which is fairness and ENABLED; and that a stop is not met by exceptions and restarts for ever,
which are counted.
Induction over data is out of the prover's reach too; where a bound seems to need it (`TimeoutsBounded`),
the proof counts a set instead: the ladders below the one reached.
Everything else the passing runs check is proved.

## 6. Where the code does not keep what the repository says

Each of these is a run that ends in a counterexample; `PROJECT.json` quotes the sentence.

1. `SettledStaysSettled` (`work_run_settled`) - a run stopped while its step awaits the Commander
   or the snapshot is launched or finalized after all (`core/workRunService.ts:354`, `:477`).
2. `OneStepperPerTask` (`locks_one_stepper`) - create and read are two steps: a lock its holder
   removes in between reads as gone, the fresh one made meanwhile is removed in its stead, and
   two live processes step one task with nobody dead and nothing old (`concurrency/taskLock.ts:93`).
3. `HoldStands` (`task_hold`) - a pause or cancel stored while a stage runs is erased when the
   stage saves the row it loaded before (`orchestrator/orchestrator.ts:774`). A pause that the
   service or a bounded run relies on can be lost the same way.

Met while reading or modelling, without a run of their own. The work run:

- Resume makes every parked group running; the end of one of them finalizes the run while another
  is still running (`core/workRunService.ts:521`).
- After a forced stop and a resume, closing the killed child's segment credits its bounded run to
  the first running group, which may be another one (`:472`).
- The child is spawned before it is recorded; after a crash in between, or a store that refuses the event
  or the document, it runs unwatched and the next launch spawns a second one (`:401-404`).
- The halted group is saved before its gate (`:530`, `:535`). A service that dies in between leaves the run
  RUNNING with its segment closed; after the restart it drives what is pending and then offers the run for
  review over the halted group, although `finalize` says "Every Target group is settled" (`:540`).
- The bounded run a segment announces is saved before the pause that waits for it is applied (`:425`, `:431`),
  and applied only by the step that learns it: after a death in between the tasks are never paused.
- A service that dies in the Commander's closing turn, after it wrote that the pool is exhausted, leaves a
  pause or stop asked for meanwhile on the document; the run resumes by itself after the cooldown and the
  next segment is stopped by the old request.
- Resume of a stopped run does not look for another open run of its module (`:214`), so a module
  can have two.

The guarded run:

- What a blocked task left in the tree is committed by the next task's checkpoint
  (`git/checkpoint.ts:283`).
- An error after `git commit` fails the attempt whose commit exists, and every resume is refused
  (`git/guardedRun.ts:258`), although `run/ledgerAttemptExecutor.ts:292` expects such a commit's attempt to be
  RUNNING: the second case of `Reconcilable`, and the theorem `StrandedForGoodHolds`.
- After a death between the ledger's success and the engine's record, a later repair round that
  changes nothing rests on a checkpoint consumed before (`run/ledgerAttemptExecutor.ts:316`).
- A checkpoint lands on whatever branch is checked out when it commits; ADR-026 says (line 60)
  that the run stays on its local branch. A person who switches away and back strands such a commit.

Transfers:

- A crash between the registry write and the record write of a release leaves the record
  `pending` over a tombstone: neither release, register nor rollback accepts it, though
  the ownership audit advises to complete the register or roll the release back. `NeverAbandoned`
  counts such a record as open: the move is not lost, but a person must edit a file to go on.
- A task that is bound, or a module that declares the Target, between the look of a release and its write
  (`threeRepo/targetTransfer.ts:428`) works in a tombstone: the case that `TombstoneUnused` names.
- A register finds a tombstone in the destination when a repository comes back to a root that gave
  it away, and refuses; only `configure` brings it back.
- A rollback restores the ownership of the entry and leaves its status `retired` (its test says so).

The pool:

- A worker order with one runtime is dispatched to while that runtime cools
  (`runtime/runtimeRouting.ts:381`; `runtimeExecutor.ts:1022` looks at raw probes), against
  `core/runtimeHealth.ts:10-13` and `src/docs/core.md:228-230`: the case that `CooldownRespected` names. Its
  timeout below the limit then erases the cooldown.
- The time an exhausted walk reports leaves out the cooldowns of the runtimes it tried itself
  (`core/commander.ts:174-177`), though the comment and `src/docs/core.md:234` say the earliest.
- A timeout below the limit, or a success, that is late erases a cooldown for a spent quota that
  was recorded meanwhile (`core/runtimeHealth.ts:141-145`).
- A Commander timeout below the limit in a walk with nobody else to ask pauses the run without a
  time to resume at.
- Two processes lose each other's timeout counts; `TimeoutsBounded` says how many at most.

Locks:

- `sta bounded-run` looks for its tree's lock under its runtime-state root, `sta run` under its
  project root; where these differ they never meet. `sta run` also only looks, after it took its task
  (`cli.ts:785`; `concurrency/workspaceRunLock.ts:166` describes the other order).
- The task locks of a bounded run are never refreshed, and are up for reclaim after an hour
  (`concurrency/taskLock.ts:33`).
- `assertNoManualTaskLock` (`workspaceRunLock.ts:182`), `withTaskLock` and `withWorkspaceRunLock`
  have no caller in production code.

The task machine:

- The question about the schema is opened once and its newest answer counts for good: after a repair
  sent the task back to its design, the second design passes on the first one's yes
  (`gates/approval.ts:185`, `gates/gatePolicy.ts:112`; `reopenApproval`, `:293`, has no caller).
- A governed deployment reserves its attempt in `step()` (`orchestrator/orchestrator.ts:1983`), and
  `recordRoleDispatch` (`:706`) then refuses because there is a reservation: it cannot run, and the
  reservation stays.
- An answer that an old copy erased cannot be given again: its evidence stands (EvidenceConflict).
- The loop between the UX/UI consultant and who answers it has no bound (`:1922`).
- The answer to an escalation does not resume the task (`retry/recoveryPolicy.ts:29`, `:165`).

Execute runs, read and not modelled: `approve` loads and saves without a version; two `resume`
give the same attempt identity, against the comment in `execute/execute.ts`; a crash leaves a node
running for good; a tree may be read while a sibling's file is half written (`docs/execution.md:74`, `:121-131`).
