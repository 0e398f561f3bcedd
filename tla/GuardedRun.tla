------------------------------ MODULE GuardedRun ------------------------------
(***************************************************************************)
(* One bounded run of the task engine over a Target repository             *)
(* (engine/boundedRunService.ts over engine/taskRunService.ts), with the   *)
(* attempt boundary of its engineer stages (run/ledgerAttemptExecutor.ts,  *)
(* git/guardedRun.ts, git/checkpoint.ts).  Three durable stores change one *)
(* after the other, never together: the run ledger (attempts, checkpoints, *)
(* run status), the git repository of the Target, and the task engine's    *)
(* rows.  The process that drives the run may die between any two of those *)
(* writes; the next invocation reconciles what it finds.  An action is the *)
(* code between two durable writes.  The tasks are taken in the order      *)
(* 1 .. NumTasks; one process drives a run at a time (the task locks).     *)
(***************************************************************************)
EXTENDS Integers, Sequences, FiniteSets

CONSTANTS
    NumTasks,    \* tasks of the frozen plan scope, in task_order
    DependsOn,   \* DependsOn[t]: the tasks whose completion t waits on
    Until,       \* the run's boundary, "next-gate" or "done"
    MaxRepairs,  \* the policy's repair budget
    MaxStarts,   \* bound: invocations of the run
    MaxFaults,   \* bound: deaths of the process, lost ledger or engine writes, late errors
    MaxPerson    \* bound: what a person does in the Target repository

Tasks == 1 .. NumTasks

ASSUME ConstantsAssumption ==
    /\ NumTasks \in Nat \ {0} /\ MaxRepairs \in Nat
    /\ MaxStarts \in Nat /\ MaxFaults \in Nat /\ MaxPerson \in Nat
    /\ DependsOn \in [Tasks -> SUBSET Tasks]
    /\ Until \in {"next-gate", "done"}

RunStatuses == {"REGISTERED", "RUNNING", "HALTED", "AWAITING_HUMAN", "COMPLETED"}
AttemptStatuses == {"FROZEN", "RUNNING", "SUCCEEDED", "FAILED", "UNAVAILABLE", "ABANDONED"}
ExitKinds == {"DONE", "WAITING", "BLOCKED", "BUDGET", "STALLED", "NOT_READY"}
Steps == {"down", "reconcile", "open", "isolated", "settle", "pick", "drive", "begin",
          "inner", "accept", "nochange", "committed", "engine", "finish"}
Person == 0   \* whose work a change is: an attempt, or the person
Base == 0     \* the frozen base revision

VARIABLES
    run,          \* ledger: the run's status, and whether its Target boundary was ever opened
    attempts,     \* ledger: the attempts in the order they were frozen
    checkpoints,  \* ledger: the checkpoints in the order they were recorded
    engine,       \* task store: per task its stage, what holds it, its completed engineer stages
    repo,         \* the Target: branch checked out, commits above the base, uncommitted work
    proc,         \* the process that drives the run
    env           \* the agent a dead process left behind, and the bounded counters

vars == <<run, attempts, checkpoints, engine, repo, proc, env>>

Attempts == 1 .. Len(attempts)
\* mutant of Running: only the first task is looked at
RunningFirstTask == {a \in Attempts : attempts[a].status = "RUNNING" /\ attempts[a].task = 1}
Running == {a \in Attempts : attempts[a].status = "RUNNING"}
Commits(l) == {l[i].sha : i \in 1 .. Len(l)}

\* a commit of the run carries the trailers of exactly one attempt and is named after it; the
\* person's commits have negative names
Commit == [sha: Int, work: SUBSET Nat]
RunRow == [status: RunStatuses, isolated: BOOLEAN]
AttemptRow == [task: Tasks, status: AttemptStatuses]
CheckpointRow == [task: Tasks, attempt: Nat, sha: Int]
EngineRow == [stage: {"engineer", "verify", "done"}, hold: {"none", "gate", "unavailable", "blocked"},
              completed: Nat, rounds: 0 .. MaxRepairs + 1]
Repository == [branch: {"base", "run"}, created: BOOLEAN, dirt: SUBSET Nat, base: Seq(Commit), log: Seq(Commit)]
Process == [pc: Steps, task: Tasks \cup {0}, attempt: Nat, session: BOOLEAN, pending: Nat, active: Nat,
            settled: SUBSET (Tasks \cup {0}), exit: ExitKinds \cup {"none"}]
Environment == [orphan: Nat, starts: 0 .. MaxStarts, faults: 0 .. MaxFaults, person: 0 .. MaxPerson]

TypeOK ==
    /\ run \in RunRow
    /\ attempts \in Seq(AttemptRow)
    /\ checkpoints \in Seq(CheckpointRow)
    /\ engine \in [Tasks -> EngineRow]
    /\ repo \in Repository
    /\ proc \in Process
    /\ env \in Environment

-----------------------------------------------------------------------------
(* What the process reads *)

HeadOf(l) == IF l = <<>> THEN Base ELSE l[Len(l)].sha
HeadSha == HeadOf(IF repo.branch = "run" THEN repo.log ELSE repo.base)
Clean == repo.dirt = {}
Known == {Base} \cup {checkpoints[i].sha : i \in 1 .. Len(checkpoints)}

CheckpointsOf(t) == {i \in 1 .. Len(checkpoints) : checkpoints[i].task = t}
LatestSha(t) == checkpoints[CHOOSE i \in CheckpointsOf(t) : \A j \in CheckpointsOf(t) : j <= i].sha
Succeeded(t) == {a \in Attempts : attempts[a].task = t /\ attempts[a].status = "SUCCEEDED"}

\* a clean run branch at a known revision, or at a commit one interrupted attempt can own
CleanExactBranch == repo.branch = "run" /\ Clean /\ (HeadSha \in Known \/ Cardinality(Running) = 1)

\* a checkpoint of this task the engine has not consumed, still exactly HEAD on a clean tree
Unconsumed(t) ==
    /\ Clean
    /\ CheckpointsOf(t) # {}
    /\ HeadSha = LatestSha(t)
    /\ Cardinality(Succeeded(t)) > engine[t].completed

At(step) == proc.pc = step
Goto(step) == proc' = [proc EXCEPT !.pc = step]
Idle == [pc |-> "down", task |-> 0, attempt |-> 0, session |-> FALSE, pending |-> 0,
         active |-> 0, settled |-> {}, exit |-> "none"]
SetAttempt(a, s) == attempts' = [attempts EXCEPT ![a].status = s]
SetRun(s) == run' = [run EXCEPT !.status = s, !.isolated = @ \/ s \in {"RUNNING", "COMPLETED"}]
Fault == env.faults < MaxFaults /\ env' = [env EXCEPT !.faults = @ + 1]

\* an exception ends the invocation: the session is closed and the run is HALTED
Halts == SetRun("HALTED") /\ proc' = Idle

\* how the drive of one task ended, and what the run's policy makes of it
Continues(kind) == kind = "DONE" \/ (Until = "done" /\ kind \in {"WAITING", "BLOCKED"})
\* mutant of Stopped: the task is not settled
StoppedUnsettled(kind) == [proc EXCEPT !.task = 0, !.attempt = 0,
                                       !.pc = IF Continues(kind) THEN "pick" ELSE "finish",
                                       !.exit = IF kind = "DONE" \/ (Continues(kind) /\ @ # "none") THEN @ ELSE kind]
Stopped(kind) == [proc EXCEPT !.settled = @ \cup {proc.task}, !.task = 0, !.attempt = 0,
                              !.pc = IF Continues(kind) THEN "pick" ELSE "finish",
                              !.exit = IF kind = "DONE" \/ (Continues(kind) /\ @ # "none") THEN @ ELSE kind]
Stop(kind) == proc' = Stopped(kind)
\* a stop of a dispatch whose writer slot was freed
StopFreed(kind) == proc' = [Stopped(kind) EXCEPT !.active = 0]

-----------------------------------------------------------------------------
(* Start and reconciliation *)

Start ==
    /\ At("down")
    /\ run.status # "COMPLETED"
    /\ env.starts < MaxStarts
    /\ env' = [env EXCEPT !.starts = @ + 1]
    /\ Goto("reconcile")
    /\ UNCHANGED <<run, attempts, checkpoints, engine, repo>>

Reconcile ==
    /\ At("reconcile")
    /\ IF Running = {} THEN Goto("pick") /\ UNCHANGED run
       ELSE IF Cardinality(Running) > 1 THEN Halts
       ELSE \E a \in Running : proc' = [proc EXCEPT !.attempt = a, !.pc = "open"] /\ UNCHANGED run
    /\ UNCHANGED <<attempts, checkpoints, engine, repo, env>>

\* where the session was opened from: reconciliation, or the first dispatch
AfterOpen == IF proc.task = 0 THEN "settle" ELSE "begin"
Opened(p) == [proc EXCEPT !.session = TRUE, !.pending = p, !.pc = AfterOpen]

Adopt ==
    /\ At("open") /\ ~run.isolated
    /\ repo.branch = "run" /\ HeadSha = Base /\ Clean
    /\ Goto("isolated")
    /\ UNCHANGED <<run, attempts, checkpoints, engine, repo, env>>

Isolate ==
    /\ At("open") /\ ~run.isolated
    /\ repo.branch = "base" /\ HeadSha = Base /\ Clean /\ ~repo.created
    /\ repo' = [repo EXCEPT !.branch = "run", !.created = TRUE]
    /\ Goto("isolated")
    /\ UNCHANGED <<run, attempts, checkpoints, engine, env>>

OpenBoundary ==
    /\ At("isolated")
    /\ SetRun("RUNNING")
    /\ proc' = Opened(0)
    /\ UNCHANGED <<attempts, checkpoints, engine, repo, env>>

Reopen ==
    /\ At("open") /\ run.isolated
    /\ CleanExactBranch
    /\ SetRun("RUNNING")
    /\ \/ HeadSha \in Known /\ proc' = Opened(0)
       \/ HeadSha \notin Known /\ \E a \in Running : proc' = Opened(a)
    /\ UNCHANGED <<attempts, checkpoints, engine, repo, env>>

\* the session refuses: a refused reconciliation halts the run, a refused dispatch stalls its task
OpenRefused ==
    /\ At("open")
    /\ IF run.isolated THEN ~CleanExactBranch
       ELSE ~(HeadSha = Base /\ Clean /\ (repo.branch = "run" \/ ~repo.created))
    /\ IF proc.task = 0 THEN Halts ELSE Stop("STALLED") /\ UNCHANGED run
    /\ UNCHANGED <<attempts, checkpoints, engine, repo, env>>

Checkpointed(a) == Append(checkpoints, [task |-> attempts[a].task, attempt |-> a, sha |-> HeadSha])

\* mutant of HeadOwnedBy: the trailers are not compared
AnyHeadOwnedBy(a) == HeadSha # Base

\* HEAD must carry the exact trailers of the interrupted attempt
HeadOwnedBy(a) == HeadSha = a

\* mutant of Reattribute: the checkpoint is recorded, the attempt's success is not
ReattributeOnly ==
    /\ At("settle") /\ proc.pending = proc.attempt
    /\ CleanExactBranch /\ HeadOwnedBy(proc.attempt)
    /\ checkpoints' = Checkpointed(proc.attempt)
    /\ proc' = [proc EXCEPT !.pending = 0, !.active = 0, !.attempt = 0, !.pc = "pick"]
    /\ UNCHANGED <<run, attempts, engine, repo, env>>

Reattribute ==
    /\ At("settle") /\ proc.pending = proc.attempt
    /\ \/ /\ CleanExactBranch /\ HeadOwnedBy(proc.attempt)
          /\ checkpoints' = Checkpointed(proc.attempt)
          /\ SetAttempt(proc.attempt, "SUCCEEDED")
          /\ proc' = [proc EXCEPT !.pending = 0, !.active = 0, !.attempt = 0, !.pc = "pick"]
          /\ UNCHANGED run
       \/ /\ ~(CleanExactBranch /\ HeadOwnedBy(proc.attempt))
          /\ Halts
          /\ UNCHANGED <<attempts, checkpoints>>
    /\ UNCHANGED <<engine, repo, env>>

LeftNothing == repo.branch = "run" /\ Clean /\ HeadSha \in Known

Abandon ==
    /\ At("settle") /\ proc.pending # proc.attempt
    /\ \/ /\ LeftNothing
          /\ SetAttempt(proc.attempt, "ABANDONED")
          /\ proc' = [proc EXCEPT !.attempt = 0, !.pc = "pick"]
          /\ UNCHANGED run
       \/ /\ ~LeftNothing
          /\ Halts
          /\ UNCHANGED attempts
    /\ UNCHANGED <<checkpoints, engine, repo, env>>

-----------------------------------------------------------------------------
(* The drive of the tasks *)

\* mutant of Runnable: the dependencies are not waited for
AnyUnsettled == Tasks \ proc.settled

Runnable == {t \in Tasks \ proc.settled : \A d \in DependsOn[t] : engine[d].stage = "done"}

Pick ==
    /\ At("pick")
    /\ \/ \E t \in Runnable :
          /\ \A u \in Runnable : t <= u
          /\ proc' = [proc EXCEPT !.task = t, !.pc = "drive"]
       \/ /\ Runnable = {}
          /\ proc' = [proc EXCEPT !.pc = "finish",
                                  !.exit = IF @ # "none" THEN @
                                           ELSE IF proc.settled = Tasks THEN "DONE" ELSE "NOT_READY"]
    /\ UNCHANGED <<run, attempts, checkpoints, engine, repo, env>>

\* mutant of Spent: one round too many
SpentLate(t) == engine[t].rounds > MaxRepairs + 1
Spent(t) == engine[t].rounds > MaxRepairs

\* the checks before a step: the repair budget, then the engine's status of the task
StopBefore ==
    /\ At("drive")
    /\ LET e == engine[proc.task] IN
       \/ Spent(proc.task) /\ Stop("BUDGET")
       \/ ~Spent(proc.task) /\ e.stage = "done" /\ Stop("DONE")
       \/ ~Spent(proc.task) /\ e.hold \in {"blocked", "unavailable"} /\ Stop("BLOCKED")
       \/ ~Spent(proc.task) /\ e.hold = "gate" /\ Stop("WAITING")
    /\ UNCHANGED <<run, attempts, checkpoints, engine, repo, env>>

Due(stage) ==
    /\ At("drive")
    /\ ~Spent(proc.task)
    /\ engine[proc.task].stage = stage /\ engine[proc.task].hold = "none"

Held(why) == engine' = [engine EXCEPT ![proc.task].hold = why]
FailureCounted(stage, why) ==
    engine' = [engine EXCEPT ![proc.task].rounds = @ + 1, ![proc.task].stage = stage, ![proc.task].hold = why]

\* reviewer, QA and security pass straight through the boundary: their verdicts move the task
Verify ==
    /\ Due("verify")
    /\ \/ engine' = [engine EXCEPT ![proc.task].stage = "done"] /\ Goto("drive")
       \/ \E stage \in {"engineer", "verify"} : FailureCounted(stage, "none") /\ Goto("drive")
       \/ FailureCounted("verify", "blocked") /\ Goto("drive")
       \/ \E why \in {"gate", "unavailable"} : Held(why) /\ Goto("drive")
       \/ Stop("STALLED") /\ (UNCHANGED engine \/ FailureCounted("verify", "none"))
    /\ UNCHANGED <<run, attempts, checkpoints, repo, env>>

-----------------------------------------------------------------------------
(* The dispatch of an engineer stage *)

Freeze ==
    /\ Due("engineer")
    /\ \/ /\ attempts' = Append(attempts, [task |-> proc.task, status |-> "FROZEN"])
          /\ proc' = [proc EXCEPT !.attempt = Len(attempts) + 1,
                                  !.pc = IF proc.session THEN "begin" ELSE "open"]
       \/ /\ Stop("STALLED")
          /\ UNCHANGED attempts
    /\ UNCHANGED <<run, checkpoints, engine, repo, env>>

SlotFree == proc.pending = 0 /\ Running = {} /\ proc.active = 0

BeginTask ==
    /\ At("begin")
    /\ IF SlotFree
       THEN /\ SetAttempt(proc.attempt, "RUNNING")
            /\ proc' = [proc EXCEPT !.active = proc.attempt, !.pc = "inner"]
       ELSE Stop("STALLED") /\ UNCHANGED attempts
    /\ UNCHANGED <<run, checkpoints, engine, repo, env>>

AgentWrites ==
    /\ At("inner")
    /\ repo' = [repo EXCEPT !.dirt = @ \cup {proc.attempt}]
    /\ UNCHANGED <<run, attempts, checkpoints, engine, proc, env>>

\* the inner executor returns: passed and verified, failed (the task is blocked when its token budget
\* is spent), unserved by its runtime, or throws
AgentReturns ==
    /\ At("inner")
    /\ \/ /\ Goto("accept")
          /\ UNCHANGED <<run, attempts, engine>>
       \/ /\ SetAttempt(proc.attempt, "FAILED")
          /\ \/ UNCHANGED engine /\ StopFreed("STALLED")
             \/ Held("blocked") /\ StopFreed("BLOCKED")
          /\ UNCHANGED run
       \/ /\ SetAttempt(proc.attempt, "UNAVAILABLE")
          /\ \/ Held("unavailable") /\ StopFreed("BLOCKED")
             \/ UNCHANGED engine /\ StopFreed("STALLED")
          /\ UNCHANGED run
       \/ /\ SetAttempt(proc.attempt, "ABANDONED")
          /\ Halts
          /\ UNCHANGED engine
    /\ UNCHANGED <<checkpoints, repo, env>>

TakeUnconsumed ==
    /\ At("accept")
    /\ Unconsumed(proc.task)
    /\ Goto("nochange")
    /\ UNCHANGED <<run, attempts, checkpoints, engine, repo, env>>

\* HEAD is read again; a refusal here leaves the attempt RUNNING
CompleteWithoutChange ==
    /\ At("nochange")
    /\ LET exact == HeadSha = LatestSha(proc.task) /\ Clean IN
       \/ /\ exact
          /\ SetAttempt(proc.attempt, "SUCCEEDED")
          /\ proc' = [proc EXCEPT !.active = 0, !.pc = "engine"]
       \/ /\ ~exact
          /\ Stop("STALLED")
          /\ UNCHANGED attempts
    /\ UNCHANGED <<run, checkpoints, engine, repo, env>>

\* mutant of CheckpointRefused: an attempt that changed nothing passes
CheckpointRefusedPasses ==
    /\ At("accept")
    /\ ~Unconsumed(proc.task)
    /\ SetAttempt(proc.attempt, "SUCCEEDED")
    /\ proc' = [proc EXCEPT !.active = 0, !.pc = "engine"]
    /\ UNCHANGED <<run, checkpoints, engine, repo, env>>

\* nothing changed, or a guard, the contract, the verification, the secret scan or the staging refuses
CheckpointRefused ==
    /\ At("accept")
    /\ ~Unconsumed(proc.task)
    /\ SetAttempt(proc.attempt, "FAILED")
    /\ StopFreed("STALLED")
    /\ UNCHANGED <<run, checkpoints, engine, repo, env>>

\* every changed path that passes the guards is staged and committed on the branch checked out
Committed ==
    LET commit == [sha |-> proc.attempt, work |-> repo.dirt] IN
    IF repo.branch = "run" THEN [repo EXCEPT !.log = Append(@, commit), !.dirt = {}]
    ELSE [repo EXCEPT !.base = Append(@, commit), !.dirt = {}]

CommitWork ==
    /\ At("accept")
    /\ ~Unconsumed(proc.task)
    /\ ~Clean
    /\ repo' = Committed
    /\ \/ /\ Goto("committed")
          /\ UNCHANGED <<attempts, env>>
       \/ /\ Fault
          /\ SetAttempt(proc.attempt, "FAILED")
          /\ StopFreed("STALLED")
    /\ UNCHANGED <<run, checkpoints, engine>>

Recorded ==
    /\ checkpoints' = Append(checkpoints, [task |-> proc.task, attempt |-> proc.attempt, sha |-> proc.attempt])
    /\ SetAttempt(proc.attempt, "SUCCEEDED")
    /\ proc' = [proc EXCEPT !.active = 0, !.pc = "engine"]

\* mutant of RecordCheckpoint: two writes, of which the checkpoint's may be lost
RecordCheckpointTorn ==
    /\ At("committed")
    /\ \/ Recorded /\ UNCHANGED env
       \/ Fault /\ SetAttempt(proc.attempt, "SUCCEEDED") /\ StopFreed("STALLED") /\ UNCHANGED checkpoints
    /\ UNCHANGED <<run, engine, repo>>

\* mutant of RecordCheckpoint: the failure of the transaction is swallowed
RecordCheckpointSwallowed ==
    /\ At("committed")
    /\ \/ Recorded /\ UNCHANGED env
       \/ /\ Fault
          /\ proc' = [proc EXCEPT !.active = 0, !.pc = "engine"]
          /\ UNCHANGED <<checkpoints, attempts>>
    /\ UNCHANGED <<run, engine, repo>>

\* one ledger transaction; when it fails the attempt stays RUNNING and keeps the slot
RecordCheckpoint ==
    /\ At("committed")
    /\ \/ Recorded /\ UNCHANGED env
       \/ /\ Fault
          /\ Stop("STALLED")
          /\ UNCHANGED <<checkpoints, attempts>>
    /\ UNCHANGED <<run, engine, repo>>

\* the engine records the stage in one transaction, which may fail; the token budget may be spent
EngineRecords ==
    /\ At("engine")
    /\ \/ /\ engine' = [engine EXCEPT ![proc.task].completed = @ + 1, ![proc.task].stage = "verify"]
          /\ proc' = [proc EXCEPT !.attempt = 0, !.pc = "drive"]
          /\ UNCHANGED <<run, env>>
       \/ /\ Held("blocked") /\ Stop("BLOCKED")
          /\ UNCHANGED <<run, env>>
       \/ /\ Fault
          /\ \/ Halts
             \/ Stop("STALLED") /\ UNCHANGED run
          /\ UNCHANGED engine
    /\ UNCHANGED <<attempts, checkpoints, repo>>

AllDone == \A t \in Tasks : engine[t].stage = "done"
StatusOf(exit) == IF AllDone THEN "COMPLETED"
                  ELSE IF exit \in {"WAITING", "BLOCKED", "BUDGET"} THEN "AWAITING_HUMAN" ELSE "HALTED"

Finish ==
    /\ At("finish")
    /\ SetRun(StatusOf(proc.exit))
    /\ proc' = Idle
    /\ UNCHANGED <<attempts, checkpoints, engine, repo, env>>

-----------------------------------------------------------------------------
(* Deaths, the agents they leave behind, and the person *)

Crash ==
    /\ ~At("down")
    /\ Fault
    /\ proc' = Idle
    /\ UNCHANGED <<run, attempts, checkpoints, engine, repo>>

\* an agent may outlive the process that spawned it
CrashLeavingAgent ==
    /\ At("inner")
    /\ env.faults < MaxFaults
    /\ env' = [env EXCEPT !.faults = @ + 1, !.orphan = proc.attempt]
    /\ proc' = Idle
    /\ UNCHANGED <<run, attempts, checkpoints, engine, repo>>

Orphan ==
    /\ env.orphan # 0
    /\ \/ /\ repo' = [repo EXCEPT !.dirt = @ \cup {env.orphan}]
          /\ UNCHANGED env
       \/ /\ env' = [env EXCEPT !.orphan = 0]
          /\ UNCHANGED repo
    /\ UNCHANGED <<run, attempts, checkpoints, engine, proc>>

PersonCommitted(n) ==
    LET commit == [sha |-> -n, work |-> repo.dirt] IN
    IF repo.branch = "run" THEN [repo EXCEPT !.log = Append(@, commit), !.dirt = {}]
    ELSE [repo EXCEPT !.base = Append(@, commit), !.dirt = {}]

\* edits, discards, commits or switches branch in the checkout, at any time
PersonInRepo ==
    /\ env.person < MaxPerson
    /\ env' = [env EXCEPT !.person = @ + 1]
    /\ \/ repo' = [repo EXCEPT !.dirt = @ \cup {Person}]
       \/ ~Clean /\ repo' = [repo EXCEPT !.dirt = {}]
       \/ ~Clean /\ repo' = PersonCommitted(env.person + 1)
       \/ repo.created /\ repo' = [repo EXCEPT !.branch = IF @ = "run" THEN "base" ELSE "run"]
    /\ UNCHANGED <<run, attempts, checkpoints, engine, proc>>

\* between invocations a gate is answered, a block for want of a runtime is released
PersonAnswers ==
    /\ At("down")
    /\ \E t \in Tasks :
          /\ engine[t].hold \in {"gate", "unavailable"}
          /\ engine' = [engine EXCEPT ![t].hold = "none"]
    /\ UNCHANGED <<run, attempts, checkpoints, repo, proc, env>>

-----------------------------------------------------------------------------
Init ==
    /\ run = [status |-> "REGISTERED", isolated |-> FALSE]
    /\ attempts = <<>>
    /\ checkpoints = <<>>
    /\ engine = [t \in Tasks |-> [stage |-> "engineer", hold |-> "none", completed |-> 0, rounds |-> 0]]
    /\ repo = [branch |-> "base", created |-> FALSE, dirt |-> {}, base |-> <<>>, log |-> <<>>]
    /\ proc = Idle
    /\ env = [orphan |-> 0, starts |-> 0, faults |-> 0, person |-> 0]

Drive ==
    \/ Reconcile \/ Adopt \/ Isolate \/ OpenBoundary \/ Reopen \/ OpenRefused \/ Reattribute \/ Abandon
    \/ Pick \/ StopBefore \/ Verify \/ Freeze \/ BeginTask \/ AgentReturns
    \/ TakeUnconsumed \/ CompleteWithoutChange \/ CheckpointRefused \/ CommitWork \/ RecordCheckpoint
    \/ EngineRecords \/ Finish

World == AgentWrites \/ Crash \/ CrashLeavingAgent \/ Orphan \/ PersonInRepo \/ PersonAnswers

Next == Start \/ Drive \/ World

Spec == Init /\ [][Next]_vars

\* an invocation runs on by itself; agents end (their adapters time out)
FairSpec == Spec /\ WF_vars(Drive)

-----------------------------------------------------------------------------
(* Properties *)

\* At most one attempt of a run is RUNNING, whatever process died holding the slot (beginTask).
OneWriter == \A a, b \in Attempts : attempts[a].status = "RUNNING" /\ attempts[b].status = "RUNNING" => a = b

EngineCommits == {s \in Commits(repo.log) \cup Commits(repo.base) : s > 0}
RunCommits == {s \in Commits(repo.log) : s > 0}

\* A checkpoint names a commit that exists, carries the trailers of its own attempt, whose attempt
\* is SUCCEEDED for the same task; no commit is recorded twice (checkpoint, reconcileHeadCheckpoint).
CheckpointAttributed ==
    \A i \in 1 .. Len(checkpoints) :
        LET c == checkpoints[i] IN
        /\ c.sha \in EngineCommits
        /\ c.sha = c.attempt
        /\ attempts[c.attempt].task = c.task /\ attempts[c.attempt].status = "SUCCEEDED"
        /\ \A j \in 1 .. Len(checkpoints) : checkpoints[j].sha = c.sha => j = i

Unknown == RunCommits \ Known

\* At most one commit on the run branch is unknown to the ledger, whatever dies, is lost or is done by a person.
\* Either its attempt is the one RUNNING - the commit whose ledger write was lost, which the next opening
\* re-attributes (run/ledgerAttemptExecutor.ts:292, reconcileInterrupted) - or its checkpoint threw after it
\* (guardedRun.ts:258): then the attempt is FAILED, nobody runs, the Target is let go and the task stays at
\* its engineer stage, so that its work is never counted.
Reconcilable ==
    /\ \A s, u \in Unknown : s = u
    /\ \A s \in Unknown :
          \/ Running = {s}
          \/ /\ Running = {} /\ attempts[s].status = "FAILED"
             /\ proc.session => At("finish")
             /\ engine[attempts[s].task].stage = "engineer"

\* The engine never counts more completed engineer stages than the ledger has successes, and a task is
\* past its engineer stage only with a checkpoint of its own (unconsumedCheckpoint, reportCompletion).
CompletionBacked ==
    \A t \in Tasks :
        /\ engine[t].completed <= Cardinality(Succeeded(t))
        /\ engine[t].stage # "engineer" => CheckpointsOf(t) # {}

\* A COMPLETED run leaves nothing to reconcile: no attempt RUNNING, every commit of an attempt on the run
\* branch recorded (writeRunStatus, assertCleanExactBranch).
CompletedIsSettled ==
    run.status = "COMPLETED" => Running = {} /\ RunCommits \subseteq Known

\* The Target is written for a task only once every task it depends on is done, in whatever invocation
\* (runTasks, TaskRegistry.waitingOn).
DependenciesFirst ==
    \A a \in Attempts : \A d \in DependsOn[attempts[a].task] : engine[d].stage = "done"

\* Every invocation of the run comes to an end (runTasks settles a task once).
InvocationEnds == ~At("down") ~> At("down")

\* The attempts and checkpoints of the ledger behave as AttemptLog promises.
Log == INSTANCE AttemptLog
ImplementsLog == Log!Spec

=============================================================================
