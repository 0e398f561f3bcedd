--------------------------- MODULE GuardedRunProofs ---------------------------
(***************************************************************************)
(* Proofs about GuardedRun for every plan, policy and number of faults.    *)
(***************************************************************************)
EXTENDS GuardedRun, SequenceTheorems, FiniteSetTheorems, TLAPS

USE ConstantsAssumption

\* the steps of a dispatch, and the steps that speak of an attempt
Driving == {"drive", "begin", "inner", "accept", "nochange", "committed", "engine"}
Holding == {"open", "isolated", "settle", "begin", "inner", "accept", "nochange", "committed", "engine"}

PcInv ==
    /\ proc.pc \in Driving => proc.task \in Tasks
    /\ proc.pc \in Holding => proc.attempt \in Attempts
    /\ proc.pc \in {"down", "reconcile", "settle"} => proc.task = 0

-----------------------------------------------------------------------------
(* What the helpers of the actions return *)

LEMMA StoppedProcess ==
    ASSUME proc \in Process, NEW kind \in ExitKinds
    PROVE  /\ Stopped(kind) \in Process
           /\ [Stopped(kind) EXCEPT !.active = 0] \in Process
           /\ Stopped(kind).pc \in {"pick", "finish"}
           /\ [Stopped(kind) EXCEPT !.active = 0].pc \in {"pick", "finish"}
<1> DEFINE e == IF kind = "DONE" \/ (Continues(kind) /\ proc.exit # "none") THEN proc.exit ELSE kind
           p == IF Continues(kind) THEN "pick" ELSE "finish"
           d == proc.settled \cup {proc.task}
<1>1. e \in ExitKinds \cup {"none"} /\ p \in {"pick", "finish"} /\ p \in Steps
  BY DEF Process, Steps
<1>2. d \in SUBSET (Tasks \cup {0})
  BY DEF Process
<1>3. Stopped(kind) = [[[proc EXCEPT !.settled = d] EXCEPT !.task = 0, !.attempt = 0] EXCEPT !.pc = p, !.exit = e]
  BY DEF Stopped
<1> HIDE DEF e, p, d
<1>5. [proc EXCEPT !.settled = d] \in Process
  BY <1>2 DEF Process
<1>6. [[proc EXCEPT !.settled = d] EXCEPT !.task = 0, !.attempt = 0] \in Process
  BY <1>5 DEF Process
<1>7. Stopped(kind) \in Process /\ Stopped(kind).pc = p
  BY <1>1, <1>3, <1>6 DEF Process
<1>8. [Stopped(kind) EXCEPT !.active = 0] \in Process /\ [Stopped(kind) EXCEPT !.active = 0].pc = p
  BY <1>7 DEF Process
<1> QED BY <1>1, <1>7, <1>8

LEMMA GotoProcess ==
    ASSUME proc \in Process, NEW step \in Steps, Goto(step)
    PROVE  /\ proc' \in Process
           /\ proc'.pc = step /\ proc'.task = proc.task /\ proc'.attempt = proc.attempt
BY DEF Goto, Process

LEMMA IdleProcess == Idle \in Process /\ Idle.pc = "down" /\ Idle.task = 0
BY DEF Idle, Process, Steps, ExitKinds

LEMMA SetAttemptKeeps ==
    ASSUME attempts \in Seq(AttemptRow), NEW a, NEW s \in AttemptStatuses, SetAttempt(a, s)
    PROVE  /\ attempts' \in Seq(AttemptRow)
           /\ Len(attempts') = Len(attempts)
           /\ \A b \in Attempts : b # a => attempts'[b] = attempts[b]
           /\ a \in Attempts => attempts'[a] = [attempts[a] EXCEPT !.status = s]
<1>1. CASE a \in Attempts
  <2>1. attempts[a] \in AttemptRow
    BY <1>1 DEF Attempts
  <2>2. [attempts[a] EXCEPT !.status = s] \in AttemptRow
    BY <2>1 DEF AttemptRow
  <2>3. attempts' = [attempts EXCEPT ![a] = [attempts[a] EXCEPT !.status = s]]
    BY DEF SetAttempt
  <2> QED BY <1>1, <2>2, <2>3, ExceptSeq DEF Attempts
<1>2. CASE a \notin Attempts
  <2>1. attempts' = attempts
    BY <1>2 DEF SetAttempt, Attempts
  <2> QED BY <1>2, <2>1
<1> QED BY <1>1, <1>2

LEMMA SetRunKeeps ==
    ASSUME run \in RunRow, NEW s \in RunStatuses, SetRun(s)
    PROVE  run' \in RunRow
BY DEF SetRun, RunRow

LEMMA FaultKeeps ==
    ASSUME env \in Environment, Fault
    PROVE  env' \in Environment
BY DEF Fault, Environment

LEMMA EngineKeeps ==
    ASSUME engine \in [Tasks -> EngineRow], proc.task \in Tasks,
           NEW stage \in {"engineer", "verify"}, NEW why \in {"none", "gate", "unavailable", "blocked"}
    PROVE  /\ Held(why) => engine' \in [Tasks -> EngineRow]
           /\ ~Spent(proc.task) /\ FailureCounted(stage, why) => engine' \in [Tasks -> EngineRow]
<1> DEFINE e == engine[proc.task]
<1>1. e \in EngineRow
  OBVIOUS
<1>2. [e EXCEPT !.hold = why] \in EngineRow
  BY <1>1 DEF EngineRow
<1>3. ASSUME ~Spent(proc.task)
      PROVE  [e EXCEPT !.rounds = @ + 1, !.stage = stage, !.hold = why] \in EngineRow
  <2>1. e.rounds \in 0 .. MaxRepairs + 1 /\ ~(e.rounds > MaxRepairs)
    BY <1>1, <1>3 DEF EngineRow, Spent
  <2>2. e.rounds + 1 \in 0 .. MaxRepairs + 1
    BY <2>1
  <2> QED BY <1>1, <2>2 DEF EngineRow
<1> QED BY <1>2, <1>3 DEF Held, FailureCounted

LEMMA CommitKeeps ==
    ASSUME repo \in Repository, NEW sha \in Int, NEW l \in Seq(Commit)
    PROVE  /\ Append(l, [sha |-> sha, work |-> repo.dirt]) \in Seq(Commit)
           /\ [repo EXCEPT !.log = Append(repo.log, [sha |-> sha, work |-> repo.dirt]), !.dirt = {}] \in Repository
           /\ [repo EXCEPT !.base = Append(repo.base, [sha |-> sha, work |-> repo.dirt]), !.dirt = {}] \in Repository
<1>1. [sha |-> sha, work |-> repo.dirt] \in Commit /\ {} \in SUBSET Nat
  BY DEF Commit, Repository
<1>2. repo.log \in Seq(Commit) /\ repo.base \in Seq(Commit)
  BY DEF Repository
<1>3. \A c \in Commit, k \in Seq(Commit) : Append(k, c) \in Seq(Commit)
  BY AppendProperties
<1> QED BY <1>1, <1>2, <1>3 DEF Repository

-----------------------------------------------------------------------------
(* Types: what the process does *)

TypeInv == TypeOK /\ PcInv

LEMMA StartTypes == TypeInv /\ Start => TypeInv'
<1> SUFFICES ASSUME TypeInv, Start PROVE TypeInv'
  OBVIOUS
<1>1. env' \in Environment
  <2>1. env \in Environment /\ env.starts < MaxStarts /\ env' = [env EXCEPT !.starts = env.starts + 1]
    BY DEF TypeInv, TypeOK, Start
  <2>2. env.starts + 1 \in 0 .. MaxStarts
    <3>1. MaxStarts \in Nat /\ env.starts \in 0 .. MaxStarts
      BY <2>1, ConstantsAssumption DEF ConstantsAssumption, Environment
    <3> QED BY <2>1, <3>1
  <2> QED BY <2>1, <2>2 DEF Environment
<1>2. proc' \in Process /\ PcInv'
  BY GotoProcess DEF TypeInv, TypeOK, PcInv, Start, At, Steps, Driving, Holding
<1> QED BY <1>1, <1>2 DEF TypeInv, TypeOK, Start

LEMMA ReconcileTypes == TypeInv /\ Reconcile => TypeInv'
<1> SUFFICES ASSUME TypeInv, Reconcile PROVE TypeInv'
  OBVIOUS
<1>1. run' \in RunRow
  BY SetRunKeeps DEF TypeInv, TypeOK, Reconcile, Halts, RunStatuses
<1>2. CASE Goto("pick")
  BY <1>1, <1>2, GotoProcess DEF TypeInv, TypeOK, PcInv, Reconcile, Steps, Driving, Holding
<1>3. CASE Halts
  BY <1>1, <1>3, IdleProcess DEF TypeInv, TypeOK, PcInv, Reconcile, Halts, Driving, Holding
<1>4. CASE \E a \in Running : proc' = [proc EXCEPT !.attempt = a, !.pc = "open"]
  <2>1. PICK a \in Running : proc' = [proc EXCEPT !.attempt = a, !.pc = "open"]
    BY <1>4
  <2>2. a \in Attempts /\ a \in Nat
    BY DEF Running, Attempts
  <2>3. proc' \in Process /\ proc'.pc = "open" /\ proc'.attempt = a
    BY <2>1, <2>2 DEF TypeInv, TypeOK, Process, Steps
  <2> QED BY <1>1, <2>2, <2>3 DEF TypeInv, TypeOK, PcInv, Reconcile, Driving, Attempts
<1> QED BY <1>2, <1>3, <1>4 DEF Reconcile

LEMMA AdoptTypes == TypeInv /\ Adopt => TypeInv'
BY GotoProcess DEF TypeInv, TypeOK, PcInv, Adopt, At, Steps, Driving, Holding, Attempts

LEMMA IsolateTypes == TypeInv /\ Isolate => TypeInv'
<1> SUFFICES ASSUME TypeInv, Isolate PROVE TypeInv'
  OBVIOUS
<1>1. repo' \in Repository
  BY DEF TypeInv, TypeOK, Isolate, Repository
<1>2. proc' \in Process /\ PcInv'
  BY GotoProcess DEF TypeInv, TypeOK, PcInv, Isolate, At, Steps, Driving, Holding, Attempts
<1> QED BY <1>1, <1>2 DEF TypeInv, TypeOK, Isolate

\* the session is open: the reconciliation goes on, or the dispatch that opened it
LEMMA OpenedProcess ==
    ASSUME proc \in Process, NEW a \in Nat
    PROVE  /\ Opened(a) \in Process
           /\ Opened(a).task = proc.task /\ Opened(a).attempt = proc.attempt
           /\ Opened(a).pc = IF proc.task = 0 THEN "settle" ELSE "begin"
<1>1. AfterOpen \in Steps /\ AfterOpen = IF proc.task = 0 THEN "settle" ELSE "begin"
  BY DEF AfterOpen, Steps
<1> QED BY <1>1 DEF Opened, Process

LEMMA OpenedTypes ==
    ASSUME TypeInv, At("open") \/ At("isolated"), UNCHANGED attempts, NEW a \in Nat, proc' = Opened(a)
    PROVE  proc' \in Process /\ PcInv'
<1>1. proc \in Process /\ proc.attempt \in Attempts /\ proc.task \in Tasks \cup {0}
  BY DEF TypeInv, TypeOK, PcInv, At, Holding, Process
<1>2. /\ proc' \in Process /\ proc'.task = proc.task /\ proc'.attempt = proc.attempt
      /\ proc'.pc = IF proc.task = 0 THEN "settle" ELSE "begin"
  BY <1>1, OpenedProcess
<1>3. proc'.attempt \in Attempts'
  BY <1>1, <1>2 DEF Attempts
<1> QED BY <1>1, <1>2, <1>3 DEF PcInv, Driving, Holding

LEMMA OpenBoundaryTypes == TypeInv /\ OpenBoundary => TypeInv'
<1> SUFFICES ASSUME TypeInv, OpenBoundary PROVE TypeInv'
  OBVIOUS
<1>1. run' \in RunRow
  BY SetRunKeeps DEF TypeInv, TypeOK, OpenBoundary, RunStatuses
<1>2. proc' \in Process /\ PcInv'
  BY OpenedTypes DEF OpenBoundary
<1> QED BY <1>1, <1>2 DEF TypeInv, TypeOK, OpenBoundary

LEMMA ReopenTypes == TypeInv /\ Reopen => TypeInv'
<1> SUFFICES ASSUME TypeInv, Reopen PROVE TypeInv'
  OBVIOUS
<1>1. run' \in RunRow
  BY SetRunKeeps DEF TypeInv, TypeOK, Reopen, RunStatuses
<1>2. \E a \in Nat : proc' = Opened(a)
  BY DEF Reopen, Running, Attempts
<1>3. PICK a \in Nat : proc' = Opened(a)
  BY <1>2
<1>4. proc' \in Process /\ PcInv'
  BY <1>3, OpenedTypes DEF Reopen
<1> QED BY <1>1, <1>4 DEF TypeInv, TypeOK, Reopen

LEMMA StopTypes ==
    ASSUME TypeInv, NEW kind \in ExitKinds, Stop(kind) \/ StopFreed(kind)
    PROVE  proc' \in Process /\ PcInv'
BY StoppedProcess DEF TypeInv, TypeOK, PcInv, Stop, StopFreed, Driving, Holding

LEMMA HaltTypes ==
    ASSUME TypeInv, Halts
    PROVE  run' \in RunRow /\ proc' \in Process /\ PcInv'
BY SetRunKeeps, IdleProcess DEF TypeInv, TypeOK, PcInv, Halts, Driving, Holding, RunStatuses

LEMMA OpenRefusedTypes == TypeInv /\ OpenRefused => TypeInv'
BY StopTypes, HaltTypes DEF TypeInv, TypeOK, OpenRefused, ExitKinds

\* a commit named by HEAD has an integer for a name
LEMMA HeadIsInt == repo \in Repository => HeadSha \in Int
<1> SUFFICES ASSUME repo \in Repository PROVE HeadSha \in Int
  OBVIOUS
<1>1. repo.log \in Seq(Commit) /\ repo.base \in Seq(Commit)
  BY DEF Repository
<1>2. \A l \in Seq(Commit) : HeadOf(l) \in Int
  <2> TAKE l \in Seq(Commit)
  <2>1. CASE l = <<>>
    BY <2>1 DEF HeadOf, Base
  <2>2. CASE l # <<>>
    <3>1. l[Len(l)] \in Commit
      BY <2>2
    <3> QED BY <2>2, <3>1 DEF HeadOf, Commit
  <2> QED BY <2>1, <2>2
<1> QED BY <1>1, <1>2 DEF HeadSha

LEMMA CheckpointedTypes ==
    ASSUME TypeInv, NEW a \in Attempts
    PROVE  Checkpointed(a) \in Seq(CheckpointRow)
<1>1. attempts[a] \in AttemptRow /\ a \in Nat /\ HeadSha \in Int
  BY HeadIsInt DEF TypeInv, TypeOK, Attempts
<1>2. [task |-> attempts[a].task, attempt |-> a, sha |-> HeadSha] \in CheckpointRow
  BY <1>1 DEF AttemptRow, CheckpointRow
<1> QED BY <1>2, AppendProperties DEF Checkpointed, TypeInv, TypeOK

LEMMA ReattributeTypes == TypeInv /\ Reattribute => TypeInv'
<1> SUFFICES ASSUME TypeInv, Reattribute PROVE TypeInv'
  OBVIOUS
<1>1. proc.attempt \in Attempts
  BY DEF TypeInv, PcInv, Reattribute, At, Holding
<1>2. CASE CleanExactBranch /\ HeadOwnedBy(proc.attempt)
  <2>1. checkpoints' \in Seq(CheckpointRow)
    BY <1>1, <1>2, CheckpointedTypes DEF Reattribute
  <2>2. attempts' \in Seq(AttemptRow)
    BY <1>2, SetAttemptKeeps DEF TypeInv, TypeOK, Reattribute, AttemptStatuses
  <2>3. proc' = [proc EXCEPT !.pending = 0, !.active = 0, !.attempt = 0, !.pc = "pick"] /\ run' = run
    BY <1>2 DEF Reattribute
  <2>4. proc' \in Process /\ proc'.pc = "pick"
    BY <2>3 DEF TypeInv, TypeOK, Process, Steps
  <2> QED BY <2>1, <2>2, <2>3, <2>4 DEF TypeInv, TypeOK, PcInv, Reattribute, Driving, Holding
<1>3. CASE ~(CleanExactBranch /\ HeadOwnedBy(proc.attempt))
  BY <1>3, HaltTypes DEF TypeInv, TypeOK, Reattribute
<1> QED BY <1>2, <1>3

LEMMA AbandonTypes == TypeInv /\ Abandon => TypeInv'
<1> SUFFICES ASSUME TypeInv, Abandon PROVE TypeInv'
  OBVIOUS
<1>1. CASE LeftNothing
  <2>1. attempts' \in Seq(AttemptRow)
    BY <1>1, SetAttemptKeeps DEF TypeInv, TypeOK, Abandon, AttemptStatuses
  <2>2. proc' = [proc EXCEPT !.attempt = 0, !.pc = "pick"] /\ run' = run
    BY <1>1 DEF Abandon
  <2>3. proc' \in Process /\ proc'.pc = "pick"
    BY <2>2 DEF TypeInv, TypeOK, Process, Steps
  <2> QED BY <2>1, <2>2, <2>3 DEF TypeInv, TypeOK, PcInv, Abandon, Driving, Holding
<1>2. CASE ~LeftNothing
  BY <1>2, HaltTypes DEF TypeInv, TypeOK, Abandon
<1> QED BY <1>1, <1>2

LEMMA PickTypes == TypeInv /\ Pick => TypeInv'
<1> SUFFICES ASSUME TypeInv, Pick PROVE TypeInv'
  OBVIOUS
<1>1. CASE Runnable = {}
  <2> DEFINE e == IF proc.exit # "none" THEN proc.exit ELSE IF proc.settled = Tasks THEN "DONE" ELSE "NOT_READY"
  <2>1. e \in ExitKinds \cup {"none"}
    BY DEF TypeInv, TypeOK, Process, ExitKinds
  <2>2. proc' = [proc EXCEPT !.pc = "finish", !.exit = e]
    BY <1>1 DEF Pick
  <2> HIDE DEF e
  <2>3. proc' \in Process /\ proc'.pc = "finish"
    BY <2>1, <2>2 DEF TypeInv, TypeOK, Process, Steps
  <2> QED BY <2>3 DEF TypeInv, TypeOK, PcInv, Pick, Driving, Holding
<1>2. CASE \E t \in Runnable : proc' = [proc EXCEPT !.task = t, !.pc = "drive"]
  <2>1. PICK t \in Tasks : proc' = [proc EXCEPT !.task = t, !.pc = "drive"]
    BY <1>2 DEF Runnable
  <2>2. proc' \in Process /\ proc'.pc = "drive" /\ proc'.task = t
    BY <2>1 DEF TypeInv, TypeOK, Process, Steps
  <2> QED BY <2>2 DEF TypeInv, TypeOK, PcInv, Pick, Driving, Holding
<1> QED BY <1>1, <1>2 DEF Pick

LEMMA StopBeforeTypes == TypeInv /\ StopBefore => TypeInv'
<1> SUFFICES ASSUME TypeInv, StopBefore PROVE TypeInv'
  OBVIOUS
<1>1. \E kind \in ExitKinds : Stop(kind)
  BY DEF StopBefore, ExitKinds
<1> QED BY <1>1, StopTypes DEF TypeInv, TypeOK, StopBefore

LEMMA VerifyTypes == TypeInv /\ Verify => TypeInv'
<1> SUFFICES ASSUME TypeInv, Verify PROVE TypeInv'
  OBVIOUS
<1>1. proc.task \in Tasks /\ ~Spent(proc.task) /\ proc.pc = "drive"
  BY DEF TypeInv, PcInv, Verify, Due, At, Driving
<1>2. engine' \in [Tasks -> EngineRow]
  <2>1. [engine EXCEPT ![proc.task].stage = "done"] \in [Tasks -> EngineRow]
    BY <1>1 DEF TypeInv, TypeOK, EngineRow
  <2> QED BY <1>1, <2>1, EngineKeeps DEF TypeInv, TypeOK, Verify
<1>3. Goto("drive") \/ Stop("STALLED")
  BY DEF Verify
<1>4. proc' \in Process /\ PcInv'
  BY <1>1, <1>3, GotoProcess, StopTypes DEF TypeInv, TypeOK, PcInv, ExitKinds, Steps, Driving, Holding
<1> QED BY <1>2, <1>4 DEF TypeInv, TypeOK, Verify

\* in a dispatch the process moves on to another of its steps, with the slot freed or not
LEMMA DispatchMoves ==
    ASSUME TypeInv, proc.pc \in Driving, proc.attempt \in Attempts,
           attempts' \in Seq(AttemptRow), Len(attempts') = Len(attempts),
           NEW step \in Driving, NEW a \in Nat, proc' = [proc EXCEPT !.active = a, !.pc = step]
    PROVE  proc' \in Process /\ PcInv'
<1>1. proc' \in Process /\ proc'.pc = step /\ proc'.task = proc.task /\ proc'.attempt = proc.attempt
  BY DEF TypeInv, TypeOK, Process, Driving, Steps
<1>2. proc'.task \in Tasks /\ proc'.attempt \in Attempts'
  BY <1>1 DEF TypeInv, PcInv, Attempts
<1> QED BY <1>1, <1>2 DEF PcInv, Driving, Holding

LEMMA DispatchGoes ==
    ASSUME TypeInv, proc.pc \in Driving, proc.attempt \in Attempts, UNCHANGED attempts,
           NEW step \in Driving, Goto(step)
    PROVE  proc' \in Process /\ PcInv'
<1>1. proc' \in Process /\ proc'.pc = step /\ proc'.task = proc.task /\ proc'.attempt = proc.attempt
  BY GotoProcess DEF TypeInv, TypeOK, Driving, Steps
<1>2. proc'.task \in Tasks /\ proc'.attempt \in Attempts'
  BY <1>1 DEF TypeInv, PcInv, Attempts
<1> QED BY <1>1, <1>2 DEF PcInv, Driving, Holding

LEMMA FreezeTypes == TypeInv /\ Freeze => TypeInv'
<1> SUFFICES ASSUME TypeInv, Freeze PROVE TypeInv'
  OBVIOUS
<1>1. proc.task \in Tasks /\ proc \in Process /\ attempts \in Seq(AttemptRow)
  BY DEF TypeInv, TypeOK, PcInv, Freeze, Due, At, Driving
<1>2. CASE Stop("STALLED") /\ UNCHANGED attempts
  BY <1>2, StopTypes DEF TypeInv, TypeOK, Freeze, ExitKinds
<1>3. CASE /\ attempts' = Append(attempts, [task |-> proc.task, status |-> "FROZEN"])
           /\ proc' = [proc EXCEPT !.attempt = Len(attempts) + 1,
                                   !.pc = IF proc.session THEN "begin" ELSE "open"]
  <2>1. [task |-> proc.task, status |-> "FROZEN"] \in AttemptRow
    BY <1>1 DEF AttemptRow, AttemptStatuses
  <2>2. attempts' \in Seq(AttemptRow) /\ Len(attempts') = Len(attempts) + 1 /\ Len(attempts) \in Nat
    BY <1>1, <1>3, <2>1, AppendProperties
  <2>3. PICK step \in {"begin", "open"} : proc' = [proc EXCEPT !.attempt = Len(attempts) + 1, !.pc = step]
    BY <1>3
  <2>4. /\ proc' \in Process /\ proc'.pc = step /\ proc'.task = proc.task
        /\ proc'.attempt = Len(attempts) + 1
    <3>1. \A n \in Nat, s \in Steps : [proc EXCEPT !.attempt = n, !.pc = s] \in Process
      BY <1>1 DEF Process
    <3>2. Len(attempts) + 1 \in Nat /\ step \in Steps
      BY <2>2 DEF Steps
    <3>3. proc' \in Process
      BY <2>3, <3>1, <3>2
    <3>4. proc'.pc = step /\ proc'.task = proc.task /\ proc'.attempt = Len(attempts) + 1
      BY <1>1, <2>3 DEF Process
    <3> QED BY <3>3, <3>4
  <2>5. proc'.attempt \in Attempts'
    BY <2>2, <2>4 DEF Attempts
  <2>6. PcInv'
    BY <1>1, <2>4, <2>5 DEF PcInv, Driving, Holding
  <2> QED BY <2>2, <2>4, <2>6 DEF TypeInv, TypeOK, Freeze
<1> QED BY <1>2, <1>3 DEF Freeze

LEMMA HeldAttempt ==
    ASSUME TypeInv, proc.pc \in {"begin", "inner", "accept", "nochange", "committed", "engine"}
    PROVE  proc.attempt \in Attempts /\ proc.attempt \in Nat /\ proc.task \in Tasks /\ proc.pc \in Driving
BY DEF TypeInv, TypeOK, PcInv, Driving, Holding, Process

LEMMA BeginTaskTypes == TypeInv /\ BeginTask => TypeInv'
<1> SUFFICES ASSUME TypeInv, BeginTask PROVE TypeInv'
  OBVIOUS
<1>1. proc.attempt \in Attempts /\ proc.attempt \in Nat /\ proc.pc \in Driving
  BY HeldAttempt DEF BeginTask, At
<1>2. CASE SlotFree
  <2>1. attempts' \in Seq(AttemptRow) /\ Len(attempts') = Len(attempts)
    BY <1>2, SetAttemptKeeps DEF TypeInv, TypeOK, BeginTask, AttemptStatuses
  <2>2. proc' = [proc EXCEPT !.active = proc.attempt, !.pc = "inner"] /\ "inner" \in Driving
    BY <1>2 DEF BeginTask, Driving
  <2>3. proc' \in Process /\ PcInv'
    BY <1>1, <2>1, <2>2, DispatchMoves
  <2> QED BY <2>1, <2>3 DEF TypeInv, TypeOK, BeginTask
<1>3. CASE ~SlotFree
  BY <1>3, StopTypes DEF TypeInv, TypeOK, BeginTask, ExitKinds
<1> QED BY <1>2, <1>3

LEMMA AgentReturnsTypes == TypeInv /\ AgentReturns => TypeInv'
<1> SUFFICES ASSUME TypeInv, AgentReturns PROVE TypeInv'
  OBVIOUS
<1>1. proc.attempt \in Attempts /\ proc.task \in Tasks /\ proc.pc \in Driving
  BY HeldAttempt DEF AgentReturns, At
<1>2. attempts' \in Seq(AttemptRow)
  BY SetAttemptKeeps DEF TypeInv, TypeOK, AgentReturns, AttemptStatuses
<1>3. engine' \in [Tasks -> EngineRow]
  BY <1>1, EngineKeeps DEF TypeInv, TypeOK, AgentReturns
<1>4. run' \in RunRow
  BY HaltTypes DEF TypeInv, TypeOK, AgentReturns
<1>5. proc' \in Process /\ PcInv'
  <2>1. CASE Goto("accept") /\ UNCHANGED attempts
    <3>1. "accept" \in Driving
      BY DEF Driving
    <3> QED BY <1>1, <2>1, <3>1, DispatchGoes
  <2>2. CASE StopFreed("STALLED") \/ StopFreed("BLOCKED")
    BY <2>2, StopTypes DEF ExitKinds
  <2>3. CASE Halts
    BY <2>3, HaltTypes
  <2> QED BY <2>1, <2>2, <2>3 DEF AgentReturns
<1> QED BY <1>2, <1>3, <1>4, <1>5 DEF TypeInv, TypeOK, AgentReturns

LEMMA TakeUnconsumedTypes == TypeInv /\ TakeUnconsumed => TypeInv'
<1> SUFFICES ASSUME TypeInv, TakeUnconsumed PROVE TypeInv'
  OBVIOUS
<1>1. proc.attempt \in Attempts /\ proc.pc \in Driving /\ "nochange" \in Driving
  BY HeldAttempt DEF TakeUnconsumed, At, Driving
<1>2. proc' \in Process /\ PcInv'
  BY <1>1, DispatchGoes DEF TakeUnconsumed
<1> QED BY <1>2 DEF TypeInv, TypeOK, TakeUnconsumed

\* an attempt ends SUCCEEDED and the engine is told
LEMMA SucceedsTypes ==
    ASSUME TypeInv, proc.pc \in {"nochange", "committed"}, SetAttempt(proc.attempt, "SUCCEEDED"),
           proc' = [proc EXCEPT !.active = 0, !.pc = "engine"]
    PROVE  attempts' \in Seq(AttemptRow) /\ proc' \in Process /\ PcInv'
<1>1. proc.attempt \in Attempts /\ proc.pc \in Driving /\ "engine" \in Driving
  BY HeldAttempt DEF Driving
<1>2. attempts' \in Seq(AttemptRow) /\ Len(attempts') = Len(attempts)
  BY SetAttemptKeeps DEF TypeInv, TypeOK, AttemptStatuses
<1> QED BY <1>1, <1>2, DispatchMoves

LEMMA CompleteWithoutChangeTypes == TypeInv /\ CompleteWithoutChange => TypeInv'
<1> SUFFICES ASSUME TypeInv, CompleteWithoutChange PROVE TypeInv'
  OBVIOUS
<1>1. CASE SetAttempt(proc.attempt, "SUCCEEDED") /\ proc' = [proc EXCEPT !.active = 0, !.pc = "engine"]
  BY <1>1, SucceedsTypes DEF TypeInv, TypeOK, CompleteWithoutChange, At
<1>2. CASE Stop("STALLED") /\ UNCHANGED attempts
  BY <1>2, StopTypes DEF TypeInv, TypeOK, CompleteWithoutChange, ExitKinds
<1> QED BY <1>1, <1>2 DEF CompleteWithoutChange

LEMMA CheckpointRefusedTypes == TypeInv /\ CheckpointRefused => TypeInv'
<1> SUFFICES ASSUME TypeInv, CheckpointRefused PROVE TypeInv'
  OBVIOUS
<1>1. attempts' \in Seq(AttemptRow)
  BY SetAttemptKeeps DEF TypeInv, TypeOK, CheckpointRefused, AttemptStatuses
<1>2. proc' \in Process /\ PcInv'
  BY StopTypes DEF CheckpointRefused, ExitKinds
<1> QED BY <1>1, <1>2 DEF TypeInv, TypeOK, CheckpointRefused

LEMMA CommitWorkTypes == TypeInv /\ CommitWork => TypeInv'
<1> SUFFICES ASSUME TypeInv, CommitWork PROVE TypeInv'
  OBVIOUS
<1>1. proc.attempt \in Attempts /\ proc.attempt \in Int /\ proc.pc \in Driving /\ "committed" \in Driving
  BY HeldAttempt DEF CommitWork, At, Driving
<1>2. repo' \in Repository
  BY <1>1, CommitKeeps DEF TypeInv, TypeOK, CommitWork, Committed, Repository
<1>3. attempts' \in Seq(AttemptRow)
  BY SetAttemptKeeps DEF TypeInv, TypeOK, CommitWork, AttemptStatuses
<1>4. env' \in Environment
  BY FaultKeeps DEF TypeInv, TypeOK, CommitWork
<1>5. proc' \in Process /\ PcInv'
  <2>1. CASE Goto("committed") /\ UNCHANGED attempts
    BY <1>1, <2>1, DispatchGoes
  <2>2. CASE StopFreed("STALLED")
    BY <2>2, StopTypes DEF ExitKinds
  <2> QED BY <2>1, <2>2 DEF CommitWork
<1> QED BY <1>2, <1>3, <1>4, <1>5 DEF TypeInv, TypeOK, CommitWork

LEMMA RecordCheckpointTypes == TypeInv /\ RecordCheckpoint => TypeInv'
<1> SUFFICES ASSUME TypeInv, RecordCheckpoint PROVE TypeInv'
  OBVIOUS
<1>1. env' \in Environment
  BY FaultKeeps DEF TypeInv, TypeOK, RecordCheckpoint
<1>2. CASE Recorded
  <2>1. proc.attempt \in Nat /\ proc.attempt \in Int /\ proc.task \in Tasks
    BY HeldAttempt DEF RecordCheckpoint, At
  <2>2. [task |-> proc.task, attempt |-> proc.attempt, sha |-> proc.attempt] \in CheckpointRow
    BY <2>1 DEF CheckpointRow
  <2>3. checkpoints' \in Seq(CheckpointRow)
    BY <1>2, <2>2, AppendProperties DEF Recorded, TypeInv, TypeOK
  <2> QED BY <1>1, <1>2, <2>3, SucceedsTypes DEF TypeInv, TypeOK, RecordCheckpoint, Recorded, At
<1>3. CASE Stop("STALLED") /\ UNCHANGED <<checkpoints, attempts>>
  BY <1>1, <1>3, StopTypes DEF TypeInv, TypeOK, RecordCheckpoint, ExitKinds
<1> QED BY <1>2, <1>3 DEF RecordCheckpoint

LEMMA EngineRecordsTypes == TypeInv /\ EngineRecords => TypeInv'
<1> SUFFICES ASSUME TypeInv, EngineRecords PROVE TypeInv'
  OBVIOUS
<1>1. proc.task \in Tasks /\ proc.pc \in Driving
  BY HeldAttempt DEF EngineRecords, At
<1>2. env' \in Environment
  BY FaultKeeps DEF TypeInv, TypeOK, EngineRecords
<1>3. run' \in RunRow
  BY HaltTypes DEF TypeInv, TypeOK, EngineRecords
<1>4. engine' \in [Tasks -> EngineRow]
  <2>1. engine[proc.task] \in EngineRow
    BY <1>1 DEF TypeInv, TypeOK
  <2>2. [engine[proc.task] EXCEPT !.completed = @ + 1, !.stage = "verify"] \in EngineRow
    <3>1. engine[proc.task].completed + 1 \in Nat
      BY <2>1 DEF EngineRow
    <3>2. \A n \in Nat : [engine[proc.task] EXCEPT !.completed = n, !.stage = "verify"] \in EngineRow
      BY <2>1 DEF EngineRow
    <3> QED BY <3>1, <3>2
  <2>3. ASSUME engine' = [engine EXCEPT ![proc.task].completed = @ + 1, ![proc.task].stage = "verify"]
        PROVE  engine' \in [Tasks -> EngineRow]
    <3> DEFINE e == [engine[proc.task] EXCEPT !.completed = @ + 1, !.stage = "verify"]
    <3>1. engine' = [engine EXCEPT ![proc.task] = e]
      BY <1>1, <2>3 DEF TypeInv, TypeOK
    <3>2. e \in EngineRow
      BY <2>2
    <3> HIDE DEF e
    <3> QED BY <3>1, <3>2 DEF TypeInv, TypeOK
  <2> QED BY <1>1, <2>3, EngineKeeps DEF TypeInv, TypeOK, EngineRecords
<1>5. proc' \in Process /\ PcInv'
  <2>1. CASE proc' = [proc EXCEPT !.attempt = 0, !.pc = "drive"]
    <3>1. proc' \in Process /\ proc'.pc = "drive" /\ proc'.task = proc.task
      BY <2>1 DEF TypeInv, TypeOK, Process, Steps
    <3> QED BY <1>1, <3>1 DEF PcInv, Driving, Holding
  <2>2. CASE Stop("STALLED") \/ Stop("BLOCKED")
    BY <2>2, StopTypes DEF ExitKinds
  <2>3. CASE Halts
    BY <2>3, HaltTypes
  <2> QED BY <2>1, <2>2, <2>3 DEF EngineRecords
<1> QED BY <1>2, <1>3, <1>4, <1>5 DEF TypeInv, TypeOK, EngineRecords

LEMMA FinishTypes == TypeInv /\ Finish => TypeInv'
<1> SUFFICES ASSUME TypeInv, Finish PROVE TypeInv'
  OBVIOUS
<1>1. StatusOf(proc.exit) \in RunStatuses
  BY DEF StatusOf, RunStatuses
<1>2. run' \in RunRow
  BY <1>1, SetRunKeeps DEF TypeInv, TypeOK, Finish
<1>3. proc' \in Process /\ PcInv'
  BY IdleProcess DEF Finish, PcInv, Driving, Holding
<1> QED BY <1>2, <1>3 DEF TypeInv, TypeOK, Finish

-----------------------------------------------------------------------------
(* Types: deaths, agents and the person *)

LEMMA AgentWritesTypes == TypeInv /\ AgentWrites => TypeInv'
<1> SUFFICES ASSUME TypeInv, AgentWrites PROVE TypeInv'
  OBVIOUS
<1>1. repo.dirt \cup {proc.attempt} \in SUBSET Nat
  BY DEF TypeInv, TypeOK, Repository, Process
<1>2. repo' \in Repository
  BY <1>1 DEF TypeInv, TypeOK, AgentWrites, Repository
<1> QED BY <1>2 DEF TypeInv, TypeOK, PcInv, AgentWrites, Attempts

LEMMA CrashTypes == TypeInv /\ (Crash \/ CrashLeavingAgent) => TypeInv'
<1> SUFFICES ASSUME TypeInv, Crash \/ CrashLeavingAgent PROVE TypeInv'
  OBVIOUS
<1>1. env' \in Environment
  <2>1. CASE Crash
    BY <2>1, FaultKeeps DEF TypeInv, TypeOK, Crash
  <2>2. CASE CrashLeavingAgent
    <3>1. proc.attempt \in Nat /\ env \in Environment /\ env.faults + 1 \in 0 .. MaxFaults
      BY <2>2 DEF TypeInv, TypeOK, CrashLeavingAgent, Process, Environment
    <3>2. env' = [env EXCEPT !.faults = env.faults + 1, !.orphan = proc.attempt]
      BY <2>2 DEF CrashLeavingAgent
    <3> QED BY <3>1, <3>2 DEF Environment
  <2> QED BY <2>1, <2>2
<1>2. proc' \in Process /\ PcInv'
  BY IdleProcess DEF Crash, CrashLeavingAgent, PcInv, Driving, Holding
<1> QED BY <1>1, <1>2 DEF TypeInv, TypeOK, Crash, CrashLeavingAgent

LEMMA OrphanTypes == TypeInv /\ Orphan => TypeInv'
<1> SUFFICES ASSUME TypeInv, Orphan PROVE TypeInv'
  OBVIOUS
<1>1. repo.dirt \cup {env.orphan} \in SUBSET Nat
  BY DEF TypeInv, TypeOK, Repository, Environment
<1>2. \A d \in SUBSET Nat : [repo EXCEPT !.dirt = d] \in Repository
  BY DEF TypeInv, TypeOK, Repository
<1>3. repo' \in Repository
  <2>1. UNCHANGED repo \/ \E d \in SUBSET Nat : repo' = [repo EXCEPT !.dirt = d]
    BY <1>1 DEF Orphan
  <2> QED BY <1>2, <2>1 DEF TypeInv, TypeOK
<1>4. env' \in Environment
  <2>1. UNCHANGED env \/ env' = [env EXCEPT !.orphan = 0]
    BY DEF Orphan
  <2> QED BY <2>1 DEF TypeInv, TypeOK, Environment
<1> QED BY <1>3, <1>4 DEF TypeInv, TypeOK, PcInv, Orphan, Attempts

LEMMA PersonInRepoTypes == TypeInv /\ PersonInRepo => TypeInv'
<1> SUFFICES ASSUME TypeInv, PersonInRepo PROVE TypeInv'
  OBVIOUS
<1>1. env' \in Environment
  <2>1. env \in Environment /\ env.person < MaxPerson /\ env' = [env EXCEPT !.person = @ + 1]
    BY DEF TypeInv, TypeOK, PersonInRepo
  <2>2. env.person + 1 \in 0 .. MaxPerson
    BY <2>1, ConstantsAssumption DEF Environment
  <2> QED
    BY <2>1, <2>2 DEF Environment
<1>2. repo' \in Repository
  <2>1. repo.dirt \cup {Person} \in SUBSET Nat /\ -(env.person + 1) \in Int
    BY DEF TypeInv, TypeOK, Repository, Person, Environment
  <2>2. CASE repo' = [repo EXCEPT !.dirt = @ \cup {Person}]
    BY <2>1, <2>2 DEF TypeInv, TypeOK, Repository
  <2>3. CASE repo' = [repo EXCEPT !.dirt = {}]
    BY <2>3 DEF TypeInv, TypeOK, Repository
  <2>4. CASE repo' = PersonCommitted(env.person + 1)
    BY <2>1, <2>4, CommitKeeps DEF TypeInv, TypeOK, PersonCommitted, Repository
  <2>5. CASE repo' = [repo EXCEPT !.branch = IF @ = "run" THEN "base" ELSE "run"]
    BY <2>5 DEF TypeInv, TypeOK, Repository
  <2> QED BY <2>2, <2>3, <2>4, <2>5 DEF PersonInRepo
<1> QED BY <1>1, <1>2 DEF TypeInv, TypeOK, PcInv, PersonInRepo, Attempts

LEMMA PersonAnswersTypes == TypeInv /\ PersonAnswers => TypeInv'
<1> SUFFICES ASSUME TypeInv, PersonAnswers PROVE TypeInv'
  OBVIOUS
<1>1. engine' \in [Tasks -> EngineRow]
  <2>1. engine \in [Tasks -> EngineRow]
    BY DEF TypeInv, TypeOK
  <2>2. PICK t \in Tasks : engine' = [engine EXCEPT ![t].hold = "none"]
    BY DEF PersonAnswers
  <2>3. engine[t] \in EngineRow /\ [engine[t] EXCEPT !.hold = "none"] \in EngineRow
    BY <2>1, <2>2 DEF EngineRow
  <2> QED BY <2>1, <2>2, <2>3
<1>2. UNCHANGED <<run, attempts, checkpoints, repo, proc, env>>
  BY DEF PersonAnswers
<1>3. TypeOK'
  BY <1>1, <1>2 DEF TypeInv, TypeOK
<1>4. PcInv'
  BY <1>2 DEF TypeInv, PcInv, Attempts
<1> QED BY <1>3, <1>4 DEF TypeInv

LEMMA StutterTypes == TypeInv /\ UNCHANGED vars => TypeInv'
BY DEF TypeInv, TypeOK, PcInv, Attempts, vars

LEMMA InitTypes == Init => TypeInv
<1> SUFFICES ASSUME Init PROVE TypeInv
  OBVIOUS
<1>1. run \in RunRow /\ attempts \in Seq(AttemptRow) /\ checkpoints \in Seq(CheckpointRow)
  BY DEF Init, RunRow, RunStatuses
<1>2. engine \in [Tasks -> EngineRow]
  BY DEF Init, EngineRow
<1>3. repo \in Repository /\ env \in Environment
  BY DEF Init, Repository, Environment
<1>4. proc \in Process /\ PcInv
  BY IdleProcess DEF Init, PcInv, Driving, Holding
<1> QED BY <1>1, <1>2, <1>3, <1>4 DEF TypeInv, TypeOK

LEMMA NextTypes == TypeInv /\ [Next]_vars => TypeInv'
BY StartTypes, ReconcileTypes, AdoptTypes, IsolateTypes, OpenBoundaryTypes, ReopenTypes, OpenRefusedTypes,
   ReattributeTypes, AbandonTypes, PickTypes, StopBeforeTypes, VerifyTypes, FreezeTypes, BeginTaskTypes,
   AgentReturnsTypes, TakeUnconsumedTypes, CompleteWithoutChangeTypes, CheckpointRefusedTypes, CommitWorkTypes,
   RecordCheckpointTypes, EngineRecordsTypes, FinishTypes, AgentWritesTypes, CrashTypes, OrphanTypes,
   PersonInRepoTypes, PersonAnswersTypes, StutterTypes, Zenon
   DEF Next, Drive, World

\* The ledger, the engine's rows, the repository and the process keep their types for every plan, policy and
\* number of faults; no task goes more than one round over its repair budget (driveTask).
THEOREM TypeCorrect == Spec => []TypeOK
<1>1. Spec => []TypeInv
  BY InitTypes, NextTypes, PTL DEF Spec
<1>2. TypeInv => TypeOK
  BY DEF TypeInv
<1> QED BY <1>1, <1>2, PTL

-----------------------------------------------------------------------------
(* How long an invocation can go on *)

Row == engine[proc.task]
NoMoreRounds(row) == row.rounds > MaxRepairs \/ row.stage = "done" \/ row.hold # "none"

\* what is left of one round of a task: of its dispatch, of its verification, or only its stop
RoundLeft ==
    IF At("drive") THEN IF NoMoreRounds(Row) THEN 1 ELSE IF Row.stage = "verify" THEN 2 ELSE 11
    ELSE IF At("open") THEN 10
    ELSE IF At("isolated") THEN 9
    ELSE IF At("begin") THEN 8
    ELSE IF At("inner") THEN 7
    ELSE IF At("accept") THEN 6
    ELSE IF At("nochange") \/ At("committed") THEN 5
    ELSE 4

\* what is left before the next task is picked: of the reconciliation, or of the rounds of the task under way
TaskLeft ==
    IF At("finish") THEN 1
    ELSE IF At("pick") THEN 2
    ELSE IF proc.task # 0 THEN 3 + 12 * (MaxRepairs + 1 - Row.rounds) + RoundLeft
    ELSE IF At("settle") THEN 3
    ELSE IF At("isolated") THEN 4
    ELSE IF At("open") THEN 5 ELSE 6

\* the tasks the invocation has not picked yet, and the steps one of them takes at most
ToCome == Tasks \ (proc.settled \cup {proc.task})
PerTask == 12 * (MaxRepairs + 2) + 1

StepsLeft == IF At("down") THEN 0 ELSE PerTask * Cardinality(ToCome) + TaskLeft

\* between two tasks the process speaks of none
PickInv == proc.pc = "pick" => proc.task = 0

\* a step that ends the invocation, or brings the next task closer
Closer == ToCome' = ToCome /\ TaskLeft' < TaskLeft /\ PickInv' /\ ~At("down")'
Falls == proc' = Idle \/ Closer

LEMMA SumLess == \A n, a, b \in Int : b < a => n + b < n + a
OBVIOUS

LEMMA RowTypes ==
    ASSUME TypeInv, proc.task \in Tasks
    PROVE  Row \in EngineRow /\ proc.task # 0 /\ Row.rounds \in 0 .. MaxRepairs + 1 /\ Row.rounds \in Int
<1>1. Row \in EngineRow
  BY DEF TypeInv, TypeOK, Row
<1>2. Row.rounds \in 0 .. MaxRepairs + 1 /\ MaxRepairs \in Nat
  BY <1>1 DEF EngineRow
<1> DEFINE n == Row.rounds
<1>3. n \in Int
  <2> HIDE DEF n
  <2> QED BY <1>2 DEF n
<1> QED
  BY <1>1, <1>2, <1>3 DEF Tasks

LEMMA TaskLeftTypes ==
    TypeInv => TaskLeft \in 1 .. PerTask + 5 /\ (proc.task # 0 => TaskLeft < PerTask + 2)
<1> SUFFICES ASSUME TypeInv
             PROVE  TaskLeft \in 1 .. PerTask + 5 /\ (proc.task # 0 => TaskLeft < PerTask + 2)
  OBVIOUS
<1>1. proc.task # 0 => Row.rounds \in 0 .. MaxRepairs + 1
  BY DEF TypeInv, TypeOK, Process, Row, EngineRow
<1>2. RoundLeft \in 1 .. 11
  BY DEF RoundLeft
<1> DEFINE n == Row.rounds
<1>3. TaskLeft \in 1 .. 6 \/ (proc.task # 0 /\ TaskLeft = 3 + 12 * (MaxRepairs + 1 - n) + RoundLeft)
  BY DEF TaskLeft
<1>4. proc.task # 0 => TaskLeft \in {1, 2} \/ TaskLeft = 3 + 12 * (MaxRepairs + 1 - n) + RoundLeft
  BY DEF TaskLeft
<1> HIDE DEF n
<1>5. PerTask = 12 * MaxRepairs + 25 /\ MaxRepairs \in Nat
  BY DEF PerTask
<1> QED
  BY <1>1, <1>2, <1>3, <1>4, <1>5 DEF n

LEMMA NextTaskLeftTypes ==
    TypeInv' => TaskLeft' \in 1 .. PerTask + 5 /\ (proc'.task # 0 => TaskLeft' < PerTask + 2)
<1>1. (TypeInv => TaskLeft \in 1 .. PerTask + 5 /\ (proc.task # 0 => TaskLeft < PerTask + 2))'
  BY TaskLeftTypes, PTL
<1> QED
  BY <1>1 DEF PerTask

LEMMA ToComeTypes ==
    /\ IsFiniteSet(ToCome)
    /\ Cardinality(ToCome) \in 0 .. NumTasks
    /\ \A S \in SUBSET Tasks : \A t \in S : IsFiniteSet(S) /\ Cardinality(S \ {t}) = Cardinality(S) - 1
<1>1. IsFiniteSet(Tasks) /\ Cardinality(Tasks) = NumTasks
  BY FS_Interval DEF Tasks
<1>2. \A S \in SUBSET Tasks : IsFiniteSet(S) /\ Cardinality(S) <= NumTasks /\ Cardinality(S) \in Nat
  BY <1>1, FS_Subset, FS_CardinalityType
<1>3. ToCome \in SUBSET Tasks
  BY DEF ToCome
<1>4. Cardinality(ToCome) \in 0 .. NumTasks
  BY <1>2, <1>3
<1> QED
  BY <1>2, <1>3, <1>4, FS_RemoveElement

\* the process goes on with the same task
GoesTo(to) == proc'.pc = to /\ proc'.task = proc.task /\ proc'.settled = proc.settled

LEMMA GoesWhere ==
    ASSUME proc \in Process, NEW to
    PROVE  /\ Goto(to) => GoesTo(to)
           /\ \A a : proc' = [proc EXCEPT !.attempt = a, !.pc = to] => GoesTo(to)
           /\ \A a : proc' = [proc EXCEPT !.active = a, !.pc = to] => GoesTo(to)
BY DEF Goto, GoesTo, Process

\* the reconciliation of an invocation, up to its first task
LEMMA ReconcilingFalls ==
    ASSUME TypeInv, proc.task = 0, NEW to, GoesTo(to),
           \/ At("reconcile") /\ to \in {"open", "pick"}
           \/ At("open") /\ to \in {"isolated", "settle"}
           \/ At("isolated") /\ to = "settle"
           \/ At("settle") /\ to = "pick"
           \/ At("pick") /\ to = "finish"
    PROVE  Closer
<1>1. ToCome' = ToCome
  BY DEF ToCome, GoesTo
<1>2. TaskLeft' < TaskLeft
  BY DEF TaskLeft, At, GoesTo
<1>3. PickInv' /\ ~At("down")'
  BY DEF PickInv, At, GoesTo
<1> QED
  BY <1>1, <1>2, <1>3 DEF Closer

\* the round of a task, up to its return to the loop
LEMMA RoundFalls ==
    ASSUME TypeInv, proc.task \in Tasks, UNCHANGED engine, NEW to, GoesTo(to),
           \/ At("drive") /\ ~NoMoreRounds(Row) /\ Row.stage = "engineer" /\ to \in {"open", "begin"}
           \/ At("open") /\ to \in {"isolated", "begin"}
           \/ At("isolated") /\ to = "begin"
           \/ At("begin") /\ to = "inner"
           \/ At("inner") /\ to = "accept"
           \/ At("accept") /\ to \in {"nochange", "committed"}
           \/ (At("nochange") \/ At("committed")) /\ to = "engine"
    PROVE  Closer
<1>1. ToCome' = ToCome
  BY DEF ToCome, GoesTo
<1>2. proc.task # 0 /\ Row.rounds \in Int
  BY RowTypes
<1>3. Row' = Row
  BY DEF Row, GoesTo
<1>4. RoundLeft' < RoundLeft /\ RoundLeft \in Int /\ RoundLeft' \in Int
  BY <1>3 DEF RoundLeft, At, GoesTo, NoMoreRounds
<1> DEFINE n == 3 + 12 * (MaxRepairs + 1 - Row.rounds)
<1>5. n \in Int
  BY <1>2
<1>6. TaskLeft = n + RoundLeft
  BY <1>2 DEF TaskLeft, At
<1>7. TaskLeft' = n + RoundLeft'
  BY <1>2, <1>3 DEF TaskLeft, At, GoesTo
<1> HIDE DEF n
<1>8. TaskLeft' < TaskLeft
  BY <1>4, <1>5, <1>6, <1>7, SumLess
<1>9. PickInv' /\ ~At("down")'
  BY DEF PickInv, At, GoesTo
<1> QED
  BY <1>1, <1>8, <1>9 DEF Closer

\* the task is settled: it was not to come any more
LEMMA StopFalls ==
    ASSUME TypeInv, proc.task \in Tasks, ~At("pick"), ~At("finish"),
           NEW kind \in ExitKinds, Stop(kind) \/ StopFreed(kind)
    PROVE  Closer
<1>1. proc'.pc \in {"pick", "finish"}
  BY StoppedProcess DEF Stop, StopFreed, TypeInv, TypeOK
<1>2. proc'.task = 0 /\ proc'.settled = proc.settled \cup {proc.task}
  BY DEF Stop, StopFreed, Stopped, TypeInv, TypeOK, Process
<1>3. ToCome' = ToCome
  BY <1>2 DEF ToCome, Tasks
<1>4. proc.task # 0 /\ Row.rounds \in 0 .. MaxRepairs + 1 /\ MaxRepairs \in Nat
  BY RowTypes
<1>5. RoundLeft \in 1 .. 11
  BY DEF RoundLeft
<1> DEFINE n == Row.rounds
<1>6. TaskLeft = 3 + 12 * (MaxRepairs + 1 - n) + RoundLeft
  BY <1>4 DEF TaskLeft, At
<1> HIDE DEF n
<1>7. TaskLeft > 2
  BY <1>4, <1>5, <1>6 DEF n
<1>8. TaskLeft' \in {1, 2}
  BY <1>1 DEF TaskLeft, At
<1>9. TaskLeft \in Int
  BY TaskLeftTypes
<1> QED
  BY <1>1, <1>2, <1>3, <1>7, <1>8, <1>9 DEF Closer, PickInv, At

\* a verdict, or a recorded stage, brings the task back to the loop with less to do
LEMMA VerdictFalls ==
    ASSUME TypeInv, TypeInv', proc.task \in Tasks, GoesTo("drive"),
           \/ At("drive") /\ ~NoMoreRounds(Row) /\ Row.stage = "verify" /\ Row'.rounds = Row.rounds /\ NoMoreRounds(Row)'
           \/ At("drive") /\ Row'.rounds = Row.rounds + 1
           \/ At("engine") /\ Row'.rounds = Row.rounds /\ Row'.stage = "verify"
    PROVE  Closer
<1>1. ToCome' = ToCome
  BY DEF ToCome, GoesTo
<1>2. proc.task # 0 /\ Row.rounds \in Int
  BY RowTypes
<1> DEFINE n == Row.rounds
           m == Row'.rounds
<1>3. TaskLeft = 3 + 12 * (MaxRepairs + 1 - n) + RoundLeft
  BY <1>2 DEF TaskLeft, At
<1>4. TaskLeft' = 3 + 12 * (MaxRepairs + 1 - m) + RoundLeft'
  BY <1>2 DEF TaskLeft, At, GoesTo
<1>5. RoundLeft \in 1 .. 11 /\ RoundLeft' \in 1 .. 11
  BY DEF RoundLeft
<1>6. n \in Int /\ (m = n \/ m = n + 1)
  BY <1>2
<1>7. m = n => RoundLeft' < RoundLeft
  <2>1. CASE At("drive") /\ ~NoMoreRounds(Row) /\ Row.stage = "verify" /\ NoMoreRounds(Row)'
    <3>1. RoundLeft = 2 /\ RoundLeft' = 1
      BY <2>1 DEF RoundLeft, At, GoesTo
    <3> QED BY <3>1
  <2>2. CASE At("engine") /\ Row'.stage = "verify"
    <3>1. RoundLeft = 4 /\ RoundLeft' \in {1, 2}
      BY <2>2 DEF RoundLeft, At, GoesTo
    <3> QED BY <3>1
  <2>3. CASE At("drive") /\ m = n + 1
    BY <1>2, <2>3
  <2> QED
    BY <2>1, <2>2, <2>3
<1> HIDE DEF n, m
<1>8. TaskLeft' < TaskLeft
  BY <1>3, <1>4, <1>5, <1>6, <1>7
<1>9. PickInv' /\ ~At("down")'
  BY DEF PickInv, At, GoesTo
<1> QED
  BY <1>1, <1>8, <1>9 DEF Closer

\* the pick of task t
PickOf(t) == Pick /\ t \in Runnable /\ proc' = [proc EXCEPT !.task = t, !.pc = "drive"]

\* every step of the driver but the pick of a task
LEMMA DriveFalls ==
    ASSUME TypeInv, PickInv, Drive, ~\E t \in Tasks : PickOf(t)
    PROVE  Falls
<1>0. TypeInv' /\ proc \in Process
  BY NextTypes DEF Next, TypeInv, TypeOK
<1>1. CASE Reconcile
  <2>1. proc.task = 0 /\ At("reconcile")
    BY <1>1 DEF Reconcile, At, TypeInv, PcInv
  <2>2. CASE Halts
    BY <2>2 DEF Halts, Falls
  <2>3. CASE Goto("pick")
    BY <1>0, <2>1, <2>3, GoesWhere, ReconcilingFalls DEF Falls
  <2>4. CASE \E a \in Running : proc' = [proc EXCEPT !.attempt = a, !.pc = "open"]
    BY <1>0, <2>1, <2>4, GoesWhere, ReconcilingFalls DEF Falls
  <2> QED
    BY <1>1, <2>2, <2>3, <2>4 DEF Reconcile
<1>2. CASE Adopt \/ Isolate
  <2>1. At("open") /\ Goto("isolated") /\ UNCHANGED engine
    BY <1>2 DEF Adopt, Isolate
  <2>2. proc.task \in Tasks \cup {0} /\ GoesTo("isolated")
    BY <1>0, <2>1, GoesWhere DEF Process
  <2> QED
    BY <2>1, <2>2, ReconcilingFalls, RoundFalls DEF Falls
<1>3. CASE OpenBoundary \/ Reopen
  <2>1. (At("open") \/ At("isolated")) /\ (\E a : proc' = Opened(a)) /\ UNCHANGED engine
    BY <1>3 DEF OpenBoundary, Reopen
  <2>2. proc.task \in Tasks \cup {0} /\ GoesTo(AfterOpen)
    BY <1>0, <2>1 DEF Process, Opened, GoesTo
  <2>3. CASE proc.task = 0
    <3>1. GoesTo("settle")
      BY <2>2, <2>3 DEF AfterOpen
    <3> QED
      BY <2>1, <2>3, <3>1, ReconcilingFalls DEF Falls
  <2>4. CASE proc.task # 0
    <3>1. GoesTo("begin") /\ proc.task \in Tasks
      BY <2>2, <2>4 DEF AfterOpen
    <3> QED
      BY <2>1, <3>1, RoundFalls DEF Falls
  <2> QED
    BY <2>3, <2>4
<1>4. CASE OpenRefused
  <2>1. CASE Halts
    BY <2>1 DEF Halts, Falls
  <2>2. CASE proc.task # 0 /\ Stop("STALLED")
    <3>1. proc.task \in Tasks /\ ~At("pick") /\ ~At("finish") /\ "STALLED" \in ExitKinds
      BY <1>0, <1>4, <2>2 DEF OpenRefused, At, Process, ExitKinds
    <3> QED
      BY <2>2, <3>1, StopFalls DEF Falls
  <2> QED
    BY <1>4, <2>1, <2>2 DEF OpenRefused
<1>5. CASE Reattribute \/ Abandon
  <2>1. At("settle") /\ proc.task = 0
    BY <1>5 DEF Reattribute, Abandon, At, TypeInv, PcInv
  <2>2. CASE Halts
    BY <2>2 DEF Halts, Falls
  <2>3. CASE proc' = [proc EXCEPT !.pending = 0, !.active = 0, !.attempt = 0, !.pc = "pick"]
    <3>1. GoesTo("pick")
      BY <1>0, <2>3 DEF GoesTo, Process
    <3> QED
      BY <2>1, <3>1, ReconcilingFalls DEF Falls
  <2>4. CASE proc' = [proc EXCEPT !.attempt = 0, !.pc = "pick"]
    BY <1>0, <2>1, <2>4, GoesWhere, ReconcilingFalls DEF Falls
  <2> QED
    BY <1>5, <2>2, <2>3, <2>4 DEF Reattribute, Abandon
<1>6. CASE Pick
  <2>1. At("pick") /\ proc.task = 0
    BY <1>6 DEF Pick, PickInv, At
  <2>2. PICK e : proc' = [proc EXCEPT !.pc = "finish", !.exit = e]
    BY <1>6 DEF Pick, PickOf, Runnable
  <2>3. GoesTo("finish")
    BY <1>0, <2>2 DEF GoesTo, Process
  <2> QED
    BY <2>1, <2>3, ReconcilingFalls DEF Falls
<1>7. CASE StopBefore
  <2>1. proc.task \in Tasks /\ ~At("pick") /\ ~At("finish")
    BY <1>7 DEF StopBefore, At, TypeInv, PcInv, Driving
  <2>2. \E kind \in ExitKinds : Stop(kind)
    BY <1>7 DEF StopBefore, ExitKinds
  <2> QED
    BY <2>1, <2>2, StopFalls DEF Falls
<1>8. CASE Verify
  <2>1. proc.task \in Tasks /\ At("drive") /\ ~NoMoreRounds(Row) /\ Row.stage = "verify"
    BY <1>8 DEF Verify, Due, Spent, At, TypeInv, TypeOK, EngineRow, PcInv, Driving, NoMoreRounds, Row
  <2>2. engine \in [Tasks -> EngineRow]
    BY DEF TypeInv, TypeOK
  <2>3. CASE Stop("STALLED")
    <3>1. ~At("pick") /\ ~At("finish") /\ "STALLED" \in ExitKinds
      BY <2>1 DEF At, ExitKinds
    <3> QED
      BY <2>1, <2>3, <3>1, StopFalls DEF Falls
  <2>4. CASE engine' = [engine EXCEPT ![proc.task].stage = "done"] /\ Goto("drive")
    <3>1. GoesTo("drive")
      BY <1>0, <2>4, GoesWhere
    <3>2. Row'.rounds = Row.rounds /\ Row'.stage = "done"
      BY <2>1, <2>2, <2>4, <3>1 DEF Row, GoesTo, EngineRow
    <3>3. NoMoreRounds(Row)'
      BY <3>2 DEF NoMoreRounds
    <3> QED
      BY <1>0, <2>1, <3>1, <3>2, <3>3, VerdictFalls DEF Falls
  <2>5. CASE Goto("drive") /\ \E stage, why : FailureCounted(stage, why)
    <3>1. GoesTo("drive")
      BY <1>0, <2>5, GoesWhere
    <3>2. Row'.rounds = Row.rounds + 1
      BY <2>1, <2>2, <2>5, <3>1 DEF Row, GoesTo, EngineRow, FailureCounted
    <3> QED
      BY <1>0, <2>1, <3>1, <3>2, VerdictFalls DEF Falls
  <2>6. CASE Goto("drive") /\ \E why \in {"gate", "unavailable"} : Held(why)
    <3>1. GoesTo("drive")
      BY <1>0, <2>6, GoesWhere
    <3>2. Row'.rounds = Row.rounds /\ Row'.hold \in {"gate", "unavailable"}
      BY <2>1, <2>2, <2>6, <3>1 DEF Row, GoesTo, EngineRow, Held
    <3>3. NoMoreRounds(Row)'
      BY <3>2 DEF NoMoreRounds
    <3> QED
      BY <1>0, <2>1, <3>1, <3>2, <3>3, VerdictFalls DEF Falls
  <2> QED
    BY <1>8, <2>3, <2>4, <2>5, <2>6 DEF Verify
<1>9. CASE Freeze
  <2>1. proc.task \in Tasks /\ At("drive") /\ ~NoMoreRounds(Row) /\ Row.stage = "engineer" /\ UNCHANGED engine
    BY <1>9 DEF Freeze, Due, Spent, At, TypeInv, TypeOK, EngineRow, PcInv, Driving, NoMoreRounds, Row
  <2>2. CASE Stop("STALLED")
    <3>1. ~At("pick") /\ ~At("finish") /\ "STALLED" \in ExitKinds
      BY <2>1 DEF At, ExitKinds
    <3> QED
      BY <2>1, <2>2, <3>1, StopFalls DEF Falls
  <2>3. CASE \E a, to : to \in {"open", "begin"} /\ proc' = [proc EXCEPT !.attempt = a, !.pc = to]
    <3>1. PICK to \in {"open", "begin"} : GoesTo(to)
      BY <1>0, <2>3, GoesWhere
    <3> QED
      BY <2>1, <3>1, RoundFalls DEF Falls
  <2> QED
    BY <1>9, <2>2, <2>3 DEF Freeze
<1>10. ASSUME At("begin") \/ At("inner") \/ At("accept") \/ At("nochange") \/ At("committed") \/ At("engine"),
              NEW kind \in ExitKinds, Stop(kind) \/ StopFreed(kind)
       PROVE  Falls
  <2>1. proc.task \in Tasks /\ ~At("pick") /\ ~At("finish")
    BY <1>10 DEF At, TypeInv, PcInv, Driving
  <2> QED
    BY <1>10, <2>1, StopFalls DEF Falls
<1>11. ASSUME UNCHANGED engine, NEW to, GoesTo(to),
              \/ At("begin") /\ to = "inner"
              \/ At("inner") /\ to = "accept"
              \/ At("accept") /\ to \in {"nochange", "committed"}
              \/ (At("nochange") \/ At("committed")) /\ to = "engine"
       PROVE  Falls
  <2>1. proc.task \in Tasks
    BY <1>11 DEF At, TypeInv, PcInv, Driving
  <2> QED
    BY <1>11, <2>1, RoundFalls DEF Falls
<1>12. CASE BeginTask
  <2>1. CASE Stop("STALLED")
    BY <1>10, <1>12, <2>1 DEF BeginTask, ExitKinds
  <2>2. CASE proc' = [proc EXCEPT !.active = proc.attempt, !.pc = "inner"]
    <3>1. GoesTo("inner") /\ At("begin") /\ UNCHANGED engine
      BY <1>0, <1>12, <2>2, GoesWhere DEF BeginTask
    <3> QED
      BY <1>11, <3>1
  <2> QED
    BY <1>12, <2>1, <2>2 DEF BeginTask
<1>13. CASE AgentReturns
  <2>1. CASE Goto("accept") /\ UNCHANGED engine
    <3>1. GoesTo("accept") /\ At("inner") /\ UNCHANGED engine
      BY <1>0, <1>13, <2>1, GoesWhere DEF AgentReturns
    <3> QED
      BY <1>11, <3>1
  <2>2. CASE StopFreed("STALLED") \/ StopFreed("BLOCKED")
    BY <1>10, <1>13, <2>2 DEF AgentReturns, ExitKinds
  <2>3. CASE Halts
    BY <2>3 DEF Halts, Falls
  <2> QED
    BY <1>13, <2>1, <2>2, <2>3 DEF AgentReturns
<1>14. CASE TakeUnconsumed
  <2>1. GoesTo("nochange") /\ At("accept") /\ UNCHANGED engine
    BY <1>0, <1>14, GoesWhere DEF TakeUnconsumed
  <2> QED
    BY <1>11, <2>1
<1>15. CASE CompleteWithoutChange
  <2>1. CASE Stop("STALLED")
    BY <1>10, <1>15, <2>1 DEF CompleteWithoutChange, ExitKinds
  <2>2. CASE proc' = [proc EXCEPT !.active = 0, !.pc = "engine"]
    <3>1. GoesTo("engine") /\ At("nochange") /\ UNCHANGED engine
      BY <1>0, <1>15, <2>2, GoesWhere DEF CompleteWithoutChange
    <3> QED
      BY <1>11, <3>1
  <2> QED
    BY <1>15, <2>1, <2>2 DEF CompleteWithoutChange
<1>16. CASE CheckpointRefused
  BY <1>10, <1>16 DEF CheckpointRefused, ExitKinds
<1>17. CASE CommitWork
  <2>1. CASE Goto("committed")
    <3>1. GoesTo("committed") /\ At("accept") /\ UNCHANGED engine
      BY <1>0, <1>17, <2>1, GoesWhere DEF CommitWork
    <3> QED
      BY <1>11, <3>1
  <2>2. CASE StopFreed("STALLED")
    BY <1>10, <1>17, <2>2 DEF CommitWork, ExitKinds
  <2> QED
    BY <1>17, <2>1, <2>2 DEF CommitWork
<1>18. CASE RecordCheckpoint
  <2>1. CASE Stop("STALLED")
    BY <1>10, <1>18, <2>1 DEF RecordCheckpoint, ExitKinds
  <2>2. CASE Recorded
    <3>1. GoesTo("engine") /\ At("committed") /\ UNCHANGED engine
      BY <1>0, <1>18, <2>2, GoesWhere DEF RecordCheckpoint, Recorded
    <3> QED
      BY <1>11, <3>1
  <2> QED
    BY <1>18, <2>1, <2>2 DEF RecordCheckpoint
<1>19. CASE EngineRecords
  <2>1. CASE Stop("BLOCKED") \/ Stop("STALLED")
    BY <1>10, <1>19, <2>1 DEF EngineRecords, ExitKinds
  <2>2. CASE Halts
    BY <2>2 DEF Halts, Falls
  <2>3. CASE /\ engine' = [engine EXCEPT ![proc.task].completed = @ + 1, ![proc.task].stage = "verify"]
             /\ proc' = [proc EXCEPT !.attempt = 0, !.pc = "drive"]
    <3>1. GoesTo("drive")
      BY <1>0, <2>3, GoesWhere
    <3>2. proc.task \in Tasks /\ At("engine")
      BY <1>19 DEF EngineRecords, At, TypeInv, PcInv, Driving
    <3>3. engine[proc.task] \in EngineRow
      BY <3>2 DEF TypeInv, TypeOK
    <3>4. engine' = [engine EXCEPT ![proc.task] = [engine[proc.task] EXCEPT !.completed = @ + 1, !.stage = "verify"]]
      BY <2>3, <3>2, <3>3 DEF TypeInv, TypeOK, EngineRow
    <3>5. Row'.rounds = Row.rounds /\ Row'.stage = "verify"
      BY <3>1, <3>2, <3>3, <3>4 DEF Row, GoesTo, EngineRow, TypeInv, TypeOK
    <3> QED
      BY <1>0, <3>1, <3>2, <3>5, VerdictFalls DEF Falls
  <2> QED
    BY <1>19, <2>1, <2>2, <2>3 DEF EngineRecords
<1>20. CASE Finish
  BY <1>20 DEF Finish, Falls
<1> QED
  BY <1>1, <1>2, <1>3, <1>4, <1>5, <1>6, <1>7, <1>8, <1>9, <1>12, <1>13, <1>14, <1>15, <1>16, <1>17, <1>18, <1>19, <1>20
     DEF Drive

\* the pick of a task leaves fewer to come, by more than the task takes
LEMMA PickFalls ==
    ASSUME TypeInv, PickInv, NEW t, PickOf(t)
    PROVE  StepsLeft' < StepsLeft /\ PickInv'
<1>1. t \in Tasks \ proc.settled /\ proc \in Process /\ At("pick") /\ proc.task = 0
  BY DEF PickOf, Runnable, TypeInv, TypeOK, Pick, PickInv, At
<1>2. proc'.task = t /\ proc'.pc = "drive" /\ proc'.settled = proc.settled
  BY <1>1 DEF PickOf, Process
<1>3. ToCome \in SUBSET Tasks /\ t \in ToCome
  BY <1>1 DEF ToCome, Tasks
<1>4. ToCome' = ToCome \ {t}
  BY <1>1, <1>2 DEF ToCome, Tasks
<1> DEFINE n == Cardinality(ToCome)
           k == PerTask
<1>5. Cardinality(ToCome)' = n - 1 /\ n \in Nat \ {0}
  <2>1. Cardinality(ToCome \ {t}) = n - 1 /\ n \in Nat
    BY <1>3, ToComeTypes
  <2>2. Cardinality(ToCome \ {t}) \in Nat
    <3>1. IsFiniteSet(ToCome \ {t})
      BY ToComeTypes, FS_Subset
    <3> QED BY <3>1, FS_CardinalityType
  <2> QED
    BY <1>4, <2>1, <2>2
<1>6. TaskLeft = 2
  BY <1>1 DEF TaskLeft, At
<1>7. TaskLeft' \in Int /\ TaskLeft' < k + 2
  <2>1. TypeInv' /\ proc'.task # 0
    BY <1>1, <1>2, PickTypes DEF PickOf, Tasks
  <2> QED
    BY <2>1, NextTaskLeftTypes DEF PerTask
<1>8. StepsLeft = k * n + TaskLeft
  BY <1>1 DEF StepsLeft, At
<1>9. StepsLeft' = k * (n - 1) + TaskLeft'
  BY <1>2, <1>5 DEF StepsLeft, At, PerTask
<1>10. k \in Nat
  BY DEF PerTask
<1> HIDE DEF n, k
<1>11. k * n = k * (n - 1) + k
  BY <1>5, <1>10
<1>12. k * (n - 1) \in Int
  BY <1>5, <1>10
<1>13. StepsLeft' < StepsLeft
  BY <1>6, <1>7, <1>8, <1>9, <1>10, <1>11, <1>12
<1> QED
  BY <1>2, <1>13 DEF PickInv

LEMMA StepsTypes ==
    TypeInv => /\ StepsLeft \in 0 .. PerTask * NumTasks + PerTask + 5
               /\ StepsLeft = 0 <=> At("down")
               /\ PerTask * Cardinality(ToCome) \in Nat
<1> SUFFICES ASSUME TypeInv
             PROVE  /\ StepsLeft \in 0 .. PerTask * NumTasks + PerTask + 5
                    /\ StepsLeft = 0 <=> At("down")
                    /\ PerTask * Cardinality(ToCome) \in Nat
  OBVIOUS
<1> DEFINE n == Cardinality(ToCome)
           k == PerTask
<1>1. n \in 0 .. NumTasks /\ NumTasks \in Nat
  BY ToComeTypes
<1>2. k \in Nat
  BY DEF PerTask
<1>3. TaskLeft \in 1 .. k + 5
  BY TaskLeftTypes
<1>4. StepsLeft = IF At("down") THEN 0 ELSE k * n + TaskLeft
  BY DEF StepsLeft
<1> HIDE DEF n, k
<1>5. k * n \in Nat /\ k * n <= k * NumTasks /\ k * NumTasks \in Nat
  BY <1>1, <1>2
<1>6. StepsLeft \in 0 .. k * NumTasks + k + 5 /\ (StepsLeft = 0 <=> At("down"))
  BY <1>2, <1>3, <1>4, <1>5
<1> QED
  BY <1>5, <1>6 DEF n, k

LEMMA NextStepsTypes ==
    TypeInv' => StepsLeft' \in Nat
<1>1. (TypeInv => StepsLeft \in 0 .. PerTask * NumTasks + PerTask + 5)'
  BY StepsTypes, PTL
<1> DEFINE b == PerTask * NumTasks + PerTask + 5
<1>2. TypeInv' => StepsLeft' \in 0 .. b
  BY <1>1 DEF PerTask
<1> HIDE DEF b
<1> QED
  BY <1>2

LEMMA DriveIsUp ==
    ASSUME Drive PROVE ~At("down")
BY DEF Drive, Reconcile, Adopt, Isolate, OpenBoundary, Reopen, OpenRefused, Reattribute, Abandon, Pick, StopBefore, Verify,
       Freeze, Due, BeginTask, AgentReturns, TakeUnconsumed, CompleteWithoutChange, CheckpointRefused, CommitWork,
       RecordCheckpoint, EngineRecords, Finish, At

LEMMA CloserShortens ==
    ASSUME TypeInv, TypeInv', ~At("down"), Closer
    PROVE  StepsLeft' < StepsLeft
<1> DEFINE n == PerTask * Cardinality(ToCome)
<1>1. StepsLeft = n + TaskLeft /\ n \in Nat /\ TaskLeft \in Int
  BY StepsTypes, TaskLeftTypes DEF StepsLeft
<1>2. StepsLeft' = n + TaskLeft' /\ TaskLeft' < TaskLeft
  BY DEF StepsLeft, Closer, PerTask
<1>3. TaskLeft' \in Int
  BY NextTaskLeftTypes DEF PerTask
<1>4. TaskLeft' < TaskLeft
  BY <1>2
<1>5. n + TaskLeft' < n + TaskLeft
  <2>1. n \in Int
    BY <1>1
  <2> HIDE DEF n
  <2> QED BY <1>1, <1>3, <1>4, <2>1, SumLess
<1> QED
  BY <1>1, <1>2, <1>5

LEMMA ShortensStep ==
    ASSUME TypeInv, PickInv, [Next]_vars
    PROVE  /\ PickInv'
           /\ Drive => StepsLeft' < StepsLeft
           /\ Start \/ StepsLeft' <= StepsLeft
<1>0. TypeInv' /\ proc \in Process /\ StepsLeft \in Nat /\ (StepsLeft = 0 <=> At("down"))
  BY NextTypes, StepsTypes DEF TypeInv, TypeOK
<1>1. ASSUME proc' = Idle PROVE StepsLeft' = 0 /\ PickInv'
  BY <1>1 DEF StepsLeft, At, Idle, PickInv
<1>2. StepsLeft' \in Int
  BY <1>0, NextStepsTypes
<1>3. ASSUME Drive PROVE PickInv' /\ StepsLeft' < StepsLeft
  <2>1. ~At("down")
    BY <1>3, DriveIsUp
  <2>2. CASE \E t \in Tasks : PickOf(t)
    BY <2>2, PickFalls
  <2>3. CASE proc' = Idle
    BY <1>0, <1>1, <2>1, <2>3
  <2>4. CASE Closer
    BY <1>0, <2>1, <2>4, CloserShortens DEF Closer
  <2> QED
    BY <1>3, <2>2, <2>3, <2>4, DriveFalls DEF Falls
<1>4. CASE Start
  <2>1. ~Drive
    BY <1>4, DriveIsUp DEF Start
  <2>2. PickInv'
    BY <1>0, <1>4, GotoProcess DEF Start, PickInv, Steps
  <2> QED
    BY <1>4, <2>1, <2>2
<1>5. CASE Crash \/ CrashLeavingAgent
  BY <1>0, <1>1, <1>2, <1>3, <1>5 DEF Crash, CrashLeavingAgent
<1>6. CASE proc' = proc /\ (engine' = engine \/ At("down"))
  <2>1. CASE engine' = engine
    BY <1>0, <1>3, <1>6, <2>1 DEF StepsLeft, TaskLeft, RoundLeft, Row, ToCome, NoMoreRounds, PerTask, At, PickInv
  <2>2. CASE At("down")
    BY <1>0, <1>3, <1>6, <2>2 DEF StepsLeft, At, PickInv
  <2> QED
    BY <1>6, <2>1, <2>2
<1>7. CASE AgentWrites \/ Orphan \/ PersonInRepo \/ PersonAnswers \/ UNCHANGED vars
  BY <1>6, <1>7 DEF AgentWrites, Orphan, PersonInRepo, PersonAnswers, vars
<1> QED
  BY <1>0, <1>2, <1>3, <1>4, <1>5, <1>7 DEF Next, World

\* An invocation is bounded: what is left of it is never more than StepsBound, every step of the driver takes some of
\* that away, and nothing that happens around it - its agent, an agent left behind, a person at the Target or at the
\* gates, a death - gives any of it back; only the next invocation starts anew.  runTasks settles a task once, a
\* repair round is paid for out of the policy's budget (runTasks, driveTask, engine/taskRunService.ts).
StepsBound == PerTask * NumTasks + PerTask + 5
THEOREM InvocationShortens ==
    /\ Spec => [](StepsLeft \in 0 .. StepsBound /\ (StepsLeft = 0 <=> At("down")))
    /\ Spec => [][ /\ Drive => StepsLeft' < StepsLeft
                  /\ (Start \/ StepsLeft' <= StepsLeft) ]_vars
<1>1. Init => TypeInv /\ PickInv
  BY InitTypes DEF Init, PickInv, Idle
<1>2. TypeInv /\ PickInv /\ [Next]_vars => TypeInv' /\ PickInv'
  BY NextTypes, ShortensStep
<1>3. TypeInv => StepsLeft \in 0 .. StepsBound /\ (StepsLeft = 0 <=> At("down"))
  BY StepsTypes DEF StepsBound
<1>4. TypeInv /\ PickInv /\ [Next]_vars
      => [ /\ Drive => StepsLeft' < StepsLeft
           /\ (Start \/ StepsLeft' <= StepsLeft) ]_vars
  BY ShortensStep
<1>5. Spec => [](StepsLeft \in 0 .. StepsBound /\ (StepsLeft = 0 <=> At("down")))
  BY <1>1, <1>2, <1>3, PTL DEF Spec
<1>6. Spec => [][ /\ Drive => StepsLeft' < StepsLeft
                  /\ (Start \/ StepsLeft' <= StepsLeft) ]_vars
  BY <1>1, <1>2, <1>4, PTL DEF Spec
<1> QED
  BY <1>5, <1>6, PTL

=============================================================================
