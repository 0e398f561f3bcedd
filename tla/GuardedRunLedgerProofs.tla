------------------------- MODULE GuardedRunLedgerProofs -------------------------
(***************************************************************************)
(* The ledger of a bounded run, for every plan, policy and number of       *)
(* faults: GuardedRun implements AttemptLog, and with it inherits what the *)
(* log keeps; every checkpoint names a commit that exists.  On top of that *)
(* the plan: no attempt before its dependencies, no stage without its      *)
(* checkpoint, nothing to reconcile once the run is COMPLETED; and git: a  *)
(* commit on the run branch is known, or its attempt RUNNING, or it is     *)
(* stranded by a checkpoint that threw, and then for good.                 *)
(***************************************************************************)
EXTENDS GuardedRunProofs, FiniteSetTheorems

LP == INSTANCE AttemptLogProofs

\* what the process knows of the attempt it holds, although only the ledger survives a death
Interrupted == proc.pc = "settle" \/ (proc.pc \in {"open", "isolated"} /\ proc.task = 0)
Dispatched == proc.pc = "begin" \/ (proc.pc \in {"open", "isolated"} /\ proc.task # 0)
Working == proc.pc \in {"inner", "accept", "nochange", "committed"}

SlotInv ==
    /\ Interrupted => attempts[proc.attempt].status = "RUNNING"
    /\ Dispatched => attempts[proc.attempt] = [task |-> proc.task, status |-> "FROZEN"]
    /\ Working => attempts[proc.attempt] = [task |-> proc.task, status |-> "RUNNING"]
    /\ proc.pc = "nochange" => CheckpointsOf(proc.task) # {}
    /\ proc.pc = "committed" => proc.attempt \in EngineCommits

CommitInv == \A i \in 1 .. Len(checkpoints) : checkpoints[i].sha \in EngineCommits

IInv == TypeInv /\ SlotInv /\ LP!LogInv /\ CommitInv

\* a step of the process or of its environment is a step of the log or none, and keeps the rest
Keeps == SlotInv' /\ CommitInv' /\ (Log!Next \/ UNCHANGED <<attempts, checkpoints>>)

Resting == {"down", "reconcile", "pick", "drive", "engine", "finish"}
Ended == {"FAILED", "UNAVAILABLE", "ABANDONED"}

-----------------------------------------------------------------------------
(* Commits are never lost *)

LEMMA CommitsAppend ==
    ASSUME NEW l \in Seq(Commit), NEW c \in Commit
    PROVE  Commits(Append(l, c)) = Commits(l) \cup {c.sha}
<1>1. /\ Len(Append(l, c)) = Len(l) + 1 /\ Len(l) \in Nat
      /\ \A i \in 1 .. Len(l) : Append(l, c)[i] = l[i]
      /\ Append(l, c)[Len(l) + 1] = c
  BY AppendProperties
<1>2. 1 .. Len(l) + 1 = (1 .. Len(l)) \cup {Len(l) + 1}
  BY <1>1
<1> QED BY <1>1, <1>2 DEF Commits

LEMMA CommittedGrows ==
    ASSUME repo \in Repository, NEW n \in Int,
           \/ repo' = [repo EXCEPT !.log = Append(@, [sha |-> n, work |-> repo.dirt]), !.dirt = {}]
           \/ repo' = [repo EXCEPT !.base = Append(@, [sha |-> n, work |-> repo.dirt]), !.dirt = {}]
    PROVE  EngineCommits \subseteq EngineCommits' /\ (n > 0 => n \in EngineCommits')
<1> DEFINE c == [sha |-> n, work |-> repo.dirt]
<1>1. c \in Commit /\ c.sha = n /\ repo.log \in Seq(Commit) /\ repo.base \in Seq(Commit)
  BY DEF Repository, Commit
<1>2. \/ repo'.log = Append(repo.log, c) /\ repo'.base = repo.base
      \/ repo'.base = Append(repo.base, c) /\ repo'.log = repo.log
  BY DEF Repository
<1> HIDE DEF c
<1>3. CASE repo'.log = Append(repo.log, c) /\ repo'.base = repo.base
  <2>1. Commits(repo'.log) = Commits(repo.log) \cup {n} /\ Commits(repo'.base) = Commits(repo.base)
    BY <1>1, <1>3, CommitsAppend
  <2> QED BY <2>1 DEF EngineCommits
<1>4. CASE repo'.base = Append(repo.base, c) /\ repo'.log = repo.log
  <2>1. Commits(repo'.base) = Commits(repo.base) \cup {n} /\ Commits(repo'.log) = Commits(repo.log)
    BY <1>1, <1>4, CommitsAppend
  <2> QED BY <2>1 DEF EngineCommits
<1> QED BY <1>2, <1>3, <1>4

LEMMA CommitsStay ==
    ASSUME UNCHANGED <<repo.log, repo.base>>
    PROVE  EngineCommits \subseteq EngineCommits'
BY DEF EngineCommits, Commits

LEMMA IsolateStays == TypeInv /\ Isolate => EngineCommits \subseteq EngineCommits'
BY CommitsStay DEF TypeInv, TypeOK, Repository, Isolate

LEMMA WritesStay == TypeInv /\ (AgentWrites \/ Orphan) => EngineCommits \subseteq EngineCommits'
BY CommitsStay DEF TypeInv, TypeOK, Repository, AgentWrites, Orphan

LEMMA PersonStays == TypeInv /\ PersonInRepo => EngineCommits \subseteq EngineCommits'
<1> SUFFICES ASSUME TypeInv, PersonInRepo PROVE EngineCommits \subseteq EngineCommits'
  OBVIOUS
<1>1. repo \in Repository /\ -(env.person + 1) \in Int
  BY DEF TypeInv, TypeOK, Environment
<1>2. CASE repo' = PersonCommitted(env.person + 1)
  BY <1>1, <1>2, CommittedGrows DEF PersonCommitted
<1>3. CASE repo' # PersonCommitted(env.person + 1)
  BY <1>1, <1>3, CommitsStay DEF PersonInRepo, Repository
<1> QED BY <1>2, <1>3

-----------------------------------------------------------------------------
(* The kinds of step *)

LEMMA CommitInvKept ==
    ASSUME IInv, UNCHANGED checkpoints, EngineCommits \subseteq EngineCommits'
    PROVE  CommitInv'
BY DEF IInv, CommitInv

\* the ledger is not written and the process holds nothing that SlotInv speaks of
LEMMA Rests ==
    ASSUME IInv, UNCHANGED <<attempts, checkpoints>>, EngineCommits \subseteq EngineCommits', proc'.pc \in Resting
    PROVE  Keeps
BY CommitInvKept DEF Keeps, SlotInv, Interrupted, Dispatched, Working, Resting

\* neither the ledger nor the process changes
LEMMA Stays ==
    ASSUME IInv, UNCHANGED <<attempts, checkpoints, proc>>, EngineCommits \subseteq EngineCommits'
    PROVE  Keeps
<1>1. SlotInv'
  BY DEF IInv, SlotInv, Interrupted, Dispatched, Working, CheckpointsOf
<1> QED BY <1>1, CommitInvKept DEF Keeps

LEMMA HeldIsAttempt == IInv /\ (Working \/ Interrupted \/ Dispatched) => proc.attempt \in Attempts
BY DEF IInv, TypeInv, PcInv, Working, Interrupted, Dispatched, Holding

\* the running attempt ends without success
LEMMA Ends ==
    ASSUME IInv, Working \/ Interrupted, NEW s \in Ended, SetAttempt(proc.attempt, s),
           UNCHANGED checkpoints, EngineCommits \subseteq EngineCommits', proc'.pc \in Resting
    PROVE  Keeps
<1>1. proc.attempt \in Attempts
  BY HeldIsAttempt
<1>2. attempts[proc.attempt].status = "RUNNING"
  BY DEF IInv, SlotInv
<1>3. Log!End(proc.attempt)
  BY <1>2 DEF Log!End, Log!Is, Log!Becomes, SetAttempt, Ended
<1>4. Log!Next
  BY <1>1, <1>3 DEF Log!Next, Log!Attempts, Attempts
<1>5. SlotInv'
  BY DEF SlotInv, Interrupted, Dispatched, Working, Resting
<1> QED BY <1>4, <1>5, CommitInvKept DEF Keeps

\* the running attempt succeeds with the checkpoint of a commit that exists
LEMMA Succeeds ==
    ASSUME IInv, Working \/ Interrupted, SetAttempt(proc.attempt, "SUCCEEDED"),
           checkpoints' = Append(checkpoints, [task |-> attempts[proc.attempt].task, attempt |-> proc.attempt,
                                               sha |-> proc.attempt]),
           proc.attempt \in EngineCommits, EngineCommits \subseteq EngineCommits', proc'.pc \in Resting
    PROVE  Keeps
<1> DEFINE a == proc.attempt
           c == [task |-> attempts[a].task, attempt |-> a, sha |-> a]
<1>1. a \in Attempts /\ a \in Nat /\ a \in Int /\ attempts[a] \in AttemptRow
  BY HeldIsAttempt DEF IInv, TypeInv, TypeOK, Attempts
<1>2. attempts[a].status = "RUNNING"
  BY DEF IInv, SlotInv
<1>3. \A i \in 1 .. Len(checkpoints) : checkpoints[i].attempt # a /\ checkpoints[i].sha # a
  <2> SUFFICES ASSUME NEW i \in 1 .. Len(checkpoints), checkpoints[i].attempt = a \/ checkpoints[i].sha = a
               PROVE  FALSE
    OBVIOUS
  <2>1. attempts[a] = [task |-> checkpoints[i].task, status |-> "SUCCEEDED"]
    BY DEF IInv, LP!LogInv, LP!RecordedOnce
  <2>2. attempts[a].status = "SUCCEEDED"
    BY <2>1
  <2> QED BY <1>2, <2>2
<1>4. Log!Succeed(a)
  BY <1>2, <1>3 DEF Log!Succeed, Log!Is, Log!Becomes, SetAttempt
<1>5. Log!Next
  BY <1>1, <1>4 DEF Log!Next, Log!Attempts, Attempts
<1>6. c \in CheckpointRow /\ c.sha = a
  BY <1>1 DEF CheckpointRow, AttemptRow
<1>7. CommitInv'
  <2>1. /\ Len(checkpoints') = Len(checkpoints) + 1 /\ Len(checkpoints) \in Nat
        /\ \A i \in 1 .. Len(checkpoints) : checkpoints'[i] = checkpoints[i]
        /\ checkpoints'[Len(checkpoints) + 1] = c
    BY <1>6, AppendProperties DEF IInv, TypeInv, TypeOK
  <2> QED BY <1>6, <2>1 DEF IInv, CommitInv
<1>8. SlotInv'
  BY DEF SlotInv, Interrupted, Dispatched, Working, Resting
<1> QED BY <1>5, <1>7, <1>8 DEF Keeps

-----------------------------------------------------------------------------
(* Start and reconciliation *)

LEMMA StartKeeps == IInv /\ Start => Keeps
BY Rests, GotoProcess, CommitsStay DEF IInv, TypeInv, TypeOK, Start, Resting, Steps

LEMMA ReconcileKeeps == IInv /\ Reconcile => Keeps
<1> SUFFICES ASSUME IInv, Reconcile PROVE Keeps
  OBVIOUS
<1>1. EngineCommits \subseteq EngineCommits'
  BY CommitsStay DEF Reconcile
<1>2. proc \in Process /\ proc.task = 0
  BY DEF IInv, TypeInv, TypeOK, PcInv, Reconcile, At
<1>3. CASE Goto("pick") \/ Halts
  BY <1>1, <1>2, <1>3, Rests, GotoProcess, IdleProcess DEF Reconcile, Halts, Resting, Steps
<1>4. CASE \E a \in Running : proc' = [proc EXCEPT !.attempt = a, !.pc = "open"]
  <2>1. PICK a \in Running : proc' = [proc EXCEPT !.attempt = a, !.pc = "open"]
    BY <1>4
  <2>2. proc'.pc = "open" /\ proc'.attempt = a /\ proc'.task = 0
    BY <1>2, <2>1 DEF Process
  <2>3. attempts'[proc'.attempt].status = "RUNNING"
    BY <2>1, <2>2 DEF Running, Reconcile
  <2>4. SlotInv'
    BY <2>2, <2>3 DEF SlotInv, Interrupted, Dispatched, Working
  <2> QED BY <1>1, <2>4, CommitInvKept DEF Keeps, Reconcile
<1> QED BY <1>3, <1>4 DEF Reconcile

\* the session opens: what the process holds stays as it was
LEMMA OpeningKeeps ==
    ASSUME IInv, UNCHANGED <<attempts, checkpoints>>, EngineCommits \subseteq EngineCommits',
           proc.pc \in {"open", "isolated"}, proc'.attempt = proc.attempt, proc'.task = proc.task,
           proc'.pc = "isolated" \/ proc'.pc = IF proc.task = 0 THEN "settle" ELSE "begin"
    PROVE  Keeps
<1>1. SlotInv'
  BY DEF IInv, SlotInv, Interrupted, Dispatched, Working
<1> QED BY <1>1, CommitInvKept DEF Keeps

LEMMA AdoptKeeps == IInv /\ Adopt => Keeps
BY OpeningKeeps, GotoProcess, CommitsStay DEF IInv, TypeInv, TypeOK, Adopt, At, Steps

LEMMA IsolateKeeps == IInv /\ Isolate => Keeps
BY OpeningKeeps, GotoProcess, IsolateStays DEF IInv, TypeInv, TypeOK, Isolate, At, Steps

LEMMA OpenBoundaryKeeps == IInv /\ OpenBoundary => Keeps
<1> SUFFICES ASSUME IInv, OpenBoundary PROVE Keeps
  OBVIOUS
<1>1. /\ proc'.attempt = proc.attempt /\ proc'.task = proc.task
      /\ proc'.pc = IF proc.task = 0 THEN "settle" ELSE "begin"
  BY OpenedProcess DEF IInv, TypeInv, TypeOK, OpenBoundary
<1> QED BY <1>1, OpeningKeeps, CommitsStay DEF OpenBoundary, At

LEMMA ReopenKeeps == IInv /\ Reopen => Keeps
<1> SUFFICES ASSUME IInv, Reopen PROVE Keeps
  OBVIOUS
<1>1. PICK a \in Nat : proc' = Opened(a)
  BY DEF Reopen, Running, Attempts
<1>2. /\ proc'.attempt = proc.attempt /\ proc'.task = proc.task
      /\ proc'.pc = IF proc.task = 0 THEN "settle" ELSE "begin"
  BY <1>1, OpenedProcess DEF IInv, TypeInv, TypeOK
<1> QED BY <1>2, OpeningKeeps, CommitsStay DEF Reopen, At

\* a stop, freed or not, and a halt leave the process at rest
LEMMA StopRests ==
    ASSUME IInv, (\E kind \in ExitKinds : Stop(kind) \/ StopFreed(kind)) \/ Halts
    PROVE  proc'.pc \in Resting
BY StoppedProcess, IdleProcess DEF IInv, TypeInv, TypeOK, Stop, StopFreed, Halts, Resting

LEMMA OpenRefusedKeeps == IInv /\ OpenRefused => Keeps
BY StopRests, Rests, CommitsStay DEF OpenRefused, ExitKinds

LEMMA HeadIsCommit ==
    ASSUME repo \in Repository, HeadSha > 0
    PROVE  HeadSha \in EngineCommits
<1> DEFINE l == IF repo.branch = "run" THEN repo.log ELSE repo.base
<1>1. l \in Seq(Commit) /\ HeadSha = HeadOf(l)
  BY DEF Repository, HeadSha
<1>2. l # <<>> /\ HeadSha = l[Len(l)].sha
  BY <1>1 DEF HeadOf, Base
<1>3. Len(l) \in 1 .. Len(l)
  BY <1>1, <1>2
<1>4. HeadSha \in Commits(l)
  BY <1>2, <1>3 DEF Commits
<1> QED BY <1>4 DEF EngineCommits

LEMMA ReattributeKeeps == IInv /\ Reattribute => Keeps
<1> SUFFICES ASSUME IInv, Reattribute PROVE Keeps
  OBVIOUS
<1>1. EngineCommits \subseteq EngineCommits'
  BY CommitsStay DEF Reattribute
<1>2. Interrupted
  BY DEF Interrupted, Reattribute, At
<1>3. CASE CleanExactBranch /\ HeadOwnedBy(proc.attempt)
  <2>1. proc.attempt \in Attempts /\ HeadSha = proc.attempt
    BY <1>2, <1>3, HeldIsAttempt DEF HeadOwnedBy
  <2>2. HeadSha > 0 /\ HeadSha \in EngineCommits
    BY <2>1, HeadIsCommit DEF Attempts, IInv, TypeInv, TypeOK
  <2>3. proc'.pc = "pick"
    BY <1>3 DEF Reattribute, IInv, TypeInv, TypeOK, Process
  <2> QED BY <1>1, <1>2, <1>3, <2>1, <2>2, <2>3, Succeeds DEF Reattribute, Checkpointed, Resting
<1>4. CASE Halts /\ UNCHANGED <<attempts, checkpoints>>
  BY <1>1, <1>4, StopRests, Rests
<1> QED BY <1>3, <1>4 DEF Reattribute

LEMMA AbandonKeeps == IInv /\ Abandon => Keeps
<1> SUFFICES ASSUME IInv, Abandon PROVE Keeps
  OBVIOUS
<1>1. EngineCommits \subseteq EngineCommits' /\ Interrupted /\ UNCHANGED checkpoints
  BY CommitsStay DEF Abandon, Interrupted, At
<1>2. CASE LeftNothing
  <2>1. proc'.pc = "pick"
    BY <1>2 DEF Abandon, IInv, TypeInv, TypeOK, Process
  <2> QED BY <1>1, <1>2, <2>1, Ends DEF Abandon, Resting, Ended
<1>3. CASE Halts /\ UNCHANGED attempts
  BY <1>1, <1>3, StopRests, Rests
<1> QED BY <1>2, <1>3 DEF Abandon

-----------------------------------------------------------------------------
(* The drive of the tasks *)

LEMMA PickKeeps == IInv /\ Pick => Keeps
<1> SUFFICES ASSUME IInv, Pick PROVE Keeps
  OBVIOUS
<1>1. proc'.pc \in Resting
  BY DEF IInv, TypeInv, TypeOK, Process, Pick, Resting
<1> QED BY <1>1, Rests, CommitsStay DEF Pick

LEMMA StopBeforeKeeps == IInv /\ StopBefore => Keeps
<1> SUFFICES ASSUME IInv, StopBefore PROVE Keeps
  OBVIOUS
<1>1. \E kind \in ExitKinds : Stop(kind)
  BY DEF StopBefore, ExitKinds
<1> QED BY <1>1, StopRests, Rests, CommitsStay DEF StopBefore

LEMMA VerifyKeeps == IInv /\ Verify => Keeps
<1> SUFFICES ASSUME IInv, Verify PROVE Keeps
  OBVIOUS
<1>1. Goto("drive") \/ Stop("STALLED")
  BY DEF Verify
<1>2. proc'.pc \in Resting
  BY <1>1, GotoProcess, StopRests DEF IInv, TypeInv, TypeOK, Resting, Steps, ExitKinds
<1> QED BY <1>2, Rests, CommitsStay DEF Verify

LEMMA FreezeKeeps == IInv /\ Freeze => Keeps
<1> SUFFICES ASSUME IInv, Freeze PROVE Keeps
  OBVIOUS
<1> DEFINE row == [task |-> proc.task, status |-> "FROZEN"]
<1>1. EngineCommits \subseteq EngineCommits' /\ UNCHANGED checkpoints
  BY CommitsStay DEF Freeze
<1>2. proc.task \in Tasks /\ proc \in Process /\ attempts \in Seq(AttemptRow)
  BY DEF IInv, TypeInv, TypeOK, PcInv, Freeze, Due, At, Driving
<1>3. CASE Stop("STALLED") /\ UNCHANGED attempts
  BY <1>1, <1>3, StopRests, Rests DEF ExitKinds
<1>4. CASE /\ attempts' = Append(attempts, row)
           /\ proc' = [proc EXCEPT !.attempt = Len(attempts) + 1,
                                   !.pc = IF proc.session THEN "begin" ELSE "open"]
  <2>1. row \in AttemptRow
    BY <1>2 DEF AttemptRow, AttemptStatuses
  <2>2. attempts'[Len(attempts) + 1] = row
    BY <1>2, <1>4, <2>1, AppendProperties
  <2>3. proc'.attempt = Len(attempts) + 1 /\ proc'.task = proc.task /\ proc'.pc \in {"begin", "open"}
    BY <1>2, <1>4 DEF Process
  <2>4. proc.task # 0
    BY <1>2 DEF Tasks
  <2>5. SlotInv'
    BY <2>2, <2>3, <2>4 DEF SlotInv, Interrupted, Dispatched, Working
  <2>6. Log!Next
    BY <1>1, <1>2, <1>4 DEF Log!Next, Log!Freeze, Log!Tasks, Tasks
  <2> QED BY <1>1, <2>5, <2>6, CommitInvKept DEF Keeps
<1> QED BY <1>3, <1>4 DEF Freeze

LEMMA BeginTaskKeeps == IInv /\ BeginTask => Keeps
<1> SUFFICES ASSUME IInv, BeginTask PROVE Keeps
  OBVIOUS
<1> DEFINE a == proc.attempt
<1>1. EngineCommits \subseteq EngineCommits' /\ UNCHANGED checkpoints
  BY CommitsStay DEF BeginTask
<1>2. /\ a \in Attempts /\ attempts[a] = [task |-> proc.task, status |-> "FROZEN"]
      /\ proc \in Process /\ attempts \in Seq(AttemptRow)
  BY HeldIsAttempt DEF IInv, TypeInv, TypeOK, SlotInv, Dispatched, BeginTask, At
<1>3. CASE SlotFree
  <2>1. attempts'[a] = [attempts[a] EXCEPT !.status = "RUNNING"]
    BY <1>2, <1>3, SetAttemptKeeps DEF BeginTask, AttemptStatuses
  <2>2. attempts'[a] = [task |-> proc.task, status |-> "RUNNING"]
    BY <1>2, <2>1
  <2>3. proc'.attempt = a /\ proc'.task = proc.task /\ proc'.pc = "inner"
    BY <1>2, <1>3 DEF BeginTask, Process
  <2>4. SlotInv'
    BY <2>2, <2>3 DEF SlotInv, Interrupted, Dispatched, Working
  <2>5. \A b \in Attempts : attempts[b].status # "RUNNING"
    BY <1>3 DEF SlotFree, Running
  <2>6. Log!Begin(a)
    BY <1>1, <1>2, <1>3, <2>5 DEF Log!Begin, Log!Is, Log!Becomes, Log!Attempts, Attempts, BeginTask, SetAttempt
  <2>7. Log!Next
    BY <1>2, <2>6 DEF Log!Next, Log!Attempts, Attempts
  <2> QED BY <1>1, <2>4, <2>7, CommitInvKept DEF Keeps
<1>4. CASE Stop("STALLED") /\ UNCHANGED attempts
  BY <1>1, <1>4, StopRests, Rests DEF ExitKinds
<1> QED BY <1>3, <1>4 DEF BeginTask

\* the agent's work goes on under the same RUNNING attempt
LEMMA WorkGoesOn ==
    ASSUME IInv, Working, NEW step \in {"accept", "nochange", "committed"}, Goto(step),
           UNCHANGED <<attempts, checkpoints>>, EngineCommits \subseteq EngineCommits',
           step = "nochange" => CheckpointsOf(proc.task) # {},
           step = "committed" => proc.attempt \in EngineCommits'
    PROVE  Keeps
<1>1. proc'.pc = step /\ proc'.task = proc.task /\ proc'.attempt = proc.attempt
  BY GotoProcess DEF IInv, TypeInv, TypeOK, Steps
<1>2. SlotInv'
  BY <1>1 DEF IInv, SlotInv, Interrupted, Dispatched, Working, CheckpointsOf
<1> QED BY <1>2, CommitInvKept DEF Keeps

LEMMA AgentReturnsKeeps == IInv /\ AgentReturns => Keeps
<1> SUFFICES ASSUME IInv, AgentReturns PROVE Keeps
  OBVIOUS
<1>1. EngineCommits \subseteq EngineCommits' /\ UNCHANGED checkpoints /\ Working
  BY CommitsStay DEF AgentReturns, At, Working
<1>2. CASE Goto("accept") /\ UNCHANGED attempts
  BY <1>1, <1>2, WorkGoesOn
<1>3. CASE ~(Goto("accept") /\ UNCHANGED attempts)
  <2>1. \E s \in Ended : SetAttempt(proc.attempt, s)
    BY <1>3 DEF AgentReturns, Ended
  <2>2. proc'.pc \in Resting
    BY <1>3, StopRests DEF AgentReturns, ExitKinds
  <2> QED BY <1>1, <2>1, <2>2, Ends
<1> QED BY <1>2, <1>3

LEMMA TakeUnconsumedKeeps == IInv /\ TakeUnconsumed => Keeps
BY WorkGoesOn, CommitsStay DEF TakeUnconsumed, Unconsumed, Working, At

LEMMA CompleteWithoutChangeKeeps == IInv /\ CompleteWithoutChange => Keeps
<1> SUFFICES ASSUME IInv, CompleteWithoutChange PROVE Keeps
  OBVIOUS
<1> DEFINE a == proc.attempt
<1>1. EngineCommits \subseteq EngineCommits' /\ UNCHANGED checkpoints /\ Working /\ proc.pc = "nochange"
  BY CommitsStay DEF CompleteWithoutChange, At, Working
<1>2. a \in Attempts /\ attempts[a] = [task |-> proc.task, status |-> "RUNNING"] /\ CheckpointsOf(proc.task) # {}
  BY <1>1, HeldIsAttempt DEF IInv, SlotInv
<1>3. CASE SetAttempt(a, "SUCCEEDED") /\ proc' = [proc EXCEPT !.active = 0, !.pc = "engine"]
  <2>1. proc'.pc = "engine"
    BY <1>3 DEF IInv, TypeInv, TypeOK, Process
  <2>2. attempts[a].task = proc.task /\ attempts[a].status = "RUNNING"
    BY <1>2
  <2>3. Log!SucceedUnchanged(a)
    BY <1>1, <1>2, <1>3, <2>2 DEF Log!SucceedUnchanged, Log!Is, Log!Becomes, SetAttempt, CheckpointsOf
  <2>4. Log!Next
    BY <1>2, <2>3 DEF Log!Next, Log!Attempts, Attempts
  <2>5. SlotInv'
    BY <2>1 DEF SlotInv, Interrupted, Dispatched, Working
  <2> QED BY <1>1, <2>4, <2>5, CommitInvKept DEF Keeps
<1>4. CASE Stop("STALLED") /\ UNCHANGED attempts
  BY <1>1, <1>4, StopRests, Rests DEF ExitKinds
<1> QED BY <1>3, <1>4 DEF CompleteWithoutChange

LEMMA CheckpointRefusedKeeps == IInv /\ CheckpointRefused => Keeps
<1> SUFFICES ASSUME IInv, CheckpointRefused PROVE Keeps
  OBVIOUS
<1>1. EngineCommits \subseteq EngineCommits' /\ UNCHANGED checkpoints /\ Working /\ "FAILED" \in Ended
  BY CommitsStay DEF CheckpointRefused, At, Working, Ended
<1>2. proc'.pc \in Resting
  BY StopRests DEF CheckpointRefused, ExitKinds
<1> QED BY <1>1, <1>2, Ends DEF CheckpointRefused

LEMMA CommitWorkKeeps == IInv /\ CommitWork => Keeps
<1> SUFFICES ASSUME IInv, CommitWork PROVE Keeps
  OBVIOUS
<1>1. Working /\ UNCHANGED checkpoints /\ "FAILED" \in Ended
  BY DEF CommitWork, Working, At, Ended
<1>2. proc.attempt \in Int /\ proc.attempt > 0 /\ repo \in Repository
  BY <1>1, HeldIsAttempt DEF Attempts, IInv, TypeInv, TypeOK
<1>3. EngineCommits \subseteq EngineCommits' /\ proc.attempt \in EngineCommits'
  BY <1>2, CommittedGrows DEF CommitWork, Committed
<1>4. CASE Goto("committed") /\ UNCHANGED attempts
  BY <1>1, <1>3, <1>4, WorkGoesOn
<1>5. CASE SetAttempt(proc.attempt, "FAILED") /\ StopFreed("STALLED")
  <2>1. proc'.pc \in Resting
    BY <1>5, StopRests DEF ExitKinds
  <2> QED BY <1>1, <1>3, <1>5, <2>1, Ends
<1> QED BY <1>4, <1>5 DEF CommitWork

LEMMA RecordCheckpointKeeps == IInv /\ RecordCheckpoint => Keeps
<1> SUFFICES ASSUME IInv, RecordCheckpoint PROVE Keeps
  OBVIOUS
<1>1. EngineCommits \subseteq EngineCommits' /\ Working
  BY CommitsStay DEF RecordCheckpoint, At, Working
<1>2. proc.attempt \in EngineCommits /\ attempts[proc.attempt].task = proc.task
  BY <1>1 DEF IInv, SlotInv, RecordCheckpoint, At
<1>3. CASE Recorded
  <2>1. proc'.pc = "engine"
    BY <1>3 DEF Recorded, IInv, TypeInv, TypeOK, Process
  <2> QED BY <1>1, <1>2, <1>3, <2>1, Succeeds DEF Recorded, Resting
<1>4. CASE Stop("STALLED") /\ UNCHANGED <<checkpoints, attempts>>
  BY <1>1, <1>4, StopRests, Rests DEF ExitKinds
<1> QED BY <1>3, <1>4 DEF RecordCheckpoint

LEMMA EngineRecordsKeeps == IInv /\ EngineRecords => Keeps
<1> SUFFICES ASSUME IInv, EngineRecords PROVE Keeps
  OBVIOUS
<1>1. proc'.pc \in Resting
  <2>1. CASE proc' = [proc EXCEPT !.attempt = 0, !.pc = "drive"]
    BY <2>1 DEF IInv, TypeInv, TypeOK, Process, Resting
  <2>2. CASE Stop("BLOCKED") \/ Stop("STALLED") \/ Halts
    BY <2>2, StopRests DEF ExitKinds
  <2> QED BY <2>1, <2>2 DEF EngineRecords
<1> QED BY <1>1, Rests, CommitsStay DEF EngineRecords

LEMMA FinishKeeps == IInv /\ Finish => Keeps
BY Rests, IdleProcess, CommitsStay DEF Finish, Resting

LEMMA CrashKeeps == IInv /\ (Crash \/ CrashLeavingAgent) => Keeps
BY Rests, IdleProcess, CommitsStay DEF Crash, CrashLeavingAgent, Resting

LEMMA WorldKeeps == IInv /\ (AgentWrites \/ Orphan \/ PersonInRepo \/ PersonAnswers \/ UNCHANGED vars) => Keeps
<1>1. IInv /\ (AgentWrites \/ Orphan) => Keeps
  BY Stays, WritesStay DEF IInv, AgentWrites, Orphan
<1>2. IInv /\ PersonInRepo => Keeps
  BY Stays, PersonStays DEF IInv, PersonInRepo
<1>3. IInv /\ PersonAnswers => Keeps
  BY Stays, CommitsStay DEF PersonAnswers
<1>4. IInv /\ UNCHANGED vars => Keeps
  BY Stays, CommitsStay DEF vars
<1> QED BY <1>1, <1>2, <1>3, <1>4

-----------------------------------------------------------------------------
(* The theorems *)

LEMMA EveryStepKeeps == IInv /\ [Next]_vars => Keeps
BY StartKeeps, ReconcileKeeps, AdoptKeeps, IsolateKeeps, OpenBoundaryKeeps, ReopenKeeps, OpenRefusedKeeps,
   ReattributeKeeps, AbandonKeeps, PickKeeps, StopBeforeKeeps, VerifyKeeps, FreezeKeeps, BeginTaskKeeps,
   AgentReturnsKeeps, TakeUnconsumedKeeps, CompleteWithoutChangeKeeps, CheckpointRefusedKeeps, CommitWorkKeeps,
   RecordCheckpointKeeps, EngineRecordsKeeps, FinishKeeps, CrashKeeps, WorldKeeps, Zenon
   DEF Next, Drive, World

\* what a step of the log keeps, an implementation of the log keeps
LEMMA LogKeeps ==
    ASSUME LP!LogInv, Log!Next \/ UNCHANGED <<attempts, checkpoints>>
    PROVE  LP!LogInv'
<1>1. Log!Next => LP!Next
  BY DEF Log!Next, Log!Freeze, Log!Begin, Log!Succeed, Log!SucceedUnchanged, Log!End, Log!Is, Log!Becomes,
         Log!Attempts, Log!Tasks, LP!Next, LP!Freeze, LP!Begin, LP!Succeed, LP!SucceedUnchanged, LP!End, LP!Is,
         LP!Becomes, LP!Attempts, LP!Tasks
<1>2. [LP!Next]_(LP!log)
  BY <1>1 DEF LP!log
<1> QED BY <1>2, LP!StepKeeps

LEMMA InitInv == Init => IInv
<1> SUFFICES ASSUME Init PROVE IInv
  OBVIOUS
<1>1. TypeInv
  BY InitTypes
<1>2. SlotInv /\ CommitInv
  BY IdleProcess DEF Init, SlotInv, CommitInv, Interrupted, Dispatched, Working
<1>3. LP!LogInv
  BY LP!LogStarts DEF Init, LP!Init
<1> QED BY <1>1, <1>2, <1>3 DEF IInv

LEMMA Inductive == Spec => []IInv
<1>1. IInv /\ [Next]_vars => IInv'
  BY EveryStepKeeps, NextTypes, LogKeeps DEF IInv, Keeps
<1> QED BY <1>1, InitInv, PTL DEF Spec

\* At most one attempt of a run is RUNNING, whatever process died holding the writer slot (beginTask).
THEOREM OneWriterHolds == Spec => []OneWriter
<1>1. IInv => OneWriter
  BY DEF IInv, OneWriter, Attempts, LP!LogInv, LP!OneRunning, LP!Is, LP!Attempts
<1> QED BY <1>1, Inductive, PTL

\* Every checkpoint names an existing commit of its own, succeeded attempt and is recorded once
\* (checkpoint, reconcileHeadCheckpoint), whatever dies between git and the ledger.
THEOREM CheckpointAttributedHolds == Spec => []CheckpointAttributed
<1>1. IInv => CheckpointAttributed
  <2> SUFFICES ASSUME IInv, NEW i \in 1 .. Len(checkpoints)
               PROVE  LET c == checkpoints[i] IN
                      /\ c.sha \in EngineCommits
                      /\ c.sha = c.attempt
                      /\ attempts[c.attempt].task = c.task /\ attempts[c.attempt].status = "SUCCEEDED"
                      /\ \A j \in 1 .. Len(checkpoints) : checkpoints[j].sha = c.sha => j = i
    BY DEF CheckpointAttributed
  <2>1. checkpoints[i].sha \in EngineCommits
    BY DEF IInv, CommitInv
  <2>2. /\ checkpoints[i].sha = checkpoints[i].attempt
        /\ attempts[checkpoints[i].attempt] = [task |-> checkpoints[i].task, status |-> "SUCCEEDED"]
        /\ \A j \in 1 .. Len(checkpoints) : checkpoints[j].sha = checkpoints[i].sha => j = i
    BY DEF IInv, LP!LogInv, LP!RecordedOnce
  <2> QED BY <2>1, <2>2
<1> QED BY <1>1, Inductive, PTL

\* The attempts and checkpoints of a guarded run behave as AttemptLog: frozen first, one at a time, ended
\* once, a success and its checkpoint in one step (ledger/vocabulary.ts, guardedRun.ts).
THEOREM RefinesLog == Spec => ImplementsLog
<1>1. Init => Log!Init
  BY DEF Init, Log!Init
<1>2. IInv /\ [Next]_vars => [Log!Next]_(Log!log)
  BY EveryStepKeeps DEF Keeps, Log!log
<1> QED BY <1>1, <1>2, Inductive, PTL DEF Spec, ImplementsLog, Log!Spec

-----------------------------------------------------------------------------
(* The plan *)

DepsDone(t) == \A d \in DependsOn[t] : engine[d].stage = "done"

InDispatch ==
    \/ proc.pc \in {"begin", "inner", "accept", "nochange", "committed", "engine"}
    \/ proc.pc \in {"open", "isolated"} /\ proc.task # 0

\* Only the process that drives a task moves its stage, and it drives no task that waits for another.  A RUNNING
\* attempt belongs to a task in its engineer stage, so no done task has one.
PlanInv ==
    /\ \A a \in Attempts : DepsDone(attempts[a].task)
    /\ proc.task # 0 => DepsDone(proc.task)
    /\ InDispatch => engine[proc.task].stage = "engineer"
    /\ \A a \in Running : engine[attempts[a].task].stage = "engineer"
    /\ proc.pc = "engine" => Running = {}
    /\ run.status = "COMPLETED" => proc.pc = "down" /\ AllDone

\* A success the engine has not recorded yet makes room for the completion it is about to count.
BackedInv ==
    /\ CompletionBacked
    /\ proc.pc = "engine" => /\ CheckpointsOf(proc.task) # {}
                             /\ engine[proc.task].completed < Cardinality(Succeeded(proc.task))

RunInv == IInv /\ PlanInv /\ BackedInv

\* what a step of the log leaves of it
LEMMA LogGrows ==
    ASSUME IInv, Log!Next \/ UNCHANGED <<attempts, checkpoints>>
    PROVE  /\ Attempts \subseteq Attempts'
           /\ \A a \in Attempts : attempts'[a].task = attempts[a].task
           /\ \A a \in Attempts : attempts[a].status = "SUCCEEDED" => attempts'[a].status = "SUCCEEDED"
           /\ \A t : CheckpointsOf(t) \subseteq CheckpointsOf(t)'
           /\ Known \subseteq Known'
<1>1. attempts \in Seq(AttemptRow) /\ checkpoints \in Seq(CheckpointRow)
  BY DEF IInv, TypeInv, TypeOK
<1>2. CASE UNCHANGED <<attempts, checkpoints>>
  BY <1>2 DEF Attempts, CheckpointsOf, Known
<1>3. ASSUME UNCHANGED checkpoints
      PROVE  (\A t : CheckpointsOf(t) \subseteq CheckpointsOf(t)') /\ Known \subseteq Known'
  BY <1>3 DEF CheckpointsOf, Known
<1>4. ASSUME NEW a \in Attempts, attempts[a].status # "SUCCEEDED", NEW s \in AttemptStatuses, SetAttempt(a, s)
      PROVE  /\ Attempts \subseteq Attempts'
             /\ \A b \in Attempts : attempts'[b].task = attempts[b].task
             /\ \A b \in Attempts : attempts[b].status = "SUCCEEDED" => attempts'[b].status = "SUCCEEDED"
  <2>1. /\ Len(attempts') = Len(attempts)
        /\ \A b \in Attempts : b # a => attempts'[b] = attempts[b]
        /\ attempts'[a] = [attempts[a] EXCEPT !.status = s]
    BY <1>1, <1>4, SetAttemptKeeps
  <2>2. attempts[a] \in AttemptRow
    BY <1>1 DEF Attempts
  <2>3. attempts'[a].task = attempts[a].task
    BY <2>1, <2>2 DEF AttemptRow
  <2>4. Attempts \subseteq Attempts'
    BY <2>1 DEF Attempts
  <2>5. ASSUME NEW b \in Attempts
        PROVE  /\ attempts'[b].task = attempts[b].task
               /\ attempts[b].status = "SUCCEEDED" => attempts'[b].status = "SUCCEEDED"
    <3>1. CASE b = a
      BY <1>4, <2>3, <3>1
    <3>2. CASE b # a
      BY <2>1, <3>2
    <3> QED BY <3>1, <3>2
  <2> QED BY <2>4, <2>5
<1>5. CASE Log!Freeze
  <2>1. PICK t \in Log!Tasks : attempts' = Append(attempts, [task |-> t, status |-> "FROZEN"])
    BY <1>5 DEF Log!Freeze
  <2>2. [task |-> t, status |-> "FROZEN"] \in AttemptRow
    BY DEF AttemptRow, AttemptStatuses, Log!Tasks, Tasks
  <2>3. /\ Len(attempts') = Len(attempts) + 1 /\ Len(attempts) \in Nat
        /\ \A a \in 1 .. Len(attempts) : attempts'[a] = attempts[a]
    BY <1>1, <2>1, <2>2, AppendProperties
  <2> QED BY <1>3, <1>5, <2>3 DEF Attempts, Log!Freeze
<1>6. CASE \E a \in Attempts : Log!Begin(a) \/ Log!SucceedUnchanged(a) \/ Log!End(a)
  <2>1. PICK a \in Attempts : Log!Begin(a) \/ Log!SucceedUnchanged(a) \/ Log!End(a)
    BY <1>6
  <2>2. attempts[a].status # "SUCCEEDED" /\ UNCHANGED checkpoints /\ \E s \in AttemptStatuses : SetAttempt(a, s)
    BY <2>1 DEF Log!Begin, Log!SucceedUnchanged, Log!End, Log!Is, Log!Becomes, SetAttempt, AttemptStatuses
  <2> QED BY <1>3, <1>4, <2>2
<1>7. CASE \E a \in Attempts : Log!Succeed(a)
  <2>1. PICK a \in Attempts : Log!Succeed(a)
    BY <1>7
  <2>2. attempts[a].status # "SUCCEEDED" /\ SetAttempt(a, "SUCCEEDED") /\ "SUCCEEDED" \in AttemptStatuses
    BY <2>1 DEF Log!Succeed, Log!Is, Log!Becomes, SetAttempt, AttemptStatuses
  <2> DEFINE c == [task |-> attempts[a].task, attempt |-> a, sha |-> a]
  <2>3. c \in CheckpointRow /\ checkpoints' = Append(checkpoints, c)
    <3>1. attempts[a] \in AttemptRow /\ a \in Nat /\ a \in Int
      BY <1>1 DEF Attempts
    <3>2. attempts[a].task \in Tasks
      BY <3>1 DEF AttemptRow
    <3> QED BY <2>1, <3>1, <3>2 DEF Log!Succeed, CheckpointRow
  <2>4. /\ Len(checkpoints') = Len(checkpoints) + 1 /\ Len(checkpoints) \in Nat
        /\ \A i \in 1 .. Len(checkpoints) : checkpoints'[i] = checkpoints[i]
    BY <1>1, <2>3, AppendProperties
  <2>5. (\A t : CheckpointsOf(t) \subseteq CheckpointsOf(t)') /\ Known \subseteq Known'
    BY <2>4 DEF CheckpointsOf, Known
  <2> QED BY <1>4, <2>2, <2>5
<1> QED BY <1>2, <1>5, <1>6, <1>7 DEF Log!Next, Log!Attempts, Attempts

LEMMA SucceededFinite ==
    ASSUME IInv, NEW t
    PROVE  IsFiniteSet(Succeeded(t)) /\ Cardinality(Succeeded(t)) \in Nat
<1>1. IsFiniteSet(Attempts)
  BY FS_Interval DEF IInv, TypeInv, TypeOK, Attempts
<1> QED BY <1>1, FS_Subset, FS_CardinalityType DEF Succeeded

LEMMA SucceededGrows ==
    ASSUME IInv, IInv', Log!Next \/ UNCHANGED <<attempts, checkpoints>>, NEW t
    PROVE  /\ Cardinality(Succeeded(t)) \in Nat /\ Cardinality(Succeeded(t)') \in Nat
           /\ Cardinality(Succeeded(t)) <= Cardinality(Succeeded(t)')
           /\ \A a \in Succeeded(t)' \ Succeeded(t) : Cardinality(Succeeded(t)) < Cardinality(Succeeded(t)')
<1>1. IsFiniteSet(Succeeded(t)) /\ Cardinality(Succeeded(t)) \in Nat
  BY SucceededFinite
<1>2. IsFiniteSet(Succeeded(t)')
  <2>1. IsFiniteSet(Attempts')
    BY FS_Interval DEF IInv, TypeInv, TypeOK, Attempts
  <2> QED BY <2>1, FS_Subset DEF Succeeded
<1>3. Succeeded(t) \subseteq Succeeded(t)'
  BY LogGrows DEF Succeeded
<1>4. Cardinality(Succeeded(t)') \in Nat
  BY <1>2, FS_CardinalityType
<1>5. Cardinality(Succeeded(t)) <= Cardinality(Succeeded(t)')
  BY <1>2, <1>3, FS_Subset
<1>6. ASSUME NEW a \in Succeeded(t)' \ Succeeded(t) PROVE Cardinality(Succeeded(t)) < Cardinality(Succeeded(t)')
  <2>1. Cardinality(Succeeded(t)) # Cardinality(Succeeded(t)')
    BY <1>2, <1>3, <1>6, FS_Subset
  <2> QED BY <1>1, <1>4, <1>5, <2>1
<1> QED BY <1>1, <1>4, <1>5, <1>6

\* a step that moves no stage, counts no completion, starts no attempt and takes up no dispatch
Quiet ==
    /\ \A t \in Tasks : engine'[t].stage = engine[t].stage /\ engine'[t].completed = engine[t].completed
    /\ Attempts' = Attempts /\ Running' \subseteq Running
    /\ proc'.task \in {0, proc.task}
    /\ proc'.pc = "engine" => UNCHANGED <<attempts, checkpoints, proc>>
    /\ InDispatch' => InDispatch /\ proc'.task = proc.task
    /\ run'.status # "COMPLETED" \/ UNCHANGED <<run, proc>>

LEMMA ModelTypes ==
    ASSUME RunInv, IInv'
    PROVE  /\ engine \in [Tasks -> EngineRow] /\ engine' \in [Tasks -> EngineRow]
           /\ proc.task \in Tasks \cup {0} /\ (InDispatch => proc.task \in Tasks)
           /\ \A a \in Attempts : attempts[a].task \in Tasks
<1>1. /\ engine \in [Tasks -> EngineRow] /\ engine' \in [Tasks -> EngineRow]
      /\ attempts \in Seq(AttemptRow) /\ proc \in Process
  BY DEF RunInv, IInv, TypeInv, TypeOK
<1>2. proc.task \in Tasks \cup {0}
  BY <1>1 DEF Process
<1>3. InDispatch => proc.task \in Tasks
  BY <1>2 DEF InDispatch, RunInv, IInv, TypeInv, PcInv, Driving
<1>4. ASSUME NEW a \in Attempts PROVE attempts[a].task \in Tasks
  <2>1. attempts[a] \in AttemptRow
    BY <1>1 DEF Attempts
  <2> QED BY <2>1 DEF AttemptRow
<1> QED BY <1>1, <1>2, <1>3, <1>4

LEMMA QuietKeeps ==
    ASSUME RunInv, IInv', Keeps, Quiet
    PROVE  PlanInv' /\ BackedInv'
<1>1. /\ \A a \in Attempts : attempts'[a].task = attempts[a].task
      /\ \A t : CheckpointsOf(t) \subseteq CheckpointsOf(t)'
      /\ \A t : Cardinality(Succeeded(t)) \in Nat /\ Cardinality(Succeeded(t)') \in Nat
                /\ Cardinality(Succeeded(t)) <= Cardinality(Succeeded(t)')
  BY LogGrows, SucceededGrows DEF RunInv, Keeps
<1>2. /\ engine \in [Tasks -> EngineRow] /\ engine' \in [Tasks -> EngineRow]
      /\ proc.task \in Tasks \cup {0} /\ (InDispatch => proc.task \in Tasks)
      /\ \A a \in Attempts : attempts[a].task \in Tasks
  BY ModelTypes
<1>3. ASSUME NEW t \in Tasks, DepsDone(t) PROVE DepsDone(t)'
  <2>1. DependsOn[t] \subseteq Tasks
    BY ConstantsAssumption
  <2> QED BY <1>3, <2>1 DEF Quiet, DepsDone
<1>4. (\A a \in Attempts : DepsDone(attempts[a].task))'
  <2> SUFFICES ASSUME NEW a \in Attempts' PROVE DepsDone(attempts[a].task)'
    OBVIOUS
  <2>1. PICK t : t = attempts[a].task
    OBVIOUS
  <2>2. t \in Tasks /\ DepsDone(t) /\ attempts'[a].task = t
    BY <1>1, <1>2, <2>1 DEF RunInv, PlanInv, Quiet
  <2>3. DepsDone(t)'
    BY <1>3, <2>2
  <2> QED BY <2>2, <2>3 DEF DepsDone
<1>5. (proc.task # 0 => DepsDone(proc.task))'
  <2> SUFFICES ASSUME proc'.task # 0 PROVE DepsDone(proc.task)'
    OBVIOUS
  <2>1. PICK t : t = proc.task
    OBVIOUS
  <2>2. t \in Tasks /\ DepsDone(t) /\ proc'.task = t
    BY <1>2, <2>1 DEF RunInv, PlanInv, Quiet
  <2>3. DepsDone(t)'
    BY <1>3, <2>2
  <2> QED BY <2>2, <2>3 DEF DepsDone
<1>6. (InDispatch => engine[proc.task].stage = "engineer")'
  BY <1>2 DEF RunInv, PlanInv, Quiet
<1>7. (\A a \in Running : engine[attempts[a].task].stage = "engineer")'
  BY <1>1, <1>2 DEF RunInv, PlanInv, Quiet, Running
<1>8. proc'.pc = "engine" => Running' = {}
  BY DEF RunInv, PlanInv, Quiet
<1>9. run'.status = "COMPLETED" => proc'.pc = "down" /\ AllDone'
  BY DEF RunInv, PlanInv, Quiet, AllDone
<1>10. PlanInv'
  BY <1>4, <1>5, <1>6, <1>7, <1>8, <1>9 DEF PlanInv
<1>11. CompletionBacked'
  <2> SUFFICES ASSUME NEW t \in Tasks
               PROVE  /\ engine'[t].completed <= Cardinality(Succeeded(t)')
                      /\ engine'[t].stage # "engineer" => CheckpointsOf(t)' # {}
    BY DEF CompletionBacked
  <2>1. engine[t].completed <= Cardinality(Succeeded(t)) /\ (engine[t].stage # "engineer" => CheckpointsOf(t) # {})
    BY DEF RunInv, BackedInv, CompletionBacked
  <2>2. engine[t].completed \in Nat
    BY <1>2 DEF EngineRow
  <2>3. engine'[t].completed <= Cardinality(Succeeded(t)')
    BY <1>1, <2>1, <2>2 DEF Quiet
  <2> QED BY <1>1, <2>1, <2>3 DEF Quiet
<1>12. (proc.pc = "engine" => /\ CheckpointsOf(proc.task) # {}
                              /\ engine[proc.task].completed < Cardinality(Succeeded(proc.task)))'
  <2> SUFFICES ASSUME proc'.pc = "engine"
               PROVE  (/\ CheckpointsOf(proc.task) # {}
                       /\ engine[proc.task].completed < Cardinality(Succeeded(proc.task)))'
    OBVIOUS
  <2>1. UNCHANGED <<attempts, checkpoints, proc>>
    BY DEF Quiet
  <2>2. PICK t : t = proc.task
    OBVIOUS
  <2>3. Succeeded(proc.task)' = Succeeded(t) /\ CheckpointsOf(proc.task)' = CheckpointsOf(t) /\ proc'.task = t
    BY <2>1, <2>2 DEF Succeeded, CheckpointsOf, Attempts
  <2>4. /\ t \in Tasks /\ CheckpointsOf(t) # {} /\ engine[t].completed < Cardinality(Succeeded(t))
    BY <1>2, <2>1, <2>2 DEF RunInv, BackedInv, InDispatch
  <2> QED BY <2>3, <2>4 DEF Quiet
<1>13. BackedInv'
  BY <1>11, <1>12 DEF BackedInv
<1> QED BY <1>10, <1>13

LEMMA NotOver == RunInv /\ proc.pc # "down" => run.status # "COMPLETED"
BY DEF RunInv, PlanInv

\* the attempt a step writes does not begin to run
LEMMA NobodyBegins ==
    ASSUME RunInv,
           UNCHANGED attempts \/ \E a \in Attempts, s \in AttemptStatuses \ {"RUNNING"} : SetAttempt(a, s)
    PROVE  Attempts' = Attempts /\ Running' \subseteq Running
<1>1. CASE UNCHANGED attempts
  BY <1>1 DEF Attempts, Running
<1>2. ASSUME NEW a \in Attempts, NEW s \in AttemptStatuses \ {"RUNNING"}, SetAttempt(a, s)
      PROVE  Attempts' = Attempts /\ Running' \subseteq Running
  <2>1. attempts \in Seq(AttemptRow) /\ s \in AttemptStatuses
    BY DEF RunInv, IInv, TypeInv, TypeOK
  <2>2. /\ Len(attempts') = Len(attempts)
        /\ \A b \in Attempts : b # a => attempts'[b] = attempts[b]
        /\ attempts'[a] = [attempts[a] EXCEPT !.status = s]
    BY <1>2, <2>1, SetAttemptKeeps
  <2>3. attempts[a] \in AttemptRow
    BY <2>1 DEF Attempts
  <2>4. attempts'[a].status # "RUNNING"
    BY <2>2, <2>3 DEF AttemptRow
  <2>5. Attempts' = Attempts
    BY <2>2 DEF Attempts
  <2> QED BY <2>2, <2>4, <2>5 DEF Running
<1> QED BY <1>1, <1>2

\* the process stops, halts or goes on outside of a dispatch
LEMMA LeavesQuietly ==
    ASSUME RunInv, IInv', Keeps,
           UNCHANGED attempts \/ \E a \in Attempts, s \in AttemptStatuses \ {"RUNNING"} : SetAttempt(a, s),
           \A t \in Tasks : engine'[t].stage = engine[t].stage /\ engine'[t].completed = engine[t].completed,
           \/ proc'.pc \in {"reconcile", "pick", "drive", "finish", "settle"} /\ proc'.task \in {0, proc.task}
              /\ run'.status # "COMPLETED"
           \/ Halts
           \/ proc' = Idle /\ UNCHANGED run /\ proc.pc # "down"
    PROVE  PlanInv' /\ BackedInv'
<1>1. Attempts' = Attempts /\ Running' \subseteq Running
  BY NobodyBegins
<1>2. /\ proc'.pc \in {"reconcile", "pick", "drive", "finish", "settle", "down"} /\ proc'.task \in {0, proc.task}
      /\ run'.status # "COMPLETED"
  <2>1. run \in RunRow
    BY DEF RunInv, IInv, TypeInv, TypeOK
  <2>2. Halts => run'.status = "HALTED"
    BY <2>1 DEF Halts, SetRun, RunRow
  <2> QED BY <2>2, IdleProcess, NotOver DEF Halts
<1>3. Quiet
  BY <1>1, <1>2 DEF Quiet, InDispatch
<1> QED BY <1>3, QuietKeeps

LEMMA StopsWhere ==
    ASSUME RunInv, NEW kind \in ExitKinds, Stop(kind) \/ StopFreed(kind)
    PROVE  proc'.pc \in {"pick", "finish"} /\ proc'.task = 0
<1>1. proc \in Process
  BY DEF RunInv, IInv, TypeInv, TypeOK
<1>2. Stopped(kind).pc \in {"pick", "finish"} /\ [Stopped(kind) EXCEPT !.active = 0].pc \in {"pick", "finish"}
  BY <1>1, StoppedProcess
<1>3. Stopped(kind).task = 0 /\ Stopped(kind) \in Process
  <2>1. Stopped(kind) \in Process
    BY <1>1, StoppedProcess
  <2>2. Stopped(kind).task = 0
    BY <1>1 DEF Stopped, Process
  <2> QED BY <2>1, <2>2
<1>4. [Stopped(kind) EXCEPT !.active = 0].task = 0
  BY <1>3 DEF Process
<1> QED BY <1>2, <1>3, <1>4 DEF Stop, StopFreed

LEMMA HeldStages ==
    ASSUME RunInv, IInv', UNCHANGED engine \/ \E t \in Tasks : \E why : engine' = [engine EXCEPT ![t].hold = why]
    PROVE  \A t \in Tasks : engine'[t].stage = engine[t].stage /\ engine'[t].completed = engine[t].completed
<1>1. CASE UNCHANGED engine
  BY <1>1
<1>2. ASSUME NEW u \in Tasks, NEW why, engine' = [engine EXCEPT ![u].hold = why], NEW t \in Tasks
      PROVE  engine'[t].stage = engine[t].stage /\ engine'[t].completed = engine[t].completed
  <2>1. engine \in [Tasks -> EngineRow]
    BY ModelTypes
  <2>2. CASE t = u
    <3>1. engine'[t] = [engine[t] EXCEPT !.hold = why]
      BY <1>2, <2>1, <2>2
    <3> QED BY <2>1, <3>1 DEF EngineRow
  <2>3. CASE t # u
    BY <1>2, <2>1, <2>3
  <2> QED BY <2>2, <2>3
<1> QED BY <1>1, <1>2

-----------------------------------------------------------------------------
(* The quiet steps *)

RunStep == RunInv /\ IInv' /\ Keeps
RunKept == PlanInv' /\ BackedInv'

LEMMA StartRun == RunStep /\ Start => RunKept
<1> SUFFICES ASSUME RunStep, Start PROVE RunKept
  OBVIOUS
<1>1. proc'.pc = "reconcile" /\ proc'.task = proc.task
  BY GotoProcess DEF RunStep, RunInv, IInv, TypeInv, TypeOK, Start, Steps
<1>2. run'.status # "COMPLETED" /\ UNCHANGED <<attempts, engine>>
  BY DEF Start
<1> QED BY <1>1, <1>2, LeavesQuietly, HeldStages DEF RunStep, RunKept

LEMMA ReconcileRun == RunStep /\ Reconcile => RunKept
<1> SUFFICES ASSUME RunStep, Reconcile PROVE RunKept
  OBVIOUS
<1>1. /\ UNCHANGED <<attempts, engine, checkpoints>> /\ proc \in Process /\ proc.task = 0 /\ proc.pc # "down"
      /\ run.status # "COMPLETED"
  BY NotOver DEF RunStep, RunInv, IInv, TypeInv, TypeOK, PcInv, Reconcile, At
<1>2. CASE Goto("pick") /\ UNCHANGED run
  <2>1. proc'.pc = "pick" /\ proc'.task = proc.task
    BY <1>1, <1>2, GotoProcess DEF Steps
  <2> QED BY <1>1, <1>2, <2>1, LeavesQuietly, HeldStages DEF RunStep, RunKept
<1>3. CASE Halts
  BY <1>1, <1>3, LeavesQuietly, HeldStages DEF RunStep, RunKept
<1>4. CASE (\E a \in Running : proc' = [proc EXCEPT !.attempt = a, !.pc = "open"]) /\ UNCHANGED run
  <2>1. proc'.pc = "open" /\ proc'.task = 0
    BY <1>1, <1>4 DEF Process
  <2>2. Attempts' = Attempts /\ Running' \subseteq Running
    BY <1>1, NobodyBegins DEF RunStep
  <2>3. Quiet
    BY <1>1, <1>4, <2>1, <2>2, HeldStages DEF Quiet, InDispatch, RunStep
  <2> QED BY <2>3, QuietKeeps DEF RunStep, RunKept
<1> QED BY <1>2, <1>3, <1>4 DEF Reconcile

\* a step of an open dispatch, or of an open reconciliation, that keeps its task
LEMMA DispatchGoesOn ==
    ASSUME RunStep, UNCHANGED <<attempts, engine>>, proc'.task = proc.task, proc.pc # "down",
           proc'.pc \in {"isolated", "begin", "inner", "accept", "nochange", "committed", "settle"},
           proc'.pc \in {"isolated", "begin"} => proc.pc \in {"open", "isolated"} /\ (proc'.pc = "begin" => proc.task # 0),
           proc'.pc \in {"inner", "accept", "nochange", "committed"} => proc.pc \in {"inner", "accept"},
           run'.status # "COMPLETED"
    PROVE  RunKept
<1>1. Attempts' = Attempts /\ Running' \subseteq Running
  BY NobodyBegins DEF RunStep
<1>2. InDispatch' => InDispatch
  BY DEF InDispatch
<1>3. Quiet
  BY <1>1, <1>2, HeldStages DEF Quiet, RunStep
<1> QED BY <1>3, QuietKeeps DEF RunStep, RunKept

LEMMA AdoptRun == RunStep /\ (Adopt \/ Isolate) => RunKept
<1> SUFFICES ASSUME RunStep, Adopt \/ Isolate PROVE RunKept
  OBVIOUS
<1>1. proc'.pc = "isolated" /\ proc'.task = proc.task /\ proc.pc = "open"
  BY GotoProcess DEF RunStep, RunInv, IInv, TypeInv, TypeOK, Adopt, Isolate, Steps, At
<1>2. run'.status # "COMPLETED" /\ UNCHANGED <<attempts, engine>>
  BY <1>1, NotOver DEF Adopt, Isolate, RunStep
<1> QED BY <1>1, <1>2, DispatchGoesOn

LEMMA OpenedRun ==
    ASSUME RunStep, UNCHANGED <<attempts, engine>>, NEW a \in Nat, proc' = Opened(a), SetRun("RUNNING"),
           proc.pc \in {"open", "isolated"}
    PROVE  RunKept
<1>1. run'.status = "RUNNING"
  BY DEF RunStep, RunInv, IInv, TypeInv, TypeOK, SetRun, RunRow
<1>2. proc'.task = proc.task /\ proc'.pc = IF proc.task = 0 THEN "settle" ELSE "begin"
  BY OpenedProcess DEF RunStep, RunInv, IInv, TypeInv, TypeOK
<1> QED BY <1>1, <1>2, DispatchGoesOn

LEMMA OpenBoundaryRun == RunStep /\ OpenBoundary => RunKept
BY OpenedRun DEF OpenBoundary, At

LEMMA ReopenRun == RunStep /\ Reopen => RunKept
<1> SUFFICES ASSUME RunStep, Reopen PROVE RunKept
  OBVIOUS
<1>1. PICK a \in Nat : proc' = Opened(a)
  BY DEF Reopen, Running, Attempts
<1> QED BY <1>1, OpenedRun DEF Reopen, At

\* a stop or a halt in the middle of an invocation
LEMMA StopsQuietly ==
    ASSUME RunStep, proc.pc # "down",
           UNCHANGED attempts \/ \E a \in Attempts, s \in AttemptStatuses \ {"RUNNING"} : SetAttempt(a, s),
           UNCHANGED engine \/ \E t \in Tasks : \E why : engine' = [engine EXCEPT ![t].hold = why],
           \/ UNCHANGED run /\ \E kind \in ExitKinds : Stop(kind) \/ StopFreed(kind)
           \/ Halts
    PROVE  RunKept
<1>1. \A t \in Tasks : engine'[t].stage = engine[t].stage /\ engine'[t].completed = engine[t].completed
  BY HeldStages DEF RunStep
<1>2. CASE UNCHANGED run /\ \E kind \in ExitKinds : Stop(kind) \/ StopFreed(kind)
  <2>1. proc'.pc \in {"pick", "finish"} /\ proc'.task = 0 /\ run'.status # "COMPLETED"
    BY <1>2, StopsWhere, NotOver DEF RunStep
  <2> QED BY <1>1, <2>1, LeavesQuietly DEF RunStep, RunKept
<1>3. CASE Halts
  BY <1>1, <1>3, LeavesQuietly DEF RunStep, RunKept
<1> QED BY <1>2, <1>3

LEMMA OpenRefusedRun == RunStep /\ OpenRefused => RunKept
<1> SUFFICES ASSUME RunStep, OpenRefused PROVE RunKept
  OBVIOUS
<1>1. proc.pc # "down" /\ UNCHANGED attempts /\ UNCHANGED engine
  BY DEF OpenRefused, At
<1>2. Halts \/ (UNCHANGED run /\ \E kind \in ExitKinds : Stop(kind))
  BY DEF OpenRefused, ExitKinds
<1> QED BY <1>1, <1>2, StopsQuietly

LEMMA HeldHere == RunStep /\ (Working \/ Interrupted \/ Dispatched) => proc.attempt \in Attempts
BY HeldIsAttempt DEF RunStep, RunInv

LEMMA SettleRun == RunStep /\ (Reattribute \/ Abandon) => RunKept
<1> SUFFICES ASSUME RunStep, Reattribute \/ Abandon PROVE RunKept
  OBVIOUS
<1>1. proc.pc = "settle" /\ UNCHANGED engine /\ proc \in Process /\ run.status # "COMPLETED"
  BY NotOver DEF RunStep, RunInv, IInv, TypeInv, TypeOK, Reattribute, Abandon, At
<1>2. CASE Halts /\ UNCHANGED attempts
  BY <1>1, <1>2, StopsQuietly
<1>3. CASE ~(Halts /\ UNCHANGED attempts)
  <2>1. /\ SetAttempt(proc.attempt, "SUCCEEDED") \/ SetAttempt(proc.attempt, "ABANDONED")
        /\ UNCHANGED run
        /\ \/ proc' = [proc EXCEPT !.pending = 0, !.active = 0, !.attempt = 0, !.pc = "pick"]
           \/ proc' = [proc EXCEPT !.attempt = 0, !.pc = "pick"]
    BY <1>3 DEF Reattribute, Abandon
  <2>2. proc'.pc = "pick" /\ proc'.task = proc.task
    BY <1>1, <2>1 DEF Process
  <2>3. \E a \in Attempts, s \in AttemptStatuses \ {"RUNNING"} : SetAttempt(a, s)
    BY <1>1, <2>1, HeldHere DEF Interrupted, AttemptStatuses
  <2> QED BY <1>1, <2>1, <2>2, <2>3, LeavesQuietly, HeldStages DEF RunStep, RunKept
<1> QED BY <1>2, <1>3

LEMMA StopBeforeRun == RunStep /\ StopBefore => RunKept
<1> SUFFICES ASSUME RunStep, StopBefore PROVE RunKept
  OBVIOUS
<1>1. proc.pc # "down" /\ UNCHANGED attempts /\ UNCHANGED engine /\ UNCHANGED run
  BY DEF StopBefore, At
<1>2. \E kind \in ExitKinds : Stop(kind)
  BY DEF StopBefore, ExitKinds
<1> QED BY <1>1, <1>2, StopsQuietly

LEMMA AgentReturnsRun == RunStep /\ AgentReturns => RunKept
<1> SUFFICES ASSUME RunStep, AgentReturns PROVE RunKept
  OBVIOUS
<1>1. /\ proc.pc = "inner" /\ proc.pc # "down" /\ proc.task \in Tasks /\ proc.attempt \in Attempts
      /\ run.status # "COMPLETED" /\ proc \in Process
  BY HeldHere, NotOver DEF AgentReturns, At, Working, RunStep, RunInv, IInv, TypeInv, TypeOK, PcInv, Driving
<1>2. CASE Goto("accept") /\ UNCHANGED <<run, attempts, engine>>
  <2>1. proc'.pc = "accept" /\ proc'.task = proc.task
    BY <1>1, <1>2, GotoProcess DEF Steps
  <2> QED BY <1>1, <1>2, <2>1, DispatchGoesOn
<1>3. CASE ~(Goto("accept") /\ UNCHANGED <<run, attempts, engine>>)
  <2>1. \E a \in Attempts, s \in AttemptStatuses \ {"RUNNING"} : SetAttempt(a, s)
    BY <1>1, <1>3 DEF AgentReturns, AttemptStatuses
  <2>2. UNCHANGED engine \/ \E t \in Tasks : \E why : engine' = [engine EXCEPT ![t].hold = why]
    BY <1>1, <1>3 DEF AgentReturns, Held
  <2>3. \/ UNCHANGED run /\ \E kind \in ExitKinds : StopFreed(kind)
        \/ Halts
    BY <1>3 DEF AgentReturns, ExitKinds
  <2> QED BY <1>1, <2>1, <2>2, <2>3, StopsQuietly
<1> QED BY <1>2, <1>3

LEMMA TakeUnconsumedRun == RunStep /\ TakeUnconsumed => RunKept
<1> SUFFICES ASSUME RunStep, TakeUnconsumed PROVE RunKept
  OBVIOUS
<1>1. proc.pc = "accept" /\ proc'.pc = "nochange" /\ proc'.task = proc.task
  BY GotoProcess DEF TakeUnconsumed, At, RunStep, RunInv, IInv, TypeInv, TypeOK, Steps
<1>2. run'.status # "COMPLETED" /\ UNCHANGED <<attempts, engine>>
  BY <1>1, NotOver DEF TakeUnconsumed, RunStep
<1> QED BY <1>1, <1>2, DispatchGoesOn

LEMMA CheckpointRefusedRun == RunStep /\ CheckpointRefused => RunKept
<1> SUFFICES ASSUME RunStep, CheckpointRefused PROVE RunKept
  OBVIOUS
<1>1. proc.pc # "down" /\ UNCHANGED engine /\ UNCHANGED run /\ \E kind \in ExitKinds : StopFreed(kind)
  BY DEF CheckpointRefused, At, ExitKinds
<1>2. \E a \in Attempts, s \in AttemptStatuses \ {"RUNNING"} : SetAttempt(a, s)
  BY HeldHere DEF CheckpointRefused, At, Working, AttemptStatuses
<1> QED BY <1>1, <1>2, StopsQuietly

LEMMA CommitWorkRun == RunStep /\ CommitWork => RunKept
<1> SUFFICES ASSUME RunStep, CommitWork PROVE RunKept
  OBVIOUS
<1>1. proc.pc = "accept" /\ UNCHANGED engine /\ UNCHANGED run /\ run.status # "COMPLETED"
  BY NotOver DEF CommitWork, At, RunStep
<1>2. CASE Goto("committed") /\ UNCHANGED attempts
  <2>1. proc'.pc = "committed" /\ proc'.task = proc.task
    BY <1>2, GotoProcess DEF RunStep, RunInv, IInv, TypeInv, TypeOK, Steps
  <2> QED BY <1>1, <1>2, <2>1, DispatchGoesOn
<1>3. CASE SetAttempt(proc.attempt, "FAILED") /\ StopFreed("STALLED")
  <2>1. \E a \in Attempts, s \in AttemptStatuses \ {"RUNNING"} : SetAttempt(a, s)
    BY <1>1, <1>3, HeldHere DEF Working, AttemptStatuses
  <2>2. \E kind \in ExitKinds : StopFreed(kind)
    BY <1>3 DEF ExitKinds
  <2> QED BY <1>1, <2>1, <2>2, StopsQuietly
<1> QED BY <1>2, <1>3 DEF CommitWork

LEMMA CrashRun == RunStep /\ (Crash \/ CrashLeavingAgent) => RunKept
<1> SUFFICES ASSUME RunStep, Crash \/ CrashLeavingAgent PROVE RunKept
  OBVIOUS
<1>1. proc' = Idle /\ UNCHANGED run /\ proc.pc # "down" /\ UNCHANGED attempts /\ UNCHANGED engine
  BY DEF Crash, CrashLeavingAgent, At
<1> QED BY <1>1, LeavesQuietly, HeldStages DEF RunStep, RunKept

LEMMA WorldRun == RunStep /\ (AgentWrites \/ Orphan \/ PersonInRepo \/ PersonAnswers \/ UNCHANGED vars) => RunKept
<1> SUFFICES ASSUME RunStep, AgentWrites \/ Orphan \/ PersonInRepo \/ PersonAnswers \/ UNCHANGED vars PROVE RunKept
  OBVIOUS
<1>1. /\ UNCHANGED <<run, attempts, checkpoints, proc>>
      /\ UNCHANGED engine \/ \E t \in Tasks : \E why : engine' = [engine EXCEPT ![t].hold = why]
  BY DEF AgentWrites, Orphan, PersonInRepo, PersonAnswers, vars
<1>2. \A t \in Tasks : engine'[t].stage = engine[t].stage /\ engine'[t].completed = engine[t].completed
  BY <1>1, HeldStages DEF RunStep
<1>3. Attempts' = Attempts /\ Running' \subseteq Running
  BY <1>1, NobodyBegins DEF RunStep
<1>4. Quiet
  BY <1>1, <1>2, <1>3 DEF Quiet, InDispatch
<1> QED BY <1>4, QuietKeeps DEF RunStep, RunKept

-----------------------------------------------------------------------------
(* The steps that move a task *)

LEMMA PlanGoesOn ==
    ASSUME RunStep, proc.task \in Tasks, proc'.task \in {0, proc.task}, run'.status # "COMPLETED",
           \A t \in Tasks : engine[t].stage = "done" => engine'[t].stage = "done",
           \A a \in Attempts' : a \notin Attempts => attempts'[a].task = proc.task,
           InDispatch' => proc'.task = proc.task /\ engine'[proc.task].stage = "engineer",
           \A a \in Running' : engine'[attempts'[a].task].stage = "engineer",
           proc'.pc = "engine" => Running' = {}
    PROVE  PlanInv'
<1>1. /\ \A a \in Attempts : attempts'[a].task = attempts[a].task /\ attempts[a].task \in Tasks
      /\ \A a \in Attempts : DepsDone(attempts[a].task)
      /\ DepsDone(proc.task)
  <2>1. \A a \in Attempts : attempts'[a].task = attempts[a].task
    BY LogGrows DEF RunStep, RunInv, Keeps
  <2>2. \A a \in Attempts : attempts[a].task \in Tasks
    BY ModelTypes DEF RunStep
  <2>3. proc.task # 0
    BY DEF Tasks
  <2> QED BY <2>1, <2>2, <2>3 DEF RunStep, RunInv, PlanInv
<1>2. ASSUME NEW t \in Tasks, DepsDone(t) PROVE DepsDone(t)'
  <2>1. DependsOn[t] \subseteq Tasks
    BY ConstantsAssumption
  <2> QED BY <1>2, <2>1 DEF DepsDone
<1>3. (\A a \in Attempts : DepsDone(attempts[a].task))'
  <2> SUFFICES ASSUME NEW a \in Attempts' PROVE DepsDone(attempts[a].task)'
    OBVIOUS
  <2>1. PICK t \in Tasks : attempts'[a].task = t /\ DepsDone(t)
    BY <1>1
  <2>2. DepsDone(t)'
    BY <1>2, <2>1
  <2> QED BY <2>1, <2>2 DEF DepsDone
<1>4. (proc.task # 0 => DepsDone(proc.task))'
  <2>1. PICK t \in Tasks : t = proc.task /\ DepsDone(t)
    BY <1>1
  <2>2. DepsDone(t)' /\ proc'.task \in {0, t}
    BY <1>2, <2>1
  <2> QED BY <2>2 DEF DepsDone
<1>5. (InDispatch => engine[proc.task].stage = "engineer")'
  OBVIOUS
<1>6. (\A a \in Running : engine[attempts[a].task].stage = "engineer")'
  OBVIOUS
<1> QED BY <1>3, <1>4, <1>5, <1>6 DEF PlanInv

LEMMA CompletionGoesOn ==
    ASSUME RunStep, NEW t \in Tasks, engine'[t].completed = engine[t].completed,
           engine'[t].stage \in {"engineer", engine[t].stage} \/ CheckpointsOf(t) # {}
    PROVE  /\ engine'[t].completed <= Cardinality(Succeeded(t)')
           /\ engine'[t].stage # "engineer" => CheckpointsOf(t)' # {}
<1>1. engine[t].completed <= Cardinality(Succeeded(t)) /\ (engine[t].stage # "engineer" => CheckpointsOf(t) # {})
  BY DEF RunStep, RunInv, BackedInv, CompletionBacked
<1>2. engine[t].completed \in Nat
  BY ModelTypes DEF RunStep, EngineRow
<1>3. /\ Cardinality(Succeeded(t)) \in Nat /\ Cardinality(Succeeded(t)') \in Nat
      /\ Cardinality(Succeeded(t)) <= Cardinality(Succeeded(t)')
      /\ CheckpointsOf(t) \subseteq CheckpointsOf(t)'
  BY SucceededGrows, LogGrows DEF RunStep, RunInv, Keeps
<1> QED BY <1>1, <1>2, <1>3

LEMMA BackedGoesOn ==
    ASSUME RunStep, proc'.pc # "engine",
           \A t \in Tasks : /\ engine'[t].completed = engine[t].completed
                            /\ engine'[t].stage \in {"engineer", engine[t].stage} \/ CheckpointsOf(t) # {}
    PROVE  BackedInv'
<1>1. CompletionBacked'
  BY CompletionGoesOn DEF CompletionBacked
<1> QED BY <1>1 DEF BackedInv

LEMMA PickRun == RunStep /\ Pick => RunKept
<1> SUFFICES ASSUME RunStep, Pick PROVE RunKept
  OBVIOUS
<1>1. /\ UNCHANGED <<run, attempts, checkpoints, engine>> /\ proc \in Process /\ run.status # "COMPLETED"
      /\ proc.pc # "down"
  BY NotOver DEF RunStep, RunInv, IInv, TypeInv, TypeOK, Pick, At
<1>2. CASE Runnable = {}
  <2>1. proc'.pc = "finish" /\ proc'.task = proc.task
    BY <1>1, <1>2 DEF Pick, Process
  <2> QED BY <1>1, <2>1, LeavesQuietly, HeldStages DEF RunStep, RunKept
<1>3. CASE Runnable # {}
  <2>1. PICK t \in Runnable : proc' = [proc EXCEPT !.task = t, !.pc = "drive"]
    BY <1>3 DEF Pick
  <2>2. proc'.task = t /\ proc'.pc = "drive" /\ DepsDone(t)
    BY <1>1, <2>1 DEF Process, Runnable, DepsDone
  <2>3. PlanInv'
    BY <1>1, <2>2 DEF RunStep, RunInv, PlanInv, InDispatch, Attempts, Running, DepsDone, AllDone
  <2>4. BackedInv'
    BY <1>1, <2>2, BackedGoesOn
  <2> QED BY <2>3, <2>4 DEF RunKept
<1> QED BY <1>2, <1>3

\* reviewer, QA and security move a task that is past its engineer stage
LEMMA VerifyMoves ==
    ASSUME RunStep, Verify
    PROVE  /\ proc.task \in Tasks /\ engine[proc.task].stage = "verify"
           /\ \A t \in Tasks \ {proc.task} : engine'[t] = engine[t]
           /\ engine'[proc.task].completed = engine[proc.task].completed
<1> DEFINE e == engine[proc.task]
<1>1. proc.task \in Tasks /\ e.stage = "verify" /\ engine \in [Tasks -> EngineRow] /\ e \in EngineRow
  BY ModelTypes DEF RunStep, RunInv, IInv, TypeInv, PcInv, Driving, Verify, Due, At
<1>2. CASE UNCHANGED engine
  BY <1>1, <1>2
<1>3. ASSUME NEW stage, NEW why, FailureCounted(stage, why)
      PROVE  (\A t \in Tasks \ {proc.task} : engine'[t] = engine[t]) /\ engine'[proc.task].completed = e.completed
  <2>1. PICK r : r = [e EXCEPT !.rounds = @ + 1, !.stage = stage, !.hold = why]
    OBVIOUS
  <2>2. engine' = [engine EXCEPT ![proc.task] = r]
    BY <1>3, <2>1 DEF FailureCounted
  <2>3. r.completed = e.completed
    BY <1>1, <2>1 DEF EngineRow
  <2> QED BY <1>1, <2>2, <2>3
<1>4. ASSUME NEW why, Held(why)
      PROVE  (\A t \in Tasks \ {proc.task} : engine'[t] = engine[t]) /\ engine'[proc.task].completed = e.completed
  <2>1. PICK r : r = [e EXCEPT !.hold = why]
    OBVIOUS
  <2>2. engine' = [engine EXCEPT ![proc.task] = r]
    BY <1>4, <2>1 DEF Held
  <2>3. r.completed = e.completed
    BY <1>1, <2>1 DEF EngineRow
  <2> QED BY <1>1, <2>2, <2>3
<1>5. CASE engine' = [engine EXCEPT ![proc.task].stage = "done"]
  <2>1. PICK r : r = [e EXCEPT !.stage = "done"]
    OBVIOUS
  <2>2. engine' = [engine EXCEPT ![proc.task] = r]
    BY <1>5, <2>1
  <2>3. r.completed = e.completed
    BY <1>1, <2>1 DEF EngineRow
  <2> QED BY <1>1, <2>2, <2>3
<1> QED BY <1>1, <1>2, <1>3, <1>4, <1>5 DEF Verify

LEMMA VerifyRun == RunStep /\ Verify => RunKept
<1> SUFFICES ASSUME RunStep, Verify PROVE RunKept
  OBVIOUS
<1>1. /\ proc.task \in Tasks /\ engine[proc.task].stage = "verify"
      /\ \A t \in Tasks \ {proc.task} : engine'[t] = engine[t]
      /\ engine'[proc.task].completed = engine[proc.task].completed
  BY VerifyMoves
<1>2. UNCHANGED <<run, attempts, checkpoints>> /\ run.status # "COMPLETED" /\ proc.pc = "drive"
  BY NotOver DEF Verify, Due, At, RunStep
<1>3. proc'.pc \in {"drive", "pick", "finish"} /\ proc'.task \in {0, proc.task}
  <2>1. Goto("drive") \/ Stop("STALLED")
    BY DEF Verify
  <2> QED BY <2>1, StopsWhere, GotoProcess DEF RunStep, RunInv, IInv, TypeInv, TypeOK, Steps, ExitKinds
<1>4. Attempts' = Attempts /\ Running' = Running
  BY <1>2 DEF Attempts, Running
<1>5. ASSUME NEW t \in Tasks, engine[t].stage = "done" PROVE engine'[t].stage = "done"
  BY <1>1, <1>5
<1>6. ASSUME NEW a \in Running' PROVE engine'[attempts'[a].task].stage = "engineer"
  <2>1. a \in Running /\ a \in Attempts /\ attempts'[a] = attempts[a]
    BY <1>2, <1>4 DEF Running
  <2>2. attempts[a].task \in Tasks /\ engine[attempts[a].task].stage = "engineer"
    BY <2>1, ModelTypes DEF RunStep, RunInv, PlanInv
  <2> QED BY <1>1, <2>1, <2>2
<1>7. ~InDispatch'
  BY <1>3 DEF InDispatch
<1>8. PlanInv'
  BY <1>1, <1>2, <1>3, <1>4, <1>5, <1>6, <1>7, PlanGoesOn
<1>9. CheckpointsOf(proc.task) # {}
  BY <1>1 DEF RunStep, RunInv, BackedInv, CompletionBacked
<1>10. BackedInv'
  <2>1. ASSUME NEW t \in Tasks
        PROVE  /\ engine'[t].completed = engine[t].completed
               /\ engine'[t].stage \in {"engineer", engine[t].stage} \/ CheckpointsOf(t) # {}
    BY <1>1, <1>9
  <2> QED BY <1>3, <2>1, BackedGoesOn
<1> QED BY <1>8, <1>10 DEF RunKept

LEMMA FreezeRun == RunStep /\ Freeze => RunKept
<1> SUFFICES ASSUME RunStep, Freeze PROVE RunKept
  OBVIOUS
<1> DEFINE row == [task |-> proc.task, status |-> "FROZEN"]
<1>1. /\ UNCHANGED <<run, checkpoints, engine>> /\ run.status # "COMPLETED" /\ proc.pc = "drive" /\ proc \in Process
      /\ proc.task \in Tasks /\ engine[proc.task].stage = "engineer" /\ attempts \in Seq(AttemptRow)
  BY NotOver DEF Freeze, Due, At, RunStep, RunInv, IInv, TypeInv, TypeOK, PcInv, Driving
<1>2. CASE Stop("STALLED") /\ UNCHANGED attempts
  <2>1. \E kind \in ExitKinds : Stop(kind)
    BY <1>2 DEF ExitKinds
  <2> QED BY <1>1, <1>2, <2>1, StopsQuietly
<1>3. CASE /\ attempts' = Append(attempts, row)
           /\ proc' = [proc EXCEPT !.attempt = Len(attempts) + 1,
                                   !.pc = IF proc.session THEN "begin" ELSE "open"]
  <2>1. proc'.task = proc.task /\ proc'.pc \in {"begin", "open"}
    BY <1>1, <1>3 DEF Process
  <2>2. row \in AttemptRow
    BY <1>1 DEF AttemptRow, AttemptStatuses
  <2>3. /\ Len(attempts') = Len(attempts) + 1 /\ Len(attempts) \in Nat
        /\ \A a \in 1 .. Len(attempts) : attempts'[a] = attempts[a]
        /\ attempts'[Len(attempts) + 1] = row
    BY <1>1, <1>3, <2>2, AppendProperties
  <2>4. ASSUME NEW a \in Attempts', a \notin Attempts
        PROVE  attempts'[a].task = proc.task /\ attempts'[a].status = "FROZEN"
    <3>1. a = Len(attempts) + 1
      BY <2>3, <2>4 DEF Attempts
    <3> QED BY <2>3, <3>1
  <2>5. ASSUME NEW a \in Running' PROVE engine'[attempts'[a].task].stage = "engineer"
    <3>1. a \in Attempts /\ attempts'[a] = attempts[a]
      BY <2>3, <2>4 DEF Running, Attempts
    <3>2. a \in Running
      BY <3>1 DEF Running
    <3> QED BY <1>1, <3>1, <3>2 DEF RunStep, RunInv, PlanInv
  <2>6. PlanInv'
    BY <1>1, <2>1, <2>4, <2>5, PlanGoesOn
  <2>7. BackedInv'
    BY <1>1, <2>1, BackedGoesOn
  <2> QED BY <2>6, <2>7 DEF RunKept
<1> QED BY <1>2, <1>3 DEF Freeze

LEMMA BeginTaskRun == RunStep /\ BeginTask => RunKept
<1> SUFFICES ASSUME RunStep, BeginTask PROVE RunKept
  OBVIOUS
<1> DEFINE a == proc.attempt
<1>1. /\ UNCHANGED <<run, checkpoints, engine>> /\ run.status # "COMPLETED" /\ proc.pc = "begin" /\ proc \in Process
      /\ proc.task \in Tasks /\ attempts \in Seq(AttemptRow) /\ engine[proc.task].stage = "engineer"
  BY NotOver DEF BeginTask, At, RunStep, RunInv, IInv, TypeInv, TypeOK, PcInv, PlanInv, InDispatch, Driving
<1>2. a \in Attempts /\ attempts[a].task = proc.task
  BY <1>1, HeldHere DEF Dispatched, RunStep, RunInv, IInv, SlotInv
<1>3. CASE Stop("STALLED") /\ UNCHANGED attempts
  <2>1. \E kind \in ExitKinds : Stop(kind)
    BY <1>3 DEF ExitKinds
  <2> QED BY <1>1, <1>3, <2>1, StopsQuietly
<1>4. CASE SetAttempt(a, "RUNNING") /\ proc' = [proc EXCEPT !.active = proc.attempt, !.pc = "inner"]
  <2>1. proc'.task = proc.task /\ proc'.pc = "inner"
    BY <1>1, <1>4 DEF Process
  <2>2. Len(attempts') = Len(attempts) /\ \A b \in Attempts : b # a => attempts'[b] = attempts[b]
    <3>1. "RUNNING" \in AttemptStatuses /\ attempts \in Seq(AttemptRow)
      BY <1>1 DEF AttemptStatuses
    <3>2. ASSUME NEW s \in AttemptStatuses, SetAttempt(proc.attempt, s)
          PROVE  /\ Len(attempts') = Len(attempts)
                 /\ \A b \in Attempts : b # proc.attempt => attempts'[b] = attempts[b]
      BY <3>1, <3>2, SetAttemptKeeps
    <3> QED BY <1>4, <3>1, <3>2
  <2>3. Attempts' = Attempts
    BY <2>2 DEF Attempts
  <2>4. ASSUME NEW b \in Running' PROVE engine'[attempts'[b].task].stage = "engineer"
    <3>1. b \in Attempts /\ attempts'[b].status = "RUNNING"
      BY <2>3 DEF Running
    <3>2. CASE b = a
      <4>1. attempts'[b].task = proc.task
        BY <1>2, <3>1, <3>2, LogGrows DEF RunStep, RunInv, Keeps
      <4> QED BY <1>1, <4>1
    <3>3. CASE b # a
      <4>1. b \in Running /\ attempts'[b] = attempts[b]
        BY <2>2, <3>1, <3>3 DEF Running
      <4> QED BY <1>1, <4>1 DEF RunStep, RunInv, PlanInv
    <3> QED BY <3>2, <3>3
  <2>5. PlanInv'
    BY <1>1, <2>1, <2>3, <2>4, PlanGoesOn
  <2>6. BackedInv'
    BY <1>1, <2>1, BackedGoesOn
  <2> QED BY <2>5, <2>6 DEF RunKept
<1> QED BY <1>3, <1>4 DEF BeginTask

\* the attempt succeeds on a checkpoint of its task; the engine has yet to hear of it
LEMMA SucceededRun ==
    ASSUME RunStep, Working, SetAttempt(proc.attempt, "SUCCEEDED"), UNCHANGED <<run, engine>>,
           proc' = [proc EXCEPT !.active = 0, !.pc = "engine"], CheckpointsOf(proc.task)' # {}
    PROVE  RunKept
<1> DEFINE a == proc.attempt
<1>1. /\ run.status # "COMPLETED" /\ proc \in Process /\ proc.task \in Tasks /\ attempts \in Seq(AttemptRow)
      /\ engine[proc.task].stage = "engineer"
  BY NotOver DEF Working, RunStep, RunInv, IInv, TypeInv, TypeOK, PcInv, PlanInv, InDispatch, Driving
<1>2. a \in Attempts /\ attempts[a] = [task |-> proc.task, status |-> "RUNNING"]
  BY HeldHere DEF RunStep, RunInv, IInv, SlotInv
<1>3. proc'.task = proc.task /\ proc'.pc = "engine"
  BY <1>1 DEF Process
<1>4. Attempts' = Attempts /\ Running' \subseteq Running
  BY <1>2, NobodyBegins DEF RunStep, AttemptStatuses
<1>5. attempts'[a].task = proc.task /\ attempts'[a].status = "SUCCEEDED"
  <2>1. attempts'[a] = [attempts[a] EXCEPT !.status = "SUCCEEDED"]
    BY <1>1, <1>2, SetAttemptKeeps DEF AttemptStatuses
  <2> QED BY <1>2, <2>1
<1>6. Running' = {}
  <2>1. a \notin Running'
    BY <1>5 DEF Running
  <2>2. \A b \in Running : b = a
    BY <1>2 DEF Running, Attempts, RunStep, RunInv, IInv, LP!LogInv, LP!OneRunning, LP!Is, LP!Attempts
  <2> QED BY <1>4, <2>1, <2>2
<1>7. PlanInv'
  BY <1>1, <1>3, <1>4, <1>6, PlanGoesOn
<1>8. CompletionBacked'
  BY CompletionGoesOn DEF CompletionBacked
<1>9. PICK t \in Tasks : t = proc.task
  BY <1>1
<1>10. engine'[t].completed < Cardinality(Succeeded(t)')
  <2>1. a \in Succeeded(t)' \ Succeeded(t)
    BY <1>2, <1>4, <1>5, <1>9 DEF Succeeded
  <2>2. /\ Cardinality(Succeeded(t)) \in Nat /\ Cardinality(Succeeded(t)') \in Nat
        /\ Cardinality(Succeeded(t)) < Cardinality(Succeeded(t)')
    BY <2>1, SucceededGrows DEF RunStep, RunInv, Keeps
  <2>3. engine[t].completed \in Nat /\ engine[t].completed <= Cardinality(Succeeded(t))
    BY ModelTypes DEF RunStep, RunInv, BackedInv, CompletionBacked, EngineRow
  <2> QED BY <2>2, <2>3
<1>11. (engine[proc.task].completed < Cardinality(Succeeded(proc.task)))'
  BY <1>3, <1>9, <1>10 DEF Succeeded
<1>12. BackedInv'
  BY <1>8, <1>11 DEF BackedInv
<1> QED BY <1>7, <1>12 DEF RunKept

LEMMA CompleteWithoutChangeRun == RunStep /\ CompleteWithoutChange => RunKept
<1> SUFFICES ASSUME RunStep, CompleteWithoutChange PROVE RunKept
  OBVIOUS
<1>1. UNCHANGED <<run, checkpoints, engine>> /\ Working /\ proc.pc = "nochange" /\ proc \in Process
  BY DEF CompleteWithoutChange, At, Working, RunStep, RunInv, IInv, TypeInv, TypeOK
<1>2. CASE Stop("STALLED") /\ UNCHANGED attempts
  <2>1. \E kind \in ExitKinds : Stop(kind)
    BY <1>2 DEF ExitKinds
  <2> QED BY <1>1, <1>2, <2>1, StopsQuietly
<1>3. CASE SetAttempt(proc.attempt, "SUCCEEDED") /\ proc' = [proc EXCEPT !.active = 0, !.pc = "engine"]
  <2>1. proc'.task = proc.task
    BY <1>1, <1>3 DEF Process
  <2>2. CheckpointsOf(proc.task)' = CheckpointsOf(proc.task)
    BY <1>1, <2>1 DEF CheckpointsOf
  <2>3. CheckpointsOf(proc.task)' # {}
    BY <1>1, <2>2 DEF RunStep, RunInv, IInv, SlotInv
  <2> QED BY <1>1, <1>3, <2>3, SucceededRun
<1> QED BY <1>2, <1>3 DEF CompleteWithoutChange

LEMMA RecordCheckpointRun == RunStep /\ RecordCheckpoint => RunKept
<1> SUFFICES ASSUME RunStep, RecordCheckpoint PROVE RunKept
  OBVIOUS
<1>1. UNCHANGED <<run, engine>> /\ Working /\ proc.pc = "committed" /\ proc \in Process /\ checkpoints \in Seq(CheckpointRow)
  BY DEF RecordCheckpoint, At, Working, RunStep, RunInv, IInv, TypeInv, TypeOK
<1>2. CASE Stop("STALLED") /\ UNCHANGED attempts
  <2>1. \E kind \in ExitKinds : Stop(kind)
    BY <1>2 DEF ExitKinds
  <2> QED BY <1>1, <1>2, <2>1, StopsQuietly
<1>3. CASE Recorded
  <2> DEFINE c == [task |-> proc.task, attempt |-> proc.attempt, sha |-> proc.attempt]
  <2>1. proc'.task = proc.task
    BY <1>1, <1>3 DEF Recorded, Process
  <2>2. c \in CheckpointRow
    <3>1. proc.task \in Tasks /\ proc.attempt \in Nat /\ proc.attempt \in Int
      BY <1>1, HeldHere DEF Attempts, RunStep, RunInv, IInv, TypeInv, PcInv, Driving
    <3> QED BY <3>1 DEF CheckpointRow
  <2>3. checkpoints' = Append(checkpoints, c)
    BY <1>3 DEF Recorded
  <2>4. /\ Len(checkpoints') = Len(checkpoints) + 1 /\ Len(checkpoints) \in Nat
        /\ checkpoints'[Len(checkpoints) + 1] = c
    BY <1>1, <2>2, <2>3, AppendProperties
  <2>5. Len(checkpoints) + 1 \in CheckpointsOf(proc.task)'
    BY <2>1, <2>4 DEF CheckpointsOf
  <2> QED BY <1>1, <1>3, <2>5, SucceededRun DEF Recorded
<1> QED BY <1>2, <1>3 DEF RecordCheckpoint

LEMMA EngineRecordsRun == RunStep /\ EngineRecords => RunKept
<1> SUFFICES ASSUME RunStep, EngineRecords PROVE RunKept
  OBVIOUS
<1> DEFINE e == engine[proc.task]
<1>1. /\ UNCHANGED <<attempts, checkpoints>> /\ proc.pc = "engine" /\ proc.task \in Tasks /\ proc \in Process
      /\ run.status # "COMPLETED" /\ engine \in [Tasks -> EngineRow] /\ e \in EngineRow
  BY NotOver, ModelTypes DEF EngineRecords, At, RunStep, RunInv, IInv, TypeInv, TypeOK, PcInv, Driving
<1>2. CASE \/ Held("blocked") /\ Stop("BLOCKED") /\ UNCHANGED run
           \/ UNCHANGED engine /\ (Halts \/ (Stop("STALLED") /\ UNCHANGED run))
  <2>1. UNCHANGED engine \/ \E t \in Tasks : \E why : engine' = [engine EXCEPT ![t].hold = why]
    BY <1>1, <1>2 DEF Held
  <2>2. \/ UNCHANGED run /\ \E kind \in ExitKinds : Stop(kind)
        \/ Halts
    BY <1>2 DEF ExitKinds
  <2> QED BY <1>1, <2>1, <2>2, StopsQuietly
<1>3. CASE /\ proc' = [proc EXCEPT !.attempt = 0, !.pc = "drive"]
           /\ engine' = [engine EXCEPT ![proc.task].completed = @ + 1, ![proc.task].stage = "verify"]
           /\ UNCHANGED run
  <2>1. proc'.pc = "drive" /\ proc'.task = proc.task
    BY <1>1, <1>3 DEF Process
  <2>2. PICK r : r = [[e EXCEPT !.completed = @ + 1] EXCEPT !.stage = "verify"]
    OBVIOUS
  <2>3. engine' = [engine EXCEPT ![proc.task] = r]
    BY <1>1, <1>3, <2>2
  <2>4. r.completed = e.completed + 1 /\ r.stage = "verify"
    BY <1>1, <2>2 DEF EngineRow
  <2>5. engine'[proc.task] = r /\ \A t \in Tasks \ {proc.task} : engine'[t] = engine[t]
    BY <1>1, <2>3
  <2>6. e.stage = "engineer" /\ Running = {} /\ CheckpointsOf(proc.task) # {} /\ e.completed < Cardinality(Succeeded(proc.task))
    BY <1>1 DEF RunStep, RunInv, PlanInv, BackedInv, InDispatch
  <2>7. Attempts' = Attempts /\ Running' = {}
    BY <1>1, <2>6 DEF Attempts, Running
  <2>8. ~InDispatch'
    BY <2>1 DEF InDispatch
  <2>9. ASSUME NEW t \in Tasks, engine[t].stage = "done" PROVE engine'[t].stage = "done"
    BY <2>5, <2>6, <2>9
  <2>10. PlanInv'
    BY <1>1, <1>3, <2>1, <2>7, <2>8, <2>9, PlanGoesOn
  <2>11. ASSUME NEW t \in Tasks
         PROVE  /\ engine'[t].completed <= Cardinality(Succeeded(t)')
                /\ engine'[t].stage # "engineer" => CheckpointsOf(t)' # {}
    <3>1. CASE t # proc.task
      BY <2>5, <3>1, CompletionGoesOn
    <3>2. CASE t = proc.task
      <4>1. Succeeded(t)' = Succeeded(t) /\ CheckpointsOf(t)' = CheckpointsOf(t)
        BY <1>1 DEF Succeeded, CheckpointsOf, Attempts
      <4>2. Cardinality(Succeeded(t)) \in Nat /\ e.completed \in Nat
        BY <1>1, SucceededFinite DEF RunStep, RunInv, EngineRow
      <4> QED BY <2>4, <2>5, <2>6, <3>2, <4>1, <4>2
    <3> QED BY <3>1, <3>2
  <2>12. CompletionBacked'
    BY <2>11 DEF CompletionBacked
  <2>13. BackedInv'
    BY <2>1, <2>12 DEF BackedInv
  <2> QED BY <2>10, <2>13 DEF RunKept
<1> QED BY <1>2, <1>3 DEF EngineRecords

LEMMA FinishRun == RunStep /\ Finish => RunKept
<1> SUFFICES ASSUME RunStep, Finish PROVE RunKept
  OBVIOUS
<1>1. UNCHANGED <<attempts, checkpoints, engine>> /\ proc' = Idle /\ run \in RunRow
  BY DEF Finish, RunStep, RunInv, IInv, TypeInv, TypeOK
<1>2. run'.status = StatusOf(proc.exit)
  BY <1>1 DEF Finish, SetRun, RunRow
<1>3. run'.status = "COMPLETED" => AllDone
  BY <1>2 DEF StatusOf
<1>4. proc'.pc = "down" /\ proc'.task = 0
  BY <1>1, IdleProcess
<1>5. PlanInv'
  BY <1>1, <1>3, <1>4 DEF RunStep, RunInv, PlanInv, InDispatch, Attempts, Running, DepsDone, AllDone
<1>6. BackedInv'
  BY <1>1, <1>4, BackedGoesOn
<1> QED BY <1>5, <1>6 DEF RunKept

LEMMA EveryStepRuns == RunStep /\ [Next]_vars => RunKept
BY StartRun, ReconcileRun, AdoptRun, OpenBoundaryRun, ReopenRun, OpenRefusedRun, SettleRun, PickRun, StopBeforeRun,
   VerifyRun, FreezeRun, BeginTaskRun, AgentReturnsRun, TakeUnconsumedRun, CompleteWithoutChangeRun,
   CheckpointRefusedRun, CommitWorkRun, RecordCheckpointRun, EngineRecordsRun, FinishRun, CrashRun, WorldRun, Zenon
   DEF Next, Drive, World

LEMMA InitRun == Init => PlanInv /\ BackedInv
<1> SUFFICES ASSUME Init PROVE PlanInv /\ BackedInv
  OBVIOUS
<1>1. /\ proc.pc = "down" /\ proc.task = 0 /\ Attempts = {} /\ run.status = "REGISTERED"
      /\ \A t \in Tasks : engine[t].stage = "engineer" /\ engine[t].completed = 0
  BY IdleProcess DEF Init, Attempts
<1>2. PlanInv
  BY <1>1 DEF PlanInv, InDispatch, Running
<1>3. ASSUME NEW t \in Tasks PROVE 0 <= Cardinality(Succeeded(t))
  BY InitInv, SucceededFinite
<1>4. BackedInv
  BY <1>1, <1>3 DEF BackedInv, CompletionBacked
<1> QED BY <1>2, <1>4

LEMMA RunInductive == Spec => []RunInv
<1>1. Init => RunInv
  BY InitInv, InitRun DEF RunInv
<1>2. RunInv /\ [Next]_vars => RunInv'
  <2>1. IInv /\ [Next]_vars => IInv'
    BY EveryStepKeeps, NextTypes, LogKeeps DEF IInv, Keeps
  <2> QED BY <2>1, EveryStepKeeps, EveryStepRuns DEF RunInv, RunStep, RunKept
<1> QED BY <1>1, <1>2, PTL DEF Spec

\* The Target is written for a task only once every task it depends on is done, in whatever invocation, however
\* many died before it (runTasks, TaskRegistry.waitingOn).
THEOREM DependenciesFirstHolds == Spec => []DependenciesFirst
<1>1. RunInv => DependenciesFirst
  BY DEF RunInv, PlanInv, DependenciesFirst, DepsDone
<1> QED BY <1>1, RunInductive, PTL

\* The engine never counts more completed engineer stages than the ledger has successes, and a task is past its
\* engineer stage only with a checkpoint of its own (unconsumedCheckpoint, reportCompletion).
THEOREM CompletionBackedHolds == Spec => []CompletionBacked
<1>1. RunInv => CompletionBacked
  BY DEF RunInv, BackedInv
<1> QED BY <1>1, RunInductive, PTL

-----------------------------------------------------------------------------
(* Git and the ledger *)

BeforeCommit == {"inner", "accept", "nochange"}
Positions == 1 .. Len(repo.log)
Sha(i) == repo.log[i].sha

\* a commit on the run branch is an attempt's that has begun; above one that is not known there are only a person's
GitInv ==
    /\ \A i \in Positions : Sha(i) > 0 => Sha(i) \in Attempts /\ attempts[Sha(i)].status # "FROZEN"
    /\ \A i, j \in Positions : i < j /\ Sha(i) > 0 /\ Sha(i) \notin Known => Sha(j) < 0
    /\ proc.pc \in BeforeCommit => \A i \in Positions : Sha(i) # proc.attempt

\* a commit the ledger does not know and no RUNNING attempt owns
Stranded(i) == Sha(i) > 0 /\ Sha(i) \notin Known /\ attempts[Sha(i)].status # "RUNNING"

\* no attempt is RUNNING, and the Target is not held but by a process about to end
Outside ==
    /\ Running = {}
    /\ proc.pc \in {"down", "reconcile", "pick", "drive", "open", "finish"}
    /\ proc.session => proc.pc = "finish"
    /\ proc.pc = "open" => proc.task # 0

\* the run branch has a commit only once it exists; only a checkpoint that throws after its commit strands it,
\* and from then on the run stays outside its Target, the commit's task at its engineer stage
StrandInv ==
    /\ repo.branch = "run" \/ Positions # {} => repo.created
    /\ \A i \in Positions : Stranded(i) =>
          attempts[Sha(i)].status = "FAILED" /\ Outside /\ engine[attempts[Sha(i)].task].stage = "engineer"

GitStep == RunStep /\ GitInv /\ StrandInv

LEMMA GitTypes ==
    ASSUME GitStep
    PROVE  /\ repo.log \in Seq(Commit) /\ Len(repo.log) \in Nat /\ \A i \in Positions : Sha(i) \in Int
           /\ attempts \in Seq(AttemptRow) /\ proc \in Process
           /\ Attempts \subseteq Attempts' /\ Known \subseteq Known'
<1>1. repo.log \in Seq(Commit) /\ attempts \in Seq(AttemptRow) /\ proc \in Process
  BY DEF GitStep, RunStep, RunInv, IInv, TypeInv, TypeOK, Repository
<1>2. ASSUME NEW i \in Positions PROVE Sha(i) \in Int
  <2>1. repo.log[i] \in Commit
    BY <1>1 DEF Positions
  <2> QED BY <2>1 DEF Commit, Sha
<1>3. Attempts \subseteq Attempts' /\ Known \subseteq Known'
  BY LogGrows DEF GitStep, RunStep, RunInv, Keeps
<1> QED BY <1>1, <1>2, <1>3

\* neither the run branch nor an attempt changes, and no attempt begins
LEMMA GitRests ==
    ASSUME GitStep, UNCHANGED <<repo.log, attempts>>,
           proc'.pc \in BeforeCommit => proc.pc \in BeforeCommit /\ proc'.attempt = proc.attempt
    PROVE  GitInv'
<1>1. Known \subseteq Known'
  BY GitTypes
<1>2. Positions' = Positions /\ Attempts' = Attempts /\ \A i \in Positions : Sha(i)' = Sha(i)
  BY DEF Positions, Attempts, Sha
<1>3. (\A i \in Positions : Sha(i) > 0 => Sha(i) \in Attempts /\ attempts[Sha(i)].status # "FROZEN")'
  BY <1>1, <1>2 DEF GitStep, GitInv
<1>4. (\A i, j \in Positions : i < j /\ Sha(i) > 0 /\ Sha(i) \notin Known => Sha(j) < 0)'
  BY <1>1, <1>2 DEF GitStep, GitInv
<1>5. (proc.pc \in BeforeCommit => \A i \in Positions : Sha(i) # proc.attempt)'
  BY <1>2 DEF GitStep, GitInv
<1> QED BY <1>3, <1>4, <1>5 DEF GitInv

\* one attempt moves on
LEMMA GitSets ==
    ASSUME GitStep, UNCHANGED repo.log, NEW a \in Attempts, NEW s \in AttemptStatuses \ {"FROZEN"}, SetAttempt(a, s),
           proc'.pc \in BeforeCommit => proc'.attempt = a /\ \A i \in Positions : Sha(i) # a
    PROVE  GitInv'
<1>1. Known \subseteq Known' /\ attempts \in Seq(AttemptRow)
  BY GitTypes
<1>2. /\ Len(attempts') = Len(attempts)
      /\ \A b \in Attempts : b # a => attempts'[b] = attempts[b]
      /\ attempts'[a] = [attempts[a] EXCEPT !.status = s]
  BY <1>1, SetAttemptKeeps
<1>3. attempts'[a].status = s
  <2>1. attempts[a] \in AttemptRow
    BY <1>1 DEF Attempts
  <2> QED BY <1>2, <2>1 DEF AttemptRow
<1>4. Positions' = Positions /\ Attempts' = Attempts /\ \A i \in Positions : Sha(i)' = Sha(i)
  BY <1>2 DEF Positions, Attempts, Sha
<1>5. (\A i \in Positions : Sha(i) > 0 => Sha(i) \in Attempts /\ attempts[Sha(i)].status # "FROZEN")'
  <2> SUFFICES ASSUME NEW i \in Positions, Sha(i) > 0
               PROVE  Sha(i) \in Attempts /\ attempts'[Sha(i)].status # "FROZEN"
    BY <1>4
  <2>1. Sha(i) \in Attempts /\ attempts[Sha(i)].status # "FROZEN"
    BY DEF GitStep, GitInv
  <2>2. CASE Sha(i) = a
    BY <1>3, <2>1, <2>2
  <2>3. CASE Sha(i) # a
    BY <1>2, <2>1, <2>3
  <2> QED BY <2>2, <2>3
<1>6. (\A i, j \in Positions : i < j /\ Sha(i) > 0 /\ Sha(i) \notin Known => Sha(j) < 0)'
  BY <1>1, <1>4 DEF GitStep, GitInv
<1>7. (proc.pc \in BeforeCommit => \A i \in Positions : Sha(i) # proc.attempt)'
  BY <1>4
<1> QED BY <1>5, <1>6, <1>7 DEF GitInv

\* a commit lands on the run branch: the RUNNING attempt's first one, or a person's
LEMMA GitAppends ==
    ASSUME GitStep, UNCHANGED checkpoints, Attempts' = Attempts,
           \A a \in Attempts : attempts[a].status # "FROZEN" => attempts'[a].status # "FROZEN",
           NEW c \in Commit, repo'.log = Append(repo.log, c),
           \/ c.sha < 0
           \/ /\ c.sha \in Attempts /\ attempts[c.sha].status = "RUNNING"
              /\ \A i \in Positions : Sha(i) # c.sha /\ ~Stranded(i),
           proc'.pc \in BeforeCommit => c.sha < 0 /\ proc.pc \in BeforeCommit /\ proc'.attempt = proc.attempt
    PROVE  GitInv'
<1>1. /\ repo.log \in Seq(Commit) /\ Len(repo.log) \in Nat /\ (\A i \in Positions : Sha(i) \in Int)
      /\ c.sha \in Int /\ proc \in Process
  BY GitTypes DEF Commit
<1>2. PICK n \in Nat : n = Len(repo.log) + 1
  BY <1>1
<1>3. /\ Positions' = Positions \cup {n} /\ Sha(n)' = c.sha /\ \A i \in Positions : Sha(i)' = Sha(i)
      /\ \A i \in Positions : i < n
  <2>1. /\ Len(repo'.log) = n /\ repo'.log[n] = c
        /\ \A i \in 1 .. Len(repo.log) : repo'.log[i] = repo.log[i]
    BY <1>1, <1>2, AppendProperties
  <2>2. Positions' = 1 .. n /\ Positions = 1 .. n - 1
    BY <1>1, <1>2, <2>1 DEF Positions
  <2>3. Sha(n)' = c.sha
    BY <2>1 DEF Sha
  <2>4. ASSUME NEW i \in Positions PROVE Sha(i)' = Sha(i)
    BY <2>1, <2>4 DEF Sha, Positions
  <2> QED BY <1>2, <2>2, <2>3, <2>4
<1>4. Known' = Known
  BY DEF Known
<1>5. (\A i \in Positions : Sha(i) > 0 => Sha(i) \in Attempts /\ attempts[Sha(i)].status # "FROZEN")'
  <2> SUFFICES ASSUME NEW i \in Positions', Sha(i)' > 0
               PROVE  Sha(i)' \in Attempts /\ attempts'[Sha(i)'].status # "FROZEN"
    BY <1>4
  <2>1. CASE i \in Positions
    BY <1>3, <2>1 DEF GitStep, GitInv
  <2>2. CASE i = n
    BY <1>1, <1>3, <2>2
  <2> QED BY <1>3, <2>1, <2>2
<1>6. ASSUME NEW i \in Positions, Sha(i) > 0, Sha(i) \notin Known PROVE c.sha < 0
  <2> SUFFICES ASSUME ~(c.sha < 0) PROVE FALSE
    OBVIOUS
  <2>1. /\ c.sha \in Attempts /\ attempts[c.sha].status = "RUNNING"
        /\ Sha(i) # c.sha /\ Sha(i) \in Attempts /\ attempts[Sha(i)].status = "RUNNING"
    BY <1>6 DEF GitStep, GitInv, Stranded
  <2> QED BY <2>1 DEF Attempts, GitStep, RunStep, RunInv, IInv, LP!LogInv, LP!OneRunning, LP!Is, LP!Attempts
<1>7. (\A i, j \in Positions : i < j /\ Sha(i) > 0 /\ Sha(i) \notin Known => Sha(j) < 0)'
  <2> SUFFICES ASSUME NEW i \in Positions', NEW j \in Positions', i < j, Sha(i)' > 0, Sha(i)' \notin Known
               PROVE  Sha(j)' < 0
    BY <1>4
  <2>1. i \in Positions
    BY <1>1, <1>3 DEF Positions
  <2>2. CASE j = n
    BY <1>3, <1>6, <2>1, <2>2
  <2>3. CASE j # n
    BY <1>3, <2>1, <2>3 DEF GitStep, GitInv
  <2> QED BY <2>2, <2>3
<1>8. (proc.pc \in BeforeCommit => \A i \in Positions : Sha(i) # proc.attempt)'
  <2> SUFFICES ASSUME proc'.pc \in BeforeCommit, NEW i \in Positions' PROVE Sha(i)' # proc'.attempt
    OBVIOUS
  <2>1. proc'.attempt = proc.attempt /\ proc.attempt \in Nat /\ c.sha < 0 /\ \A k \in Positions : Sha(k) # proc.attempt
    BY <1>1 DEF Process, GitStep, GitInv
  <2> QED BY <1>1, <1>3, <2>1
<1> QED BY <1>5, <1>7, <1>8 DEF GitInv

LEMMA StopOutside ==
    ASSUME GitStep, (\E kind \in ExitKinds : Stop(kind) \/ StopFreed(kind)) \/ Halts \/ proc' = Idle
    PROVE  proc'.pc \notin BeforeCommit
<1>1. proc' = Idle => proc'.pc = "down"
  BY IdleProcess
<1>2. (\E kind \in ExitKinds : Stop(kind) \/ StopFreed(kind)) \/ Halts => proc'.pc \in Resting
  BY StopRests DEF GitStep, RunStep, RunInv
<1> QED BY <1>1, <1>2 DEF BeforeCommit, Resting

LEMMA GotoOutside ==
    ASSUME GitStep, NEW step \in Steps \ BeforeCommit, Goto(step)
    PROVE  proc'.pc \notin BeforeCommit
BY GotoProcess, GitTypes

\* the session's steps and the drive's, none of which writes an attempt
LEMMA OpeningGit == GitStep /\ (Start \/ Reconcile \/ Adopt \/ Isolate \/ OpenBoundary \/ Reopen \/ OpenRefused) => GitInv'
<1> SUFFICES ASSUME GitStep, Start \/ Reconcile \/ Adopt \/ Isolate \/ OpenBoundary \/ Reopen \/ OpenRefused
             PROVE  GitInv'
  OBVIOUS
<1>1. proc \in Process /\ repo \in Repository
  BY DEF GitStep, RunStep, RunInv, IInv, TypeInv, TypeOK
<1>2. UNCHANGED <<repo.log, attempts>>
  BY <1>1 DEF Start, Reconcile, Adopt, Isolate, OpenBoundary, Reopen, OpenRefused, Repository
<1>3. CASE \E step \in {"reconcile", "pick", "isolated"} : Goto(step)
  BY <1>2, <1>3, GotoOutside, GitRests DEF Steps, BeforeCommit
<1>4. CASE (\E kind \in ExitKinds : Stop(kind)) \/ Halts
  BY <1>2, <1>4, StopOutside, GitRests
<1>5. CASE \E a : proc' = [proc EXCEPT !.attempt = a, !.pc = "open"]
  <2>1. proc'.pc = "open"
    BY <1>1, <1>5 DEF Process
  <2> QED BY <1>2, <2>1, GitRests DEF BeforeCommit
<1>6. CASE \E a \in Nat : proc' = Opened(a)
  <2>1. proc'.pc \in {"settle", "begin"}
    BY <1>1, <1>6, OpenedProcess
  <2> QED BY <1>2, <2>1, GitRests DEF BeforeCommit
<1>7. Reopen \/ OpenBoundary => \E a \in Nat : proc' = Opened(a)
  BY DEF Reopen, OpenBoundary, Running, Attempts
<1> QED BY <1>3, <1>4, <1>5, <1>6, <1>7 DEF Start, Reconcile, Adopt, Isolate, OpenRefused, ExitKinds

LEMMA DrivingGit ==
    GitStep /\ (Pick \/ StopBefore \/ Verify \/ TakeUnconsumed \/ EngineRecords \/ Finish \/ Crash \/ CrashLeavingAgent)
    => GitInv'
<1> SUFFICES ASSUME GitStep, \/ Pick \/ StopBefore \/ Verify \/ TakeUnconsumed \/ EngineRecords \/ Finish
                             \/ Crash \/ CrashLeavingAgent
             PROVE  GitInv'
  OBVIOUS
<1>1. proc \in Process
  BY GitTypes
<1>2. UNCHANGED <<repo.log, attempts>>
  BY DEF Pick, StopBefore, Verify, TakeUnconsumed, EngineRecords, Finish, Crash, CrashLeavingAgent
<1>3. CASE Pick
  <2>1. proc'.pc \in {"drive", "finish"}
    BY <1>1, <1>3 DEF Pick, Process
  <2> QED BY <1>2, <2>1, GitRests DEF BeforeCommit
<1>4. CASE Goto("drive")
  BY <1>2, <1>4, GotoOutside, GitRests DEF Steps, BeforeCommit
<1>5. CASE (\E kind \in ExitKinds : Stop(kind)) \/ Halts \/ proc' = Idle
  BY <1>2, <1>5, StopOutside, GitRests
<1>6. CASE TakeUnconsumed
  <2>1. proc.pc = "accept" /\ proc'.attempt = proc.attempt
    BY <1>1, <1>6, GotoProcess DEF TakeUnconsumed, At, Steps
  <2> QED BY <1>2, <2>1, GitRests DEF BeforeCommit
<1>7. CASE proc' = [proc EXCEPT !.attempt = 0, !.pc = "drive"]
  <2>1. proc'.pc = "drive"
    BY <1>1, <1>7 DEF Process
  <2> QED BY <1>2, <2>1, GitRests DEF BeforeCommit
<1>8. StopBefore => \E kind \in ExitKinds : Stop(kind)
  BY DEF StopBefore, ExitKinds
<1>9. Verify => Goto("drive") \/ \E kind \in ExitKinds : Stop(kind)
  BY DEF Verify, ExitKinds
<1>10. EngineRecords => \/ proc' = [proc EXCEPT !.attempt = 0, !.pc = "drive"]
                        \/ (\E kind \in ExitKinds : Stop(kind)) \/ Halts
  BY DEF EngineRecords, ExitKinds
<1> QED BY <1>3, <1>4, <1>5, <1>6, <1>7, <1>8, <1>9, <1>10 DEF Finish, Crash, CrashLeavingAgent

LEMMA FreezeGit == GitStep /\ Freeze => GitInv'
<1> SUFFICES ASSUME GitStep, Freeze PROVE GitInv'
  OBVIOUS
<1>1. UNCHANGED <<repo, checkpoints>> /\ proc \in Process /\ attempts \in Seq(AttemptRow) /\ proc.task \in Tasks
  BY DEF Freeze, Due, At, GitStep, RunStep, RunInv, IInv, TypeInv, TypeOK, PcInv, Driving
<1>2. CASE Stop("STALLED") /\ UNCHANGED attempts
  <2>1. \E kind \in ExitKinds : Stop(kind)
    BY <1>2 DEF ExitKinds
  <2> QED BY <1>1, <1>2, <2>1, StopOutside, GitRests
<1>3. CASE /\ attempts' = Append(attempts, [task |-> proc.task, status |-> "FROZEN"])
           /\ proc' = [proc EXCEPT !.attempt = Len(attempts) + 1,
                                   !.pc = IF proc.session THEN "begin" ELSE "open"]
  <2>1. proc'.pc \in {"begin", "open"}
    BY <1>1, <1>3 DEF Process
  <2>2. [task |-> proc.task, status |-> "FROZEN"] \in AttemptRow
    BY <1>1 DEF AttemptRow, AttemptStatuses
  <2>3. /\ Len(attempts') = Len(attempts) + 1 /\ Len(attempts) \in Nat
        /\ \A a \in 1 .. Len(attempts) : attempts'[a] = attempts[a]
    BY <1>1, <1>3, <2>2, AppendProperties
  <2>4. Attempts \subseteq Attempts' /\ \A a \in Attempts : attempts'[a] = attempts[a]
    BY <2>3 DEF Attempts
  <2>5. Positions' = Positions /\ Known' = Known /\ \A i \in Positions : Sha(i)' = Sha(i)
    BY <1>1 DEF Positions, Known, Sha
  <2>6. (\A i \in Positions : Sha(i) > 0 => Sha(i) \in Attempts /\ attempts[Sha(i)].status # "FROZEN")'
    BY <2>4, <2>5 DEF GitStep, GitInv
  <2>7. (\A i, j \in Positions : i < j /\ Sha(i) > 0 /\ Sha(i) \notin Known => Sha(j) < 0)'
    BY <2>5 DEF GitStep, GitInv
  <2> QED BY <2>1, <2>6, <2>7 DEF GitInv, BeforeCommit
<1> QED BY <1>2, <1>3 DEF Freeze

\* the commit a recorded checkpoint names is known
LEMMA RecordedKnown ==
    ASSUME GitStep, NEW a \in Attempts, NEW t \in Tasks,
           checkpoints' = Append(checkpoints, [task |-> t, attempt |-> a, sha |-> a])
    PROVE  a \in Known'
<1> DEFINE c == [task |-> t, attempt |-> a, sha |-> a]
<1>1. checkpoints \in Seq(CheckpointRow) /\ a \in Nat /\ a \in Int
  BY DEF Attempts, GitStep, RunStep, RunInv, IInv, TypeInv, TypeOK
<1>2. c \in CheckpointRow /\ c.sha = a
  BY <1>1 DEF CheckpointRow
<1> HIDE DEF c
<1>3. checkpoints' = Append(checkpoints, c)
  BY DEF c
<1>4. /\ Len(checkpoints') = Len(checkpoints) + 1 /\ Len(checkpoints) \in Nat
      /\ checkpoints'[Len(checkpoints) + 1] = c
  BY <1>1, <1>2, <1>3, AppendProperties
<1>5. Len(checkpoints) + 1 \in 1 .. Len(checkpoints') /\ checkpoints'[Len(checkpoints) + 1].sha = a
  BY <1>2, <1>4
<1> QED BY <1>5 DEF Known

LEMMA ReattributeGit == GitStep /\ Reattribute => GitInv'
<1> SUFFICES ASSUME GitStep, Reattribute PROVE GitInv'
  OBVIOUS
<1>1. UNCHANGED repo /\ proc.pc = "settle" /\ proc \in Process /\ attempts \in Seq(AttemptRow)
  BY GitTypes DEF Reattribute, At
<1>2. proc.attempt \in Attempts
  BY <1>1, HeldHere DEF Interrupted, GitStep
<1>3. CASE Halts /\ UNCHANGED attempts
  BY <1>1, <1>3, StopOutside, GitRests
<1>4. CASE /\ HeadOwnedBy(proc.attempt) /\ checkpoints' = Checkpointed(proc.attempt) /\ SetAttempt(proc.attempt, "SUCCEEDED")
           /\ proc' = [proc EXCEPT !.pending = 0, !.active = 0, !.attempt = 0, !.pc = "pick"]
  <2>1. proc'.pc = "pick"
    BY <1>1, <1>4 DEF Process
  <2>2. "SUCCEEDED" \in AttemptStatuses \ {"FROZEN"}
    BY DEF AttemptStatuses
  <2> QED BY <1>1, <1>2, <1>4, <2>1, <2>2, GitSets DEF BeforeCommit
<1> QED BY <1>3, <1>4 DEF Reattribute

\* what HEAD is, where the run branch is checked out
LEMMA HeadOfRun ==
    ASSUME GitStep, repo.branch = "run"
    PROVE  \/ Positions = {} /\ HeadSha = Base
           \/ Len(repo.log) \in Positions /\ HeadSha = Sha(Len(repo.log))
<1>1. repo.log \in Seq(Commit) /\ Len(repo.log) \in Nat /\ HeadSha = HeadOf(repo.log)
  BY GitTypes DEF HeadSha
<1>2. CASE repo.log = <<>>
  BY <1>1, <1>2 DEF HeadOf, Positions
<1>3. CASE repo.log # <<>>
  BY <1>1, <1>3 DEF HeadOf, Positions, Sha
<1> QED BY <1>2, <1>3

\* what is recorded is a commit of an attempt
LEMMA KnownNatural == IInv => \A s \in Known : s >= 0
<1> SUFFICES ASSUME IInv, NEW s \in Known PROVE s >= 0
  OBVIOUS
<1>1. CASE s = Base
  BY <1>1 DEF Base
<1>2. CASE \E i \in 1 .. Len(checkpoints) : s = checkpoints[i].sha
  <2>1. PICK i \in 1 .. Len(checkpoints) : s = checkpoints[i].sha
    BY <1>2
  <2>2. checkpoints[i].attempt \in Attempts /\ checkpoints[i].sha = checkpoints[i].attempt
    BY DEF IInv, LP!LogInv, LP!RecordedOnce, LP!Attempts, Attempts
  <2> QED BY <2>1, <2>2 DEF Attempts
<1> QED BY <1>1, <1>2 DEF Known

LEMMA AbandonGit == GitStep /\ Abandon => GitInv'
<1> SUFFICES ASSUME GitStep, Abandon PROVE GitInv'
  OBVIOUS
<1>1. UNCHANGED <<repo, checkpoints>> /\ proc.pc = "settle" /\ proc \in Process
  BY GitTypes DEF Abandon, At
<1>2. proc.attempt \in Attempts
  BY <1>1, HeldHere DEF Interrupted, GitStep
<1>3. CASE Halts /\ UNCHANGED attempts
  BY <1>1, <1>3, StopOutside, GitRests
<1>4. CASE SetAttempt(proc.attempt, "ABANDONED") /\ proc' = [proc EXCEPT !.attempt = 0, !.pc = "pick"]
  <2>1. proc'.pc = "pick"
    BY <1>1, <1>4 DEF Process
  <2>2. "ABANDONED" \in AttemptStatuses \ {"FROZEN"}
    BY DEF AttemptStatuses
  <2> QED BY <1>1, <1>2, <1>4, <2>1, <2>2, GitSets DEF BeforeCommit
<1> QED BY <1>3, <1>4 DEF Abandon

LEMMA BeginTaskGit == GitStep /\ BeginTask => GitInv'
<1> SUFFICES ASSUME GitStep, BeginTask PROVE GitInv'
  OBVIOUS
<1> DEFINE a == proc.attempt
<1>1. UNCHANGED <<repo, checkpoints>> /\ proc.pc = "begin" /\ proc \in Process
  BY GitTypes DEF BeginTask, At
<1>2. a \in Attempts /\ attempts[a] = [task |-> proc.task, status |-> "FROZEN"]
  BY <1>1, HeldHere DEF Dispatched, GitStep, RunStep, RunInv, IInv, SlotInv
<1>3. CASE Stop("STALLED") /\ UNCHANGED attempts
  <2>1. \E kind \in ExitKinds : Stop(kind)
    BY <1>3 DEF ExitKinds
  <2> QED BY <1>1, <1>3, <2>1, StopOutside, GitRests
<1>4. CASE SetAttempt(a, "RUNNING") /\ proc' = [proc EXCEPT !.active = proc.attempt, !.pc = "inner"]
  <2>1. proc'.attempt = a
    BY <1>1, <1>4 DEF Process
  <2>2. attempts[a].status = "FROZEN" /\ a > 0
    BY <1>2 DEF Attempts
  <2>3. \A i \in Positions : Sha(i) # a
    BY <2>2 DEF GitStep, GitInv
  <2>4. "RUNNING" \in AttemptStatuses \ {"FROZEN"}
    BY DEF AttemptStatuses
  <2>5. UNCHANGED repo.log
    BY <1>1
  <2> HIDE DEF a
  <2> QED BY <1>2, <1>4, <2>1, <2>3, <2>4, <2>5, GitSets
<1> QED BY <1>3, <1>4 DEF BeginTask

\* an attempt that has not committed ends
LEMMA EndsGit ==
    ASSUME GitStep, UNCHANGED repo, proc.pc \in BeforeCommit,
           NEW s \in AttemptStatuses \ {"FROZEN"}, SetAttempt(proc.attempt, s), proc'.pc \notin BeforeCommit
    PROVE  GitInv'
<1>1. proc.attempt \in Attempts
  BY HeldHere DEF BeforeCommit, Working, GitStep
<1>2. \A i \in Positions : Sha(i) # proc.attempt
  BY DEF GitStep, GitInv
<1> QED BY <1>1, <1>2, GitSets

LEMMA AgentReturnsGit == GitStep /\ AgentReturns => GitInv'
<1> SUFFICES ASSUME GitStep, AgentReturns PROVE GitInv'
  OBVIOUS
<1>1. UNCHANGED repo /\ proc.pc = "inner" /\ proc.pc \in BeforeCommit
  BY DEF AgentReturns, At, BeforeCommit
<1>2. CASE Goto("accept") /\ UNCHANGED attempts
  <2>1. proc'.attempt = proc.attempt
    BY <1>2, GotoProcess, GitTypes DEF Steps
  <2> QED BY <1>1, <1>2, <2>1, GitRests
<1>3. CASE ~(Goto("accept") /\ UNCHANGED attempts)
  <2>1. PICK s \in {"FAILED", "UNAVAILABLE", "ABANDONED"} : SetAttempt(proc.attempt, s)
    BY <1>3 DEF AgentReturns
  <2>2. proc'.pc \notin BeforeCommit
    <3>1. (\E kind \in ExitKinds : StopFreed(kind)) \/ Halts
      BY <1>3 DEF AgentReturns, ExitKinds
    <3> QED BY <3>1, StopOutside
  <2>3. s \in AttemptStatuses \ {"FROZEN"}
    BY DEF AttemptStatuses
  <2> QED BY <1>1, <2>1, <2>2, <2>3, EndsGit
<1> QED BY <1>2, <1>3

LEMMA CompleteWithoutChangeGit == GitStep /\ CompleteWithoutChange => GitInv'
<1> SUFFICES ASSUME GitStep, CompleteWithoutChange PROVE GitInv'
  OBVIOUS
<1>1. UNCHANGED repo /\ proc.pc \in BeforeCommit /\ proc \in Process
  BY GitTypes DEF CompleteWithoutChange, At, BeforeCommit
<1>2. CASE Stop("STALLED") /\ UNCHANGED attempts
  <2>1. \E kind \in ExitKinds : Stop(kind)
    BY <1>2 DEF ExitKinds
  <2> QED BY <1>1, <1>2, <2>1, StopOutside, GitRests
<1>3. CASE SetAttempt(proc.attempt, "SUCCEEDED") /\ proc' = [proc EXCEPT !.active = 0, !.pc = "engine"]
  <2>1. proc'.pc = "engine" /\ "SUCCEEDED" \in AttemptStatuses \ {"FROZEN"}
    BY <1>1, <1>3 DEF Process, AttemptStatuses
  <2>2. proc'.pc \notin BeforeCommit
    BY <2>1 DEF BeforeCommit
  <2> QED BY <1>1, <1>3, <2>1, <2>2, EndsGit
<1> QED BY <1>2, <1>3 DEF CompleteWithoutChange

LEMMA CheckpointRefusedGit == GitStep /\ CheckpointRefused => GitInv'
<1> SUFFICES ASSUME GitStep, CheckpointRefused PROVE GitInv'
  OBVIOUS
<1>1. /\ UNCHANGED repo /\ proc.pc \in BeforeCommit /\ "FAILED" \in AttemptStatuses \ {"FROZEN"}
      /\ \E kind \in ExitKinds : StopFreed(kind)
  BY DEF CheckpointRefused, At, BeforeCommit, AttemptStatuses, ExitKinds
<1>2. proc'.pc \notin BeforeCommit
  BY <1>1, StopOutside
<1> QED BY <1>1, <1>2, EndsGit DEF CheckpointRefused

\* what a commit does to its attempt, where the checkpoint goes on and where it throws
LEMMA CommitEnds ==
    ASSUME GitStep, CommitWork
    PROVE  /\ UNCHANGED checkpoints /\ proc.pc = "accept" /\ repo \in Repository /\ proc \in Process
           /\ Attempts' = Attempts /\ proc.attempt \in Attempts
           /\ attempts[proc.attempt] = [task |-> proc.task, status |-> "RUNNING"]
           /\ \/ UNCHANGED attempts /\ proc'.pc = "committed"
              \/ /\ SetAttempt(proc.attempt, "FAILED") /\ StopFreed("STALLED")
                 /\ attempts'[proc.attempt] = [task |-> proc.task, status |-> "FAILED"]
                 /\ \A b \in Attempts : b # proc.attempt => attempts'[b] = attempts[b]
                 /\ proc'.pc = "finish"
<1>1. /\ UNCHANGED checkpoints /\ proc.pc = "accept" /\ repo \in Repository /\ proc \in Process
      /\ attempts \in Seq(AttemptRow)
  BY GitTypes DEF CommitWork, At, GitStep, RunStep, RunInv, IInv, TypeInv, TypeOK
<1>2. proc.attempt \in Attempts /\ attempts[proc.attempt] = [task |-> proc.task, status |-> "RUNNING"]
  BY <1>1, HeldHere DEF Working, GitStep, RunStep, RunInv, IInv, SlotInv
<1>3. CASE Goto("committed") /\ UNCHANGED attempts
  <2>1. proc'.pc = "committed"
    BY <1>1, <1>3, GotoProcess DEF Steps
  <2> QED BY <1>1, <1>2, <1>3, <2>1 DEF Attempts
<1>4. CASE SetAttempt(proc.attempt, "FAILED") /\ StopFreed("STALLED")
  <2>1. /\ Len(attempts') = Len(attempts)
        /\ \A b \in Attempts : b # proc.attempt => attempts'[b] = attempts[b]
        /\ attempts'[proc.attempt] = [attempts[proc.attempt] EXCEPT !.status = "FAILED"]
    <3>1. "FAILED" \in AttemptStatuses /\ SetAttempt(proc.attempt, "FAILED")
      BY <1>4 DEF AttemptStatuses
    <3> QED BY <1>1, <1>2, <3>1, SetAttemptKeeps
  <2>2. proc'.pc = "finish"
    BY <1>1, <1>4 DEF StopFreed, Stopped, Continues, Process
  <2> QED BY <1>1, <1>2, <1>4, <2>1, <2>2 DEF Attempts
<1> QED BY <1>3, <1>4 DEF CommitWork

LEMMA CommitWorkGit == GitStep /\ CommitWork => GitInv'
<1> SUFFICES ASSUME GitStep, CommitWork PROVE GitInv'
  OBVIOUS
<1> DEFINE c == [sha |-> proc.attempt, work |-> repo.dirt]
<1>1. /\ UNCHANGED checkpoints /\ proc.pc = "accept" /\ repo \in Repository /\ proc \in Process
      /\ Attempts' = Attempts /\ proc.attempt \in Attempts /\ attempts[proc.attempt].status = "RUNNING"
  BY CommitEnds
<1>2. /\ proc'.pc \notin BeforeCommit
      /\ \A a \in Attempts : attempts[a].status # "FROZEN" => attempts'[a].status # "FROZEN"
  BY CommitEnds DEF BeforeCommit
<1>3. CASE repo.branch = "run"
  <2>1. c \in Commit /\ c.sha = proc.attempt
    BY <1>1 DEF Commit, Process, Repository
  <2>2. repo'.log = Append(repo.log, c)
    BY <1>1, <1>3 DEF CommitWork, Committed, Repository
  <2>3. \A i \in Positions : Sha(i) # proc.attempt /\ ~Stranded(i)
    BY <1>1 DEF GitStep, GitInv, StrandInv, Outside, BeforeCommit
  <2> HIDE DEF c
  <2> QED BY <1>1, <1>2, <2>1, <2>2, <2>3, GitAppends
<1>4. CASE repo.branch # "run"
  <2>1. UNCHANGED repo.log
    BY <1>1, <1>4 DEF CommitWork, Committed, Repository
  <2>2. CASE UNCHANGED attempts
    BY <1>1, <1>2, <2>1, <2>2, GitRests
  <2>3. CASE SetAttempt(proc.attempt, "FAILED")
    BY <1>1, <1>2, <2>1, <2>3, GitSets DEF AttemptStatuses
  <2> QED BY <2>2, <2>3, CommitEnds
<1> QED BY <1>3, <1>4

LEMMA RecordCheckpointGit == GitStep /\ RecordCheckpoint => GitInv'
<1> SUFFICES ASSUME GitStep, RecordCheckpoint PROVE GitInv'
  OBVIOUS
<1>1. UNCHANGED repo /\ proc.pc = "committed" /\ proc \in Process
  BY GitTypes DEF RecordCheckpoint, At
<1>2. CASE Stop("STALLED") /\ UNCHANGED attempts
  <2>1. \E kind \in ExitKinds : Stop(kind)
    BY <1>2 DEF ExitKinds
  <2> QED BY <1>1, <1>2, <2>1, StopOutside, GitRests
<1>3. CASE Recorded
  <2>1. proc.attempt \in Attempts
    BY <1>1, HeldHere DEF Working, GitStep
  <2>2. proc'.pc = "engine" /\ SetAttempt(proc.attempt, "SUCCEEDED") /\ "SUCCEEDED" \in AttemptStatuses \ {"FROZEN"}
    BY <1>1, <1>3 DEF Recorded, Process, AttemptStatuses
  <2>3. UNCHANGED repo.log /\ proc'.pc \notin BeforeCommit
    BY <1>1, <2>2 DEF BeforeCommit
  <2> QED BY <2>1, <2>2, <2>3, GitSets
<1> QED BY <1>2, <1>3 DEF RecordCheckpoint

LEMMA WorldGit == GitStep /\ (AgentWrites \/ Orphan \/ PersonInRepo \/ PersonAnswers \/ UNCHANGED vars) => GitInv'
<1> SUFFICES ASSUME GitStep, AgentWrites \/ Orphan \/ PersonInRepo \/ PersonAnswers \/ UNCHANGED vars PROVE GitInv'
  OBVIOUS
<1>1. UNCHANGED <<attempts, checkpoints, proc>> /\ repo \in Repository /\ env \in Environment
  BY DEF AgentWrites, Orphan, PersonInRepo, PersonAnswers, vars, GitStep, RunStep, RunInv, IInv, TypeInv, TypeOK
<1>2. CASE UNCHANGED repo.log
  BY <1>1, <1>2, GitRests
<1>3. CASE PersonInRepo /\ repo' = PersonCommitted(env.person + 1) /\ repo.branch = "run"
  <2> DEFINE c == [sha |-> -(env.person + 1), work |-> repo.dirt]
  <2>1. -(env.person + 1) \in Int /\ -(env.person + 1) < 0
    BY <1>1, ConstantsAssumption DEF Environment
  <2>2. c \in Commit /\ c.sha < 0
    BY <1>1, <2>1 DEF Commit, Repository
  <2>3. repo'.log = Append(repo.log, c)
    BY <1>1, <1>3 DEF PersonCommitted, Repository
  <2>4. Attempts' = Attempts
    BY <1>1 DEF Attempts
  <2> HIDE DEF c
  <2> QED BY <1>1, <2>2, <2>3, <2>4, GitAppends
<1>4. CASE PersonInRepo /\ ~(repo' = PersonCommitted(env.person + 1) /\ repo.branch = "run")
  BY <1>1, <1>2, <1>4 DEF PersonInRepo, PersonCommitted, Repository
<1>5. AgentWrites \/ Orphan \/ PersonAnswers \/ UNCHANGED vars => UNCHANGED repo.log
  BY <1>1 DEF AgentWrites, Orphan, PersonAnswers, vars, Repository
<1> QED BY <1>2, <1>3, <1>4, <1>5

LEMMA EveryStepGit == GitStep /\ [Next]_vars => GitInv'
BY OpeningGit, DrivingGit, FreezeGit, ReattributeGit, AbandonGit, BeginTaskGit, AgentReturnsGit,
   CompleteWithoutChangeGit, CheckpointRefusedGit, CommitWorkGit, RecordCheckpointGit, WorldGit, Zenon
   DEF Next, Drive, World

-----------------------------------------------------------------------------
(* A commit the ledger never learns of *)

LEMMA BranchAppends ==
    ASSUME GitStep, NEW c \in Commit, repo'.log = Append(repo.log, c)
    PROVE  /\ Positions \subseteq Positions' /\ \A i \in Positions : Sha(i)' = Sha(i)
           /\ \A i \in Positions' \ Positions : Sha(i)' = c.sha
<1>1. PICK n \in Nat : n = Len(repo.log)
  BY GitTypes
<1>2. /\ Len(repo'.log) = n + 1 /\ repo'.log[n + 1] = c
      /\ \A i \in 1 .. n : repo'.log[i] = repo.log[i]
  BY <1>1, GitTypes, AppendProperties
<1>3. Positions = 1 .. n /\ Positions' = 1 .. n + 1
  BY <1>1, <1>2 DEF Positions
<1>4. \A i \in Positions : Sha(i)' = Sha(i)
  BY <1>2, <1>3 DEF Sha
<1>5. \A i \in Positions' \ Positions : i = n + 1
  BY <1>3
<1>6. Sha(n + 1)' = c.sha
  BY <1>2 DEF Sha
<1> QED BY <1>3, <1>4, <1>5, <1>6

LEMMA RepositoryWritten ==
    [Next]_vars => UNCHANGED repo \/ Isolate \/ CommitWork \/ AgentWrites \/ Orphan \/ PersonInRepo
BY DEF Next, Drive, World, Start, Crash, CrashLeavingAgent, PersonAnswers, vars, Reconcile, Adopt, OpenBoundary, Reopen,
       OpenRefused, Reattribute, Abandon, Pick, StopBefore, Verify, Freeze, BeginTask, AgentReturns, TakeUnconsumed,
       CompleteWithoutChange, CheckpointRefused, RecordCheckpoint, EngineRecords, Finish

\* the run branch keeps its commits; a new one is the person's, or the commit of the attempt at work
LEMMA BranchGrows ==
    ASSUME GitStep, [Next]_vars
    PROVE  /\ Positions \subseteq Positions' /\ \A i \in Positions : Sha(i)' = Sha(i)
           /\ \A i \in Positions' \ Positions : Sha(i)' < 0 \/ (CommitWork /\ Sha(i)' = proc.attempt)
<1>1. repo \in Repository /\ env \in Environment /\ proc \in Process
  BY DEF GitStep, RunStep, RunInv, IInv, TypeInv, TypeOK
<1>2. CASE UNCHANGED repo.log
  BY <1>2 DEF Positions, Sha
<1>3. CASE CommitWork /\ repo.branch = "run"
  <2> DEFINE c == [sha |-> proc.attempt, work |-> repo.dirt]
  <2>1. c \in Commit /\ c.sha = proc.attempt
    BY <1>1 DEF Commit, Process, Repository
  <2>2. repo'.log = Append(repo.log, c)
    BY <1>1, <1>3 DEF CommitWork, Committed, Repository
  <2> HIDE DEF c
  <2> QED BY <1>3, <2>1, <2>2, BranchAppends
<1>4. CASE PersonInRepo /\ repo' = PersonCommitted(env.person + 1) /\ repo.branch = "run"
  <2> DEFINE c == [sha |-> -(env.person + 1), work |-> repo.dirt]
  <2>1. -(env.person + 1) \in Int /\ -(env.person + 1) < 0
    BY <1>1, ConstantsAssumption DEF Environment
  <2>2. c \in Commit /\ c.sha < 0
    BY <1>1, <2>1 DEF Commit, Repository
  <2>3. repo'.log = Append(repo.log, c)
    BY <1>1, <1>4 DEF PersonCommitted, Repository
  <2> HIDE DEF c
  <2> QED BY <2>2, <2>3, BranchAppends
<1>5. CASE UNCHANGED repo
  BY <1>2, <1>5
<1>6. CASE Isolate \/ CommitWork \/ AgentWrites \/ Orphan \/ PersonInRepo
  BY <1>1, <1>2, <1>3, <1>4, <1>6 DEF Isolate, CommitWork, Committed, AgentWrites, Orphan, PersonInRepo, PersonCommitted,
                                       Repository
<1> QED BY <1>5, <1>6, RepositoryWritten

LEMMA PositionsAreCommits == GitStep => \A i \in Positions' : Sha(i)' \in Int
<1> SUFFICES ASSUME GitStep, NEW i \in Positions' PROVE Sha(i)' \in Int
  OBVIOUS
<1>1. repo'.log \in Seq(Commit) /\ i \in 1 .. Len(repo'.log)
  BY DEF GitStep, RunStep, IInv, TypeInv, TypeOK, Repository, Positions
<1>2. repo'.log[i] \in Commit
  BY <1>1
<1> QED BY <1>2 DEF Sha, Commit

\* where nothing but the commit of the attempt at work can land, a commit is an old one
LEMMA CommitsAreOld ==
    ASSUME GitStep, [Next]_vars, NEW i \in Positions', Sha(i)' > 0, ~CommitWork \/ Sha(i)' # proc.attempt
    PROVE  i \in Positions /\ Sha(i)' = Sha(i)
<1>1. Sha(i)' \in Int
  BY PositionsAreCommits
<1>2. ~(Sha(i)' < 0)
  BY <1>1
<1> QED BY <1>2, BranchGrows

\* the run branch is created before it is checked out or written
LEMMA BranchCreated ==
    ASSUME GitStep, [Next]_vars
    PROVE  repo'.branch = "run" \/ Positions' # {} => repo'.created
<1>1. repo \in Repository /\ (repo.branch = "run" \/ Positions # {} => repo.created)
  BY DEF GitStep, StrandInv, RunStep, RunInv, IInv, TypeInv, TypeOK
<1>2. CASE UNCHANGED repo.log
  <2>1. Positions' = Positions
    BY <1>2 DEF Positions
  <2>2. CASE UNCHANGED repo
    BY <1>1, <2>1, <2>2
  <2>3. CASE Isolate
    BY <1>1, <2>3 DEF Isolate, Repository
  <2>4. CASE CommitWork \/ AgentWrites \/ Orphan \/ PersonInRepo
    BY <1>1, <1>2, <2>1, <2>4 DEF CommitWork, Committed, AgentWrites, Orphan, PersonInRepo, PersonCommitted, Repository
  <2> QED BY <2>2, <2>3, <2>4, RepositoryWritten
<1>3. CASE repo'.log # repo.log
  <2>1. CommitWork \/ PersonInRepo
    BY <1>1, <1>3, RepositoryWritten DEF Isolate, AgentWrites, Orphan, Repository
  <2> QED BY <1>1, <1>3, <2>1 DEF CommitWork, Committed, PersonInRepo, PersonCommitted, Repository
<1> QED BY <1>2, <1>3

\* with a stranded commit on it, the run branch is no place a session opens at
LEMMA StrandedRefused ==
    ASSUME GitStep, NEW k \in Positions, Stranded(k)
    PROVE  ~CleanExactBranch /\ repo.created /\ ~(repo.branch = "run" /\ HeadSha \in Known)
<1>1. Outside /\ repo.created /\ Len(repo.log) \in Nat
  BY GitTypes DEF GitStep, StrandInv
<1>2. ASSUME repo.branch = "run", HeadSha \in Known PROVE FALSE
  <2>1. Len(repo.log) \in Positions /\ HeadSha = Sha(Len(repo.log)) /\ HeadSha >= 0 /\ HeadSha \in Int
    BY <1>2, HeadOfRun, KnownNatural, GitTypes DEF GitStep, RunStep, RunInv
  <2>2. k # Len(repo.log)
    BY <1>2, <2>1 DEF Stranded
  <2>3. k < Len(repo.log)
    BY <1>1, <2>2 DEF Positions
  <2>4. Sha(Len(repo.log)) < 0
    BY <2>1, <2>3 DEF GitStep, GitInv, Stranded
  <2> QED BY <2>1, <2>4
<1>3. Cardinality(Running) = 0
  BY <1>1, FS_EmptySet DEF Outside
<1> QED BY <1>1, <1>2, <1>3 DEF CleanExactBranch

\* a step that leaves a stranded commit as it is
StrandKept ==
    /\ Outside' /\ UNCHANGED checkpoints
    /\ \A a \in Attempts : a \in Attempts' /\ attempts'[a] = attempts[a]
    /\ \A t \in Tasks : engine[t].stage = "engineer" => engine'[t].stage = "engineer"

LEMMA StaysOutside ==
    ASSUME GitStep, Outside, UNCHANGED <<attempts, checkpoints>>,
           \A t \in Tasks : engine[t].stage = "engineer" => engine'[t].stage = "engineer",
           \/ UNCHANGED proc
           \/ proc'.pc \in {"down", "reconcile", "pick", "drive", "finish"} /\ proc'.session = FALSE
           \/ \E kind \in ExitKinds : Stop(kind) /\ proc.session = FALSE
    PROVE  StrandKept
<1>1. Running' = {} /\ Attempts' = Attempts /\ proc \in Process
  BY GitTypes DEF Outside, Running, Attempts
<1>2. ASSUME NEW kind \in ExitKinds, Stop(kind), proc.session = FALSE
      PROVE  proc'.pc \in {"pick", "finish"} /\ proc'.session = FALSE
  <2>1. proc'.pc \in {"pick", "finish"}
    BY <1>2, StopsWhere DEF GitStep, RunStep
  <2>2. proc'.session = FALSE
    BY <1>1, <1>2 DEF Stop, Stopped, Process
  <2> QED BY <2>1, <2>2
<1>3. Outside'
  BY <1>1, <1>2 DEF Outside
<1> QED BY <1>1, <1>3 DEF StrandKept

LEMMA FreezeStrands == GitStep /\ Outside /\ Freeze => StrandKept
<1> SUFFICES ASSUME GitStep, Outside, Freeze PROVE StrandKept
  OBVIOUS
<1>1. /\ UNCHANGED <<engine, checkpoints>> /\ proc \in Process /\ attempts \in Seq(AttemptRow) /\ proc.task \in Tasks
      /\ proc.session = FALSE
  BY DEF Freeze, Due, At, GitStep, RunStep, RunInv, IInv, TypeInv, TypeOK, PcInv, Driving, Outside, Process
<1>2. CASE Stop("STALLED") /\ UNCHANGED attempts
  BY <1>1, <1>2, StaysOutside DEF ExitKinds
<1>3. CASE /\ attempts' = Append(attempts, [task |-> proc.task, status |-> "FROZEN"])
           /\ proc' = [proc EXCEPT !.attempt = Len(attempts) + 1,
                                   !.pc = IF proc.session THEN "begin" ELSE "open"]
  <2> DEFINE row == [task |-> proc.task, status |-> "FROZEN"]
  <2>1. proc'.pc = "open" /\ proc'.session = FALSE /\ proc'.task = proc.task /\ proc.task # 0
    BY <1>1, <1>3 DEF Process, Tasks
  <2>2. row \in AttemptRow /\ row.status = "FROZEN"
    BY <1>1 DEF AttemptRow, AttemptStatuses
  <2>3. attempts' = Append(attempts, row)
    BY <1>3
  <2> HIDE DEF row
  <2>4. /\ Len(attempts') = Len(attempts) + 1 /\ Len(attempts) \in Nat /\ attempts'[Len(attempts) + 1] = row
        /\ \A a \in 1 .. Len(attempts) : attempts'[a] = attempts[a]
    BY <1>1, <2>2, <2>3, AppendProperties
  <2>5. Attempts' = Attempts \cup {Len(attempts) + 1} /\ \A a \in Attempts : attempts'[a] = attempts[a]
    BY <2>4 DEF Attempts
  <2>6. Running' = {}
    BY <2>2, <2>4, <2>5 DEF Running, Outside
  <2> QED BY <1>1, <2>1, <2>5, <2>6 DEF StrandKept, Outside
<1> QED BY <1>2, <1>3 DEF Freeze

LEMMA VerifyStrands == GitStep /\ Outside /\ Verify => StrandKept
<1> SUFFICES ASSUME GitStep, Outside, Verify PROVE StrandKept
  OBVIOUS
<1>1. /\ UNCHANGED <<attempts, checkpoints>> /\ proc \in Process /\ proc.session = FALSE
  BY GitTypes DEF Verify, Due, At, Outside, Process
<1>2. \A t \in Tasks : engine[t].stage = "engineer" => engine'[t].stage = "engineer"
  BY VerifyMoves DEF GitStep
<1>3. CASE Goto("drive")
  <2>1. proc'.pc = "drive" /\ proc'.session = FALSE
    BY <1>1, <1>3 DEF Goto, Process
  <2> QED BY <1>1, <1>2, <2>1, StaysOutside
<1>4. CASE Stop("STALLED")
  BY <1>1, <1>2, <1>4, StaysOutside DEF ExitKinds
<1> QED BY <1>3, <1>4 DEF Verify

\* the steps outside of a session, which write neither an attempt nor a stage
LEMMA DrivingStrands ==
    GitStep /\ Outside /\ (Start \/ Reconcile \/ Pick \/ StopBefore \/ Finish \/ Crash \/ CrashLeavingAgent) => StrandKept
<1> SUFFICES ASSUME GitStep, Outside, Start \/ Reconcile \/ Pick \/ StopBefore \/ Finish \/ Crash \/ CrashLeavingAgent
             PROVE  StrandKept
  OBVIOUS
<1>1. UNCHANGED <<attempts, checkpoints, engine>> /\ proc \in Process /\ Running = {}
  BY GitTypes DEF Start, Reconcile, Pick, StopBefore, Finish, Crash, CrashLeavingAgent, Outside
<1>2. CASE proc' = Idle
  <2>1. proc'.pc = "down" /\ proc'.session = FALSE
    BY <1>2 DEF Idle
  <2> QED BY <1>1, <2>1, StaysOutside
<1>3. CASE Start \/ Reconcile
  <2>1. Goto("reconcile") \/ Goto("pick")
    BY <1>1, <1>3 DEF Start, Reconcile
  <2>2. proc'.pc \in {"reconcile", "pick"} /\ proc'.session = FALSE
    BY <1>1, <1>3, <2>1 DEF Goto, Process, Start, Reconcile, At, Outside
  <2> QED BY <1>1, <2>2, StaysOutside
<1>4. CASE Pick
  <2>1. proc'.pc \in {"drive", "finish"} /\ proc'.session = FALSE
    BY <1>1, <1>4 DEF Pick, At, Process, Outside
  <2> QED BY <1>1, <2>1, StaysOutside
<1>5. CASE StopBefore
  <2>1. proc.session = FALSE /\ \E kind \in ExitKinds : Stop(kind)
    BY <1>1, <1>5 DEF StopBefore, At, Process, Outside, ExitKinds
  <2> QED BY <1>1, <2>1, StaysOutside
<1> QED BY <1>2, <1>3, <1>4, <1>5 DEF Finish, Crash, CrashLeavingAgent

LEMMA WorldStrands ==
    GitStep /\ Outside /\ (AgentWrites \/ Orphan \/ PersonInRepo \/ PersonAnswers \/ UNCHANGED vars) => StrandKept
<1> SUFFICES ASSUME GitStep, Outside, AgentWrites \/ Orphan \/ PersonInRepo \/ PersonAnswers \/ UNCHANGED vars
             PROVE  StrandKept
  OBVIOUS
<1>1. UNCHANGED <<attempts, checkpoints, proc>>
  BY DEF AgentWrites, Orphan, PersonInRepo, PersonAnswers, vars
<1>2. UNCHANGED engine \/ \E t \in Tasks : \E why : engine' = [engine EXCEPT ![t].hold = why]
  BY DEF AgentWrites, Orphan, PersonInRepo, PersonAnswers, vars
<1>3. \A t \in Tasks : engine'[t].stage = engine[t].stage
  BY <1>2, HeldStages DEF GitStep, RunStep
<1> QED BY <1>1, <1>3, StaysOutside

\* with a stranded commit the session does not open, and nothing that needs one is reached
LEMMA OpeningStrands ==
    ASSUME GitStep, NEW k \in Positions, Stranded(k), Adopt \/ Isolate \/ Reopen \/ OpenRefused
    PROVE  StrandKept
<1>1. /\ Outside /\ ~CleanExactBranch /\ repo.created /\ ~(repo.branch = "run" /\ HeadSha \in Known)
      /\ proc \in Process
  BY StrandedRefused, GitTypes DEF GitStep, StrandInv
<1>2. OpenRefused
  BY <1>1 DEF Adopt, Isolate, Reopen, Known
<1>3. Stop("STALLED") /\ proc.session = FALSE /\ UNCHANGED <<attempts, checkpoints, engine>>
  BY <1>1, <1>2 DEF OpenRefused, At, Outside, Process
<1> QED BY <1>1, <1>3, StaysOutside DEF ExitKinds

LEMMA StrandedStep ==
    ASSUME GitStep, NEW k \in Positions, Stranded(k), [Next]_vars
    PROVE  StrandKept
<1>1. Outside
  BY DEF GitStep, StrandInv
<1>2. ~(OpenBoundary \/ Reattribute \/ Abandon \/ BeginTask \/ AgentReturns \/ TakeUnconsumed \/ CompleteWithoutChange
        \/ CheckpointRefused \/ CommitWork \/ RecordCheckpoint \/ EngineRecords)
  BY <1>1 DEF Outside, At, OpenBoundary, Reattribute, Abandon, BeginTask, AgentReturns, TakeUnconsumed,
              CompleteWithoutChange, CheckpointRefused, CommitWork, RecordCheckpoint, EngineRecords
<1>3. CASE Adopt \/ Isolate \/ Reopen \/ OpenRefused
  BY <1>3, OpeningStrands
<1>4. CASE Start \/ Reconcile \/ Pick \/ StopBefore \/ Finish \/ Crash \/ CrashLeavingAgent \/ Verify \/ Freeze
  BY <1>1, <1>4, DrivingStrands, VerifyStrands, FreezeStrands
<1>5. CASE AgentWrites \/ Orphan \/ PersonInRepo \/ PersonAnswers \/ UNCHANGED vars
  BY <1>1, <1>5, WorldStrands
<1> QED BY <1>2, <1>3, <1>4, <1>5 DEF Next, Drive, World

NoneStranded == \A i \in Positions : ~Stranded(i)

\* a step that ends no attempt strands nothing
LEMMA NothingStranded ==
    ASSUME GitStep, [Next]_vars, NoneStranded,
           \A a \in Attempts : a \in Attempts' /\ (attempts[a].status = "RUNNING" /\ a \notin Known'
                                                     => attempts'[a].status = "RUNNING" \/ \A i \in Positions : Sha(i) # a),
           ~CommitWork
    PROVE  NoneStranded'
<1> SUFFICES ASSUME NEW i \in Positions', Stranded(i)' PROVE FALSE
  BY DEF NoneStranded
<1>1. Sha(i)' > 0 /\ Sha(i)' \notin Known' /\ attempts'[Sha(i)'].status # "RUNNING"
  BY DEF Stranded
<1>2. i \in Positions /\ Sha(i)' = Sha(i) /\ Known \subseteq Known'
  BY <1>1, CommitsAreOld, GitTypes
<1>3. Sha(i) \in Attempts /\ attempts[Sha(i)].status = "RUNNING"
  BY <1>1, <1>2 DEF NoneStranded, Stranded, GitStep, GitInv
<1> QED BY <1>1, <1>2, <1>3

\* one attempt moves on, known by then or without a commit on the run branch
LEMMA SetStrandsNothing ==
    ASSUME GitStep, [Next]_vars, NoneStranded, ~CommitWork, NEW a \in Attempts, NEW s \in AttemptStatuses, SetAttempt(a, s),
           a \in Known' \/ \A i \in Positions : Sha(i) # a
    PROVE  NoneStranded'
<1>1. attempts \in Seq(AttemptRow)
  BY GitTypes
<1>2. Len(attempts') = Len(attempts) /\ \A b \in Attempts : b # a => attempts'[b] = attempts[b]
  BY <1>1, SetAttemptKeeps
<1>3. Attempts' = Attempts
  BY <1>2 DEF Attempts
<1> QED BY <1>2, <1>3, NothingStranded

LEMMA RestStrandsNothing ==
    ASSUME GitStep, [Next]_vars, NoneStranded, ~CommitWork, UNCHANGED attempts
    PROVE  NoneStranded'
<1>1. Attempts' = Attempts
  BY DEF Attempts
<1> QED BY <1>1, NothingStranded

LEMMA SettleStrandsNothing == GitStep /\ NoneStranded /\ (Reattribute \/ Abandon) => NoneStranded'
<1> SUFFICES ASSUME GitStep, NoneStranded, Reattribute \/ Abandon PROVE NoneStranded'
  OBVIOUS
<1>1. /\ proc.pc = "settle" /\ proc.attempt \in Attempts /\ [Next]_vars /\ ~CommitWork
      /\ attempts[proc.attempt].task \in Tasks
  <2>1. proc.pc = "settle" /\ [Next]_vars /\ ~CommitWork
    BY DEF Reattribute, Abandon, At, CommitWork, Next, Drive
  <2>2. proc.attempt \in Attempts
    BY <2>1, HeldHere DEF Interrupted, GitStep
  <2> QED BY <2>1, <2>2, ModelTypes DEF GitStep, RunStep
<1>2. CASE UNCHANGED attempts
  BY <1>1, <1>2, RestStrandsNothing
<1>3. CASE /\ HeadOwnedBy(proc.attempt) /\ checkpoints' = Checkpointed(proc.attempt)
           /\ SetAttempt(proc.attempt, "SUCCEEDED")
  <2>1. proc.attempt \in Known'
    BY <1>1, <1>3, RecordedKnown DEF Checkpointed, HeadOwnedBy
  <2> QED BY <1>1, <1>3, <2>1, SetStrandsNothing DEF AttemptStatuses
<1>4. CASE LeftNothing /\ SetAttempt(proc.attempt, "ABANDONED")
  <2> DEFINE a == proc.attempt
  <2>1. ASSUME NEW i \in Positions, Sha(i) = a, a \notin Known PROVE FALSE
    <3>1. /\ Len(repo.log) \in Positions /\ HeadSha = Sha(Len(repo.log)) /\ HeadSha \in Known
          /\ HeadSha >= 0 /\ HeadSha \in Int /\ Len(repo.log) \in Nat
      BY <1>4, <2>1, HeadOfRun, KnownNatural, GitTypes DEF LeftNothing, GitStep, RunStep, RunInv
    <3>2. i < Len(repo.log) /\ Sha(i) > 0
      <4>1. i # Len(repo.log)
        BY <2>1, <3>1
      <4> QED BY <1>1, <2>1, <3>1, <4>1 DEF Positions, Attempts
    <3>3. Sha(Len(repo.log)) < 0
      BY <2>1, <3>1, <3>2 DEF GitStep, GitInv
    <3> QED BY <3>1, <3>3
  <2>2. a \in Known' \/ \A i \in Positions : Sha(i) # a
    BY <2>1, GitTypes
  <2> HIDE DEF a
  <2>3. SetAttempt(a, "ABANDONED") /\ a \in Attempts
    BY <1>1, <1>4 DEF a
  <2> QED BY <1>1, <2>2, <2>3, SetStrandsNothing DEF AttemptStatuses
<1> QED BY <1>2, <1>3, <1>4 DEF Reattribute, Abandon

LEMMA DispatchStrandsNothing ==
    GitStep /\ NoneStranded /\ (Freeze \/ BeginTask \/ AgentReturns \/ CompleteWithoutChange \/ CheckpointRefused
                                \/ RecordCheckpoint) => NoneStranded'
<1> SUFFICES ASSUME GitStep, NoneStranded, Freeze \/ BeginTask \/ AgentReturns \/ CompleteWithoutChange
                                            \/ CheckpointRefused \/ RecordCheckpoint
             PROVE  NoneStranded'
  OBVIOUS
<1>1. [Next]_vars
  BY DEF Next, Drive
<1>2. CASE Freeze
  <2>1. /\ attempts \in Seq(AttemptRow) /\ proc.task \in Tasks /\ ~CommitWork
    BY <1>2 DEF Freeze, Due, At, CommitWork, GitStep, RunStep, RunInv, IInv, TypeInv, TypeOK, PcInv, Driving
  <2>2. CASE UNCHANGED attempts
    BY <1>1, <2>1, <2>2, RestStrandsNothing
  <2>3. CASE attempts' = Append(attempts, [task |-> proc.task, status |-> "FROZEN"])
    <3>1. [task |-> proc.task, status |-> "FROZEN"] \in AttemptRow
      BY <2>1 DEF AttemptRow, AttemptStatuses
    <3>2. /\ Len(attempts') = Len(attempts) + 1 /\ Len(attempts) \in Nat
          /\ \A a \in 1 .. Len(attempts) : attempts'[a] = attempts[a]
      BY <2>1, <2>3, <3>1, AppendProperties
    <3>3. \A a \in Attempts : a \in Attempts' /\ attempts'[a] = attempts[a]
      BY <3>2 DEF Attempts
    <3> QED BY <1>1, <2>1, <3>3, NothingStranded
  <2> QED BY <1>2, <2>2, <2>3 DEF Freeze
<1>3. CASE BeginTask
  <2>1. proc.attempt \in Attempts /\ attempts[proc.attempt].status = "FROZEN" /\ ~CommitWork
    BY <1>3, HeldHere DEF Dispatched, GitStep, RunStep, RunInv, IInv, SlotInv, BeginTask, At, CommitWork
  <2>2. \A i \in Positions : Sha(i) # proc.attempt
    BY <2>1 DEF GitStep, GitInv, Attempts
  <2> QED BY <1>1, <1>3, <2>1, <2>2, RestStrandsNothing, SetStrandsNothing DEF BeginTask, AttemptStatuses
<1>4. CASE AgentReturns \/ CompleteWithoutChange \/ CheckpointRefused
  <2>1. proc.pc \in BeforeCommit /\ UNCHANGED repo
    BY <1>4 DEF AgentReturns, CompleteWithoutChange, CheckpointRefused, At, BeforeCommit
  <2>2. proc.attempt \in Attempts /\ \A i \in Positions : Sha(i) # proc.attempt
    BY <2>1, HeldHere DEF Working, BeforeCommit, GitStep, GitInv
  <2>3. ~CommitWork
    BY <2>1 DEF CommitWork, Committed, Clean, GitStep, RunStep, RunInv, IInv, TypeInv, TypeOK, Repository
  <2>4. UNCHANGED attempts \/ \E s \in AttemptStatuses : SetAttempt(proc.attempt, s)
    BY <1>4 DEF AgentReturns, CompleteWithoutChange, CheckpointRefused, AttemptStatuses
  <2> QED BY <1>1, <2>2, <2>3, <2>4, RestStrandsNothing, SetStrandsNothing
<1>5. CASE RecordCheckpoint
  <2>1. proc.pc = "committed" /\ proc.attempt \in Attempts /\ proc.task \in Tasks /\ ~CommitWork
    BY <1>5, HeldHere DEF Working, GitStep, RunStep, RunInv, IInv, TypeInv, PcInv, Driving, RecordCheckpoint, At, CommitWork
  <2>2. CASE UNCHANGED attempts
    BY <1>1, <2>1, <2>2, RestStrandsNothing
  <2>3. CASE Recorded
    BY <1>1, <2>1, <2>3, RecordedKnown, SetStrandsNothing DEF Recorded, AttemptStatuses
  <2> QED BY <1>5, <2>2, <2>3 DEF RecordCheckpoint
<1> QED BY <1>2, <1>3, <1>4, <1>5

\* only a checkpoint that throws after its commit strands it: its task is at its engineer stage, its process ends
LEMMA CommitStrands ==
    ASSUME GitStep, CommitWork, NEW i \in Positions', Stranded(i)'
    PROVE  attempts'[Sha(i)'].status = "FAILED" /\ Outside' /\ engine'[attempts'[Sha(i)'].task].stage = "engineer"
<1> DEFINE a == proc.attempt
<1>1. /\ proc.pc = "accept" /\ a \in Attempts /\ Attempts' = Attempts /\ UNCHANGED <<checkpoints, engine>>
      /\ attempts[a] = [task |-> proc.task, status |-> "RUNNING"] /\ [Next]_vars
  BY CommitEnds DEF CommitWork, Next, Drive
<1>2. Sha(i)' > 0 /\ Sha(i)' \notin Known' /\ attempts'[Sha(i)'].status # "RUNNING"
  BY DEF Stranded
<1>3. NoneStranded /\ \A j \in Positions : Sha(j) # a
  BY <1>1 DEF NoneStranded, GitStep, StrandInv, GitInv, Outside, BeforeCommit
<1>4. CASE UNCHANGED attempts
  <2>1. Known' = Known /\ (i \in Positions /\ Sha(i)' = Sha(i) => Stranded(i))
    BY <1>1, <1>2, <1>4 DEF Stranded, Known
  <2>2. Sha(i)' = a
    BY <1>1, <1>2, <1>3, <2>1, CommitsAreOld DEF NoneStranded
  <2> QED BY <1>1, <1>2, <1>4, <2>2
<1>5. CASE /\ attempts'[a] = [task |-> proc.task, status |-> "FAILED"]
           /\ \A b \in Attempts : b # a => attempts'[b] = attempts[b]
           /\ proc'.pc = "finish"
  <2>1. Running' = {}
    <3>1. \A b \in Running : b = a
      BY <1>1 DEF Running, Attempts, GitStep, RunStep, RunInv, IInv, LP!LogInv, LP!OneRunning, LP!Is, LP!Attempts
    <3> QED BY <1>1, <1>5, <3>1 DEF Running
  <2>2. Sha(i)' = a
    <3> SUFFICES ASSUME Sha(i)' # a PROVE FALSE
      OBVIOUS
    <3>1. i \in Positions /\ Sha(i)' = Sha(i)
      BY <1>1, <1>2, CommitsAreOld
    <3>2. Sha(i) \in Attempts /\ attempts'[Sha(i)] = attempts[Sha(i)]
      BY <1>2, <1>5, <3>1 DEF GitStep, GitInv
    <3>3. Stranded(i)
      BY <1>1, <1>2, <3>1, <3>2 DEF Stranded, Known
    <3> QED BY <1>3, <3>1, <3>3 DEF NoneStranded
  <2>3. engine[attempts[a].task].stage = "engineer"
    BY <1>1 DEF Running, GitStep, RunStep, RunInv, PlanInv
  <2>4. attempts'[Sha(i)'].task = attempts[a].task
    BY <1>1, <1>5, <2>2
  <2>5. Outside'
    BY <1>5, <2>1 DEF Outside
  <2>6. attempts'[Sha(i)'].status = "FAILED"
    BY <1>5, <2>2
  <2> QED BY <1>1, <2>3, <2>4, <2>5, <2>6
<1> QED BY <1>4, <1>5, CommitEnds

LEMMA StrandGoesOn == GitStep /\ [Next]_vars => StrandInv'
<1> SUFFICES ASSUME GitStep, [Next]_vars PROVE StrandInv'
  OBVIOUS
<1>1. (repo.branch = "run" \/ Positions # {} => repo.created)'
  BY BranchCreated
<1>2. (\A i \in Positions : Stranded(i) =>
          attempts[Sha(i)].status = "FAILED" /\ Outside /\ engine[attempts[Sha(i)].task].stage = "engineer")'
  <2>1. CASE \E k \in Positions : Stranded(k)
    <3>1. StrandKept /\ Outside
      BY <2>1, StrandedStep DEF GitStep, StrandInv
    <3> SUFFICES ASSUME NEW i \in Positions', Stranded(i)'
                 PROVE  attempts'[Sha(i)'].status = "FAILED" /\ engine'[attempts'[Sha(i)'].task].stage = "engineer"
      BY <3>1 DEF StrandKept
    <3>2. i \in Positions /\ Sha(i)' = Sha(i) /\ Sha(i) > 0 /\ Known' = Known
      <4>1. ~CommitWork
        BY <3>1 DEF Outside, CommitWork, At
      <4>2. Sha(i)' > 0 /\ Known' = Known
        BY <3>1 DEF Stranded, StrandKept, Known
      <4> QED BY <4>1, <4>2, CommitsAreOld
    <3>3. Sha(i) \in Attempts /\ attempts'[Sha(i)] = attempts[Sha(i)]
      BY <3>1, <3>2 DEF StrandKept, GitStep, GitInv
    <3>4. Stranded(i)
      BY <3>2, <3>3 DEF Stranded
    <3>5. /\ attempts[Sha(i)].status = "FAILED"
          /\ engine[attempts[Sha(i)].task].stage = "engineer" /\ attempts[Sha(i)].task \in Tasks
      BY <3>2, <3>3, <3>4, ModelTypes DEF GitStep, StrandInv, RunStep
    <3> QED BY <3>1, <3>2, <3>3, <3>5 DEF StrandKept
  <2>2. CASE NoneStranded /\ CommitWork
    BY <2>2, CommitStrands
  <2>3. CASE NoneStranded /\ ~CommitWork
    <3>1. NoneStranded'
      <4>1. CASE Reattribute \/ Abandon
        BY <2>3, <4>1, SettleStrandsNothing
      <4>2. CASE Freeze \/ BeginTask \/ AgentReturns \/ CompleteWithoutChange \/ CheckpointRefused \/ RecordCheckpoint
        BY <2>3, <4>2, DispatchStrandsNothing
      <4>3. CASE UNCHANGED attempts
        BY <2>3, <4>3, RestStrandsNothing
      <4> QED BY <2>3, <4>1, <4>2, <4>3
              DEF Next, Drive, World, vars, Start, Reconcile, Adopt, Isolate, OpenBoundary, Reopen, OpenRefused, Pick, StopBefore,
                  Verify, TakeUnconsumed, EngineRecords, Finish, AgentWrites, Crash, CrashLeavingAgent, Orphan, PersonInRepo,
                  PersonAnswers
    <3> QED BY <3>1 DEF NoneStranded
  <2> QED BY <2>1, <2>2, <2>3 DEF NoneStranded
<1> QED BY <1>1, <1>2 DEF StrandInv

LEMMA GitInductive == Spec => [](RunInv /\ GitInv /\ StrandInv)
<1>1. Init => GitInv /\ StrandInv
  BY IdleProcess DEF Init, GitInv, StrandInv, Positions, BeforeCommit
<1>2. RunInv /\ RunInv' /\ GitInv /\ StrandInv /\ [Next]_vars => GitInv' /\ StrandInv'
  <2>1. IInv /\ [Next]_vars => Keeps
    BY EveryStepKeeps
  <2> QED BY <2>1, EveryStepGit, StrandGoesOn DEF RunInv, GitStep, RunStep
<1> QED BY <1>1, <1>2, RunInductive, PTL DEF Spec

\* a stranded commit keeps its run from completing
LEMMA StrandedIsOpen ==
    ASSUME RunInv, GitInv, StrandInv, NEW i \in Positions, Stranded(i)
    PROVE  run.status # "COMPLETED"
<1>1. Sha(i) \in Attempts /\ engine[attempts[Sha(i)].task].stage = "engineer"
  BY DEF GitInv, StrandInv, Stranded
<1>2. attempts[Sha(i)] \in AttemptRow
  BY <1>1 DEF Attempts, RunInv, IInv, TypeInv, TypeOK
<1> QED BY <1>1, <1>2 DEF AttemptRow, RunInv, PlanInv, AllDone

LEMMA UnknownAt ==
    ASSUME RunInv, GitInv, NEW s \in Unknown
    PROVE  \E i \in Positions : Sha(i) = s /\ s > 0 /\ s \in Attempts
BY DEF Unknown, RunCommits, Commits, GitInv, Positions, Sha

LEMMA OneUnknown ==
    ASSUME RunInv, GitInv, NEW s \in Unknown, NEW u \in Unknown
    PROVE  s = u
<1>1. PICK i \in Positions : Sha(i) = s /\ s > 0 /\ s \in Attempts
  BY UnknownAt
<1>2. PICK j \in Positions : Sha(j) = u /\ u > 0 /\ u \in Attempts
  BY UnknownAt
<1>3. Len(repo.log) \in Nat /\ s \notin Known /\ u \notin Known
  BY DEF Unknown, RunInv, IInv, TypeInv, TypeOK, Repository
<1>4. i = j \/ i < j \/ j < i
  BY <1>3 DEF Positions
<1>5. ~(i < j) /\ ~(j < i)
  <2>1. s \in Int /\ u \in Int
    BY <1>1, <1>2 DEF Attempts, RunInv, IInv, TypeInv, TypeOK
  <2> QED BY <1>1, <1>2, <1>3, <2>1 DEF GitInv
<1> QED BY <1>1, <1>2, <1>4, <1>5

\* At most one commit on the run branch is unknown to the ledger, for any number of deaths, of lost ledger writes, of
\* checkpoints that throw after their commit and of a person's acts: that of the one RUNNING attempt, or one stranded
\* by such a checkpoint (guardedRun.ts:258), over which nobody runs and no stage is counted.
THEOREM ReconcilableHolds == Spec => []Reconcilable
<1>1. RunInv /\ GitInv /\ StrandInv => Reconcilable
  <2> SUFFICES ASSUME RunInv, GitInv, StrandInv, NEW s \in Unknown
               PROVE  \/ Running = {s}
                      \/ /\ Running = {} /\ attempts[s].status = "FAILED"
                         /\ proc.session => At("finish")
                         /\ engine[attempts[s].task].stage = "engineer"
    BY OneUnknown DEF Reconcilable
  <2>1. PICK i \in Positions : Sha(i) = s /\ s > 0 /\ s \in Attempts
    BY UnknownAt
  <2>2. CASE Stranded(i)
    BY <2>1, <2>2 DEF StrandInv, Outside, At
  <2>3. CASE ~Stranded(i)
    <3>1. s \in Running
      BY <2>1, <2>3 DEF Stranded, Running, Unknown
    <3> QED BY <3>1 DEF Running, Attempts, RunInv, IInv, LP!LogInv, LP!OneRunning, LP!Is, LP!Attempts
  <2> QED BY <2>2, <2>3
<1> QED BY <1>1, GitInductive, PTL

\* A COMPLETED run leaves nothing to reconcile, whatever a checkpoint throws (writeRunStatus, assertCleanExactBranch).
THEOREM CompletedIsSettledHolds == Spec => []CompletedIsSettled
<1>1. RunInv /\ GitInv /\ StrandInv => CompletedIsSettled
  <2> SUFFICES ASSUME RunInv, GitInv, StrandInv, run.status = "COMPLETED" PROVE Running = {} /\ RunCommits \subseteq Known
    BY DEF CompletedIsSettled
  <2>1. AllDone /\ \A a \in Running : engine[attempts[a].task].stage = "engineer"
    BY DEF RunInv, PlanInv
  <2>2. ASSUME NEW a \in Running PROVE attempts[a].task \in Tasks
    <3>1. attempts[a] \in AttemptRow
      BY DEF Running, Attempts, RunInv, IInv, TypeInv, TypeOK
    <3> QED BY <3>1 DEF AttemptRow
  <2>3. Running = {}
    BY <2>1, <2>2 DEF AllDone
  <2>4. \A s \in RunCommits : s \in Attempts /\ (s \in Known \/ attempts[s].status = "RUNNING")
    BY StrandedIsOpen DEF RunCommits, Commits, GitInv, Stranded, Positions, Sha
  <2> QED BY <2>3, <2>4 DEF Running
<1> QED BY <1>1, GitInductive, PTL

\* A commit whose checkpoint threw after it (guardedRun.ts:258) stays on the run branch for good, whatever is invoked,
\* dies or is done by a person: the ledger never learns of it, every later opening of the Target is refused
\* (assertCleanExactBranch), so that no attempt runs and no checkpoint is recorded any more, and the run is never COMPLETED.
StrandedForGood ==
    \A i \in Positions : Stranded(i) =>
        /\ Stranded(i)' /\ Running' = {}
        /\ UNCHANGED checkpoints
        /\ run'.status # "COMPLETED"

\* The only way out is outside of the program (a person rewrites the run branch).
THEOREM StrandedForGoodHolds == Spec => [][StrandedForGood]_vars
<1> DEFINE Inv == RunInv /\ GitInv /\ StrandInv
<1>1. Inv /\ Inv' /\ [Next]_vars => StrandedForGood
  <2> SUFFICES ASSUME Inv, Inv', [Next]_vars, NEW i \in Positions, Stranded(i)
               PROVE  Stranded(i)' /\ Running' = {} /\ UNCHANGED checkpoints /\ run'.status # "COMPLETED"
    BY DEF StrandedForGood
  <2>1. GitStep
    BY EveryStepKeeps DEF GitStep, RunStep, RunInv
  <2>2. StrandKept /\ i \in Positions' /\ Sha(i)' = Sha(i)
    BY <2>1, StrandedStep, BranchGrows
  <2>3. Sha(i) \in Attempts /\ attempts'[Sha(i)] = attempts[Sha(i)] /\ Known' = Known
    BY <2>2 DEF Stranded, StrandKept, GitInv, Known
  <2>4. Stranded(i)'
    BY <2>2, <2>3 DEF Stranded
  <2>5. run'.status # "COMPLETED"
    <3>1. Sha(i)' \in Attempts' /\ engine'[attempts'[Sha(i)'].task].stage = "engineer"
      BY <2>2, <2>4 DEF GitInv, StrandInv, Stranded
    <3>2. attempts'[Sha(i)'] \in AttemptRow
      BY <3>1 DEF Attempts, RunInv, IInv, TypeInv, TypeOK
    <3> QED BY <3>1, <3>2 DEF AttemptRow, RunInv, PlanInv, AllDone
  <2> QED BY <2>2, <2>4, <2>5 DEF StrandKept, Outside
<1> QED BY <1>1, GitInductive, PTL DEF Spec

===============================================================================
