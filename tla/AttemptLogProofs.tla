--------------------------- MODULE AttemptLogProofs ---------------------------
(***************************************************************************)
(* What the attempt log keeps, for every number of tasks and attempts.     *)
(***************************************************************************)
EXTENDS AttemptLog, SequenceTheorems, TLAPS

Statuses == {"FROZEN", "RUNNING", "SUCCEEDED", "FAILED", "UNAVAILABLE", "ABANDONED"}
Row == [task: Tasks, status: Statuses]
Checkpoint == [task: Tasks, attempt: Nat, sha: Int]

LogTypes == attempts \in Seq(Row) /\ checkpoints \in Seq(Checkpoint)
LogInv == LogTypes /\ OneRunning /\ RecordedOnce

\* what a change of one attempt's status leaves
LEMMA BecomesKeeps ==
    ASSUME attempts \in Seq(Row), NEW a \in Attempts, NEW s \in Statuses, Becomes(a, s)
    PROVE  /\ attempts' \in Seq(Row) /\ Attempts' = Attempts
           /\ \A b \in Attempts : b # a => attempts'[b] = attempts[b]
           /\ attempts'[a] = [task |-> attempts[a].task, status |-> s]
<1>1. attempts[a] \in Row
  BY DEF Attempts
<1>2. [attempts[a] EXCEPT !.status = s] = [task |-> attempts[a].task, status |-> s]
  BY <1>1 DEF Row
<1>3. [task |-> attempts[a].task, status |-> s] \in Row
  BY <1>1 DEF Row
<1>4. attempts' = [attempts EXCEPT ![a] = [task |-> attempts[a].task, status |-> s]]
  BY <1>2 DEF Becomes
<1> QED BY <1>3, <1>4, ExceptSeq DEF Attempts

LEMMA FreezeKeeps == LogInv /\ Freeze => LogInv'
<1> SUFFICES ASSUME LogInv, Freeze PROVE LogInv'
  OBVIOUS
<1>1. PICK t \in Tasks : attempts' = Append(attempts, [task |-> t, status |-> "FROZEN"])
  BY DEF Freeze
<1>2. [task |-> t, status |-> "FROZEN"] \in Row
  BY DEF Row, Statuses
<1>3. /\ attempts' \in Seq(Row) /\ Len(attempts') = Len(attempts) + 1 /\ Len(attempts) \in Nat
      /\ \A a \in Attempts : attempts'[a] = attempts[a]
      /\ attempts'[Len(attempts) + 1].status = "FROZEN"
  BY <1>1, <1>2, AppendProperties DEF LogInv, LogTypes, Attempts
<1>4. Attempts' = Attempts \cup {Len(attempts) + 1} /\ Attempts \subseteq Attempts'
  BY <1>3 DEF Attempts
<1>5. OneRunning'
  BY <1>3, <1>4 DEF LogInv, OneRunning, Is
<1>6. RecordedOnce'
  BY <1>3, <1>4 DEF LogInv, RecordedOnce, Freeze
<1> QED BY <1>3, <1>5, <1>6 DEF LogInv, LogTypes, Freeze

\* a status other than SUCCEEDED given to an attempt that has not succeeded
LEMMA ChangeKeeps ==
    ASSUME LogInv, NEW a \in Attempts, NEW s \in Statuses, Becomes(a, s), UNCHANGED checkpoints,
           ~Is(a, "SUCCEEDED"),
           s = "RUNNING" => \A b \in Attempts : ~Is(b, "RUNNING")
    PROVE  LogInv'
<1>1. /\ attempts' \in Seq(Row) /\ Attempts' = Attempts
      /\ \A b \in Attempts : b # a => attempts'[b] = attempts[b]
      /\ attempts'[a] = [task |-> attempts[a].task, status |-> s]
  BY BecomesKeeps DEF LogInv, LogTypes
<1>2. OneRunning'
  BY <1>1 DEF LogInv, OneRunning, Is
<1>3. \A i \in 1 .. Len(checkpoints) : checkpoints[i].attempt # a
  <2> SUFFICES ASSUME NEW i \in 1 .. Len(checkpoints), checkpoints[i].attempt = a PROVE FALSE
    OBVIOUS
  <2>1. attempts[a] = [task |-> checkpoints[i].task, status |-> "SUCCEEDED"]
    BY DEF LogInv, RecordedOnce
  <2>2. attempts[a].status = "SUCCEEDED"
    BY <2>1
  <2> QED BY <2>2 DEF Is
<1>4. RecordedOnce'
  <2>1. ASSUME NEW i \in 1 .. Len(checkpoints)
        PROVE  /\ checkpoints[i].attempt \in Attempts' /\ checkpoints[i].sha = checkpoints[i].attempt
               /\ attempts'[checkpoints[i].attempt] = [task |-> checkpoints[i].task, status |-> "SUCCEEDED"]
    <3>1. checkpoints[i].attempt \in Attempts /\ checkpoints[i].attempt # a
      BY <1>3 DEF LogInv, RecordedOnce
    <3> QED BY <1>1, <3>1 DEF LogInv, RecordedOnce
  <2> QED BY <2>1 DEF LogInv, RecordedOnce
<1> QED BY <1>1, <1>2, <1>4 DEF LogInv, LogTypes

LEMMA SucceedKeeps == ASSUME LogInv, NEW a \in Attempts, Succeed(a) PROVE LogInv'
<1> DEFINE c == [task |-> attempts[a].task, attempt |-> a, sha |-> a]
           n == Len(checkpoints)
<1>1. /\ attempts' \in Seq(Row) /\ Attempts' = Attempts
      /\ \A b \in Attempts : b # a => attempts'[b] = attempts[b]
      /\ attempts'[a] = [task |-> attempts[a].task, status |-> "SUCCEEDED"]
  BY BecomesKeeps DEF LogInv, LogTypes, Succeed, Statuses
<1>2. attempts[a] \in Row /\ a \in Nat /\ a \in Int
  BY DEF LogInv, LogTypes, Attempts
<1>3. c \in Checkpoint
  BY <1>2 DEF Row, Checkpoint
<1>4. /\ checkpoints' \in Seq(Checkpoint) /\ n \in Nat /\ Len(checkpoints') = n + 1
      /\ \A i \in 1 .. n : checkpoints'[i] = checkpoints[i]
      /\ checkpoints'[n + 1] = c
  BY <1>3, AppendProperties DEF LogInv, LogTypes, Succeed
<1>5. OneRunning'
  BY <1>1 DEF LogInv, OneRunning, Is
<1>6. \A i \in 1 .. n : checkpoints[i].attempt # a /\ checkpoints[i].sha # a
  BY DEF Succeed
<1>7. c.task = attempts[a].task /\ c.attempt = a /\ c.sha = a
  OBVIOUS
<1> HIDE DEF c
<1>8. RecordedOnce'
  <2>1. ASSUME NEW i \in 1 .. n + 1
        PROVE  /\ checkpoints'[i].attempt \in Attempts' /\ checkpoints'[i].sha = checkpoints'[i].attempt
               /\ attempts'[checkpoints'[i].attempt] = [task |-> checkpoints'[i].task, status |-> "SUCCEEDED"]
    <3>1. CASE i \in 1 .. n
      BY <1>1, <1>4, <1>6, <3>1 DEF LogInv, RecordedOnce
    <3>2. CASE i = n + 1
      BY <1>1, <1>4, <1>7, <3>2
    <3> QED BY <1>4, <3>1, <3>2
  <2>2. ASSUME NEW i \in 1 .. n + 1, NEW j \in 1 .. n + 1, checkpoints'[i].sha = checkpoints'[j].sha
        PROVE  i = j
    <3>1. i \in 1 .. n \/ i = n + 1
      BY <1>4
    <3>2. j \in 1 .. n \/ j = n + 1
      BY <1>4
    <3> QED BY <1>4, <1>6, <1>7, <2>2, <3>1, <3>2 DEF LogInv, RecordedOnce
  <2> QED BY <1>4, <2>1, <2>2 DEF RecordedOnce
<1> QED BY <1>1, <1>4, <1>5, <1>8 DEF LogInv, LogTypes

LEMMA SucceedUnchangedKeeps == ASSUME LogInv, NEW a \in Attempts, SucceedUnchanged(a) PROVE LogInv'
BY ChangeKeeps DEF SucceedUnchanged, Is, Statuses

LEMMA BeginKeeps == ASSUME LogInv, NEW a \in Attempts, Begin(a) PROVE LogInv'
BY ChangeKeeps DEF Begin, Is, Statuses

LEMMA EndKeeps == ASSUME LogInv, NEW a \in Attempts, End(a) PROVE LogInv'
BY ChangeKeeps DEF End, Is, Statuses

\* Every step of the log keeps the invariant: what an implementation of the log needs as well.
THEOREM StepKeeps == LogInv /\ [Next]_log => LogInv'
<1>1. LogInv /\ UNCHANGED log => LogInv'
  BY DEF LogInv, LogTypes, OneRunning, RecordedOnce, Is, Attempts, log
<1> QED BY <1>1, FreezeKeeps, BeginKeeps, SucceedKeeps, SucceedUnchangedKeeps, EndKeeps DEF Next

LEMMA LogStarts == Init => LogInv
BY DEF Init, LogInv, LogTypes, OneRunning, RecordedOnce, Attempts

\* One attempt runs at a time, and what is recorded is a success that is recorded once.
THEOREM LogSafe == Spec => [](OneRunning /\ RecordedOnce)
<1>1. Spec => []LogInv
  BY LogStarts, StepKeeps, PTL DEF Spec
<1>2. LogInv => OneRunning /\ RecordedOnce
  BY DEF LogInv
<1> QED BY <1>1, <1>2, PTL

=============================================================================
