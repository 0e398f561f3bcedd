------------------------------ MODULE AttemptLog ------------------------------
(***************************************************************************)
(* What the run ledger promises of the attempts of one bounded run         *)
(* (ledger/vocabulary.ts, ledger/sqliteRunLedger.ts): an attempt is frozen *)
(* before it runs, one runs at a time, what has ended never changes again, *)
(* and an attempt succeeds on a commit that is recorded once, with its own *)
(* success, or on a checkpoint its own task already has.  Processes, their *)
(* deaths and the repository are absent: GuardedRun implements this log.   *)
(***************************************************************************)
EXTENDS Integers, Sequences

CONSTANT NumTasks

Tasks == 1 .. NumTasks

VARIABLES attempts, checkpoints

log == <<attempts, checkpoints>>

Attempts == 1 .. Len(attempts)
Is(a, status) == attempts[a].status = status
Becomes(a, status) == attempts' = [attempts EXCEPT ![a].status = status]

Freeze ==
    /\ \E t \in Tasks : attempts' = Append(attempts, [task |-> t, status |-> "FROZEN"])
    /\ UNCHANGED checkpoints

\* the writer slot: nobody else is RUNNING
Begin(a) ==
    /\ Is(a, "FROZEN")
    /\ \A b \in Attempts : ~Is(b, "RUNNING")
    /\ Becomes(a, "RUNNING")
    /\ UNCHANGED checkpoints

\* a checkpoint and its attempt's success are one step
Succeed(a) ==
    /\ Is(a, "RUNNING")
    /\ \A i \in 1 .. Len(checkpoints) : checkpoints[i].attempt # a /\ checkpoints[i].sha # a
    /\ Becomes(a, "SUCCEEDED")
    /\ checkpoints' = Append(checkpoints, [task |-> attempts[a].task, attempt |-> a, sha |-> a])

\* a rerun that changed nothing rests on the latest checkpoint of its own task
SucceedUnchanged(a) ==
    /\ Is(a, "RUNNING")
    /\ \E i \in 1 .. Len(checkpoints) : checkpoints[i].task = attempts[a].task
    /\ Becomes(a, "SUCCEEDED")
    /\ UNCHANGED checkpoints

End(a) ==
    /\ Is(a, "RUNNING")
    /\ \E s \in {"FAILED", "UNAVAILABLE", "ABANDONED"} : Becomes(a, s)
    /\ UNCHANGED checkpoints

Init == attempts = <<>> /\ checkpoints = <<>>

Next == Freeze \/ \E a \in Attempts : Begin(a) \/ Succeed(a) \/ SucceedUnchanged(a) \/ End(a)

Spec == Init /\ [][Next]_log

-----------------------------------------------------------------------------
\* At most one attempt is RUNNING.
OneRunning == \A a, b \in Attempts : Is(a, "RUNNING") /\ Is(b, "RUNNING") => a = b

\* Every checkpoint belongs to a SUCCEEDED attempt of its own task and is recorded once.
RecordedOnce ==
    /\ \A i \in 1 .. Len(checkpoints) :
          LET c == checkpoints[i] IN
          c.attempt \in Attempts /\ c.sha = c.attempt /\ attempts[c.attempt] = [task |-> c.task, status |-> "SUCCEEDED"]
    /\ \A i, j \in 1 .. Len(checkpoints) : checkpoints[i].sha = checkpoints[j].sha => i = j

=============================================================================
