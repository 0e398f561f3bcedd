------------------------------ MODULE RuntimePool ------------------------------
(***************************************************************************)
(* The health the runtimes of a machine share (core/runtimeHealth.ts), the *)
(* Commander's walk along its order with the exhausted pool it may end in  *)
(* (core/commander.ts, core/runtimeRouter.ts, core/workRunService.ts), the *)
(* stages a bounded-run child dispatches (runtime/coreRouteOverlay.ts,     *)
(* runtime/runtimeRouting.ts, runtime/runtimeExecutor.ts), and a person's  *)
(* connection tests.                                                       *)
(*                                                                         *)
(* Service and children write the same rows without a transaction: a row   *)
(* is read, the turn's failure counted, the row written.  Time is what is  *)
(* left of a cooldown, so that nothing grows: `cooldownUntil > now` is     *)
(* left > 0.                                                               *)
(***************************************************************************)
EXTENDS Naturals, Sequences, FiniteSets, Functions

CONSTANTS
    Runtimes,
    Consults,        \* work runs of the service, each with its Commander
    Stages,          \* bounded-run children, each with one stage of a role under way at a time
    Tests,           \* connection tests of a person
    CommanderOrder,  \* commander.order
    Fallback,        \* commander.fallback
    Roles,           \* the worker roles
    WorkerOrder,     \* roles.<role>.order as the overlay gives it to a child: one entry where fallback is off
    Frozen,          \* the roles whose attempts a bounded run freezes before it dispatches them
    TimeoutLimit,    \* health.timeout_retry_limit
    Cooldowns,       \* what a cooldown may last: as configured, or as the provider reports
    ResumesItself,   \* work.auto_resume_after_cooldown
    None

Processes == Consults \cup Stages \cup Tests

ASSUME PoolAssumption ==
    /\ Consults \cap Stages = {} /\ Consults \cap Tests = {} /\ Stages \cap Tests = {}
    /\ CommanderOrder \in Seq(Runtimes) /\ CommanderOrder # <<>>
    /\ WorkerOrder \in [Roles -> Seq(Runtimes) \ {<<>>}]
    /\ Frozen \subseteq Roles
    /\ Fallback \in BOOLEAN /\ ResumesItself \in BOOLEAN
    /\ TimeoutLimit \in Nat \ {0}
    /\ Cooldowns \subseteq Nat \ {0}
    /\ None \notin Nat /\ None \notin Runtimes /\ None \notin Roles

VARIABLES
    health,  \* per runtime: its row
    proc,    \* per process: its step, the role and the runtime of its turn, those tried, those left, its failure
    wait,    \* per work run: what is left until it resumes itself
    streak,  \* history: per runtime, the timeouts recorded since anything else was
    under    \* history: per runtime that cools, the processes that had chosen it before its cooldown was recorded

vars == <<health, proc, wait, streak, under>>

Steps == {"idle", "choose", "running", "record", "check", "paused"}
Failures == {"REFUSED", "TIMEOUT"}  \* the classes of a runtime's own failure, those that hop at once taken together

TypeOK ==
    /\ health \in [Runtimes -> [timeouts: 0 .. TimeoutLimit - 1, left: Nat]]
    /\ proc \in [Processes -> [step: Steps, role: Roles \cup {None}, at: Runtimes \cup {None},
                               tried: SUBSET Runtimes, rest: SUBSET Runtimes,
                               class: Failures \cup {None}, read: 0 .. TimeoutLimit - 1]]
    /\ wait \in [Consults -> Nat \cup {None}]
    /\ streak \in [Runtimes -> Nat]
    /\ under \in [Runtimes -> SUBSET Processes]

-----------------------------------------------------------------------------
(* Helpers *)

Resting(step) ==
    [step |-> step, role |-> None, at |-> None, tried |-> {}, rest |-> {}, class |-> None, read |-> 0]
Walking(tried) ==
    [step |-> "choose", role |-> None, at |-> None, tried |-> tried, rest |-> {}, class |-> None, read |-> 0]
Goto(p, q) == proc' = [proc EXCEPT ![p] = q]
At(p, step) == proc[p].step = step

Healthy == [timeouts |-> 0, left |-> 0]
Cooling(r) == health[r].left > 0

\* selectRuntime: the candidates that were not tried and do not cool, of which the first in the order is taken
Usable(order, tried) == {r \in Range(order) \ tried : ~Cooling(r)}
First(r, order, rs) == \E i \in DOMAIN order : order[i] = r /\ r \in rs /\ \A j \in 1 .. i - 1 : order[j] \notin rs

Candidates == IF Fallback THEN CommanderOrder ELSE <<Head(CommanderOrder)>>

\* earliestRecovery: n is the earliest end of a cooldown among rs, None when none of them cools
Earliest(n, rs) ==
    \/ /\ \A r \in rs : ~Cooling(r)
       /\ n = None
    \/ \E first \in rs :
           /\ Cooling(first) /\ n = health[first].left
           /\ \A r \in rs : Cooling(r) => n <= health[r].left

\* the time runCommander reports: of the candidates it skipped for cooling, or else of its whole order
WalkRecovery(n, tried) ==
    LET skipped == Range(Candidates) \ tried
    IN  Earliest(n, IF \E r \in skipped : Cooling(r) THEN skipped ELSE Range(CommanderOrder))

\* the processes other than p that have settled on r and not reported it yet
Bound(r, p) == {q \in (Consults \cup Stages) \ {p} :
                    proc[q].step \in {"running", "record"} /\ r \in {proc[q].at} \cup proc[q].rest}

\* one row of runtime_health is written, with what the history keeps of it
Write(r, row, timeouts, others) ==
    /\ health' = [health EXCEPT ![r] = row]
    /\ streak' = [streak EXCEPT ![r] = timeouts]
    /\ under'  = [under EXCEPT ![r] = others]

Init ==
    /\ health = [r \in Runtimes |-> Healthy]
    /\ proc = [p \in Processes |-> Resting("idle")]
    /\ wait = [w \in Consults |-> None]
    /\ streak = [r \in Runtimes |-> 0]
    /\ under = [r \in Runtimes |-> {}]

-----------------------------------------------------------------------------
(* The Commander's walk, and the check of the pool before a segment *)

Turn(p, role, r, tried, rest) ==
    Goto(p, [step |-> "running", role |-> role, at |-> r, tried |-> tried, rest |-> rest, class |-> None, read |-> 0])

\* pauseExhausted: the run waits until its time, or without one for a person
Times == {health[r].left : r \in Runtimes} \cup {None}
PauseExhausted(w, n) ==
    /\ Goto(w, Resting("paused"))
    /\ wait' = [wait EXCEPT ![w] = n]

\* a work run comes to a turn of its Commander
Consult(w) ==
    /\ At(w, "idle")
    /\ Goto(w, Walking({}))
    /\ UNCHANGED <<health, wait, streak, under>>

\* one round of runCommander's loop up to the call of the runtime
Choose(w) ==
    /\ At(w, "choose")
    /\ LET usable == Usable(Candidates, proc[w].tried)
       IN  \/ /\ \E r \in usable : First(r, Candidates, usable) /\ Turn(w, None, r, proc[w].tried, {})
              /\ UNCHANGED wait
           \/ /\ usable = {}
              /\ \E n \in Times : WalkRecovery(n, proc[w].tried) /\ PauseExhausted(w, n)
    /\ UNCHANGED <<health, streak, under>>

\* launchNext: no segment is launched into a pool that cannot serve every role; the run waits for one that has nobody
Unserved == {role \in Roles : Usable(WorkerOrder[role], {}) = {}}

PoolCheck(w) ==
    /\ At(w, "check")
    /\ \/ /\ Unserved = {}
          /\ Goto(w, Resting("idle")) /\ UNCHANGED wait
       \/ \E role \in Unserved, n \in Times :
              Earliest(n, Range(WorkerOrder[role])) /\ PauseExhausted(w, n)
    /\ UNCHANGED <<health, streak, under>>

\* a run that resumes asks its Commander again, or checks the pool when the opening note is there
Resumed(w) ==
    /\ Goto(w, Walking({})) \/ Goto(w, Resting("check"))
    /\ wait' = [wait EXCEPT ![w] = None]
    /\ UNCHANGED <<health, streak, under>>

\* mutant: a run waits until the whole pool is back
AutoResumeAllUsable(w) ==
    ResumesItself /\ At(w, "paused") /\ wait[w] = 0 /\ (\A r \in Runtimes : ~Cooling(r)) /\ Resumed(w)

\* the wait is set with the option off too, and then nothing but a person ends it
AutoResume(w) == ResumesItself /\ At(w, "paused") /\ wait[w] = 0 /\ Resumed(w)

PersonResumes(w) == At(w, "paused") /\ Resumed(w)

-----------------------------------------------------------------------------
(* A stage of a child, and a connection test *)

\* mutant: a route looks at the order alone
RoutedUnfiltered(role) == Range(WorkerOrder[role])

\* resolveRuntimeRoute with the health of this moment: who serves, and who takes over.  A cooling runtime is left
\* out when there is another to walk to; an order of one keeps its only candidate.
Routed(role) == IF Len(WorkerOrder[role]) > 1 THEN Usable(WorkerOrder[role], {}) ELSE Range(WorkerOrder[role])

\* stage s of this role asks the first of rs, and keeps the others for a hop unless its attempt is frozen
Ask(s, role, rs) ==
    \E r \in rs :
        /\ First(r, WorkerOrder[role], rs)
        /\ Turn(s, role, r, {}, IF role \in Frozen THEN {} ELSE rs \ {r})

Dispatch(s) ==
    /\ At(s, "idle")
    /\ \E role \in Roles : Ask(s, role, Routed(role))
    /\ UNCHANGED <<health, wait, streak, under>>

\* testRuntime: the runtime the person names, whatever its health
Test(t) ==
    /\ At(t, "idle")
    /\ \E r \in Runtimes : Turn(t, None, r, {}, {})
    /\ UNCHANGED <<health, wait, streak, under>>

-----------------------------------------------------------------------------
(* The end of a turn *)

\* after an answer a run checks the pool, or rests after its closing turn; a stage and a test are over
Over(p) == \E step \in (IF p \in Consults THEN {"check", "idle"} ELSE {"idle"}) : Goto(p, Resting(step))

\* recordSuccess
Succeed(p) ==
    /\ At(p, "running")
    /\ Write(proc[p].at, Healthy, 0, {})
    /\ Over(p)
    /\ UNCHANGED wait

\* an error of the work is an event and no health; nobody else is asked
WorkFails(p) ==
    /\ At(p, "running")
    /\ Over(p)
    /\ UNCHANGED <<health, wait, streak, under>>

\* recordFailure reads the row, of which only a timeout uses the count ...
RuntimeFails(p, class) ==
    /\ At(p, "running")
    /\ Goto(p, [step |-> "record", role |-> proc[p].role, at |-> proc[p].at, tried |-> proc[p].tried,
                rest |-> proc[p].rest, class |-> class,
                read |-> IF class = "TIMEOUT" THEN health[proc[p].at].timeouts ELSE 0])
    /\ UNCHANGED <<health, wait, streak, under>>

\* a stage whose runtime refused hops to the next it was routed to, unless the hop cannot be recorded (recordHop)
StageAfterFailure(s) ==
    \/ Goto(s, Resting("idle"))
    \/ proc[s].class = "REFUSED" /\ Ask(s, proc[s].role, proc[s].rest)

\* mutant: the walk forgets whom it has tried
AfterFailureForgetful(p) == IF p \in Consults THEN Goto(p, Walking({})) ELSE StageAfterFailure(p)

\* whom the process asks next: the Commander's walk looks again
AfterFailure(p) ==
    IF p \in Consults THEN Goto(p, Walking(proc[p].tried \cup {proc[p].at})) ELSE StageAfterFailure(p)

\* mutant: the limit is passed before the runtime cools
RecordedPastLimit(p) ==
    LET r == proc[p].at
        timeouts == proc[p].read + 1
    IN  IF proc[p].class = "TIMEOUT" /\ timeouts <= TimeoutLimit
        THEN Write(r, [timeouts |-> timeouts, left |-> 0], streak[r] + 1, {})
        ELSE \E n \in Cooldowns : Write(r, [timeouts |-> 0, left |-> n], 0, Bound(r, p))

\* mutant: the count is written as it was read
RecordedUncounted(p) ==
    LET r == proc[p].at
    IN  IF proc[p].class = "TIMEOUT" /\ proc[p].read + 1 < TimeoutLimit
        THEN Write(r, [timeouts |-> proc[p].read, left |-> 0], streak[r] + 1, {})
        ELSE \E n \in Cooldowns : Write(r, [timeouts |-> 0, left |-> n], 0, Bound(r, p))

\* ... and writes it: a refusal cools the runtime, a timeout does at the limit only
Recorded(p) ==
    LET r == proc[p].at
        timeouts == proc[p].read + 1
    IN  IF proc[p].class = "TIMEOUT" /\ timeouts < TimeoutLimit
        THEN Write(r, [timeouts |-> timeouts, left |-> 0], streak[r] + 1, {})
        ELSE \E n \in Cooldowns : Write(r, [timeouts |-> 0, left |-> n], 0, Bound(r, p))

Record(p) ==
    /\ At(p, "record")
    /\ Recorded(p)
    /\ AfterFailure(p)
    /\ UNCHANGED wait

\* a person says that it is fixed
Clear(r) ==
    /\ Write(r, Healthy, 0, {})
    /\ UNCHANGED <<proc, wait>>

\* time passes for every cooldown and every run that waits
Elapsed(n) == IF n \in Nat \ {0} THEN n - 1 ELSE n

Tick ==
    /\ (\E r \in Runtimes : Cooling(r)) \/ (\E w \in Consults : wait[w] \notin {0, None})
    /\ health' = [r \in Runtimes |-> [timeouts |-> health[r].timeouts, left |-> Elapsed(health[r].left)]]
    /\ wait' = [w \in Consults |-> Elapsed(wait[w])]
    /\ under' = [r \in Runtimes |-> IF health'[r].left = 0 THEN {} ELSE under[r]]
    /\ UNCHANGED <<proc, streak>>

-----------------------------------------------------------------------------
TurnEnds(p) ==
    \/ Succeed(p) \/ WorkFails(p) \/ Record(p)
    \/ \E class \in Failures : RuntimeFails(p, class)

\* what the program does by itself once a turn or a wait is under way
Goes(p) == TurnEnds(p) \/ (p \in Consults /\ (Choose(p) \/ PoolCheck(p) \/ AutoResume(p)))

Next ==
    \/ \E p \in Processes : Goes(p)
    \/ \E w \in Consults : Consult(w) \/ PersonResumes(w)
    \/ \E s \in Stages : Dispatch(s)
    \/ \E t \in Tests : Test(t)
    \/ \E r \in Runtimes : Clear(r)
    \/ Tick

Spec == Init /\ [][Next]_vars

\* turns end by the time limit of their adapter, the service steps its runs, and time passes
FairSpec == Spec /\ WF_vars(Tick) /\ \A p \in Processes : WF_vars(Goes(p))

-----------------------------------------------------------------------------
(* Properties *)

\* for every count below the limit how many processes have it or more: the ways they can be spread
Ladders ==
    {f \in [1 .. TimeoutLimit - 1 -> 0 .. Cardinality(Processes)] :
         \A i, j \in 1 .. TimeoutLimit - 1 : i <= j => f[j] <= f[i]}

\* Timeouts do not go on for ever without a cooldown (runtimeHealth.ts:20, "TIMEOUT is bounded"), although two
\* processes that read the same count both write the same successor: a process that writes loses the counts above
\* its own, and may lose them again whenever a lower one was lost first.  That leaves fewer in a row than there
\* are ways to spread the processes over the counts - with the default limit of 2, one per process.
TimeoutsBounded ==
    \A r \in Runtimes : streak[r] < Cardinality(Ladders)

\* the stages of a role that has one runtime to go to
Alone == {s \in Stages : \E role \in Roles : proc[s].role = role /\ Len(WorkerOrder[role]) = 1}

\* A cooldown ends before its time only by a person, by the result of a process that had chosen the runtime before
\* the cooldown was recorded, or by a stage whose role has no other runtime and which is sent to a cooling one: no
\* other newcomer is sent to a runtime because somebody is still on it (runtimeHealth.ts:10, runtimeRouting.ts:381).
CooldownRespected ==
    [][ \A r \in Runtimes :
            health'[r].left < health[r].left =>
                \/ Tick \/ Clear(r)
                \/ \E p \in Tests \cup under[r] \cup Alone : proc[p].at = r /\ proc'[p] # proc[p] ]_vars

\* The Commander's walk ends whatever its runtimes do and however soon they recover: "nothing can loop forever".
WalkEnds ==
    \A w \in Consults : proc[w].step \in {"choose", "running", "record", "check"} ~> proc[w].step \in {"idle", "paused"}

\* A run that is paused with a time comes back without anybody, where the machine says that it should
\* (core.md, runtime exhaustion; work.auto_resume_after_cooldown).
KnownPauseEnds ==
    \A w \in Consults : ResumesItself /\ At(w, "paused") /\ wait[w] # None ~> ~At(w, "paused")

=============================================================================
