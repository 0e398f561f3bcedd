------------------------------- MODULE WorkRun -------------------------------
(***************************************************************************)
(* The work-run controller of STA Core (core/workRunService.ts over        *)
(* core/workRunStore.ts): a user's request is driven as a sequence of      *)
(* bounded-run segments, each a detached child process, one bounded run    *)
(* per Target group.  The control loop runs in one Node process: a handler *)
(* is atomic up to its next await, so an action here is the code between   *)
(* two awaits, and frame[r] is the await at which the step of run r waits. *)
(* Requests of a person (pause, resume, stop, approve, send back) arrive   *)
(* on the Local API and run between those awaits; children run, log, exit  *)
(* and die at any time; the service crashes and comes back to core.db.     *)
(***************************************************************************)
EXTENDS Naturals, Sequences, FiniteSets

CONSTANTS
    NumRuns,           \* work runs of one Knowledge/module pair, in creation order
    NumGroups,         \* Target groups of the module's plan
    MaxSegments,       \* machine.work.max_segments
    CommanderEnabled,  \* machine.commander.enabled
    AutoResume,        \* machine.work.auto_resume_after_cooldown
    MaxCrashes,        \* bound: deaths of the service in the middle of a step or of a request
    MaxErrors,         \* bound: exceptions thrown inside a step or a request
    MaxLost,           \* bound: children started by a step that fails before it records them
    MaxFaults          \* bound: deaths, exceptions and unrecorded children together

ASSUME ConstantsAssumption ==
    /\ NumRuns \in Nat \ {0} /\ NumGroups \in Nat \ {0} /\ MaxSegments \in Nat \ {0}
    /\ CommanderEnabled \in BOOLEAN /\ AutoResume \in BOOLEAN
    /\ MaxCrashes \in Nat /\ MaxErrors \in Nat /\ MaxLost \in Nat /\ MaxFaults \in Nat

Runs   == 1 .. NumRuns
Groups == 1 .. NumGroups
Index  == 1 .. MaxSegments
Bid    == 0 .. NumGroups     \* a bounded run is named after the group it was frozen for; 0 is null

Statuses == {"ABSENT", "QUEUED", "RUNNING", "PAUSING", "PAUSED", "STOPPING", "STOPPED",
             "WAITING_FOR_HUMAN", "PAUSED_RUNTIME_EXHAUSTED", "READY_FOR_REVIEW", "APPROVED", "FAILED"}
Active  == {"QUEUED", "RUNNING", "PAUSING", "STOPPING"}
Settled == {"STOPPED", "READY_FOR_REVIEW", "APPROVED", "FAILED"}

GroupStates == {"none", "pending", "running", "done", "waiting", "halted"}
GateKinds == {"runtime_exhausted", "security_runtime", "engine_waiting", "engine_halted",
              "engine_refused", "knowledge_changed", "segment_budget", "interrupted", "review"}

\* exit codes 0, 4, 1, 2/64, any other; "none" is the null of a child that left no record
Recorded == {"completed", "gate", "halted", "refused", "other"}
SegStates == Recorded \cup {"none", "open"}

\* engine: the pause flag of a bounded run's open tasks; "erased" when the child has
\* saved an older copy of a task over the flag the Core had set
Flags == {"off", "on", "erased"}

\* two writes of one step between which the service can die: the bounded run and the
\* pause it was waiting for, the halted group and its gate, the exhausted Commander
\* and the end of the run it was asked to assess
Gaps == {"learn", "halt", "assess"}

VARIABLES
    run,     \* core.db: the document of each work run
    paused,  \* engine: the pause flag of each bounded run
    live,    \* the child processes alive
    file,    \* per segment index: what its log and exit record say
    frame,   \* the await at which the step of a run stands, "idle" when it is not busy
    faults   \* faults so far, against their bounds; cut is history: the gaps a death fell into

vars == <<run, paused, live, file, frame, faults>>

Docs == [status: Statuses, pauseRequested: BOOLEAN, stopRequested: BOOLEAN,
         autoResumeAt: {"none", "later", "due"},
         noted: BOOLEAN,                  \* commander.notes has a note of phase "start"
         boundedRunId: Bid,
         segs: Seq(SegStates),            \* the exit of each segment, "open" while endedAt is null
         group: [Groups -> GroupStates],  \* targetRuns[].state, "none" before the split
         groupBid: [Groups -> Bid],       \* targetRuns[].boundedRunId
         gates: SUBSET GateKinds]         \* the kinds of the unresolved human gates
Children == [seg: Index, grp: Groups, bid: Bid, lost: 0 .. MaxLost]  \* 0: recorded
Files    == [bid: Bid, exit: Recorded \cup {"absent"}, unavailable: BOOLEAN]
FaultRecords == [crashes: 0 .. MaxCrashes, errors: 0 .. MaxErrors, lost: 0 .. MaxLost,
                 cut: SUBSET (Runs \X Gaps)]
Frames   == {"idle", "start", "snapshot", "assess", "assess_waiting"}

TypeOK ==
    /\ run \in [Runs -> Docs]
    /\ \A r \in Runs : Len(run[r].segs) <= MaxSegments
    /\ paused \in [Runs -> [Groups -> Flags]]
    /\ live \in [Runs -> SUBSET Children]
    /\ file \in [Runs -> [Index -> Files]]
    /\ frame \in [Runs -> Frames]
    /\ faults \in FaultRecords

-----------------------------------------------------------------------------
(* Documents *)

NewDoc == [status |-> "ABSENT", pauseRequested |-> FALSE, stopRequested |-> FALSE,
           autoResumeAt |-> "none", noted |-> FALSE, boundedRunId |-> 0, segs |-> <<>>,
           group |-> [g \in Groups |-> "none"], groupBid |-> [g \in Groups |-> 0], gates |-> {}]
NoFile == [bid |-> 0, exit |-> "absent", unavailable |-> FALSE]

SegOpen(d) == d.segs # <<>> /\ d.segs[Len(d.segs)] = "open"
In(d, s) == {g \in Groups : d.group[g] = s}
IsFirst(d, s, g) == g \in In(d, s) /\ \A h \in In(d, s) : g <= h
BoundedRunIds(d) == {b \in Groups : b = d.boundedRunId \/ \E g \in Groups : b = d.groupBid[g]}

SetStatus(d, s) == [d EXCEPT !.status = s]
OpenGate(d, k) == [d EXCEPT !.gates = @ \cup {k}, !.status = "WAITING_FOR_HUMAN"]
PauseExhausted(d, at) == [d EXCEPT !.gates = @ \cup {"runtime_exhausted"},
                                   !.status = "PAUSED_RUNTIME_EXHAUSTED", !.autoResumeAt = at]
\* a pool that cannot serve: exhausted until a known time, until a person reconnects, or by policy
Blocked(d) == {PauseExhausted(d, at) : at \in {"later", "none"}} \cup {OpenGate(d, "security_runtime")}

MarkFirst(d, s, new) == [d EXCEPT !.group = [g \in Groups |-> IF IsFirst(d, s, g) THEN new ELSE d.group[g]]]

\* the first running group takes the document's bounded run when it has none of its own
Attributed(d, b) == [d EXCEPT !.boundedRunId = b,
    !.groupBid = [g \in Groups |-> IF IsFirst(d, "running", g) /\ d.groupBid[g] = 0 THEN b ELSE d.groupBid[g]]]
BidOf(d, f) == IF d.boundedRunId = 0 THEN f.bid ELSE d.boundedRunId
Closed(d, f, code) == Attributed([d EXCEPT !.segs[Len(d.segs)] = code], BidOf(d, f))

EnsureTargets(d) ==
    IF In(d, "none") = {} THEN d ELSE [d EXCEPT !.group = [g \in Groups |-> "pending"]]

Save(r, d) == run' = [run EXCEPT ![r] = d]
Goto(r, f) == frame' = [frame EXCEPT ![r] = f]
CanFail == faults.crashes + faults.errors + faults.lost < MaxFaults
Fault(k, max) == CanFail /\ faults[k] < max /\ faults' = [faults EXCEPT ![k] = @ + 1]
Restarts == frame' = [q \in Runs |-> "idle"]
Flagged(flags, bids, f) == [b \in Groups |-> IF b \in bids THEN f ELSE flags[b]]
SetFlags(r, bids, f) == paused' = [paused EXCEPT ![r] = Flagged(@, bids, f)]

LastFile(r) == file[r][Len(run[r].segs)]
SegChild(r) == {c \in live[r] : c.lost = 0 /\ c.seg = Len(run[r].segs)}
ChildAlive(r) == SegOpen(run[r]) /\ SegChild(r) # {}

\* the service reads requests while no handler runs: the snapshot await only
\* really yields when there is a bounded run to project
Yields(r) == frame[r] = "snapshot" => BoundedRunIds(run[r]) # {}

-----------------------------------------------------------------------------
(* Requests of a person *)

Create(r) ==
    /\ run[r].status = "ABSENT"
    /\ \A q \in Runs : q < r => run[q].status # "ABSENT"
    /\ LET open == {q \in Runs : run[q].status \notin {"ABSENT", "STOPPED", "APPROVED", "FAILED"}}
       IN  \A q \in open : (\A p \in open : p <= q) => run[q].status = "READY_FOR_REVIEW"
    /\ Save(r, SetStatus(run[r], "QUEUED"))
    /\ UNCHANGED <<paused, live, file, frame, faults>>

Pause(r) ==
    LET d == run[r] IN
    /\ Yields(r)
    /\ \/ /\ d.status \in {"QUEUED", "PAUSED_RUNTIME_EXHAUSTED", "WAITING_FOR_HUMAN"}
          /\ Save(r, [d EXCEPT !.status = "PAUSED", !.pauseRequested = FALSE, !.autoResumeAt = "none"])
          /\ UNCHANGED paused
       \/ /\ d.status = "RUNNING"
          /\ Save(r, [d EXCEPT !.status = "PAUSING", !.pauseRequested = TRUE])
          /\ SetFlags(r, BoundedRunIds(d), "on")
    /\ UNCHANGED <<live, file, frame, faults>>

ResumedWaitingOnly(d) == [d EXCEPT   \* mutant: a halted group is forgotten
    !.group = [g \in Groups |-> IF d.group[g] = "waiting" THEN "running" ELSE d.group[g]],
    !.pauseRequested = FALSE, !.stopRequested = FALSE, !.autoResumeAt = "none",
    !.gates = @ \cap {"review"}, !.status = "QUEUED"]
ResumedKeepingRequests(d) == [d EXCEPT   \* mutant: the old request survives
    !.group = [g \in Groups |-> IF d.group[g] \in {"waiting", "halted"} THEN "running" ELSE d.group[g]],
    !.autoResumeAt = "none", !.gates = @ \cap {"review"}, !.status = "QUEUED"]
Resumed(d) == [d EXCEPT
    !.group = [g \in Groups |-> IF d.group[g] \in {"waiting", "halted"} THEN "running" ELSE d.group[g]],
    !.pauseRequested = FALSE, !.stopRequested = FALSE, !.autoResumeAt = "none",
    !.gates = @ \cap {"review"}, !.status = "QUEUED"]

\* resume, and approve of a run that waits for a person
Resume(r) ==
    /\ Yields(r)
    /\ run[r].status \in {"PAUSED", "PAUSED_RUNTIME_EXHAUSTED", "WAITING_FOR_HUMAN", "STOPPED"}
    /\ Save(r, Resumed(run[r]))
    /\ SetFlags(r, BoundedRunIds(run[r]), "off")
    /\ UNCHANGED <<live, file, frame, faults>>

KillForgotten(r) == UNCHANGED live   \* mutant: --force records the stop and leaves the child
Kill(r) == live' = [live EXCEPT ![r] = @ \ SegChild(r)]

StoppedNow(d) == [d EXCEPT !.status = "STOPPED", !.stopRequested = FALSE, !.autoResumeAt = "none"]

Stop(r) ==
    LET d == run[r] IN
    /\ Yields(r)
    /\ d.status \notin {"ABSENT", "STOPPED"}
    /\ SetFlags(r, BoundedRunIds(d), "on")
    /\ \/ /\ ChildAlive(r)
          /\ Save(r, [d EXCEPT !.status = "STOPPING", !.stopRequested = TRUE])
          /\ UNCHANGED live
       \/ /\ ChildAlive(r)                                   \* --force
          /\ Save(r, StoppedNow(d))
          /\ Kill(r)
       \/ /\ ~ChildAlive(r)
          /\ Save(r, StoppedNow(d))
          /\ UNCHANGED live
    /\ UNCHANGED <<file, frame, faults>>

Approve(r) ==
    /\ Yields(r)
    /\ run[r].status = "READY_FOR_REVIEW"
    /\ Save(r, [run[r] EXCEPT !.status = "APPROVED", !.gates = @ \ {"review"}])
    /\ UNCHANGED <<paused, live, file, frame, faults>>

SendBack(r) ==
    /\ Yields(r)
    /\ run[r].status = "READY_FOR_REVIEW"
    /\ Save(r, OpenGate(run[r], "review"))
    /\ UNCHANGED <<paused, live, file, frame, faults>>

\* a database refuses, or the service dies, between pausing or unpausing the tasks
\* of several bounded runs and writing the document: that is left untouched
RequestFails(r) ==
    LET d == run[r] IN
    /\ Yields(r)
    /\ \/ Fault("errors", MaxErrors) /\ UNCHANGED frame
       \/ Fault("crashes", MaxCrashes) /\ Restarts
    /\ \E part \in SUBSET BoundedRunIds(d) :
        \/ /\ d.status \notin {"ABSENT", "STOPPED"}
           /\ SetFlags(r, part, "on")
        \/ /\ d.status \in {"PAUSED", "PAUSED_RUNTIME_EXHAUSTED", "WAITING_FOR_HUMAN", "STOPPED"}
           /\ SetFlags(r, part, "off")
    /\ UNCHANGED <<run, live, file>>

-----------------------------------------------------------------------------
(* The control loop: a step ends by writing the document and returning to  *)
(* idle, or stops at an await.                                             *)

Rests(r, d) == Save(r, d) /\ Goto(r, "idle")

\* an exception inside a step: recorded, and the run waits for a person
Throws(r, d) ==
    /\ Fault("errors", MaxErrors)
    /\ Rests(r, SetStatus(d, "WAITING_FOR_HUMAN"))

\* the service dies inside a step that has written d, in the named gaps if it matters
Dies(r, d, gaps) ==
    /\ CanFail /\ faults.crashes < MaxCrashes
    /\ faults' = [faults EXCEPT !.crashes = @ + 1, !.cut = @ \cup ({r} \X gaps)]
    /\ Save(r, d)
    /\ Restarts

\* a step that has written d and goes no further
Breaks(r, d) == Throws(r, d) \/ Dies(r, d, {})

\* tick lists the active runs and the exhausted ones; step() lets one step of a run at a time in
SteppedNotStopping(r) ==   \* mutant: the list of runs to step forgets STOPPING
    frame[r] = "idle" /\ run[r].status \in (Active \ {"STOPPING"}) \cup {"PAUSED_RUNTIME_EXHAUSTED"}
Stepped(r) == frame[r] = "idle" /\ run[r].status \in Active \cup {"PAUSED_RUNTIME_EXHAUSTED"}

ReadyForReview(d) == [d EXCEPT !.gates = @ \cup {"review"}, !.status = "READY_FOR_REVIEW"]

\* finalize: nothing is left to drive
Finalize(r, d) ==
    IF CommanderEnabled
      THEN Save(r, d) /\ Goto(r, IF In(d, "waiting") # {} THEN "assess_waiting" ELSE "assess")
      ELSE Rests(r, IF In(d, "waiting") # {} THEN SetStatus(d, "WAITING_FOR_HUMAN") ELSE ReadyForReview(d))

\* the Commander's assess turn returns; what it says or whether it could be asked changes no outcome
AssessReturns(r) ==
    /\ frame[r] \in {"assess", "assess_waiting"}
    /\ \/ /\ \E d \in {run[r]} \cup Blocked(run[r]) :
                Rests(r, IF frame[r] = "assess" THEN ReadyForReview(d) ELSE SetStatus(d, "WAITING_FOR_HUMAN"))
          /\ UNCHANGED faults
       \/ \E d \in {run[r]} \cup Blocked(run[r]) : Throws(r, d)
       \/ \E d \in Blocked(run[r]) : Dies(r, d, IF d.pauseRequested \/ d.stopRequested THEN {"assess"} ELSE {})
    /\ UNCHANGED <<paused, live, file>>

Spawn(r, d, g, lost) ==
    live' = [live EXCEPT ![r] = @ \cup
        {[seg |-> Len(d.segs) + 1, grp |-> g, bid |-> d.groupBid[g], lost |-> lost]}]

\* the child runs, and the step ends before its segment is in the document
SpawnUnrecorded(r, d, g) ==
    /\ Spawn(r, d, g, faults.lost + 1)
    /\ Fault("lost", MaxLost)
    /\ \/ Save(r, d) /\ Restarts                               \* the service dies
       \/ Rests(r, SetStatus(d, "WAITING_FOR_HUMAN"))          \* the store refuses

Launched(d, g) == [d EXCEPT !.group[g] = "running", !.boundedRunId = d.groupBid[g],
                            !.status = "RUNNING", !.segs = Append(@, "open")]

AnyNextGroup(d, g) ==   \* mutant: the pending groups in no order
    IsFirst(d, "running", g) \/ (In(d, "running") = {} /\ g \in In(d, "pending"))
NextGroup(d, g) == IsFirst(d, "running", g) \/ (In(d, "running") = {} /\ IsFirst(d, "pending", g))

\* launchNext after the Commander agreed: the worker pool, the Target groups, the child
Dispatch(r, d) ==
    LET e == EnsureTargets(d) IN
    \/ /\ \E b \in Blocked(d) : Rests(r, b)
       /\ UNCHANGED <<live, faults>>
    \/ \E g \in Groups :
        /\ NextGroup(e, g)
        /\ \/ /\ Spawn(r, e, g, 0)
              /\ Rests(r, Launched(e, g))
              /\ UNCHANGED faults
           \/ SpawnUnrecorded(r, e, g)
    \/ Breaks(r, e) /\ UNCHANGED live                         \* no child could be started
    \/ /\ In(e, "running") = {} /\ In(e, "pending") = {}
       /\ Finalize(r, e)
       /\ UNCHANGED <<live, faults>>

CooledDown(d) == d.status = "PAUSED_RUNTIME_EXHAUSTED" /\ AutoResume /\ d.autoResumeAt = "due"
CanLaunchOverOpen(r) ==   \* mutant: an open segment does not hold the next launch back
    Stepped(r) /\ (run[r].status \in {"QUEUED", "RUNNING"} \/ CooledDown(run[r]))
CanLaunch(r) ==
    /\ Stepped(r)
    /\ ~SegOpen(run[r])
    /\ run[r].status \in {"QUEUED", "RUNNING"} \/ CooledDown(run[r])
AutoResumed(d) == IF CooledDown(d) THEN [d EXCEPT !.status = "QUEUED", !.autoResumeAt = "none"] ELSE d

BudgetOffByOne(d) == Len(d.segs) > MaxSegments   \* mutant
OutOfBudget(d) == Len(d.segs) >= MaxSegments

\* launchNext up to the Commander's start turn
LaunchNext(r) ==
    LET d == AutoResumed(run[r]) IN
    /\ CanLaunch(r)
    /\ \/ /\ OutOfBudget(d)
          /\ Rests(r, OpenGate(d, "segment_budget"))
          /\ UNCHANGED <<live, faults>>
       \/ /\ ~OutOfBudget(d)
          /\ \/ Rests(r, OpenGate(d, "knowledge_changed")) /\ UNCHANGED <<live, faults>>
             \/ /\ CommanderEnabled /\ ~d.noted
                /\ Save(r, d) /\ Goto(r, "start")
                /\ UNCHANGED <<live, faults>>
             \/ /\ ~CommanderEnabled \/ d.noted
                /\ Dispatch(r, d)
       \/ (Throws(r, run[r]) \/ Breaks(r, d)) /\ UNCHANGED live
    /\ UNCHANGED <<paused, file>>

StartReturns(r) ==
    LET d == [run[r] EXCEPT !.noted = TRUE] IN
    /\ frame[r] = "start"
    /\ \/ (\E b \in Blocked(run[r]) : Rests(r, b)) /\ UNCHANGED <<live, faults>>
       \/ Rests(r, OpenGate(d, "engine_waiting")) /\ UNCHANGED <<live, faults>>
       \/ (Throws(r, run[r]) \/ Breaks(r, d)) /\ UNCHANGED live
       \/ Dispatch(r, d)
    /\ UNCHANGED <<paused, file>>

\* watchSegment first learns the bounded run from the log, and only then
\* applies a pause or stop that was asked for before the run was known
LearnsBid(r) == run[r].boundedRunId = 0 /\ LastFile(r).bid # 0
Learned(r) == IF LearnsBid(r) THEN Attributed(run[r], LastFile(r).bid) ELSE run[r]
LearnedPauseOnly(r) == LearnsBid(r) /\ run[r].pauseRequested   \* mutant: a stop is not applied
PausesLearned(r) == LearnsBid(r) /\ (run[r].pauseRequested \/ run[r].stopRequested)
PausedOnLearning(r) == SetFlags(r, IF PausesLearned(r) THEN {LastFile(r).bid} ELSE {}, "on")

Watched(r) == Stepped(r) /\ SegOpen(run[r])

WatchLive(r) ==
    /\ Watched(r)
    /\ LastFile(r).exit = "absent" /\ ChildAlive(r) /\ LearnsBid(r)
    /\ Save(r, Learned(r)) /\ PausedOnLearning(r)
    /\ UNCHANGED <<live, file, frame, faults>>

\* watchSegment hands over to finishSegment: the segment is closed, then the
\* snapshot is refreshed (an await)
Closes(r, code) ==
    /\ Save(r, Closed(Learned(r), LastFile(r), code))
    /\ Goto(r, "snapshot")
    /\ PausedOnLearning(r)

WatchRecordOnly(r) ==   \* mutant: a child that left no record is never noticed
    /\ Watched(r)
    /\ LastFile(r).exit # "absent" /\ Closes(r, LastFile(r).exit)
    /\ UNCHANGED <<live, file, faults>>
WatchEnded(r) ==
    /\ Watched(r)
    /\ \/ LastFile(r).exit # "absent" /\ Closes(r, LastFile(r).exit)
       \/ LastFile(r).exit = "absent" /\ ~ChildAlive(r) /\ Closes(r, "none")
    /\ UNCHANGED <<live, file, faults>>

\* the child writes its record and exits after the record was looked for and
\* before the process is: the segment counts as interrupted
WatchMissesRecord(r) ==
    /\ Watched(r)
    /\ LastFile(r).exit = "absent" /\ ChildAlive(r)
    /\ Closes(r, "none")
    /\ \E code \in Recorded :
        /\ code = "completed" => LastFile(r).bid # 0
        /\ file' = [file EXCEPT ![r][Len(run[r].segs)].exit = code]
    /\ live' = [live EXCEPT ![r] = @ \ SegChild(r)]
    /\ UNCHANGED faults

\* the watch of a segment fails: before it wrote anything, with the bounded run
\* learned and its pause not applied yet, or with both done
WatchBreaks(r) ==
    /\ Watched(r)
    /\ \/ (Throws(r, run[r]) \/ Throws(r, Learned(r))) /\ UNCHANGED paused
       \/ Dies(r, Learned(r), IF PausesLearned(r) THEN {"learn"} ELSE {}) /\ UNCHANGED paused
       \/ Breaks(r, Learned(r)) /\ PausedOnLearning(r)
    /\ UNCHANGED <<live, file>>

\* finishSegment after the snapshot: the document is read again
Ended(r) == run[r].segs[Len(run[r].segs)]
StopAsked(d) == d.stopRequested \/ d.status = "STOPPING"
PauseAsked(d) == d.pauseRequested \/ d.status = "PAUSING"

FinishRequested(r) ==
    LET d == run[r] IN
    /\ \/ StopAsked(d) /\ Rests(r, [d EXCEPT !.status = "STOPPED", !.stopRequested = FALSE])
       \/ ~StopAsked(d) /\ PauseAsked(d) /\ Rests(r, [d EXCEPT !.status = "PAUSED", !.pauseRequested = FALSE])
    /\ UNCHANGED faults

Unavailable(r) == Ended(r) # "completed" /\ LastFile(r).unavailable
FinishUnavailable(r) ==
    /\ \E d \in Blocked(run[r]) \cup {SetStatus(run[r], "QUEUED")} : Rests(r, d)
    /\ UNCHANGED faults

InterruptedTwice(d) == Len(d.segs) > 1 /\ d.segs[Len(d.segs) - 1] = "none"
FinishInterrupted(r) ==
    /\ Rests(r, IF InterruptedTwice(run[r]) THEN OpenGate(run[r], "interrupted") ELSE SetStatus(run[r], "QUEUED"))
    /\ UNCHANGED faults

\* the group of the segment is settled in one write, and the run follows in another
GroupSettled(r) ==
    IF Ended(r) = "completed" THEN MarkFirst(run[r], "running", "done")
    ELSE [MarkFirst(run[r], "running", "waiting") EXCEPT !.gates = @ \cup {"engine_waiting"}]
FinishSettled(r) ==
    LET d == GroupSettled(r) IN
    \/ /\ IF In(d, "pending") # {} THEN Rests(r, SetStatus(d, "QUEUED")) ELSE Finalize(r, d)
       /\ UNCHANGED faults
    \/ Breaks(r, d)

GroupHalted(r) == MarkFirst(run[r], "running", "halted")
FinishHalted(r) ==
    LET d == GroupHalted(r) IN
    \/ /\ Rests(r, CASE Ended(r) = "halted" -> OpenGate(d, "engine_halted")
                     [] Ended(r) = "refused" -> OpenGate(d, "engine_refused")
                     [] OTHER -> SetStatus(d, "FAILED"))
       /\ UNCHANGED faults
    \/ Throws(r, d) \/ Dies(r, d, {"halt"})

Finish(r) ==
    LET asked == StopAsked(run[r]) \/ PauseAsked(run[r]) IN
    /\ frame[r] = "snapshot"
    /\ \/ FinishRequested(r)
       \/ ~asked /\ Unavailable(r) /\ FinishUnavailable(r)
       \/ /\ ~asked /\ ~Unavailable(r)
          /\ \/ Ended(r) = "none" /\ FinishInterrupted(r)
             \/ Ended(r) \in {"completed", "gate"} /\ FinishSettled(r)
             \/ Ended(r) \in {"halted", "refused", "other"} /\ FinishHalted(r)
       \/ Throws(r, run[r])
    /\ UNCHANGED <<paused, live, file>>

\* a stop or pause whose segment was already closed when the step began
StepRequested(r) ==
    /\ Stepped(r) /\ ~SegOpen(run[r])
    /\ \/ run[r].status = "STOPPING" /\ Save(r, SetStatus(run[r], "STOPPED"))
       \/ run[r].status = "PAUSING" /\ Save(r, SetStatus(run[r], "PAUSED"))
    /\ UNCHANGED <<paused, live, file, frame, faults>>

-----------------------------------------------------------------------------
(* Children and the world *)

\* the child freezes a bounded run for its group, or resumes the one it was
\* given, and says so in its log (a log keeps the first line found)
ChildAnnounces(r, c) ==
    /\ c \in live[r]
    /\ file[r][c.seg].bid = 0
    /\ file' = [file EXCEPT ![r][c.seg].bid = IF c.bid = 0 THEN c.grp ELSE c.bid]
    /\ UNCHANGED <<run, paused, live, frame, faults>>

\* only a plan that was registered can complete; a gate or a refusal may come before it
ChildExits(r, c) ==
    /\ c \in live[r]
    /\ \E code \in Recorded, u \in BOOLEAN :
        /\ code = "completed" => file[r][c.seg].bid # 0
        /\ file' = [file EXCEPT ![r][c.seg].exit = code, ![r][c.seg].unavailable = @ \/ u]
    /\ live' = [live EXCEPT ![r] = @ \ {c}]
    /\ UNCHANGED <<run, paused, frame, faults>>

\* killed, or unable to write its exit record
ChildDies(r, c) ==
    /\ c \in live[r]
    /\ \E u \in BOOLEAN : file' = [file EXCEPT ![r][c.seg].unavailable = @ \/ u]
    /\ live' = [live EXCEPT ![r] = @ \ {c}]
    /\ UNCHANGED <<run, paused, frame, faults>>

\* the engine saves a task it had read before the Core paused it, and the flag is gone
ChildSavesOver(r, c) ==
    LET b == file[r][c.seg].bid IN
    /\ c \in live[r]
    /\ b # 0 /\ paused[r][b] = "on"
    /\ SetFlags(r, {b}, "erased")
    /\ UNCHANGED <<run, live, file, frame, faults>>

CooldownLapses(r) ==
    /\ run[r].autoResumeAt = "later"
    /\ Save(r, [run[r] EXCEPT !.autoResumeAt = "due"])
    /\ UNCHANGED <<paused, live, file, frame, faults>>

\* the service dies at an await and is started again: every unfinished step is gone
\* (a death inside a step, between two of its writes, is a disjunct of that step)
Crash ==
    /\ \E r \in Runs : frame[r] # "idle"
    /\ Fault("crashes", MaxCrashes)
    /\ Restarts
    /\ UNCHANGED <<run, paused, live, file>>

-----------------------------------------------------------------------------
Init ==
    /\ run = [r \in Runs |-> NewDoc]
    /\ paused = [r \in Runs |-> [b \in Groups |-> "off"]]
    /\ live = [r \in Runs |-> {}]
    /\ file = [r \in Runs |-> [i \in Index |-> NoFile]]
    /\ frame = [r \in Runs |-> "idle"]
    /\ faults = [crashes |-> 0, errors |-> 0, lost |-> 0, cut |-> {}]

Person(r) ==
    Create(r) \/ Pause(r) \/ Resume(r) \/ Stop(r) \/ Approve(r) \/ SendBack(r) \/ RequestFails(r)
Core(r) ==
    \/ LaunchNext(r) \/ StartReturns(r) \/ AssessReturns(r)
    \/ WatchLive(r) \/ WatchEnded(r) \/ WatchMissesRecord(r) \/ WatchBreaks(r)
    \/ Finish(r) \/ StepRequested(r)
Child(r) == \E c \in live[r] : ChildAnnounces(r, c) \/ ChildExits(r, c) \/ ChildDies(r, c) \/ ChildSavesOver(r, c)

Next == Crash \/ \E r \in Runs : Person(r) \/ Core(r) \/ Child(r) \/ CooldownLapses(r)

Spec == Init /\ [][Next]_vars

\* The timer steps every active run, a Commander turn returns or times out, and a
\* child ends: its stages are bounded by the engine's own timeouts.  Nothing is
\* assumed of a person, of an exhausted pool or of a fault.
Fairness == \A r \in Runs : WF_vars(Core(r)) /\ WF_vars(\E c \in live[r] : ChildExits(r, c) \/ ChildDies(r, c))
FairSpec == Spec /\ Fairness

-----------------------------------------------------------------------------
(* Properties *)

\* A run the Core drives carries no pause or stop that was asked for earlier:
\* whatever ended the request (a finished segment, a resume, an error a person
\* answered, a crash) also cleared its flag, or the next segment would be
\* stopped by a request nobody made (finishSegment reads the flags again).  There
\* is one way to such a request: the service dies in the assess turn of a run a
\* person was pausing, after it recorded that the Commander's pool is exhausted.
NoStaleRequest ==
    \A r \in Runs : run[r].status \in {"QUEUED", "RUNNING"} /\ <<r, "assess">> \notin faults.cut =>
        ~run[r].pauseRequested /\ ~run[r].stopRequested

\* the children the document does not speak of: not the child of its open segment
Orphans(r) == {c \in live[r] : ~(SegOpen(run[r]) /\ c \in SegChild(r))}

\* A run has at most one child on record, the process of its last segment, still
\* open.  A child runs beside it only when a step started one and failed before
\* it recorded it, and every such failure leaves at most one: a launch never puts
\* a second child next to a recorded one, and no stop, exception, restart or exit
\* record that the wrong child wrote leaves more behind (launchNext, watchSegment).
RecordedChild ==
    \A r \in Runs : /\ Cardinality(live[r] \ Orphans(r)) <= 1
                    /\ Cardinality(Orphans(r)) <= faults.lost

\* Without exceptions in a step, a child only lives while its run says RUNNING,
\* PAUSING or STOPPING, whatever requests came in while a step awaited
\* something: PAUSED, STOPPED and READY_FOR_REVIEW mean that nothing runs.
ChildSupervised ==
    faults.lost = 0 /\ faults.errors = 0 =>
        \A r \in Runs : live[r] # {} => run[r].status \in {"RUNNING", "PAUSING", "STOPPING"}

\* A graceful pause or stop reaches the engine: once the Core knows the bounded
\* run its child drives, the pause flag of its tasks has been set, also when the
\* request came before the run was known (watchSegment applies it then), and only
\* the engine's own save of an older copy can have taken it away again.  A service
\* that dies after it wrote the bounded run and before it paused its tasks never
\* comes back to them.
PauseReachesEngine ==
    faults.errors = 0 /\ faults.lost = 0 => \A r \in Runs :
        /\ run[r].status \in {"PAUSING", "STOPPING"} /\ live[r] # {} /\ run[r].boundedRunId # 0
        /\ <<r, "learn">> \notin faults.cut
        => paused[r][run[r].boundedRunId] # "off"

\* Groups are first started in dependency order: no group leaves "pending"
\* before every group listed ahead of it has (launchNext).
GroupsInOrder ==
    \A r \in Runs : \A g, h \in Groups :
        run[r].group[g] = "pending" /\ g < h => run[r].group[h] = "pending"

\* What a run says of its groups is backed by what happened.  It is offered for
\* review only behind an open review gate, with no segment open and no group that
\* waits for its turn or halted (finalize), unless the service died between
\* halting a group and opening the gate that says so.  A group parked at an engine gate has
\* that gate unresolved on the run, whatever resume, approval or race came by.
\* And every group marked done is paid for by a segment that exited 0: requests
\* and faults may mark the wrong group, never more groups than completed.
GroupsBacked ==
    \A r \in Runs :
        /\ run[r].status = "READY_FOR_REVIEW" =>
            /\ "review" \in run[r].gates
            /\ ~SegOpen(run[r]) /\ In(run[r], "pending") = {}
            /\ <<r, "halt">> \notin faults.cut => In(run[r], "halted") = {}
        /\ In(run[r], "waiting") # {} => "engine_waiting" \in run[r].gates
        /\ Cardinality(In(run[r], "done")) <=
             Cardinality({i \in 1 .. Len(run[r].segs) : run[r].segs[i] = "completed"})

\* A graceful stop of a running segment always ends in STOPPED: not even a crash
\* of the service or a child that dies without a record loses the request.
StopCompletes == \A r \in Runs : run[r].status = "STOPPING" ~> run[r].status = "STOPPED"

\* The Core never drives for ever: an active run comes to rest at a person, a
\* cooldown or an end, however its segments end and its Commander answers.
ActiveRests == \A r \in Runs : run[r].status \in Active ~> run[r].status \notin Active

-----------------------------------------------------------------------------
(* What the repository says and the code does not keep *)

\* workRunStore.ts calls these statuses the ones with nothing left for the Core
\* to do on its own; a step that awaits the Commander or the snapshot while a
\* person stops the run goes on and launches or settles it again.
SettledStaysSettled ==
    [][\A r \in Runs : run[r].status \in Settled /\ Core(r) => run'[r].status = run[r].status]_vars
=============================================================================
