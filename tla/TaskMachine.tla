---------------------------- MODULE TaskMachine ----------------------------
(***************************************************************************)
(* One task of the engine: its stored row, the evidence beside it, the     *)
(* process that drives it (orchestrator/orchestrator.ts and the drive loop *)
(* of engine/taskRunService.ts), and the other processes that write the    *)
(* same row meanwhile: `sta approve`, the status and approve calls of the  *)
(* Controller, `sta pause`, `cancel` and the service's pause and resume    *)
(* (orchestrator/taskRegistry.ts), a bounded run that lifts a block.       *)
(*                                                                         *)
(* Every process loads the row, works on its own copy and saves the whole  *)
(* copy (store/sqliteStore.ts saveTask): whoever saves last wins.  Every   *)
(* transaction of the engine saves the copy, so a process that is not the  *)
(* last to have written holds a copy that is behind.  The task lock keeps  *)
(* two drivers apart (module Locks), so there is one.                      *)
(*                                                                         *)
(* Evidence is a table of its own, append-only and read from the store at  *)
(* each decision; here it is what the decisions read of it: per stage      *)
(* whether its latest attempt has a recorded completion.                   *)
(***************************************************************************)
EXTENDS Naturals, Sequences, FiniteSets

CONSTANTS
    Pipeline,               \* the task's stages, in order
    RequiresHumanApproval,  \* whether a person is asked before production
    Governed,               \* whether each attempt is reserved before its adapter runs
    MaxRetry,               \* MAX_RETRY: rounds a kind of verdict may fail
    OrdinaryRounds,         \* rounds a classified finding gets
    Hands,                  \* the processes that write the row beside the driver
    MaxAsks                 \* bound: approval requests ever opened

Driver == "driver"
Processes == {Driver} \cup Hands

(* STAGE_TO_STATE; devops is assigned by Assigned below.                    *)
StateOf ==
    [system_analyst |-> "DESIGN", project_manager |-> "PLAN", test_planner |-> "PLAN",
     uxui_designer |-> "IMPLEMENTATION", backend |-> "IMPLEMENTATION", frontend |-> "IMPLEMENTATION",
     reviewer |-> "REVIEW", qa |-> "QA", security |-> "SECURITY",
     devops |-> "READY_TO_DEPLOY"]

Stages == DOMAIN StateOf
Implementers == {"backend", "frontend"}
Verifiers == {"reviewer", "qa", "security"}

Rank ==
    [CREATED |-> 0, DESIGN |-> 1, PLAN |-> 2, IMPLEMENTATION |-> 3, REVIEW |-> 4,
     QA |-> 5, SECURITY |-> 6, READY_TO_DEPLOY |-> 7, APPROVED |-> 8, DEPLOYED |-> 9]

Ran == {Pipeline[i] : i \in DOMAIN Pipeline}

ASSUME PipelineAssumption ==
    /\ Pipeline \in Seq(Stages)
    /\ \A i, j \in DOMAIN Pipeline :
          i < j => Pipeline[i] # Pipeline[j] /\ Rank[StateOf[Pipeline[i]]] <= Rank[StateOf[Pipeline[j]]]
    /\ RequiresHumanApproval \in BOOLEAN
    /\ Governed \in BOOLEAN
    /\ MaxRetry \in Nat
    /\ OrdinaryRounds \in Nat
    /\ MaxAsks \in Nat
    /\ Driver \notin Hands

VARIABLES
    row,       \* the stored task
    mem,       \* each process's copy of it
    pc,        \* where each process is
    evidence,  \* what the evidence table says
    asked,     \* approval requests opened so far
    past       \* what happened, for the properties only

vars == <<row, mem, pc, evidence, asked, past>>

-----------------------------------------------------------------------------
(* computeSequence: the states this task walks, in the order of Rank.       *)
Sequence ==
    {"CREATED", "READY_TO_DEPLOY", "DEPLOYED"}
        \cup {StateOf[g] : g \in Ran}
        \cup (IF RequiresHumanApproval THEN {"APPROVED"} ELSE {})

After(s) == {t \in Sequence : Rank[t] > Rank[s]}

Last(s) == After(s) = {"DEPLOYED"}

Questions == {"schema", "deploy"} \cup Verifiers

Statuses == {"none", "pending", "approved", "rejected"}

(* The part of PersistedTask the engine decides on: machine.current and the *)
(* state before a block, the cursor, the reports that passed, the facts of  *)
(* the design, the approval ledger, lastFailure, the reserved attempt.      *)
Rows ==
    [state : Sequence \cup {"BLOCKED"}, from : Sequence \cup {"none", "FAILED"},
     cursor : 1..(Len(Pipeline) + 1), prepared : BOOLEAN, passed : SUBSET Verifiers,
     clear : BOOLEAN, retries : [Verifiers -> Nat],
     asks : [Questions -> [id : Nat, status : Statuses]],
     failure : {"none", "unavailable", "other"}, inflight : Ran \cup {"none"},
     paused : BOOLEAN, cancelled : BOOLEAN, done : BOOLEAN]

Fresh ==
    [state |-> "CREATED", from |-> "none", cursor |-> 1, prepared |-> FALSE, passed |-> {},
     clear |-> FALSE, retries |-> [k \in Verifiers |-> 0],
     asks |-> [q \in Questions |-> [id |-> 0, status |-> "none"]],
     failure |-> "none", inflight |-> "none", paused |-> FALSE, cancelled |-> FALSE, done |-> FALSE]

Stage(r) == IF r.cursor \in DOMAIN Pipeline THEN Pipeline[r.cursor] ELSE "none"

Behind(r) == {Pipeline[i] : i \in 1..(r.cursor - 1)}

(* isAgentAssignedAt: devops prepares at READY_TO_DEPLOY and executes once  *)
(* APPROVED, with the cursor on it both times.                              *)
Assigned(r, s) ==
    IF Stage(r) = "devops"
    THEN (s = "READY_TO_DEPLOY" /\ ~r.prepared) \/ s = "APPROVED"
    ELSE Stage(r) # "none" /\ StateOf[Stage(r)] = s

(* approvalTypeForEdge.                                                     *)
QuestionAt(s) ==
    IF s = "DESIGN" THEN "schema"
    ELSE IF s = "READY_TO_DEPLOY" /\ RequiresHumanApproval THEN "deploy" ELSE "none"

Said(r, q, answer) == q \in Questions /\ r.asks[q].status = answer

(* checkGate on leaving s.                                                  *)
GateOpen(r, s) ==
    /\ s = "DESIGN" => r.clear \/ Said(r, "schema", "approved")
    /\ \A g \in Verifiers : s = StateOf[g] => g \in r.passed
    /\ QuestionAt(s) = "deploy" => Said(r, "deploy", "approved")

-----------------------------------------------------------------------------
Recorded(ev, g) == ev.latest[g] = "done"

Backed(r, ev, q) == Said(r, q, "approved") => r.asks[q].id \in ev.yes

(* unmetStateExit and the approval evidence of the edge.                    *)
ExitMet(r, ev, s) ==
    /\ \A g \in Behind(r) \ {"devops"} : StateOf[g] = s => Recorded(ev, g)
    /\ s = "READY_TO_DEPLOY" /\ "devops" \in Ran => Recorded(ev, "devops") /\ ev.phase = "prepare"
    /\ s = "APPROVED" /\ "devops" \in Behind(r) => Recorded(ev, "devops") /\ ev.phase = "execute"
    /\ Backed(r, ev, QuestionAt(s))

(* decideTaskCompletion.                                                    *)
TaskComplete(r, ev) ==
    /\ \A g \in Ran : Recorded(ev, g)
    /\ "devops" \in Ran => ev.phase = "execute" /\ ev.prepared
    /\ \A q \in Questions : ~Said(r, q, "pending") /\ ~Said(r, q, "rejected") /\ Backed(r, ev, q)

(* guardForward.                                                            *)
Justified(r, ev, s) == ExitMet(r, ev, s) /\ (Last(s) => TaskComplete(r, ev))

StopsAt(r, ev, s) == s = "DEPLOYED" \/ Assigned(r, s) \/ ~GateOpen(r, s) \/ ~Justified(r, ev, s)

(* Where the loop of advance comes to rest.                                 *)
Reached(r, ev) ==
    CHOOSE s \in Sequence :
        /\ Rank[s] >= Rank[r.state]
        /\ StopsAt(r, ev, s)
        /\ \A t \in Sequence : Rank[r.state] <= Rank[t] /\ Rank[t] < Rank[s] => ~StopsAt(r, ev, t)

Block(r, s) == [r EXCEPT !.state = "BLOCKED", !.from = s]

(* requestApproval: a question is opened once.                              *)
Open(r, q) ==
    IF q \in Questions /\ r.asks[q].status = "none"
    THEN [r EXCEPT !.asks[q] = [id |-> asked + 1, status |-> "pending"]]
    ELSE r

Walks(r) == r.state \in Sequence \ {"DEPLOYED"} /\ r.inflight = "none"

(* advance: through every state whose work is recorded and whose gate is    *)
(* open, to the next agent, question, refusal or the end.                   *)
Advanced(r, ev) ==
    LET s == Reached(r, ev)
        here == [r EXCEPT !.state = s]
    IN IF ~Walks(r) THEN r
       ELSE IF s = "DEPLOYED" THEN [here EXCEPT !.done = TRUE]
       ELSE IF Assigned(r, s) THEN here
       ELSE IF GateOpen(r, s) \/ Said(r, QuestionAt(s), "rejected") THEN Block(here, s)
       ELSE Open(here, QuestionAt(s))

Running(r) == Walks(r) /\ Assigned(r, r.state)

Executing(r) == Stage(r) = "devops" /\ r.state = "APPROVED"
-----------------------------------------------------------------------------
(* What an executor can come back with.  PASS is "complete", or "risky" for *)
(* a design that must be confirmed, or "incomplete" when STA finds the      *)
(* stage's own proof missing; "spent" is any result that ends the task's    *)
(* budget.  A FAIL carries no classified failure, one that no runtime could *)
(* serve ("unavailable"), another outage, one no policy lets pass without a *)
(* person or whose owner is no stage of the task ("critical"), or the stage *)
(* that owns it; the consultant's FAIL is a question to the stage that owns *)
(* the answer.                                                              *)
Outcomes(g) ==
    {"complete", "spent", "fail", "unavailable"}
        \cup (IF g = "system_analyst" THEN {"risky"} ELSE {})
        \cup (IF g \in Implementers \cup Verifiers THEN {"incomplete"} ELSE {})
        \cup (IF g \in Verifiers THEN {"outage"} ELSE {})
        \cup (IF g \in Verifiers \cup {"uxui_designer"} THEN {"critical"} \cup Ran ELSE {})

Passes(o) == o \in {"complete", "risky", "incomplete"}

(* decideStageCompletion, with the reviewer's independence.                 *)
Completes(r, ev, g, o) ==
    /\ o \in {"complete", "risky"}
    /\ g = "reviewer" => \E h \in Behind(r) : h \in Implementers
    /\ g = "reviewer" => \A h \in Behind(r) \cap Implementers : Recorded(ev, h)

Position(g) == CHOOSE i \in DOMAIN Pipeline : Pipeline[i] = g

FirstImplementer ==
    CHOOSE g \in Ran \cap Implementers : \A h \in Ran \cap Implementers : Position(g) <= Position(h)

(* routeFailure and the severity ceiling: what only a person can answer.    *)
Escalates(o, used) ==
    IF o = "fail" THEN Ran \cap Implementers = {}
    ELSE \/ o \notin Ran
         \/ used > OrdinaryRounds
         \/ StateOf[o] \notin {"DESIGN", "PLAN", "IMPLEMENTATION"}

\* mutant of Failed: the stage's index counted from zero
FailedZeroBased(r, g, o) ==
    IF o \in Ran THEN [r EXCEPT !.cursor = Position(o) - 1, !.state = StateOf[o]]
    ELSE Block(Open(r, g), "IMPLEMENTATION")

\* mutant of Failed: a finding costs no round
FailedForgiving(r, g, o) ==
    IF o = "fail" THEN [r EXCEPT !.retries[g] = @ + 1, !.state = "IMPLEMENTATION", !.cursor = Position(FirstImplementer)]
    ELSE IF Escalates(o, 0) THEN Block(Open(r, g), "IMPLEMENTATION")
    ELSE [r EXCEPT !.cursor = Position(o), !.state = StateOf[o]]

(* recordFailure and applyFailureRoute.                                     *)
Failed(r, g, o) ==
    LET used == r.retries[g] + (IF o = "outage" THEN 0 ELSE 1)
        back == [r EXCEPT !.retries[g] = used, !.state = "IMPLEMENTATION"]
    IN IF used > MaxRetry \/ "IMPLEMENTATION" \notin Sequence THEN Block(back, "FAILED")
       ELSE IF Escalates(o, used) THEN Block(Open(back, g), "IMPLEMENTATION")
       ELSE IF o = "fail" THEN [back EXCEPT !.cursor = Position(FirstImplementer)]
       ELSE [back EXCEPT !.cursor = Position(o), !.state = StateOf[o]]

(* routeUxuiQuestionBack: to the analyst or planner who can answer, for no  *)
(* round of any budget; anybody else's question is a person's.              *)
Questioned(r, o) ==
    IF o \in Ran /\ StateOf[o] \in {"DESIGN", "PLAN"}
    THEN [r EXCEPT !.cursor = Position(o), !.state = StateOf[o]]
    ELSE Block(r, r.state)

(* What the result itself leaves in the row: the report, which comes with a *)
(* verdict and else stays the last one, facts of the design, lastFailure;   *)
(* and the reservation is settled.                                          *)
Noted(r, g, o) ==
    [r EXCEPT !.inflight = "none",
              !.passed = IF g \notin Verifiers THEN @
                         ELSE IF Passes(o) THEN @ \cup {g}
                         ELSE IF o \in Stages \cup {"critical"} THEN @ \ {g} ELSE @,
              !.clear = IF g = "system_analyst" /\ o \in {"complete", "risky"} THEN o = "complete" ELSE @,
              !.failure = IF o = "unavailable" THEN o
                          ELSE IF Passes(o) \/ o \in {"fail", "spent"} THEN @ ELSE "other"]

\* mutant of Settled: a repaired task goes on at the next stage without a completion
SettledSkipping(r, ev, g, o) ==
    LET noted == Noted(r, g, o)
        open == {i \in DOMAIN Pipeline : i > r.cursor /\ ~Recorded(ev, Pipeline[i])}
        due == CHOOSE i \in open \cup {Len(Pipeline) + 1} : \A j \in open : i <= j
    IN IF o \in {"spent", "unavailable"} THEN Block(noted, r.state)
       ELSE IF Completes(r, ev, g, o) THEN [noted EXCEPT !.cursor = due]
       ELSE IF g \in Verifiers /\ ~Passes(o) THEN Failed(noted, g, o)
       ELSE noted

(* completeAttempt up to its last advance.                                  *)
Settled(r, ev, g, o) ==
    LET noted == Noted(r, g, o)
    IN IF o \in {"spent", "unavailable"} THEN Block(noted, r.state)
       ELSE IF Completes(r, ev, g, o)
       THEN IF g = "devops" /\ ~Executing(r) THEN [noted EXCEPT !.prepared = TRUE]
            ELSE [noted EXCEPT !.cursor = @ + 1]
       ELSE IF Passes(o) THEN noted
       ELSE IF Executing(r) THEN Block(noted, r.state)
       ELSE IF g \in Verifiers THEN Failed(noted, g, o)
       ELSE IF g = "uxui_designer" /\ o # "fail" THEN Questioned(noted, o)
       ELSE noted

(* The evidence of the attempt: a role-run, and a completion if it has one. *)
Witnessed(r, ev, g, o) ==
    LET whole == Completes(r, ev, g, o)
        phase == IF Executing(r) THEN "execute" ELSE "prepare"
    IN [ev EXCEPT !.latest[g] = IF whole THEN "done" ELSE "open",
                  !.phase = IF g = "devops" THEN phase ELSE @,
                  !.prepared = @ \/ (g = "devops" /\ whole /\ phase = "prepare")]

-----------------------------------------------------------------------------
(* What the properties remember: whether a copy that was behind overwrote   *)
(* the row and, until then, the verdicts, rounds and deployments and why    *)
(* the task is blocked; what was asked of it (held) always.                 *)
NoPast(lost, held) ==
    [lost |-> lost, held |-> held, seen |-> {}, rounds |-> [k \in Verifiers |-> 0],
     deploys |-> 0, block |-> "none"]

(* saveTask: the whole copy, whatever the row has become since, and what    *)
(* the process does next.                                                   *)
Save(p, r, next, cause, facts) ==
    /\ row' = r
    /\ mem' = [mem EXCEPT ![p] = IF next = "idle" THEN Fresh ELSE r]
    /\ pc' = [pc EXCEPT ![p] = next]
    /\ asked' = asked + (IF \E q \in Questions : r.asks[q].id = asked + 1 THEN 1 ELSE 0)
    /\ asked' <= MaxAsks
    /\ past' = IF past.lost \/ (mem[p] # row /\ r # row)
               THEN NoPast(TRUE, facts.held)
               ELSE [facts EXCEPT !.block = IF r.state # "BLOCKED" THEN "none"
                                            ELSE IF mem[p].state = "BLOCKED" THEN @ ELSE cause]

(* TaskRegistry.open and resume: a copy of the row as it is now.            *)
Load(p) ==
    /\ pc[p] = "idle"
    /\ mem' = [mem EXCEPT ![p] = row]
    /\ pc' = [pc EXCEPT ![p] = "loaded"]
    /\ UNCHANGED <<row, evidence, asked, past>>

(* A process ends: it was done, a stop was due, its executor threw, or it   *)
(* died.  Its copy goes with it; what it had saved stays.                   *)
Leave(p) ==
    /\ pc[p] # "idle"
    /\ mem' = [mem EXCEPT ![p] = Fresh]
    /\ pc' = [pc EXCEPT ![p] = "idle"]
    /\ UNCHANGED <<row, evidence, asked, past>>

-----------------------------------------------------------------------------
(* driveTask reads the hold fresh before every step.                        *)
Poll ==
    /\ pc[Driver] = "loaded"
    /\ IF row.cancelled \/ row.paused
       THEN Leave(Driver)
       ELSE /\ pc' = [pc EXCEPT ![Driver] = "polled"]
            /\ UNCHANGED <<row, mem, evidence, asked, past>>

(* orchestrator.status(): the walk, saved; a stage guard may refuse the     *)
(* stage it ends on.                                                        *)
Advance ==
    /\ pc[Driver] = "polled"
    /\ LET r == Advanced(mem[Driver], evidence)
       IN \E next \in IF Running(r) THEN {"assigned", "idle"} ELSE {"idle"} :
             Save(Driver, r, next, "other", past)
    /\ UNCHANGED evidence

\* mutant of Dispatch: a deployment starts unreserved
DispatchUnreserved ==
    /\ pc[Driver] = "assigned"
    /\ LET r == Advanced(mem[Driver], evidence)
       IN Save(Driver, r, "running", "other",
               [past EXCEPT !.deploys = IF Executing(r) /\ @ < 2 THEN @ + 1 ELSE @])
    /\ UNCHANGED evidence

(* step(): the status once more, the reservation of a real deployment, and  *)
(* the executor starts.                                                     *)
Dispatch ==
    /\ pc[Driver] = "assigned"
    /\ LET r == Advanced(mem[Driver], evidence)
       IN IF Executing(r)
          THEN Save(Driver, [r EXCEPT !.inflight = "devops"], "running", "other",
                    [past EXCEPT !.deploys = IF @ = 2 THEN 2 ELSE @ + 1])
          ELSE Save(Driver, r, "running", "other", past)
    /\ UNCHANGED evidence

(* recordRoleDispatch: the packet is on disk, the adapter not yet started.  *)
RecordDispatch ==
    /\ Governed
    /\ pc[Driver] = "running"
    /\ mem[Driver].inflight = "none"
    /\ Save(Driver, [mem[Driver] EXCEPT !.inflight = Stage(mem[Driver])], "running", "other", past)
    /\ UNCHANGED evidence

(* What the properties remember of an attempt: the verdicts that have seen  *)
(* the latest work, the rounds that failed, the deployments whose outcome   *)
(* was not "no runtime".                                                    *)
Remembered(r, g, o) ==
    [past EXCEPT
        !.seen = IF g \in Implementers THEN {}
                 ELSE IF g \in Verifiers /\ o = "complete" THEN @ \cup {g} ELSE @,
        !.rounds = [k \in Verifiers |->
                      IF k = g /\ past.rounds[k] <= MaxRetry
                         /\ o \notin {"complete", "incomplete", "spent", "unavailable", "outage"}
                      THEN past.rounds[k] + 1 ELSE past.rounds[k]],
        !.deploys = IF Executing(r) /\ o = "unavailable" THEN 0 ELSE @]

\* mutant of Report: the drive goes on although the stage made no progress
ReportAndGoOn(o) ==
    /\ pc[Driver] = "running"
    /\ LET r == mem[Driver]
           g == Stage(r)
           ev == Witnessed(r, evidence, g, o)
       IN /\ o \in Outcomes(g)
          /\ Governed /\ Passes(o) => r.inflight = g /\ ~Executing(r)
          /\ evidence' = ev
          /\ \E next \in {Advanced(Settled(r, evidence, g, o), ev)} :
                Save(Driver, next, "loaded",
                     IF o = "unavailable" THEN o ELSE "other", Remembered(r, g, o))

(* reportCompletion: one transaction from the role-run to the next status.  *)
(* A governed pass needs its reservation and the dispatch that goes with    *)
(* it, which a deployment step has reserved cannot record any more.  The    *)
(* loop ends when the same stage is due again.                              *)
Report(o) ==
    /\ pc[Driver] = "running"
    /\ LET r == mem[Driver]
           g == Stage(r)
           ev == Witnessed(r, evidence, g, o)
       IN /\ o \in Outcomes(g)
          /\ Governed /\ Passes(o) => r.inflight = g /\ ~Executing(r)
          /\ evidence' = ev
          /\ \E next \in {Advanced(Settled(r, evidence, g, o), ev)} :
                Save(Driver, next, IF Running(next) /\ Stage(next) = g THEN "idle" ELSE "loaded",
                     IF o = "unavailable" THEN o ELSE "other", Remembered(r, g, o))

-----------------------------------------------------------------------------
(* A status query, and what `sta approve` does before it answers: the same  *)
(* walk, saved.                                                             *)
Ask(h) ==
    /\ pc[h] = "loaded"
    /\ Save(h, Advanced(mem[h], evidence), "loaded", "other", past)
    /\ UNCHANGED evidence

(* submitHumanDecision: the channel is awaited, then the request is read    *)
(* again from the stored row; an answer recorded for it is never rewritten. *)
Answer(h, q, yes) ==
    /\ pc[h] = "loaded"
    /\ LET ask == mem[h].asks[q]
       IN /\ ask.status = "pending"
          /\ row.asks[q].id = ask.id => row.asks[q].status = "pending"
          /\ ask.id \notin evidence.yes \cup evidence.no
          /\ evidence' = [evidence EXCEPT !.yes = IF yes THEN @ \cup {ask.id} ELSE @,
                                          !.no = IF yes THEN @ ELSE @ \cup {ask.id}]
          /\ Save(h, [mem[h] EXCEPT !.asks[q].status = IF yes THEN "approved" ELSE "rejected"],
                  "idle", "other", past)

(* TaskRegistry.pause and cancel, and unpause.                              *)
Hold(h, how) ==
    /\ pc[h] = "loaded"
    /\ Save(h, [mem[h] EXCEPT ![how] = TRUE], "idle", "other", [past EXCEPT !.held = @ \cup {how}])
    /\ UNCHANGED evidence

Unpause(h) ==
    /\ pc[h] = "loaded"
    /\ mem[h].paused
    /\ Save(h, [mem[h] EXCEPT !.paused = FALSE], "idle", "other", [past EXCEPT !.held = @ \ {"paused"}])
    /\ UNCHANGED evidence

\* mutant of Release: a pause is lifted with the block
ReleaseUnpausing(h) ==
    /\ pc[h] = "loaded"
    /\ mem[h].state = "BLOCKED"
    /\ ~mem[h].cancelled
    /\ mem[h].inflight = "none"
    /\ mem[h].failure = "unavailable"
    /\ Save(h, [mem[h] EXCEPT !.state = mem[h].from, !.from = "none", !.failure = "none", !.paused = FALSE],
            "idle", "other", past)
    /\ UNCHANGED evidence

\* mutant of Release: the failure that was answered stays the last one
ReleaseKeeping(h) ==
    /\ pc[h] = "loaded"
    /\ mem[h].state = "BLOCKED"
    /\ ~mem[h].cancelled
    /\ mem[h].inflight = "none"
    /\ mem[h].failure = "unavailable"
    /\ Save(h, [mem[h] EXCEPT !.state = mem[h].from, !.from = "none"], "idle", "other", past)
    /\ UNCHANGED evidence

(* releaseRuntimeUnavailableBlock.                                          *)
Release(h) ==
    /\ pc[h] = "loaded"
    /\ mem[h].state = "BLOCKED"
    /\ ~mem[h].cancelled
    /\ mem[h].inflight = "none"
    /\ mem[h].failure = "unavailable"
    /\ Save(h, [mem[h] EXCEPT !.state = mem[h].from, !.from = "none", !.failure = "none"],
            "idle", "other", past)
    /\ UNCHANGED evidence

-----------------------------------------------------------------------------
Init ==
    /\ row = Fresh
    /\ mem = [p \in Processes |-> Fresh]
    /\ pc = [p \in Processes |-> "idle"]
    /\ evidence = [latest |-> [g \in Stages |-> "none"], phase |-> "none", prepared |-> FALSE,
                   yes |-> {}, no |-> {}]
    /\ asked = 0
    /\ past = NoPast(FALSE, {})

Drive ==
    \/ Poll
    \/ Advance
    \/ Dispatch
    \/ RecordDispatch
    \/ \E o \in Outcomes(Stage(mem[Driver])) : Report(o)

Handle(h) ==
    \/ Ask(h)
    \/ \E q \in Questions, yes \in BOOLEAN : Answer(h, q, yes)
    \/ \E how \in {"paused", "cancelled"} : Hold(h, how)
    \/ Unpause(h)
    \/ Release(h)

Next ==
    \/ Drive
    \/ \E p \in Processes : Load(p) \/ Leave(p)
    \/ \E h \in Hands : Handle(h)

Spec == Init /\ [][Next]_vars

-----------------------------------------------------------------------------
Evidence ==
    [latest : [Stages -> {"none", "open", "done"}], phase : {"none", "prepare", "execute"},
     prepared : BOOLEAN, yes : SUBSET Nat, no : SUBSET Nat]

Pasts ==
    [lost : BOOLEAN, held : SUBSET {"paused", "cancelled"}, seen : SUBSET Verifiers,
     rounds : [Verifiers -> Nat], deploys : 0..2,
     block : {"none", "unavailable", "other"}]

(* The row, the copies and the evidence keep their shape; no question is    *)
(* answered both ways.                                                      *)
TypeOK ==
    /\ row \in Rows
    /\ mem \in [Processes -> Rows]
    /\ pc \in [Processes -> {"idle", "loaded", "polled", "assigned", "running"}]
    /\ evidence \in Evidence
    /\ asked \in Nat
    /\ past \in Pasts
    /\ evidence.yes \cap evidence.no = {}

(* What a person asked for stands: a pause until it is lifted, a cancel for *)
(* good (taskRegistry.ts:286, docs/bounded-run.md:114), whatever the driver *)
(* was doing when it was asked.                                             *)
HoldStands ==
    /\ "paused" \in past.held => row.paused
    /\ "cancelled" \in past.held => row.cancelled

(* A hold is lost in one way only: a process saved a copy older than the    *)
(* row (orchestrator.ts snapshot echoes what it loaded).                    *)
HoldLostOnlyByOldCopy == past.lost \/ HoldStands

(* A deployment starts a second time only after an attempt that no runtime  *)
(* served: not after a failure, a death in the middle or any answer         *)
(* (step's reservation), unless an old copy erased the reservation.         *)
DeployedAtMostOnce == past.lost \/ past.deploys <= 1

(* A task is past verification only on verdicts that saw its latest work,   *)
(* and DEPLOYED only on a completion for every stage and a recorded yes to  *)
(* everything asked, the deployment first of all (guardForward).            *)
DoneIsBacked ==
    \/ past.lost
    \/ /\ row.state \in {"READY_TO_DEPLOY", "APPROVED", "DEPLOYED"} => Ran \cap Verifiers \subseteq past.seen
       /\ row.state = "DEPLOYED" =>
             /\ row.done
             /\ TaskComplete(row, evidence)
             /\ RequiresHumanApproval => Said(row, "deploy", "approved")

(* A kind of verdict fails at most MAX_RETRY + 1 times over all drives of   *)
(* the task, and the last of these blocks it.                               *)
RoundsAreBounded ==
    \/ past.lost
    \/ \A k \in Verifiers : /\ past.rounds[k] = row.retries[k]
                            /\ past.rounds[k] > MaxRetry => row.state = "BLOCKED"

(* Only a block that came of having no runtime is ever lifted; a rejection, *)
(* a spent budget, a finding or a refusal stays a person's                  *)
(* (taskRegistry.ts:236).                                                   *)
OnlyOutagesReleased ==
    [][past.block = "other" /\ ~past'.lost => row'.state = "BLOCKED"]_vars

(* Every drive ends: with the task done, blocked, waiting or stalled.       *)
DriveEnds == (pc[Driver] # "idle") ~> (pc[Driver] = "idle")
=============================================================================
