------------------------- MODULE TaskMachineProofs -------------------------
(* What holds of TaskMachine for every pipeline, every budget of rounds and *)
(* every number of processes that write the row.                           *)
EXTENDS TaskMachine, TLAPS, NaturalsInduction, WellFoundedInduction

(* A row that says no runtime could serve it is one that is blocked on      *)
(* that, with a state to go back to.                                        *)
Coherent(r) == r.failure = "unavailable" => r.state = "BLOCKED" /\ r.from \in Sequence

(* A driver between two steps of a stage has a copy with an agent at work.  *)
AtWork(r) == r.state \in Sequence \ {"DEPLOYED"} /\ Assigned(r, r.state)

(* What a walk leaves alone.                                                *)
Kept(a, r) ==
    /\ a.cursor = r.cursor /\ a.prepared = r.prepared /\ a.passed = r.passed /\ a.clear = r.clear
    /\ a.retries = r.retries /\ a.failure = r.failure /\ a.inflight = r.inflight
    /\ a.paused = r.paused /\ a.cancelled = r.cancelled

TypeInv ==
    /\ TypeOK
    /\ \A p \in Processes : Coherent(mem[p])
    /\ Coherent(row)
    /\ pc[Driver] \in {"assigned", "running"} => AtWork(mem[Driver])

-----------------------------------------------------------------------------
(* The pipeline, the ranks and the positions.                               *)
LEMMA PipelineFacts ==
    /\ Pipeline \in Seq(Stages)
    /\ Len(Pipeline) \in Nat
    /\ DOMAIN Pipeline = 1..Len(Pipeline)
    /\ \A i \in 1..Len(Pipeline) : Pipeline[i] \in Stages /\ Pipeline[i] \in Ran
    /\ \A i, j \in 1..Len(Pipeline) :
          i < j => Pipeline[i] # Pipeline[j] /\ Rank[StateOf[Pipeline[i]]] <= Rank[StateOf[Pipeline[j]]]
    /\ Ran \subseteq Stages
    /\ RequiresHumanApproval \in BOOLEAN /\ Governed \in BOOLEAN
    /\ MaxRetry \in Nat /\ OrdinaryRounds \in Nat /\ MaxAsks \in Nat /\ Driver \notin Hands
    /\ Driver \in Processes
BY PipelineAssumption DEF Ran, Processes

LEMMA RanStages == Ran \subseteq Stages
BY PipelineFacts

LEMMA StageFacts ==
    /\ Stages = {"system_analyst", "project_manager", "test_planner", "uxui_designer", "backend", "frontend",
                 "reviewer", "qa", "security", "devops"}
    /\ "none" \notin Stages
    /\ \A g \in Stages : StateOf[g] \in {"DESIGN", "PLAN", "IMPLEMENTATION", "REVIEW", "QA", "SECURITY", "READY_TO_DEPLOY"}
    /\ \A g \in Ran : StateOf[g] \in Sequence
BY PipelineFacts DEF Stages, StateOf, Sequence

LEMMA SequenceFacts ==
    /\ Sequence \subseteq DOMAIN Rank
    /\ \A s \in DOMAIN Rank : Rank[s] \in Nat /\ Rank[s] <= 9
    /\ \A s, t \in DOMAIN Rank : Rank[s] = Rank[t] => s = t
    /\ "DEPLOYED" \in Sequence /\ Rank["DEPLOYED"] = 9
    /\ "BLOCKED" \notin Sequence /\ "none" \notin Sequence /\ "FAILED" \notin Sequence
<1>1. DOMAIN Rank = {"CREATED", "DESIGN", "PLAN", "IMPLEMENTATION", "REVIEW", "QA", "SECURITY",
                     "READY_TO_DEPLOY", "APPROVED", "DEPLOYED"}
  BY DEF Rank
<1>2. \A s \in DOMAIN Rank : Rank[s] \in Nat /\ Rank[s] <= 9
  BY DEF Rank
<1>7. /\ Rank["CREATED"] = 0 /\ Rank["DESIGN"] = 1 /\ Rank["PLAN"] = 2 /\ Rank["IMPLEMENTATION"] = 3
      /\ Rank["REVIEW"] = 4 /\ Rank["QA"] = 5 /\ Rank["SECURITY"] = 6 /\ Rank["READY_TO_DEPLOY"] = 7
      /\ Rank["APPROVED"] = 8 /\ Rank["DEPLOYED"] = 9
  BY DEF Rank
<1>3. \A s, t \in DOMAIN Rank : Rank[s] = Rank[t] => s = t
  BY <1>1, <1>7
<1>4. Sequence \subseteq DOMAIN Rank
  BY <1>1, StageFacts, PipelineFacts DEF Sequence
<1>5. "DEPLOYED" \in Sequence /\ Rank["DEPLOYED"] = 9
  BY DEF Sequence, Rank
<1>6. "BLOCKED" \notin Sequence /\ "none" \notin Sequence /\ "FAILED" \notin Sequence
  BY <1>1, <1>4
<1>. QED
  BY <1>2, <1>3, <1>4, <1>5, <1>6

LEMMA PositionFacts ==
    ASSUME NEW g \in Ran
    PROVE  Position(g) \in 1..Len(Pipeline) /\ Pipeline[Position(g)] = g
<1>1. \E i \in DOMAIN Pipeline : Pipeline[i] = g
  BY DEF Ran
<1>. QED
  BY <1>1, PipelineFacts DEF Position

LEMMA FirstImplementerFacts ==
    ASSUME Ran \cap Implementers # {}
    PROVE  FirstImplementer \in Ran \cap Implementers
<1>1. PICK g \in Ran \cap Implementers : TRUE
  OBVIOUS
<1>2. Position(g) \in Int /\ \A h \in Ran \cap Implementers : Position(h) \in Int
  BY PositionFacts
<1>3. \E h \in Ran \cap Implementers : \A k \in Ran \cap Implementers : Position(h) <= Position(k)
  <2>1. CASE \A k \in Ran \cap Implementers : Position(g) <= Position(k)
    BY <2>1
  <2>2. CASE ~\A k \in Ran \cap Implementers : Position(g) <= Position(k)
    <3>1. PICK h \in Ran \cap Implementers : ~(Position(g) <= Position(h))
      BY <2>2
    <3>2. \A k \in Ran \cap Implementers : k = g \/ k = h
      BY <3>1, <1>2 DEF Implementers
    <3>. QED
      BY <3>1, <3>2, <1>2
  <2>. QED
    BY <2>1, <2>2
<1>. QED
  BY <1>3 DEF FirstImplementer

(* The walk comes to rest: at the first state, from where the row is, that  *)
(* stops it.                                                                *)
LEMMA ReachedFacts ==
    ASSUME NEW r, NEW ev, r.state \in Sequence
    PROVE  /\ Reached(r, ev) \in Sequence
           /\ Rank[Reached(r, ev)] >= Rank[r.state]
           /\ StopsAt(r, ev, Reached(r, ev))
           /\ \A t \in Sequence :
                 Rank[r.state] <= Rank[t] /\ Rank[t] < Rank[Reached(r, ev)] => ~StopsAt(r, ev, t)
<1>. DEFINE Stop(s) == Rank[s] >= Rank[r.state] /\ StopsAt(r, ev, s)
            At == {n \in Nat : \E s \in Sequence : n = Rank[s] /\ Stop(s)}
<1>1. 9 \in At
  BY SequenceFacts DEF StopsAt
<1>2. PICK n \in At : \A m \in At : ~(<<m, n>> \in OpToRel(<, Nat))
  BY <1>1, NatLessThanWellFounded, WFMin
<1>3. \A m \in At : ~(m < n)
  BY <1>2 DEF OpToRel
<1>4. PICK s \in Sequence : n = Rank[s] /\ Stop(s)
  BY <1>2
<1>5. \A t \in Sequence : Rank[r.state] <= Rank[t] /\ Rank[t] < Rank[s] => ~StopsAt(r, ev, t)
  <2>. SUFFICES ASSUME NEW t \in Sequence, Rank[r.state] <= Rank[t], Rank[t] < Rank[s], StopsAt(r, ev, t)
                PROVE  FALSE
    OBVIOUS
  <2>1. Rank[t] \in At
    BY SequenceFacts
  <2>. QED
    BY <2>1, <1>3, <1>4
<1>. QED
  BY <1>4, <1>5 DEF Reached
-----------------------------------------------------------------------------
(* Rows: the operators on them keep their type and the fields they do not   *)
(* name.                                                                    *)
LEMMA OpenFacts ==
    ASSUME NEW r \in Rows, NEW q, asked \in Nat
    PROVE  /\ Open(r, q) \in Rows
           /\ Kept(Open(r, q), r)
           /\ Open(r, q).state = r.state /\ Open(r, q).from = r.from /\ Open(r, q).done = r.done
           /\ \A k \in Questions : r.asks[k].status # "none" => Open(r, q).asks[k] = r.asks[k]
<1>. DEFINE ask == [id |-> asked + 1, status |-> "pending"]
<1>1. ask \in [id : Nat, status : Statuses]
  BY DEF Statuses
<1>2. CASE q \in Questions /\ r.asks[q].status = "none"
  <2>. HIDE DEF ask
  <2>1. Open(r, q) = [r EXCEPT !.asks = [r.asks EXCEPT ![q] = ask]]
    BY <1>2 DEF Open, ask, Rows
  <2>2. [r.asks EXCEPT ![q] = ask] \in [Questions -> [id : Nat, status : Statuses]]
    BY <1>1, <1>2 DEF Rows
  <2>3. \A k \in Questions : r.asks[k].status # "none" => [r.asks EXCEPT ![q] = ask][k] = r.asks[k]
    BY <1>2 DEF Rows
  <2>. QED
    BY <2>1, <2>2, <2>3 DEF Rows, Kept
<1>3. CASE ~(q \in Questions /\ r.asks[q].status = "none")
  BY <1>3 DEF Open, Kept
<1>. QED
  BY <1>2, <1>3

LEMMA BlockFacts ==
    ASSUME NEW r \in Rows, NEW s \in Sequence \cup {"none", "FAILED"}
    PROVE  /\ Block(r, s) \in Rows
           /\ Kept(Block(r, s), r)
           /\ Block(r, s).state = "BLOCKED" /\ Block(r, s).from = s
           /\ Block(r, s).asks = r.asks /\ Block(r, s).done = r.done
BY DEF Block, Rows, Kept

(* The walk, case by case.                                                  *)
LEMMA AdvancedFacts ==
    ASSUME NEW r \in Rows, NEW ev, asked \in Nat
    PROVE  /\ Advanced(r, ev) \in Rows
           /\ Kept(Advanced(r, ev), r)
           /\ ~Walks(r) => Advanced(r, ev) = r
           /\ Walks(r) => \/ Advanced(r, ev).state = Reached(r, ev)
                          \/ Advanced(r, ev).state = "BLOCKED" /\ Advanced(r, ev).from = Reached(r, ev)
           /\ Coherent(r) => Coherent(Advanced(r, ev))
<1>. DEFINE a == Advanced(r, ev)
            s == Reached(r, ev)
            here == [r EXCEPT !.state = s]
<1>1. CASE ~Walks(r)
  BY <1>1 DEF Advanced, Kept
<1>2. CASE Walks(r)
  <2>1. r.state \in Sequence
    BY <1>2 DEF Walks
  <2>2. s \in Sequence
    BY <2>1, ReachedFacts
  <2>. HIDE DEF s
  <2>3. here \in Rows /\ Kept(here, r) /\ here.state = s /\ here.from = r.from
    BY <2>2 DEF Rows, Kept
  <2>. HIDE DEF here
  <2>4. \/ a = [here EXCEPT !.done = TRUE]
        \/ a = here
        \/ a = Block(here, s)
        \/ a = Open(here, QuestionAt(s))
    BY <1>2 DEF Advanced, here, s
  <2>5. Coherent(r) => r.failure # "unavailable"
    BY <2>1, SequenceFacts DEF Coherent
  <2>. HIDE DEF a
  <2>6. CASE a = [here EXCEPT !.done = TRUE]
    <3>1. a \in Rows
      BY <2>3, <2>6 DEF Rows
    <3>2. Kept(a, r) /\ a.state = s
      BY <2>3, <2>6 DEF Rows, Kept
    <3>. QED
      BY <1>2, <2>5, <3>1, <3>2 DEF Coherent, Kept, s, a
  <2>7. CASE a = here
    BY <1>2, <2>5, <2>3, <2>7 DEF Coherent, Kept, s, a
  <2>8. CASE a = Block(here, s)
    <3>1. a \in Rows /\ Kept(a, here) /\ a.state = "BLOCKED" /\ a.from = s
      BY <2>2, <2>3, <2>8, BlockFacts
    <3>. QED
      BY <1>2, <2>5, <2>3, <3>1 DEF Coherent, Kept, s, a
  <2>9. CASE a = Open(here, QuestionAt(s))
    <3>1. a \in Rows /\ Kept(a, here) /\ a.state = s
      BY <2>3, <2>9, OpenFacts
    <3>. QED
      BY <1>2, <2>5, <2>3, <3>1 DEF Coherent, Kept, s, a
  <2>. QED
    BY <2>4, <2>6, <2>7, <2>8, <2>9
<1>. QED
  BY <1>1, <1>2
(* A driver at work is on a stage of the pipeline.                          *)
LEMMA AtWorkFacts ==
    ASSUME NEW r \in Rows, AtWork(r)
    PROVE  /\ r.cursor \in 1..Len(Pipeline) /\ Stage(r) = Pipeline[r.cursor] /\ Stage(r) \in Ran
           /\ Stage(r) # "devops" => StateOf[Stage(r)] = r.state
           /\ Stage(r) = "devops" => r.state \in {"READY_TO_DEPLOY", "APPROVED"}
<1>1. Stage(r) # "none"
  BY DEF AtWork, Assigned
<1>. QED
  BY <1>1, PipelineFacts DEF AtWork, Assigned, Stage

LEMMA NotedFacts ==
    ASSUME NEW r \in Rows, NEW g, NEW o
    PROVE  LET n == Noted(r, g, o)
           IN /\ n \in Rows
              /\ n.state = r.state /\ n.from = r.from /\ n.cursor = r.cursor /\ n.prepared = r.prepared
              /\ n.retries = r.retries /\ n.asks = r.asks /\ n.done = r.done
              /\ n.paused = r.paused /\ n.cancelled = r.cancelled
              /\ n.inflight = "none"
              /\ o = "unavailable" => n.failure = "unavailable"
              /\ o # "unavailable" /\ r.failure # "unavailable" => n.failure # "unavailable"
<1>. DEFINE passed == IF g \notin Verifiers THEN r.passed
                      ELSE IF Passes(o) THEN r.passed \cup {g}
                      ELSE IF o \in Stages \cup {"critical"} THEN r.passed \ {g} ELSE r.passed
            clear == IF g = "system_analyst" /\ o \in {"complete", "risky"} THEN o = "complete" ELSE r.clear
            failure == IF o = "unavailable" THEN o
                       ELSE IF Passes(o) \/ o \in {"fail", "spent"} THEN r.failure ELSE "other"
<1>1. Noted(r, g, o) = [r EXCEPT !.inflight = "none", !.passed = passed, !.clear = clear, !.failure = failure]
  BY DEF Noted, Rows
<1>2. passed \in SUBSET Verifiers
  BY DEF Rows
<1>3. clear \in BOOLEAN
  BY DEF Rows
<1>4. failure \in {"none", "unavailable", "other"}
  BY DEF Rows
<1>5. /\ o = "unavailable" => failure = "unavailable"
      /\ o # "unavailable" /\ r.failure # "unavailable" => failure # "unavailable"
  OBVIOUS
<1>. HIDE DEF passed, clear, failure
<1>. QED
  BY <1>1, <1>2, <1>3, <1>4, <1>5 DEF Rows

(* Back at the stage that owns the problem.                                 *)
Rewound(q) ==
    \E x \in Ran : /\ q.cursor = Position(x) /\ q.state = StateOf[x]
                   /\ StateOf[x] \in {"DESIGN", "PLAN", "IMPLEMENTATION"}

Used(r, g, o) == r.retries[g] + (IF o = "outage" THEN 0 ELSE 1)

(* What a failure leaves alone.                                             *)
KeptByFailure(q, r) ==
    /\ q.prepared = r.prepared /\ q.passed = r.passed /\ q.clear = r.clear /\ q.done = r.done
    /\ q.failure = r.failure /\ q.inflight = r.inflight /\ q.paused = r.paused /\ q.cancelled = r.cancelled
    /\ \A k \in Questions : r.asks[k].status # "none" => q.asks[k] = r.asks[k]

LEMMA RewindFacts ==
    ASSUME NEW r \in Rows, NEW x \in Ran, StateOf[x] \in {"DESIGN", "PLAN", "IMPLEMENTATION"},
           NEW q, q = [r EXCEPT !.cursor = Position(x), !.state = StateOf[x]]
    PROVE  q \in Rows /\ KeptByFailure(q, r) /\ Rewound(q) /\ q.retries = r.retries
<1>. DEFINE i == Position(x)
            s == StateOf[x]
<1>1. i \in 1..(Len(Pipeline) + 1) /\ s \in Sequence
  BY PositionFacts, StageFacts, PipelineFacts
<1>2. q.cursor = i /\ q.state = s /\ q \in Rows /\ KeptByFailure(q, r) /\ q.retries = r.retries
  <2>. HIDE DEF i, s
  <2>1. q = [r EXCEPT !.cursor = i, !.state = s]
    BY DEF i, s
  <2>. QED
    BY <2>1, <1>1 DEF Rows, KeptByFailure
<1>. QED
  BY <1>2 DEF Rewound

LEMMA FailedFacts ==
    ASSUME NEW r \in Rows, NEW g \in Verifiers, NEW o, o \in {"fail", "outage", "critical"} \cup Stages, asked \in Nat
    PROVE  LET q == Failed(r, g, o)
           IN /\ q \in Rows
              /\ KeptByFailure(q, r)
              /\ q.retries = [r.retries EXCEPT ![g] = Used(r, g, o)]
              /\ \/ /\ q.state = "BLOCKED" /\ q.cursor = r.cursor
                    /\ q.from = "FAILED" \/ (q.from = "IMPLEMENTATION" /\ q.from \in Sequence)
                 \/ Rewound(q) /\ Used(r, g, o) <= MaxRetry
<1>. DEFINE used == Used(r, g, o)
            q == Failed(r, g, o)
            tried == [r.retries EXCEPT ![g] = used]
            back == [r EXCEPT !.retries = tried, !.state = "IMPLEMENTATION"]
<1>1. used \in Nat /\ tried \in [Verifiers -> Nat]
  BY DEF Rows, Used
<1>2. back = [r EXCEPT !.retries[g] = used, !.state = "IMPLEMENTATION"]
  BY DEF Rows
<1>3. q = IF used > MaxRetry \/ "IMPLEMENTATION" \notin Sequence THEN Block(back, "FAILED")
          ELSE IF Escalates(o, used) THEN Block(Open(back, g), "IMPLEMENTATION")
          ELSE IF o = "fail" THEN [back EXCEPT !.cursor = Position(FirstImplementer)]
          ELSE [back EXCEPT !.cursor = Position(o), !.state = StateOf[o]]
  BY <1>2 DEF Failed, Used
<1>. HIDE DEF used, q, tried
<1>4. /\ back.retries = tried /\ back.cursor = r.cursor /\ KeptByFailure(back, r) /\ back.state = "IMPLEMENTATION"
  BY DEF Rows, KeptByFailure
<1>5. "IMPLEMENTATION" \in Sequence => back \in Rows
  BY <1>1 DEF Rows
<1>6. CASE used > MaxRetry \/ "IMPLEMENTATION" \notin Sequence
  <2>1. q = [back EXCEPT !.state = "BLOCKED", !.from = "FAILED"]
    BY <1>3, <1>6 DEF Block
  <2>2. q = [r EXCEPT !.retries = tried, !.state = "BLOCKED", !.from = "FAILED"]
    BY <2>1 DEF Rows
  <2>3. /\ q \in Rows /\ KeptByFailure(q, r) /\ q.retries = tried
        /\ q.state = "BLOCKED" /\ q.cursor = r.cursor /\ q.from = "FAILED"
    BY <2>2, <1>1 DEF Rows, KeptByFailure
  <2>. QED
    BY <2>3 DEF tried, used, q
<1>7. CASE ~(used > MaxRetry \/ "IMPLEMENTATION" \notin Sequence)
  <2>. HIDE DEF back
  <2>1. back \in Rows
    BY <1>5, <1>7
  <2>2. used <= MaxRetry
    BY <1>1, <1>7, PipelineFacts
  <2>3. CASE Escalates(o, used)
    <3>1. /\ Open(back, g) \in Rows /\ Kept(Open(back, g), back) /\ Open(back, g).done = back.done
          /\ \A k \in Questions : back.asks[k].status # "none" => Open(back, g).asks[k] = back.asks[k]
      BY <2>1, OpenFacts
    <3>2. q = Block(Open(back, g), "IMPLEMENTATION")
      BY <1>3, <1>7, <2>3
    <3>. DEFINE b == Open(back, g)
    <3>. HIDE DEF b
    <3>3. /\ q \in Rows /\ Kept(q, b) /\ q.state = "BLOCKED" /\ q.from = "IMPLEMENTATION"
          /\ q.asks = b.asks /\ q.done = b.done
      BY <3>1, <3>2, <1>7, BlockFacts DEF b
    <3>4. KeptByFailure(q, r) /\ q.retries = tried /\ q.cursor = r.cursor
      BY <3>1, <3>3, <1>4 DEF Kept, KeptByFailure, b
    <3>. QED
      BY <3>3, <3>4, <1>7 DEF tried, used, q
  <2>4. CASE ~Escalates(o, used) /\ o = "fail"
    <3>1. Ran \cap Implementers # {}
      BY <2>4 DEF Escalates
    <3>2. FirstImplementer \in Ran /\ StateOf[FirstImplementer] = "IMPLEMENTATION"
      BY <3>1, FirstImplementerFacts DEF Implementers, StateOf
    <3>3. q = [back EXCEPT !.cursor = Position(FirstImplementer), !.state = StateOf[FirstImplementer]]
      BY <1>3, <1>7, <2>4, <2>1, <3>2, <1>4 DEF Rows
    <3>4. q \in Rows /\ KeptByFailure(q, back) /\ Rewound(q) /\ q.retries = back.retries
      BY <2>1, <3>2, <3>3, RewindFacts
    <3>5. KeptByFailure(q, r)
      BY <3>4, <1>4 DEF KeptByFailure
    <3>. QED
      BY <3>4, <3>5, <1>4, <2>2 DEF tried, used, q
  <2>5. CASE ~Escalates(o, used) /\ o # "fail"
    <3>1. o \in Ran /\ StateOf[o] \in {"DESIGN", "PLAN", "IMPLEMENTATION"}
      BY <2>5 DEF Escalates
    <3>2. q = [back EXCEPT !.cursor = Position(o), !.state = StateOf[o]]
      BY <1>3, <1>7, <2>5
    <3>3. q \in Rows /\ KeptByFailure(q, back) /\ Rewound(q) /\ q.retries = back.retries
      BY <2>1, <3>1, <3>2, RewindFacts
    <3>4. KeptByFailure(q, r)
      BY <3>3, <1>4 DEF KeptByFailure
    <3>. QED
      BY <3>3, <3>4, <1>4, <2>2 DEF tried, used, q
  <2>. QED
    BY <2>3, <2>4, <2>5
<1>. QED
  BY <1>6, <1>7
-----------------------------------------------------------------------------
(* A settled attempt, in the four ways it can leave the task: blocked where *)
(* it was or by its verdict, a stage further, where it was, or back.        *)
Fails(g, o) == g \in Verifiers /\ o \in {"fail", "outage", "critical"} \cup Stages

Stopped(q, r) ==
    /\ q.state = "BLOCKED" /\ q.cursor = r.cursor
    /\ \/ q.from = r.state
       \/ q.from = "FAILED"
       \/ q.from = "IMPLEMENTATION" /\ q.from \in Sequence /\ Stage(r) \in Verifiers

Onward(q, r, ev, o) ==
    /\ Completes(r, ev, Stage(r), o) /\ (Stage(r) = "devops" => Executing(r))
    /\ q.state = r.state /\ q.cursor = r.cursor + 1

Stayed(q, r) == q.state = r.state /\ q.cursor = r.cursor

LEMMA SettledFacts ==
    ASSUME NEW r \in Rows, NEW ev, NEW o, NEW q, AtWork(r), o \in Outcomes(Stage(r)), asked \in Nat,
           r.failure # "unavailable", q = Settled(r, ev, Stage(r), o)
    PROVE  /\ q \in Rows
           /\ q.paused = r.paused /\ q.cancelled = r.cancelled /\ q.done = r.done
           /\ q.inflight = "none"
           /\ \A k \in Questions : r.asks[k].status # "none" => q.asks[k] = r.asks[k]
           /\ o = "unavailable" => q.failure = "unavailable" /\ q.state = "BLOCKED" /\ q.from = r.state
           /\ o # "unavailable" => q.failure # "unavailable"
           /\ Stopped(q, r) \/ Onward(q, r, ev, o) \/ Stayed(q, r) \/ Rewound(q)
           /\ Executing(r) => q.state = "BLOCKED" \/ Onward(q, r, ev, o)
           /\ ~Fails(Stage(r), o) => q.retries = r.retries
           /\ Fails(Stage(r), o) => q.retries[Stage(r)] = Used(r, Stage(r), o)
           /\ Fails(Stage(r), o) => \A k \in Verifiers : k # Stage(r) => q.retries[k] = r.retries[k]
           /\ Fails(Stage(r), o) => (q.state = "BLOCKED" \/ Used(r, Stage(r), o) <= MaxRetry)
<1>. DEFINE g == Stage(r)
            n == Noted(r, g, o)
<1>1. /\ n \in Rows
      /\ n.state = r.state /\ n.from = r.from /\ n.cursor = r.cursor /\ n.prepared = r.prepared
      /\ n.retries = r.retries /\ n.asks = r.asks /\ n.done = r.done
      /\ n.paused = r.paused /\ n.cancelled = r.cancelled
      /\ n.inflight = "none"
      /\ o = "unavailable" => n.failure = "unavailable"
      /\ o # "unavailable" => n.failure # "unavailable"
  BY NotedFacts
<1>2. r.state \in Sequence /\ r.cursor \in 1..Len(Pipeline) /\ Len(Pipeline) \in Nat
  BY AtWorkFacts, PipelineFacts DEF AtWork
<1>3. q = IF o \in {"spent", "unavailable"} THEN Block(n, r.state)
          ELSE IF Completes(r, ev, g, o)
          THEN IF g = "devops" /\ ~Executing(r) THEN [n EXCEPT !.prepared = TRUE]
               ELSE [n EXCEPT !.cursor = @ + 1]
          ELSE IF Passes(o) THEN n
          ELSE IF Executing(r) THEN Block(n, r.state)
          ELSE IF g \in Verifiers THEN Failed(n, g, o)
          ELSE IF g = "uxui_designer" /\ o # "fail" THEN Questioned(n, o)
          ELSE n
  BY DEF Settled
<1>4. /\ Completes(r, ev, g, o) => Passes(o)
      /\ Passes(o) => ~Fails(g, o) /\ o # "unavailable"
      /\ ~(o \in {"spent", "unavailable"}) /\ ~Passes(o) /\ g \in Verifiers => Fails(g, o)
      /\ o \in {"spent", "unavailable"} => ~Fails(g, o)
      /\ g \notin Verifiers => ~Fails(g, o)
      /\ Executing(r) => g \notin Verifiers
  BY RanStages DEF Completes, Passes, Fails, Outcomes, Stages, StateOf, Verifiers, Executing
<1>. HIDE DEF n, g
<1>5. CASE q = Block(n, r.state) /\ ~Fails(g, o)
  <2>1. /\ q \in Rows /\ Kept(q, n) /\ q.state = "BLOCKED" /\ q.from = r.state
        /\ q.asks = n.asks /\ q.done = n.done
    BY <1>1, <1>2, <1>5, BlockFacts
  <2>2. Stopped(q, r)
    BY <2>1, <1>1 DEF Stopped, Kept
  <2>. QED
    BY <2>1, <2>2, <1>1, <1>5 DEF Kept, g
<1>6. CASE q = [n EXCEPT !.prepared = TRUE] /\ ~Fails(g, o) /\ o # "unavailable" /\ ~Executing(r)
  <2>1. /\ q \in Rows /\ q.state = n.state /\ q.cursor = n.cursor /\ q.asks = n.asks /\ q.done = n.done
        /\ q.retries = n.retries /\ q.failure = n.failure /\ q.inflight = n.inflight
        /\ q.paused = n.paused /\ q.cancelled = n.cancelled
    BY <1>1, <1>6 DEF Rows
  <2>. QED
    BY <2>1, <1>1, <1>6 DEF Stayed, g
<1>7. CASE /\ q = [n EXCEPT !.cursor = @ + 1] /\ ~Fails(g, o) /\ o # "unavailable"
           /\ Completes(r, ev, g, o) /\ (g = "devops" => Executing(r))
  <2>. DEFINE c == r.cursor + 1
  <2>1. c \in 1..(Len(Pipeline) + 1)
    BY <1>2
  <2>. HIDE DEF c
  <2>2. q = [n EXCEPT !.cursor = c]
    BY <1>1, <1>7 DEF c
  <2>3. /\ q \in Rows /\ q.state = n.state /\ q.cursor = c /\ q.asks = n.asks /\ q.done = n.done
        /\ q.retries = n.retries /\ q.failure = n.failure /\ q.inflight = n.inflight
        /\ q.paused = n.paused /\ q.cancelled = n.cancelled
    BY <1>1, <2>1, <2>2 DEF Rows
  <2>4. Onward(q, r, ev, o)
    BY <2>3, <1>1, <1>7 DEF Onward, g, c
  <2>. QED
    BY <2>3, <2>4, <1>1, <1>7 DEF g
<1>8. CASE q = n /\ ~Fails(g, o) /\ o # "unavailable" /\ (Executing(r) => Passes(o) /\ ~Completes(r, ev, g, o))
  <2>1. ~Executing(r)
    BY <1>8 DEF Passes, Completes, Outcomes, Executing, g, Implementers, Verifiers
  <2>. QED
    BY <2>1, <1>1, <1>8 DEF Stayed, g
<1>9. CASE q = Failed(n, g, o) /\ Fails(g, o) /\ ~Executing(r)
  <2>1. g \in Verifiers /\ o \in {"fail", "outage", "critical"} \cup Stages /\ o # "unavailable"
    BY <1>9 DEF Fails, Stages, StateOf
  <2>2. Used(n, g, o) = Used(r, g, o)
    BY <1>1 DEF Used
  <2>3. /\ q \in Rows
        /\ KeptByFailure(q, n)
        /\ q.retries = [r.retries EXCEPT ![g] = Used(r, g, o)]
        /\ \/ /\ q.state = "BLOCKED" /\ q.cursor = n.cursor
              /\ q.from = "FAILED" \/ (q.from = "IMPLEMENTATION" /\ q.from \in Sequence)
           \/ Rewound(q) /\ Used(r, g, o) <= MaxRetry
    <3>1. n \in Rows
      BY <1>1
    <3>. DEFINE f == Failed(n, g, o)
    <3>2. /\ f \in Rows
          /\ KeptByFailure(f, n)
          /\ f.retries = [n.retries EXCEPT ![g] = Used(n, g, o)]
          /\ \/ /\ f.state = "BLOCKED" /\ f.cursor = n.cursor
                /\ f.from = "FAILED" \/ (f.from = "IMPLEMENTATION" /\ f.from \in Sequence)
             \/ Rewound(f) /\ Used(n, g, o) <= MaxRetry
      BY <3>1, <2>1, FailedFacts
    <3>3. q = f
      BY <1>9
    <3>. HIDE DEF f
    <3>. QED
      BY <3>2, <3>3, <2>2, <1>1
  <2>4. Stopped(q, r) \/ Rewound(q)
    BY <2>3, <2>1, <1>1 DEF Stopped, g
  <2>5. q.retries[g] = Used(r, g, o) /\ \A k \in Verifiers : k # g => q.retries[k] = r.retries[k]
    BY <2>1, <2>3 DEF Rows
  <2>6. q.state = "BLOCKED" \/ Used(r, g, o) <= MaxRetry
    BY <2>3
  <2>7. /\ q \in Rows /\ q.paused = n.paused /\ q.cancelled = n.cancelled /\ q.done = n.done
        /\ q.inflight = n.inflight /\ q.failure = n.failure
        /\ \A k \in Questions : n.asks[k].status # "none" => q.asks[k] = n.asks[k]
    BY <2>3 DEF KeptByFailure
  <2>. QED
    BY <2>1, <2>4, <2>5, <2>6, <2>7, <1>1, <1>9 DEF g
<1>10. CASE q = Questioned(n, o) /\ ~Fails(g, o) /\ o # "unavailable" /\ ~Executing(r)
  <2>1. CASE o \in Ran /\ StateOf[o] \in {"DESIGN", "PLAN"}
    <3>1. q = [n EXCEPT !.cursor = Position(o), !.state = StateOf[o]]
      BY <1>10, <2>1 DEF Questioned
    <3>2. q \in Rows /\ KeptByFailure(q, n) /\ Rewound(q) /\ q.retries = n.retries
      BY <2>1, <3>1, <1>1, RewindFacts
    <3>. QED
      BY <3>2, <1>1, <1>10 DEF KeptByFailure, g
  <2>2. CASE ~(o \in Ran /\ StateOf[o] \in {"DESIGN", "PLAN"})
    <3>1. q = Block(n, r.state)
      BY <1>10, <2>2, <1>1 DEF Questioned
    <3>. QED
      BY <3>1, <1>5, <1>10
  <2>. QED
    BY <2>1, <2>2
<1>. QED
  BY <1>3, <1>4, <1>5, <1>6, <1>7, <1>8, <1>9, <1>10
-----------------------------------------------------------------------------
(* Types.                                                                   *)
Places == {"idle", "loaded", "polled", "assigned", "running"}
Causes == {"none", "unavailable", "other"}

LEMMA FreshFacts == Fresh \in Rows /\ Coherent(Fresh)
<1>1. 1 \in 1..(Len(Pipeline) + 1)
  BY PipelineFacts
<1>2. "CREATED" \in Sequence
  BY DEF Sequence
<1>3. Fresh \in Rows
  BY <1>1, <1>2, PipelineFacts DEF Fresh, Rows, Statuses
<1>4. Coherent(Fresh)
  BY DEF Coherent, Fresh
<1>. QED
  BY <1>3, <1>4

(* Whatever is saved, the types stand if the copy is a proper one.          *)
LEMMA SaveTypes ==
    ASSUME TypeInv,
           NEW p \in Processes, NEW r \in Rows, NEW next \in Places, NEW cause \in Causes, NEW facts \in Pasts,
           Coherent(r), p = Driver /\ next \in {"assigned", "running"} => AtWork(r),
           Save(p, r, next, cause, facts),
           evidence' \in Evidence, evidence'.yes \cap evidence'.no = {}
    PROVE  TypeInv'
<1>1. row' = r /\ row' \in Rows /\ Coherent(row)'
  BY DEF Save, Coherent
<1>. DEFINE copy == IF next = "idle" THEN Fresh ELSE r
<1>2. copy \in Rows /\ Coherent(copy)
  BY FreshFacts
<1>3. mem' = [mem EXCEPT ![p] = copy]
  BY DEF Save
<1>4. copy = IF next = "idle" THEN Fresh ELSE r
  OBVIOUS
<1>. HIDE DEF copy
<1>5. mem' \in [Processes -> Rows] /\ mem'[p] = copy /\ \A q \in Processes \ {p} : mem'[q] = mem[q]
  BY <1>2, <1>3 DEF TypeInv, TypeOK
<1>6. (\A q \in Processes : Coherent(mem[q]))'
  BY <1>2, <1>5 DEF TypeInv, Coherent
<1>7. pc' \in [Processes -> Places] /\ pc'[p] = next /\ \A q \in Processes \ {p} : pc'[q] = pc[q]
  BY DEF Save, TypeInv, TypeOK, Places
<1>8. asked' \in Nat
  BY DEF Save, TypeInv, TypeOK
<1>9. past' \in Pasts
  <2>. DEFINE block == IF r.state # "BLOCKED" THEN "none"
                       ELSE IF mem[p].state = "BLOCKED" THEN facts.block ELSE cause
  <2>1. block \in Causes
    BY DEF Causes, Pasts
  <2>2. NoPast(TRUE, facts.held) \in Pasts
    BY DEF NoPast, Pasts
  <2>3. [facts EXCEPT !.block = block] \in Pasts
    BY <2>1 DEF Pasts, Causes
  <2>. QED
    BY <2>2, <2>3 DEF Save
<1>10. (pc[Driver] \in {"assigned", "running"} => AtWork(mem[Driver]))'
  <2>1. CASE p = Driver
    <3>1. next \in {"assigned", "running"} => AtWork(copy)
      BY <2>1, <1>4
    <3>. QED
      BY <2>1, <3>1, <1>5, <1>7 DEF AtWork, Assigned, Stage
  <2>2. CASE p # Driver
    <3>1. mem'[Driver] = mem[Driver] /\ pc'[Driver] = pc[Driver]
      BY <2>2, <1>5, <1>7, PipelineFacts
    <3>. QED
      BY <3>1 DEF TypeInv, AtWork, Assigned, Stage
  <2>. QED
    BY <2>1, <2>2
<1>11. TypeOK'
  BY <1>1, <1>5, <1>7, <1>8, <1>9 DEF TypeOK, Places
<1>. QED
  BY <1>1, <1>6, <1>10, <1>11 DEF TypeInv
(* A walk that ends on an agent leaves the copy at work on it.              *)
LEMMA RunningAtWork ==
    ASSUME NEW r \in Rows, Running(r)
    PROVE  AtWork(r) /\ r.inflight = "none"
BY DEF Running, Walks, AtWork

(* A copy at work is not moved by walking again.                            *)
LEMMA WalkAgain ==
    ASSUME NEW r \in Rows, AtWork(r), NEW ev, asked \in Nat
    PROVE  Advanced(r, ev) = r
<1>1. CASE ~Walks(r)
  BY <1>1 DEF Advanced
<1>2. CASE Walks(r)
  <2>1. /\ r.state \in Sequence
        /\ Reached(r, ev) \in Sequence
        /\ Rank[Reached(r, ev)] >= Rank[r.state]
        /\ \A t \in Sequence :
              Rank[r.state] <= Rank[t] /\ Rank[t] < Rank[Reached(r, ev)] => ~StopsAt(r, ev, t)
    BY ReachedFacts DEF AtWork
  <2>2. StopsAt(r, ev, r.state)
    BY DEF AtWork, StopsAt
  <2>3. Rank[r.state] \in Nat /\ Rank[Reached(r, ev)] \in Nat
    BY <2>1, SequenceFacts
  <2>4. ~(Rank[r.state] < Rank[Reached(r, ev)])
    BY <2>1, <2>2, <2>3
  <2>5. Rank[r.state] = Rank[Reached(r, ev)]
    BY <2>1, <2>3, <2>4
  <2>6. Reached(r, ev) = r.state
    BY <2>1, <2>5, SequenceFacts
  <2>7. [r EXCEPT !.state = r.state] = r
    BY DEF Rows
  <2>8. r.state # "DEPLOYED" /\ Assigned(r, r.state)
    BY DEF AtWork
  <2>. QED
    BY <1>2, <2>6, <2>7, <2>8 DEF Advanced
<1>. QED
  BY <1>1, <1>2

(* What the driver saves when its stage has answered.                       *)
Outcome(o) == Advanced(Settled(mem[Driver], evidence, Stage(mem[Driver]), o),
                       Witnessed(mem[Driver], evidence, Stage(mem[Driver]), o))

LEMMA WitnessedFacts ==
    ASSUME NEW r, NEW ev \in Evidence, NEW g \in Stages, NEW o
    PROVE  LET w == Witnessed(r, ev, g, o)
           IN /\ w \in Evidence /\ w.yes = ev.yes /\ w.no = ev.no
              /\ w.latest[g] = "done" <=> Completes(r, ev, g, o)
              /\ \A h \in Stages : h # g => w.latest[h] = ev.latest[h]
              /\ g # "devops" => w.phase = ev.phase /\ w.prepared = ev.prepared
<1>. DEFINE mark == IF Completes(r, ev, g, o) THEN "done" ELSE "open"
            latest == [ev.latest EXCEPT ![g] = mark]
            phase == IF g = "devops" THEN IF Executing(r) THEN "execute" ELSE "prepare" ELSE ev.phase
            prepared == ev.prepared \/ (g = "devops" /\ Completes(r, ev, g, o) /\ ~Executing(r))
            w == Witnessed(r, ev, g, o)
<1>1. w = [ev EXCEPT !.latest = latest, !.phase = phase, !.prepared = prepared]
  BY DEF Witnessed, Evidence
<1>2. latest \in [Stages -> {"none", "open", "done"}]
  BY DEF Evidence
<1>3. phase \in {"none", "prepare", "execute"} /\ prepared \in BOOLEAN
  BY DEF Evidence
<1>4. g # "devops" => phase = ev.phase /\ prepared = ev.prepared
  BY DEF Evidence
<1>. HIDE DEF w, phase, prepared, latest
<1>5. /\ w \in Evidence /\ w.yes = ev.yes /\ w.no = ev.no
      /\ w.latest = latest /\ w.phase = phase /\ w.prepared = prepared
  BY <1>1, <1>2, <1>3 DEF Evidence
<1>6. latest[g] = "done" <=> Completes(r, ev, g, o)
  BY DEF latest, Evidence
<1>7. \A h \in Stages : h # g => latest[h] = ev.latest[h]
  BY DEF latest, Evidence
<1>. QED
  BY <1>4, <1>5, <1>6, <1>7 DEF w
LEMMA InitTypes == Init => TypeInv
<1>. SUFFICES ASSUME Init PROVE TypeInv
  OBVIOUS
<1>1. Fresh \in Rows /\ Coherent(Fresh)
  BY FreshFacts
<1>2. evidence \in Evidence /\ evidence.yes \cap evidence.no = {}
  BY DEF Init, Evidence
<1>3. past \in Pasts
  BY DEF Init, NoPast, Pasts
<1>4. pc[Driver] = "idle" /\ pc \in [Processes -> {"idle", "loaded", "polled", "assigned", "running"}]
  BY PipelineFacts DEF Init
<1>5. row \in Rows /\ Coherent(row) /\ mem \in [Processes -> Rows] /\ \A p \in Processes : Coherent(mem[p])
  BY <1>1 DEF Init
<1>6. asked \in Nat
  BY DEF Init
<1>. QED
  BY <1>2, <1>3, <1>4, <1>5, <1>6 DEF TypeInv, TypeOK

LEMMA LoadTypes ==
    ASSUME TypeInv, NEW p \in Processes, Load(p) PROVE TypeInv'
<1>1. /\ mem' \in [Processes -> Rows] /\ pc' \in [Processes -> Places]
      /\ \A q \in Processes : mem'[q] = mem[q] \/ mem'[q] = row
      /\ \/ pc'[Driver] = "loaded"
         \/ pc'[Driver] = pc[Driver] /\ mem'[Driver] = mem[Driver]
  BY PipelineFacts DEF Load, TypeInv, TypeOK, Places
<1>2. (\A q \in Processes : Coherent(mem[q]))'
  BY <1>1 DEF TypeInv, Coherent
<1>3. (pc[Driver] \in {"assigned", "running"} => AtWork(mem[Driver]))'
  BY <1>1 DEF TypeInv, AtWork, Assigned, Stage
<1>. QED
  BY <1>1, <1>2, <1>3 DEF Load, TypeInv, TypeOK, Places, Coherent

LEMMA LeaveTypes ==
    ASSUME TypeInv, NEW p \in Processes, Leave(p) PROVE TypeInv'
<1>1. /\ mem' \in [Processes -> Rows] /\ pc' \in [Processes -> Places]
      /\ \A q \in Processes : mem'[q] = mem[q] \/ mem'[q] = Fresh
      /\ \/ pc'[Driver] = "idle"
         \/ pc'[Driver] = pc[Driver] /\ mem'[Driver] = mem[Driver]
  BY PipelineFacts, FreshFacts DEF Leave, TypeInv, TypeOK, Places
<1>2. (\A q \in Processes : Coherent(mem[q]))'
  BY <1>1, FreshFacts DEF TypeInv, Coherent
<1>3. (pc[Driver] \in {"assigned", "running"} => AtWork(mem[Driver]))'
  BY <1>1 DEF TypeInv, AtWork, Assigned, Stage
<1>. QED
  BY <1>1, <1>2, <1>3 DEF Leave, TypeInv, TypeOK, Places, Coherent

LEMMA PollTypes ==
    ASSUME TypeInv, Poll PROVE TypeInv'
<1>1. CASE row.cancelled \/ row.paused
  BY <1>1, LeaveTypes, PipelineFacts DEF Poll
<1>2. CASE ~(row.cancelled \/ row.paused)
  <2>1. pc' \in [Processes -> Places] /\ pc'[Driver] = "polled" /\ UNCHANGED <<row, mem, evidence, asked, past>>
    BY <1>2, PipelineFacts DEF Poll, TypeInv, TypeOK, Places
  <2>. QED
    BY <2>1 DEF TypeInv, TypeOK, Places, Coherent, AtWork, Assigned, Stage
<1>. QED
  BY <1>1, <1>2

(* The past a save is given, and the evidence, have their types.            *)
LEMMA KnownTypes ==
    ASSUME TypeInv
    PROVE  /\ row \in Rows /\ evidence \in Evidence /\ past \in Pasts /\ asked \in Nat
           /\ evidence.yes \cap evidence.no = {}
           /\ \A p \in Processes : mem[p] \in Rows /\ Coherent(mem[p])
BY DEF TypeInv, TypeOK

LEMMA AdvanceTypes ==
    ASSUME TypeInv, Advance PROVE TypeInv'
<1>. DEFINE r == Advanced(mem[Driver], evidence)
<1>1. r \in Rows /\ Coherent(r)
  BY KnownTypes, PipelineFacts, AdvancedFacts
<1>2. PICK next \in IF Running(r) THEN {"assigned", "idle"} ELSE {"idle"} : Save(Driver, r, next, "other", past)
  BY DEF Advance
<1>3. next \in Places /\ (next \in {"assigned", "running"} => AtWork(r))
  BY <1>1, <1>2, RunningAtWork DEF Places
<1>4. UNCHANGED evidence
  BY DEF Advance
<1>. HIDE DEF r
<1>5. "other" \in Causes
  BY DEF Causes
<1>. QED
  BY <1>1, <1>2, <1>3, <1>4, <1>5, KnownTypes, PipelineFacts, SaveTypes

LEMMA DispatchTypes ==
    ASSUME TypeInv, Dispatch PROVE TypeInv'
<1>. DEFINE m == mem[Driver]
            held == [m EXCEPT !.inflight = "devops"]
            facts == [past EXCEPT !.deploys = IF @ = 2 THEN 2 ELSE @ + 1]
<1>1. m \in Rows /\ Coherent(m) /\ AtWork(m)
  BY KnownTypes, PipelineFacts DEF Dispatch, TypeInv
<1>2. Advanced(m, evidence) = m
  BY <1>1, KnownTypes, WalkAgain
<1>3. UNCHANGED evidence /\ "other" \in Causes /\ "running" \in Places
  BY DEF Dispatch, Causes, Places
<1>4. CASE Executing(m)
  <2>1. Save(Driver, held, "running", "other", facts)
    BY <1>2, <1>4 DEF Dispatch
  <2>2. Stage(m) = "devops" /\ "devops" \in Ran
    BY <1>1, <1>4, AtWorkFacts DEF Executing
  <2>3. held \in Rows /\ Coherent(held) /\ AtWork(held)
    BY <1>1, <2>2 DEF Rows, Coherent, AtWork, Assigned, Stage
  <2>4. facts \in Pasts
    <3>1. (IF past.deploys = 2 THEN 2 ELSE past.deploys + 1) \in 0..2
      BY KnownTypes DEF Pasts
    <3>. QED
      BY <3>1, KnownTypes DEF Pasts
  <2>. HIDE DEF held, facts
  <2>. QED
    BY <2>1, <2>3, <2>4, <1>3, KnownTypes, PipelineFacts, SaveTypes
<1>5. CASE ~Executing(m)
  <2>1. Save(Driver, m, "running", "other", past)
    BY <1>2, <1>5 DEF Dispatch
  <2>. QED
    BY <2>1, <1>1, <1>3, KnownTypes, PipelineFacts, SaveTypes
<1>. QED
  BY <1>4, <1>5

LEMMA RecordDispatchTypes ==
    ASSUME TypeInv, RecordDispatch PROVE TypeInv'
<1>. DEFINE m == mem[Driver]
            r == [m EXCEPT !.inflight = Stage(m)]
<1>1. m \in Rows /\ Coherent(m) /\ AtWork(m) /\ Stage(m) \in Ran
  BY KnownTypes, PipelineFacts, AtWorkFacts DEF RecordDispatch, TypeInv
<1>2. r \in Rows /\ Coherent(r) /\ AtWork(r)
  <2>1. r \in Rows /\ r.state = m.state /\ r.cursor = m.cursor /\ r.prepared = m.prepared
        /\ r.failure = m.failure /\ r.from = m.from
    BY <1>1 DEF Rows
  <2>. HIDE DEF r
  <2>. QED
    BY <1>1, <2>1 DEF Coherent, AtWork, Assigned, Stage
<1>3. Save(Driver, r, "running", "other", past) /\ UNCHANGED evidence
  BY DEF RecordDispatch
<1>4. "other" \in Causes /\ "running" \in Places
  BY DEF Causes, Places
<1>. QED
  BY <1>2, <1>3, <1>4, KnownTypes, PipelineFacts, SaveTypes
LEMMA SettledTypes ==
    ASSUME NEW r \in Rows, NEW ev, NEW o, AtWork(r), Coherent(r), o \in Outcomes(Stage(r)), asked \in Nat
    PROVE  Settled(r, ev, Stage(r), o) \in Rows /\ Coherent(Settled(r, ev, Stage(r), o))
<1>1. r.failure # "unavailable"
  BY SequenceFacts DEF Coherent, AtWork
<1>2. PICK q : q = Settled(r, ev, Stage(r), o)
  OBVIOUS
<1>3. /\ q \in Rows
      /\ o = "unavailable" => q.failure = "unavailable" /\ q.state = "BLOCKED" /\ q.from = r.state
      /\ o # "unavailable" => q.failure # "unavailable"
  BY <1>1, <1>2, SettledFacts
<1>. QED
  BY <1>1, <1>2, <1>3 DEF Coherent, AtWork

(* What a report is: a settled attempt, walked on, with its evidence.       *)
LEMMA ReportFacts ==
    ASSUME TypeInv, NEW o, Report(o)
    PROVE  LET m == mem[Driver]
               g == Stage(m)
               q == Settled(m, evidence, g, o)
           IN /\ m \in Rows /\ Coherent(m) /\ AtWork(m) /\ g \in Ran /\ o \in Outcomes(g)
              /\ m.failure # "unavailable"
              /\ q \in Rows /\ Coherent(q)
              /\ evidence' = Witnessed(m, evidence, g, o) /\ evidence' \in Evidence
              /\ evidence'.yes = evidence.yes /\ evidence'.no = evidence.no
              /\ Outcome(o) = Advanced(q, evidence') /\ Outcome(o) \in Rows /\ Coherent(Outcome(o))
              /\ \E next \in {"idle", "loaded"} :
                    Save(Driver, Outcome(o), next, IF o = "unavailable" THEN o ELSE "other", Remembered(m, g, o))
              /\ Remembered(m, g, o) \in Pasts
<1>. DEFINE m == mem[Driver]
            g == Stage(m)
            q == Settled(m, evidence, g, o)
            w == Witnessed(m, evidence, g, o)
<1>1. m \in Rows /\ Coherent(m) /\ AtWork(m)
  BY KnownTypes, PipelineFacts DEF Report, TypeInv
<1>2. g \in Ran /\ g \in Stages /\ o \in Outcomes(g) /\ evidence' = w
  BY <1>1, AtWorkFacts, PipelineFacts DEF Report
<1>3. m.failure # "unavailable"
  BY <1>1, SequenceFacts DEF Coherent, AtWork
<1>4. q \in Rows /\ Coherent(q)
  <2>1. asked \in Nat
    BY KnownTypes
  <2>. HIDE DEF m
  <2>. QED
    BY <1>1, <1>2, <2>1, SettledTypes
<1>5. w \in Evidence /\ w.yes = evidence.yes /\ w.no = evidence.no
  <2>1. evidence \in Evidence
    BY KnownTypes
  <2>2. g \in Stages
    BY <1>2
  <2>. HIDE DEF m, g
  <2>. QED
    BY ONLY <2>1, <2>2, WitnessedFacts DEF w
<1>6. Outcome(o) = Advanced(q, w)
  BY DEF Outcome
<1>7. Outcome(o) \in Rows /\ Coherent(Outcome(o))
  BY <1>4, <1>6, KnownTypes, AdvancedFacts
<1>8. \E next \in {"idle", "loaded"} :
         Save(Driver, Outcome(o), next, IF o = "unavailable" THEN o ELSE "other", Remembered(m, g, o))
  BY <1>6 DEF Report
<1>9. Remembered(m, g, o) \in Pasts
  <2>. DEFINE seen == IF g \in Implementers THEN {}
                      ELSE IF g \in Verifiers /\ o = "complete" THEN past.seen \cup {g} ELSE past.seen
              rounds == [k \in Verifiers |->
                           IF k = g /\ past.rounds[k] <= MaxRetry
                              /\ o \notin {"complete", "incomplete", "spent", "unavailable", "outage"}
                           THEN past.rounds[k] + 1 ELSE past.rounds[k]]
              deploys == IF Executing(m) /\ o = "unavailable" THEN 0 ELSE past.deploys
  <2>1. Remembered(m, g, o) =
          [past EXCEPT !.seen = seen, !.rounds = rounds, !.deploys = deploys]
    BY DEF Remembered
  <2>2. seen \in SUBSET Verifiers
    BY KnownTypes DEF Pasts
  <2>3. rounds \in [Verifiers -> Nat]
    BY KnownTypes DEF Pasts
  <2>4. deploys \in 0..2
    BY KnownTypes DEF Pasts
  <2>. HIDE DEF seen, rounds, deploys
  <2>. QED
    BY <2>1, <2>2, <2>3, <2>4, KnownTypes DEF Pasts
<1>. QED
  BY <1>1, <1>2, <1>3, <1>4, <1>5, <1>6, <1>7, <1>8, <1>9

LEMMA ReportTypes ==
    ASSUME TypeInv, NEW o, Report(o) PROVE TypeInv'
<1>1. /\ evidence' \in Evidence /\ evidence'.yes = evidence.yes /\ evidence'.no = evidence.no
      /\ Outcome(o) \in Rows /\ Coherent(Outcome(o))
      /\ \E next \in {"idle", "loaded"} :
            Save(Driver, Outcome(o), next, IF o = "unavailable" THEN o ELSE "other",
                 Remembered(mem[Driver], Stage(mem[Driver]), o))
      /\ Remembered(mem[Driver], Stage(mem[Driver]), o) \in Pasts
  BY ReportFacts
<1>2. PICK next \in {"idle", "loaded"} :
         Save(Driver, Outcome(o), next, IF o = "unavailable" THEN o ELSE "other",
              Remembered(mem[Driver], Stage(mem[Driver]), o))
  BY <1>1
<1>3. (IF o = "unavailable" THEN o ELSE "other") \in Causes /\ next \in Places
  BY DEF Causes, Places
<1>4. evidence'.yes \cap evidence'.no = {}
  BY <1>1, KnownTypes
<1>. QED
  BY <1>1, <1>2, <1>3, <1>4, PipelineFacts, SaveTypes

LEMMA AskTypes ==
    ASSUME TypeInv, NEW h \in Hands, Ask(h) PROVE TypeInv'
<1>. DEFINE r == Advanced(mem[h], evidence)
<1>1. h \in Processes /\ h # Driver
  BY PipelineFacts DEF Processes
<1>2. r \in Rows /\ Coherent(r)
  BY <1>1, KnownTypes, AdvancedFacts
<1>3. Save(h, r, "loaded", "other", past) /\ UNCHANGED evidence
  BY DEF Ask
<1>4. "other" \in Causes /\ "loaded" \in Places
  BY DEF Causes, Places
<1>. HIDE DEF r
<1>. QED
  BY <1>1, <1>2, <1>3, <1>4, KnownTypes, SaveTypes

(* What an answer saves: the question answered, all else as it was.         *)
AnswerGiven(r, q, yes) ==
    [r EXCEPT !.asks[q].status = IF yes THEN "approved" ELSE "rejected"]

LEMMA AnswerFacts ==
    ASSUME NEW r \in Rows, NEW q \in Questions, NEW yes \in BOOLEAN, NEW a, a = AnswerGiven(r, q, yes)
    PROVE  /\ a \in Rows /\ Kept(a, r) /\ a.state = r.state /\ a.from = r.from /\ a.done = r.done
           /\ \A k \in Questions : k # q => a.asks[k] = r.asks[k]
           /\ a.asks[q].id = r.asks[q].id
           /\ a.asks[q].status = IF yes THEN "approved" ELSE "rejected"
<1>. DEFINE said == IF yes THEN "approved" ELSE "rejected"
            ask == [r.asks[q] EXCEPT !.status = said]
            asks == [r.asks EXCEPT ![q] = ask]
<1>1. a = [r EXCEPT !.asks = asks]
  BY DEF AnswerGiven, Rows
<1>2. ask \in [id : Nat, status : Statuses] /\ ask.id = r.asks[q].id /\ ask.status = said
  <2>1. r.asks[q] \in [id : Nat, status : Statuses] /\ said \in Statuses
    BY DEF Rows, Statuses
  <2>. HIDE DEF said
  <2>. QED
    BY <2>1
<1>. HIDE DEF ask
<1>3. /\ asks \in [Questions -> [id : Nat, status : Statuses]] /\ asks[q] = ask
      /\ \A k \in Questions : k # q => asks[k] = r.asks[k]
  BY <1>2 DEF Rows
<1>. HIDE DEF asks
<1>4. /\ a \in Rows /\ a.asks = asks /\ Kept(a, r) /\ a.state = r.state /\ a.from = r.from /\ a.done = r.done
  BY <1>1, <1>3 DEF Rows, Kept
<1>. QED
  BY <1>2, <1>3, <1>4

LEMMA AnswerTypes ==
    ASSUME TypeInv, NEW h \in Hands, NEW q \in Questions, NEW yes \in BOOLEAN, Answer(h, q, yes)
    PROVE  TypeInv'
<1>. DEFINE r == AnswerGiven(mem[h], q, yes)
            id == mem[h].asks[q].id
<1>1. h \in Processes /\ h # Driver
  BY PipelineFacts DEF Processes
<1>2. r \in Rows /\ Coherent(r)
  <2>1. PICK m : m = mem[h]
    OBVIOUS
  <2>2. m \in Rows /\ Coherent(m)
    BY <2>1, <1>1, KnownTypes
  <2>3. r = AnswerGiven(m, q, yes)
    BY <2>1
  <2>. HIDE DEF r
  <2>4. r \in Rows /\ Kept(r, m) /\ r.state = m.state /\ r.from = m.from
    BY <2>2, <2>3, AnswerFacts
  <2>. QED
    BY <2>2, <2>4 DEF Coherent, Kept
<1>3. past \in Pasts
  BY KnownTypes
<1>4. Save(h, r, "idle", "other", past)
  BY DEF Answer, AnswerGiven
<1>5. id \notin evidence.yes /\ id \notin evidence.no
  BY DEF Answer
<1>6. evidence' \in Evidence /\ evidence'.yes \cap evidence'.no = {}
  <2>. DEFINE yeses == IF yes THEN evidence.yes \cup {id} ELSE evidence.yes
              noes == IF yes THEN evidence.no ELSE evidence.no \cup {id}
  <2>1. evidence' = [evidence EXCEPT !.yes = yeses, !.no = noes]
    BY KnownTypes DEF Answer, Evidence
  <2>2. id \in Nat
    BY <1>1, KnownTypes DEF Rows
  <2>3. yeses \in SUBSET Nat /\ noes \in SUBSET Nat
    BY <2>2, KnownTypes DEF Evidence
  <2>4. yeses \cap noes = {}
    BY <1>5, KnownTypes
  <2>. HIDE DEF yeses, noes
  <2>. QED
    BY <2>1, <2>3, <2>4, KnownTypes DEF Evidence
<1>7. "other" \in Causes /\ "idle" \in Places
  BY DEF Causes, Places
<1>. HIDE DEF r
<1>. QED
  BY <1>1, <1>2, <1>3, <1>4, <1>6, <1>7, SaveTypes

LEMMA HoldTypes ==
    ASSUME TypeInv, NEW h \in Hands, NEW how \in {"paused", "cancelled"}, Hold(h, how) PROVE TypeInv'
<1>. DEFINE r == [mem[h] EXCEPT ![how] = TRUE]
            facts == [past EXCEPT !.held = @ \cup {how}]
<1>1. h \in Processes /\ h # Driver
  BY PipelineFacts DEF Processes
<1>2. r \in Rows /\ Coherent(r)
  <2>1. PICK m \in Rows : m = mem[h] /\ Coherent(m)
    BY <1>1, KnownTypes
  <2>2. how = "paused" \/ how = "cancelled"
    OBVIOUS
  <2>3. CASE how = "paused"
    <3>1. r = [m EXCEPT !.paused = TRUE]
      BY <2>1, <2>3
    <3>. HIDE DEF r
    <3>. QED
      BY <2>1, <3>1 DEF Rows, Coherent
  <2>4. CASE how = "cancelled"
    <3>1. r = [m EXCEPT !.cancelled = TRUE]
      BY <2>1, <2>4
    <3>. HIDE DEF r
    <3>. QED
      BY <2>1, <3>1 DEF Rows, Coherent
  <2>. QED
    BY <2>2, <2>3, <2>4
<1>3. facts \in Pasts
  BY KnownTypes DEF Pasts
<1>4. Save(h, r, "idle", "other", facts) /\ UNCHANGED evidence
  BY DEF Hold
<1>5. "other" \in Causes /\ "idle" \in Places
  BY DEF Causes, Places
<1>. HIDE DEF r, facts
<1>. QED
  BY <1>1, <1>2, <1>3, <1>4, <1>5, KnownTypes, SaveTypes

LEMMA UnpauseTypes ==
    ASSUME TypeInv, NEW h \in Hands, Unpause(h) PROVE TypeInv'
<1>. DEFINE r == [mem[h] EXCEPT !.paused = FALSE]
            facts == [past EXCEPT !.held = @ \ {"paused"}]
<1>1. h \in Processes /\ h # Driver
  BY PipelineFacts DEF Processes
<1>2. r \in Rows /\ Coherent(r)
  <2>1. mem[h] \in Rows /\ Coherent(mem[h])
    BY <1>1, KnownTypes
  <2>. QED
    BY <2>1 DEF Rows, Coherent
<1>3. facts \in Pasts
  BY KnownTypes DEF Pasts
<1>4. Save(h, r, "idle", "other", facts) /\ UNCHANGED evidence
  BY DEF Unpause
<1>5. "other" \in Causes /\ "idle" \in Places
  BY DEF Causes, Places
<1>. HIDE DEF r, facts
<1>. QED
  BY <1>1, <1>2, <1>3, <1>4, <1>5, KnownTypes, SaveTypes

LEMMA ReleaseTypes ==
    ASSUME TypeInv, NEW h \in Hands, Release(h) PROVE TypeInv'
<1>. DEFINE r == [mem[h] EXCEPT !.state = mem[h].from, !.from = "none", !.failure = "none"]
<1>1. h \in Processes /\ h # Driver
  BY PipelineFacts DEF Processes
<1>2. r \in Rows /\ Coherent(r)
  <2>1. mem[h] \in Rows /\ mem[h].from \in Sequence
    BY <1>1, KnownTypes DEF Coherent, Release
  <2>. QED
    BY <2>1 DEF Rows, Coherent
<1>3. Save(h, r, "idle", "other", past) /\ UNCHANGED evidence
  BY DEF Release
<1>4. "other" \in Causes /\ "idle" \in Places
  BY DEF Causes, Places
<1>. HIDE DEF r
<1>. QED
  BY <1>1, <1>2, <1>3, <1>4, KnownTypes, SaveTypes

(* One case per action: what every invariant below is proved by.            *)
LEMMA NextCases ==
    ASSUME Next
    PROVE  \/ \E p \in Processes : Load(p) \/ Leave(p)
           \/ Poll \/ Advance \/ Dispatch \/ RecordDispatch
           \/ \E o \in Outcomes(Stage(mem[Driver])) : Report(o)
           \/ \E h \in Hands :
                 \/ Ask(h) \/ Unpause(h) \/ Release(h)
                 \/ \E q \in Questions, yes \in BOOLEAN : Answer(h, q, yes)
                 \/ \E how \in {"paused", "cancelled"} : Hold(h, how)
BY DEF Next, Drive, Handle

LEMMA NextTypes == TypeInv /\ [Next]_vars => TypeInv'
<1>. SUFFICES ASSUME TypeInv, [Next]_vars PROVE TypeInv'
  OBVIOUS
<1>1. CASE Next
  BY <1>1, NextCases, LoadTypes, LeaveTypes, PollTypes, AdvanceTypes, DispatchTypes, RecordDispatchTypes,
     ReportTypes, AskTypes, UnpauseTypes, ReleaseTypes, AnswerTypes, HoldTypes
<1>2. CASE UNCHANGED vars
  BY <1>2 DEF vars, TypeInv, TypeOK, Coherent, AtWork, Assigned, Stage
<1>. QED
  BY <1>1, <1>2

(* The row, every copy and the evidence keep their shape through every      *)
(* interleaving, no question is ever answered both ways, and a block that   *)
(* is called an outage is one (orchestrator.ts, taskRegistry.ts:236).       *)
THEOREM TypeCorrect == Spec => []TypeOK
<1>1. Spec => []TypeInv
  BY InitTypes, NextTypes, PTL DEF Spec
<1>2. TypeInv => TypeOK
  BY DEF TypeInv
<1>. QED
  BY <1>1, <1>2, PTL
-----------------------------------------------------------------------------
(* What a save does to the row and to the past.                             *)
LEMMA SaveFacts ==
    ASSUME TypeInv, NEW p \in Processes, NEW r, NEW next, NEW cause \in Causes, NEW facts \in Pasts,
           Save(p, r, next, cause, facts), facts.lost = past.lost
    PROVE  /\ row' = r
           /\ pc'[p] = next
           /\ next # "idle" => mem'[p] = r
           /\ \A q \in Processes : q # p => mem'[q] = mem[q] /\ pc'[q] = pc[q]
           /\ mem'[p] = r \/ mem'[p] = Fresh
           /\ ~past'.lost => ~past.lost /\ (mem[p] = row \/ r = row)
           /\ past'.held = facts.held
           /\ ~past'.lost =>
                /\ past'.seen = facts.seen /\ past'.rounds = facts.rounds /\ past'.deploys = facts.deploys
                /\ r.state # "BLOCKED" => past'.block = "none"
                /\ r.state = "BLOCKED" /\ mem[p].state = "BLOCKED" => past'.block = facts.block
                /\ r.state = "BLOCKED" /\ mem[p].state # "BLOCKED" => past'.block = cause
<1>. DEFINE block == IF r.state # "BLOCKED" THEN "none"
                     ELSE IF mem[p].state = "BLOCKED" THEN facts.block ELSE cause
            lost == past.lost \/ (mem[p] # row /\ r # row)
            copy == IF next = "idle" THEN Fresh ELSE r
<1>1. row' = r /\ pc' = [pc EXCEPT ![p] = next] /\ mem' = [mem EXCEPT ![p] = copy]
  BY DEF Save
<1>2. pc \in [Processes -> Places] /\ mem \in [Processes -> Rows]
  BY DEF TypeInv, TypeOK, Places
<1>3. /\ lost => past' = NoPast(TRUE, facts.held)
      /\ ~lost => past' = [facts EXCEPT !.block = block]
  BY DEF Save
<1>. HIDE DEF block
<1>4. lost => past'.lost /\ past'.held = facts.held
  BY <1>3 DEF NoPast
<1>5. ~lost =>
        /\ past'.block = block /\ past'.held = facts.held /\ ~past.lost /\ (mem[p] = row \/ r = row)
        /\ past'.seen = facts.seen /\ past'.rounds = facts.rounds /\ past'.deploys = facts.deploys
  BY <1>3 DEF Pasts
<1>6. block = IF r.state # "BLOCKED" THEN "none"
              ELSE IF mem[p].state = "BLOCKED" THEN facts.block ELSE cause
  BY DEF block
<1>7. /\ pc'[p] = next /\ mem'[p] = copy
      /\ \A q \in Processes : q # p => mem'[q] = mem[q] /\ pc'[q] = pc[q]
  BY <1>1, <1>2
<1>. QED
  BY <1>1, <1>4, <1>5, <1>6, <1>7

(* Where a walk leaves the row.                                             *)
LEMMA WalkFacts ==
    ASSUME NEW r \in Rows, NEW ev, Walks(r), asked \in Nat
    PROVE  /\ Reached(r, ev) \in Sequence
           /\ \A k \in Questions : r.asks[k].status # "none" => Advanced(r, ev).asks[k] = r.asks[k]
           /\ Reached(r, ev) = "DEPLOYED" =>
                 Advanced(r, ev).state = "DEPLOYED" /\ Advanced(r, ev).done /\ Advanced(r, ev).asks = r.asks
           /\ Reached(r, ev) # "DEPLOYED" => Advanced(r, ev).state \in {Reached(r, ev), "BLOCKED"}
           /\ Advanced(r, ev).state = "BLOCKED" => Advanced(r, ev).from = Reached(r, ev)
           /\ Advanced(r, ev).state # "BLOCKED" => Advanced(r, ev).from = r.from
<1>. DEFINE a == Advanced(r, ev)
            s == Reached(r, ev)
            here == [r EXCEPT !.state = s]
<1>1. s \in Sequence
  BY ReachedFacts DEF Walks
<1>2. s # "BLOCKED"
  BY <1>1, SequenceFacts
<1>3. a = IF s = "DEPLOYED" THEN [here EXCEPT !.done = TRUE]
          ELSE IF Assigned(r, s) THEN here
          ELSE IF GateOpen(r, s) \/ Said(r, QuestionAt(s), "rejected") THEN Block(here, s)
          ELSE Open(here, QuestionAt(s))
  BY DEF Advanced
<1>. HIDE DEF s
<1>4. here \in Rows /\ here.state = s /\ here.from = r.from /\ here.asks = r.asks
  BY <1>1 DEF Rows
<1>. HIDE DEF here, a
<1>5. CASE s = "DEPLOYED"
  <2>1. a = [here EXCEPT !.done = TRUE]
    BY <1>3, <1>5
  <2>2. a.state = s /\ a.done /\ a.asks = r.asks /\ a.from = r.from
    BY <2>1, <1>4 DEF Rows
  <2>. QED
    BY <2>2, <1>1, <1>2, <1>5 DEF s, a
<1>6. CASE s # "DEPLOYED" /\ a = here
  BY <1>1, <1>2, <1>4, <1>6 DEF s, a
<1>7. CASE s # "DEPLOYED" /\ a = Block(here, s)
  <2>1. a.state = "BLOCKED" /\ a.from = s /\ a.asks = here.asks
    BY <1>1, <1>4, <1>7, BlockFacts
  <2>. QED
    BY <2>1, <1>1, <1>4, <1>7 DEF s, a
<1>8. CASE s # "DEPLOYED" /\ a = Open(here, QuestionAt(s))
  <2>1. /\ a.state = s /\ a.from = r.from
        /\ \A k \in Questions : r.asks[k].status # "none" => a.asks[k] = r.asks[k]
    BY <1>4, <1>8, OpenFacts
  <2>. QED
    BY <2>1, <1>1, <1>2, <1>8 DEF s, a
<1>. QED
  BY <1>3, <1>5, <1>6, <1>7, <1>8

(* What only the driver changes.                                            *)
Owned(a, r) ==
    a.cursor = r.cursor /\ a.prepared = r.prepared /\ a.retries = r.retries /\ a.inflight = r.inflight

SameStanding(r, m) ==
    r.state = m.state /\ r.from = m.from /\ r.failure = m.failure /\ r.done = m.done

Lifted(r, m) ==
    /\ m.state = "BLOCKED" /\ m.failure = "unavailable" /\ m.inflight = "none"
    /\ r.state = m.from /\ r.from = "none" /\ r.failure = "none" /\ r.done = m.done

(* Questions that were put and answered are not put again.                  *)
AsksKept(r, m) == \A k \in Questions : m.asks[k].status \in {"approved", "rejected"} => r.asks[k] = m.asks[k]

Handed(h, r, next, facts) ==
    /\ Save(h, r, next, "other", facts)
    /\ Owned(r, mem[h])
    /\ AsksKept(r, mem[h])
    /\ \/ r = Advanced(mem[h], evidence) /\ UNCHANGED evidence
       \/ SameStanding(r, mem[h]) /\ \A k \in Questions : mem[h].asks[k].status # "pending" => r.asks[k] = mem[h].asks[k]
       \/ Lifted(r, mem[h])
    /\ facts.lost = past.lost /\ facts.seen = past.seen /\ facts.rounds = past.rounds
    /\ facts.deploys = past.deploys /\ facts.block = past.block
    /\ evidence'.latest = evidence.latest /\ evidence'.phase = evidence.phase
    /\ evidence'.prepared = evidence.prepared /\ evidence.yes \subseteq evidence'.yes

LEMMA AdvancedOwned ==
    ASSUME NEW r \in Rows, NEW ev, asked \in Nat
    PROVE  Owned(Advanced(r, ev), r) /\ AsksKept(Advanced(r, ev), r)
<1>1. Owned(Advanced(r, ev), r)
  BY AdvancedFacts DEF Owned, Kept
<1>2. CASE Walks(r)
  BY <1>1, <1>2, WalkFacts DEF AsksKept
<1>3. CASE ~Walks(r)
  BY <1>1, <1>3, AdvancedFacts DEF AsksKept
<1>. QED
  BY <1>2, <1>3

(* What a process beside the driver does to the row.                        *)
LEMMA HandFacts ==
    ASSUME TypeInv, NEW h \in Hands, Handle(h)
    PROVE  h \in Processes /\ h # Driver /\ \E r \in Rows, next \in Places, facts \in Pasts : Handed(h, r, next, facts)
<1>1. h \in Processes /\ h # Driver
  BY PipelineFacts DEF Processes
<1>2. PICK m : m = mem[h]
  OBVIOUS
<1>3. m \in Rows /\ Coherent(m) /\ past \in Pasts /\ evidence \in Evidence /\ asked \in Nat
  BY <1>1, <1>2, KnownTypes
<1>4. "idle" \in Places /\ "loaded" \in Places
  BY DEF Places
<1>5. CASE Ask(h)
  <2>. DEFINE r == Advanced(mem[h], evidence)
  <2>1. r \in Rows
    BY <1>2, <1>3, AdvancedFacts
  <2>2. Handed(h, r, "loaded", past)
    <3>1. Save(h, r, "loaded", "other", past) /\ UNCHANGED evidence
      BY <1>5 DEF Ask
    <3>2. Owned(r, mem[h]) /\ AsksKept(r, mem[h])
      BY <1>2, <1>3, AdvancedOwned
    <3>. QED
      BY <3>1, <3>2 DEF Handed
  <2>. QED
    BY <1>1, <1>3, <1>4, <2>1, <2>2
<1>6. ASSUME NEW q \in Questions, NEW yes \in BOOLEAN, Answer(h, q, yes)
      PROVE  \E r \in Rows, next \in Places, facts \in Pasts : Handed(h, r, next, facts)
  <2>. DEFINE r == AnswerGiven(mem[h], q, yes)
  <2>1. r \in Rows /\ Kept(r, m) /\ SameStanding(r, m) /\ \A k \in Questions : k # q => r.asks[k] = m.asks[k]
    <3>1. PICK a : a = AnswerGiven(m, q, yes)
      OBVIOUS
    <3>2. /\ a \in Rows /\ Kept(a, m) /\ a.state = m.state /\ a.from = m.from /\ a.done = m.done
          /\ \A k \in Questions : k # q => a.asks[k] = m.asks[k]
      BY <1>3, <3>1, AnswerFacts
    <3>. QED
      BY <3>1, <3>2, <1>2 DEF SameStanding, Kept
  <2>2. m.asks[q].status = "pending"
    BY <1>2, <1>6 DEF Answer
  <2>3. past \in Pasts
    BY <1>3
  <2>4. Save(h, r, "idle", "other", past)
    BY <1>6 DEF Answer, AnswerGiven
  <2>5. /\ evidence'.latest = evidence.latest /\ evidence'.phase = evidence.phase
        /\ evidence'.prepared = evidence.prepared /\ evidence.yes \subseteq evidence'.yes
    <3>. DEFINE yeses == IF yes THEN evidence.yes \cup {mem[h].asks[q].id} ELSE evidence.yes
                noes == IF yes THEN evidence.no ELSE evidence.no \cup {mem[h].asks[q].id}
    <3>1. evidence' = [evidence EXCEPT !.yes = yeses, !.no = noes]
      BY <1>3, <1>6 DEF Answer, Evidence
    <3>2. evidence.yes \subseteq yeses
      OBVIOUS
    <3>. HIDE DEF yeses, noes
    <3>. QED
      BY <3>1, <3>2, <1>3 DEF Evidence
  <2>6. Owned(r, mem[h]) /\ AsksKept(r, mem[h])
        /\ \A k \in Questions : mem[h].asks[k].status # "pending" => r.asks[k] = mem[h].asks[k]
    BY <2>1, <2>2, <1>2 DEF Owned, Kept, AsksKept
  <2>. HIDE DEF r
  <2>7. Handed(h, r, "idle", past)
    BY <2>1, <2>3, <2>4, <2>5, <2>6, <1>2 DEF Handed
  <2>. QED
    BY <2>1, <2>3, <2>7, <1>4
<1>7. ASSUME NEW r \in Rows, NEW facts \in Pasts, Save(h, r, "idle", "other", facts), UNCHANGED evidence,
             r.asks = m.asks, Owned(r, m), SameStanding(r, m) \/ Lifted(r, m),
             facts.lost = past.lost, facts.seen = past.seen, facts.rounds = past.rounds,
             facts.deploys = past.deploys, facts.block = past.block
      PROVE  \E x \in Rows, next \in Places, f \in Pasts : Handed(h, x, next, f)
  <2>1. Handed(h, r, "idle", facts)
    BY <1>7, <1>2 DEF Handed, AsksKept
  <2>. QED
    BY <2>1, <1>4
<1>8. ASSUME NEW how \in {"paused", "cancelled"}, Hold(h, how)
      PROVE  \E r \in Rows, next \in Places, facts \in Pasts : Handed(h, r, next, facts)
  <2>. DEFINE r == [m EXCEPT ![how] = TRUE]
              facts == [past EXCEPT !.held = @ \cup {how}]
  <2>1. r \in Rows /\ r.asks = m.asks /\ Owned(r, m) /\ SameStanding(r, m)
    <3>1. CASE how = "paused"
      <4>1. r = [m EXCEPT !.paused = TRUE]
        BY <3>1
      <4>. HIDE DEF r
      <4>. QED
        BY <4>1, <1>3 DEF Rows, Owned, SameStanding
    <3>2. CASE how = "cancelled"
      <4>1. r = [m EXCEPT !.cancelled = TRUE]
        BY <3>2
      <4>. HIDE DEF r
      <4>. QED
        BY <4>1, <1>3 DEF Rows, Owned, SameStanding
    <3>. QED
      BY <3>1, <3>2
  <2>2. facts \in Pasts /\ facts.lost = past.lost /\ facts.seen = past.seen /\ facts.rounds = past.rounds
        /\ facts.deploys = past.deploys /\ facts.block = past.block
    BY <1>3 DEF Pasts
  <2>3. Save(h, r, "idle", "other", facts) /\ UNCHANGED evidence
    BY <1>2, <1>8 DEF Hold
  <2>. HIDE DEF r, facts
  <2>. QED
    BY <2>1, <2>2, <2>3, <1>7
<1>9. CASE Unpause(h)
  <2>. DEFINE r == [m EXCEPT !.paused = FALSE]
              facts == [past EXCEPT !.held = @ \ {"paused"}]
  <2>1. r \in Rows /\ r.asks = m.asks /\ Owned(r, m) /\ SameStanding(r, m)
    BY <1>3 DEF Rows, Owned, SameStanding
  <2>2. facts \in Pasts /\ facts.lost = past.lost /\ facts.seen = past.seen /\ facts.rounds = past.rounds
        /\ facts.deploys = past.deploys /\ facts.block = past.block
    BY <1>3 DEF Pasts
  <2>3. Save(h, r, "idle", "other", facts) /\ UNCHANGED evidence
    BY <1>2, <1>9 DEF Unpause
  <2>. HIDE DEF r, facts
  <2>4. \E x \in Rows, next \in Places, f \in Pasts : Handed(h, x, next, f)
    BY <2>1, <2>2, <2>3, <1>7
  <2>. QED
    BY <2>4, <1>1
<1>10. CASE Release(h)
  <2>. DEFINE r == [m EXCEPT !.state = m.from, !.from = "none", !.failure = "none"]
  <2>1. m.from \in Sequence /\ m.state = "BLOCKED" /\ m.failure = "unavailable" /\ m.inflight = "none"
    BY <1>2, <1>3, <1>10 DEF Coherent, Release
  <2>2. r \in Rows /\ r.asks = m.asks /\ Owned(r, m) /\ Lifted(r, m)
    BY <2>1, <1>3 DEF Rows, Owned, Lifted
  <2>3. Save(h, r, "idle", "other", past) /\ UNCHANGED evidence
    BY <1>2, <1>10 DEF Release
  <2>. HIDE DEF r
  <2>4. \E x \in Rows, next \in Places, f \in Pasts : Handed(h, x, next, f)
    BY <2>2, <2>3, <1>3, <1>7
  <2>. QED
    BY <2>4, <1>1
<1>. QED
  BY <1>1, <1>5, <1>6, <1>8, <1>9, <1>10 DEF Handle
-----------------------------------------------------------------------------
(* What the driver saves, step by step.                                     *)
LEMMA AdvanceSaves ==
    ASSUME TypeInv, Advance
    PROVE  \E next \in {"assigned", "idle"} :
              /\ Save(Driver, Advanced(mem[Driver], evidence), next, "other", past)
              /\ next = "assigned" => Running(Advanced(mem[Driver], evidence))
              /\ UNCHANGED evidence
BY DEF Advance

LEMMA DispatchSaves ==
    ASSUME TypeInv, Dispatch
    PROVE  /\ mem[Driver] \in Rows /\ AtWork(mem[Driver]) /\ UNCHANGED evidence
           /\ \E r \in Rows, facts \in Pasts :
                 /\ Save(Driver, r, "running", "other", facts)
                 /\ facts.lost = past.lost /\ facts.held = past.held /\ facts.seen = past.seen
                 /\ facts.rounds = past.rounds /\ facts.block = past.block
                 /\ ~Executing(mem[Driver]) => r = mem[Driver] /\ facts.deploys = past.deploys
                 /\ Executing(mem[Driver]) => r.inflight = "devops"
                 /\ Executing(mem[Driver]) => facts.deploys = IF past.deploys = 2 THEN 2 ELSE past.deploys + 1
                 /\ r.state = mem[Driver].state /\ r.from = mem[Driver].from /\ r.cursor = mem[Driver].cursor
                 /\ r.failure = mem[Driver].failure /\ r.retries = mem[Driver].retries /\ r.asks = mem[Driver].asks
                 /\ r.prepared = mem[Driver].prepared /\ r.done = mem[Driver].done
                 /\ r.paused = mem[Driver].paused /\ r.cancelled = mem[Driver].cancelled
<1>1. PICK m : m = mem[Driver]
  OBVIOUS
<1>2. m \in Rows /\ AtWork(m) /\ asked \in Nat /\ past \in Pasts
  BY <1>1, KnownTypes, PipelineFacts DEF Dispatch, TypeInv
<1>3. Advanced(m, evidence) = m
  BY <1>2, WalkAgain
<1>4. UNCHANGED evidence
  BY DEF Dispatch
<1>5. CASE Executing(m)
  <2>. DEFINE r == [m EXCEPT !.inflight = "devops"]
              facts == [past EXCEPT !.deploys = IF @ = 2 THEN 2 ELSE @ + 1]
  <2>1. "devops" \in Ran
    BY <1>2, <1>5, AtWorkFacts DEF Executing
  <2>2. /\ r \in Rows /\ r.inflight = "devops"
        /\ r.state = m.state /\ r.from = m.from /\ r.cursor = m.cursor
        /\ r.failure = m.failure /\ r.retries = m.retries /\ r.asks = m.asks
        /\ r.prepared = m.prepared /\ r.done = m.done /\ r.paused = m.paused /\ r.cancelled = m.cancelled
    BY <1>2, <2>1 DEF Rows
  <2>3. /\ facts \in Pasts /\ facts.lost = past.lost /\ facts.held = past.held /\ facts.seen = past.seen
        /\ facts.rounds = past.rounds /\ facts.block = past.block
        /\ facts.deploys = IF past.deploys = 2 THEN 2 ELSE past.deploys + 1
    <3>1. (IF past.deploys = 2 THEN 2 ELSE past.deploys + 1) \in 0..2
      BY <1>2 DEF Pasts
    <3>. QED
      BY <3>1, <1>2 DEF Pasts
  <2>4. Save(Driver, r, "running", "other", facts)
    BY <1>1, <1>3, <1>5 DEF Dispatch
  <2>. HIDE DEF r, facts
  <2>. QED
    BY <2>2, <2>3, <2>4, <1>1, <1>2, <1>4, <1>5
<1>6. CASE ~Executing(m)
  <2>1. Save(Driver, m, "running", "other", past)
    BY <1>1, <1>3, <1>6 DEF Dispatch
  <2>. QED
    BY <2>1, <1>1, <1>2, <1>4, <1>6
<1>. QED
  BY <1>5, <1>6

LEMMA RecordDispatchSaves ==
    ASSUME TypeInv, RecordDispatch
    PROVE  /\ mem[Driver] \in Rows /\ AtWork(mem[Driver]) /\ UNCHANGED evidence
           /\ mem[Driver].inflight = "none"
           /\ \E r \in Rows :
                 /\ Save(Driver, r, "running", "other", past)
                 /\ r.inflight = Stage(mem[Driver]) /\ r.inflight # "none"
                 /\ r.state = mem[Driver].state /\ r.from = mem[Driver].from /\ r.cursor = mem[Driver].cursor
                 /\ r.failure = mem[Driver].failure /\ r.retries = mem[Driver].retries /\ r.asks = mem[Driver].asks
                 /\ r.prepared = mem[Driver].prepared /\ r.done = mem[Driver].done
                 /\ r.paused = mem[Driver].paused /\ r.cancelled = mem[Driver].cancelled
<1>1. PICK m : m = mem[Driver]
  OBVIOUS
<1>2. m \in Rows /\ AtWork(m) /\ m.inflight = "none" /\ UNCHANGED evidence
  BY <1>1, KnownTypes, PipelineFacts DEF RecordDispatch, TypeInv
<1>. DEFINE r == [m EXCEPT !.inflight = Stage(m)]
<1>3. Stage(m) \in Ran /\ Stage(m) # "none"
  BY <1>2, AtWorkFacts, PipelineFacts, StageFacts
<1>4. /\ r \in Rows /\ r.inflight = Stage(m)
      /\ r.state = m.state /\ r.from = m.from /\ r.cursor = m.cursor
      /\ r.failure = m.failure /\ r.retries = m.retries /\ r.asks = m.asks
      /\ r.prepared = m.prepared /\ r.done = m.done /\ r.paused = m.paused /\ r.cancelled = m.cancelled
  BY <1>2, <1>3 DEF Rows
<1>5. Save(Driver, r, "running", "other", past)
  BY <1>1 DEF RecordDispatch
<1>. HIDE DEF r
<1>. QED
  BY <1>1, <1>2, <1>3, <1>4, <1>5

(* A settled attempt and what is remembered of it, as facts of the fields.  *)
SettledTo(q, r, ev, o) ==
    /\ q \in Rows
    /\ q.paused = r.paused /\ q.cancelled = r.cancelled /\ q.done = r.done
    /\ q.inflight = "none"
    /\ \A k \in Questions : r.asks[k].status # "none" => q.asks[k] = r.asks[k]
    /\ o = "unavailable" => q.failure = "unavailable" /\ q.state = "BLOCKED" /\ q.from = r.state
    /\ o # "unavailable" => q.failure # "unavailable"
    /\ Stopped(q, r) \/ Onward(q, r, ev, o) \/ Stayed(q, r) \/ Rewound(q)
    /\ Executing(r) => q.state = "BLOCKED" \/ Onward(q, r, ev, o)
    /\ ~Fails(Stage(r), o) => q.retries = r.retries
    /\ Fails(Stage(r), o) => q.retries[Stage(r)] = Used(r, Stage(r), o)
    /\ Fails(Stage(r), o) => \A k \in Verifiers : k # Stage(r) => q.retries[k] = r.retries[k]
    /\ Fails(Stage(r), o) => (q.state = "BLOCKED" \/ Used(r, Stage(r), o) <= MaxRetry)

RememberedAs(facts, r, o) ==
    /\ facts.lost = past.lost /\ facts.held = past.held /\ facts.block = past.block
    /\ Stage(r) \in Implementers => facts.seen = {}
    /\ Stage(r) \in Verifiers /\ o = "complete" => facts.seen = past.seen \cup {Stage(r)}
    /\ Stage(r) \notin Implementers /\ ~(Stage(r) \in Verifiers /\ o = "complete") => facts.seen = past.seen
    /\ \A k \in Verifiers :
          facts.rounds[k] = IF k = Stage(r) /\ past.rounds[k] <= MaxRetry
                               /\ o \notin {"complete", "incomplete", "spent", "unavailable", "outage"}
                            THEN past.rounds[k] + 1 ELSE past.rounds[k]
    /\ facts.deploys = IF Executing(r) /\ o = "unavailable" THEN 0 ELSE past.deploys

Reported(o, q, x, next, cause, facts) ==
    /\ Save(Driver, x, next, cause, facts)
    /\ cause = IF o = "unavailable" THEN o ELSE "other"
    /\ SettledTo(q, mem[Driver], evidence, o)
    /\ x = Advanced(q, evidence')
    /\ RememberedAs(facts, mem[Driver], o)

LEMMA ReportSaves ==
    ASSUME TypeInv, NEW o, Report(o)
    PROVE  /\ mem[Driver] \in Rows /\ AtWork(mem[Driver]) /\ mem[Driver].failure # "unavailable"
           /\ o \in Outcomes(Stage(mem[Driver])) /\ evidence' \in Evidence
           /\ evidence' = Witnessed(mem[Driver], evidence, Stage(mem[Driver]), o)
           /\ \E q, x \in Rows, next \in {"idle", "loaded"}, cause \in Causes, facts \in Pasts :
                 Reported(o, q, x, next, cause, facts)
<1>. DEFINE m == mem[Driver]
            g == Stage(m)
            q == Settled(m, evidence, g, o)
            x == Outcome(o)
            facts == Remembered(m, g, o)
            cause == IF o = "unavailable" THEN o ELSE "other"
<1>1. /\ m \in Rows /\ AtWork(m) /\ m.failure # "unavailable" /\ g \in Ran /\ o \in Outcomes(g)
      /\ q \in Rows /\ evidence' \in Evidence /\ evidence' = Witnessed(m, evidence, g, o)
      /\ x = Advanced(q, evidence') /\ x \in Rows /\ facts \in Pasts
      /\ \E next \in {"idle", "loaded"} : Save(Driver, x, next, cause, facts)
  BY ReportFacts
<1>2. SettledTo(q, m, evidence, o)
  <2>1. PICK d : d = m
    OBVIOUS
  <2>2. PICK s : s = Settled(d, evidence, Stage(d), o)
    OBVIOUS
  <2>3. d \in Rows /\ AtWork(d) /\ d.failure # "unavailable" /\ o \in Outcomes(Stage(d)) /\ asked \in Nat
    BY <2>1, <1>1, KnownTypes
  <2>. HIDE DEF m, q, g
  <2>4. SettledTo(s, d, evidence, o)
    BY <2>2, <2>3, SettledFacts DEF SettledTo
  <2>. QED
    BY <2>1, <2>2, <2>4 DEF q, g
<1>3. RememberedAs(facts, m, o)
  <2>. DEFINE seen == IF g \in Implementers THEN {}
                      ELSE IF g \in Verifiers /\ o = "complete" THEN past.seen \cup {g} ELSE past.seen
              rounds == [k \in Verifiers |->
                           IF k = g /\ past.rounds[k] <= MaxRetry
                              /\ o \notin {"complete", "incomplete", "spent", "unavailable", "outage"}
                           THEN past.rounds[k] + 1 ELSE past.rounds[k]]
              deploys == IF Executing(m) /\ o = "unavailable" THEN 0 ELSE past.deploys
  <2>1. facts = [past EXCEPT !.seen = seen, !.rounds = rounds, !.deploys = deploys]
    BY DEF Remembered
  <2>2. past \in Pasts
    BY KnownTypes
  <2>3. /\ g \in Implementers => seen = {}
        /\ g \in Verifiers /\ o = "complete" => seen = past.seen \cup {g}
        /\ g \notin Implementers /\ ~(g \in Verifiers /\ o = "complete") => seen = past.seen
    BY DEF Implementers, Verifiers
  <2>4. \A k \in Verifiers :
          rounds[k] = IF k = g /\ past.rounds[k] <= MaxRetry
                         /\ o \notin {"complete", "incomplete", "spent", "unavailable", "outage"}
                      THEN past.rounds[k] + 1 ELSE past.rounds[k]
    OBVIOUS
  <2>5. deploys = IF Executing(m) /\ o = "unavailable" THEN 0 ELSE past.deploys
    OBVIOUS
  <2>. HIDE DEF seen, rounds, deploys, facts
  <2>6. /\ facts.lost = past.lost /\ facts.held = past.held /\ facts.block = past.block
        /\ facts.seen = seen /\ facts.rounds = rounds /\ facts.deploys = deploys
    BY <2>1, <2>2 DEF Pasts
  <2>. HIDE DEF m, g
  <2>. QED
    BY <2>3, <2>4, <2>5, <2>6 DEF RememberedAs, g
<1>4. cause \in Causes
  BY DEF Causes
<1>. HIDE DEF m, q, x, facts, cause, g
<1>5. \E next \in {"idle", "loaded"} : Reported(o, q, x, next, cause, facts)
  BY <1>1, <1>2, <1>3 DEF Reported, m, cause
<1>. QED
  BY <1>1, <1>4, <1>5 DEF m, g

(* What a save keeps of the holds.                                          *)
SavedHold(p) ==
    \E r \in Rows, next \in Places, cause \in Causes, facts \in Pasts :
       /\ Save(p, r, next, cause, facts)
       /\ facts.lost = past.lost
       /\ \/ facts.held = past.held /\ (mem[p].paused => r.paused) /\ (mem[p].cancelled => r.cancelled)
          \/ facts.held \subseteq past.held \cup {"paused"} /\ r.paused /\ (mem[p].cancelled => r.cancelled)
          \/ facts.held \subseteq past.held \cup {"cancelled"} /\ (mem[p].paused => r.paused) /\ r.cancelled
          \/ facts.held = past.held \ {"paused"} /\ (mem[p].cancelled => r.cancelled)

LEMMA SavedHoldStands ==
    ASSUME TypeInv, HoldLostOnlyByOldCopy, NEW p \in Processes, SavedHold(p)
    PROVE  HoldLostOnlyByOldCopy'
<1>1. PICK r \in Rows, next \in Places, cause \in Causes, facts \in Pasts :
        /\ Save(p, r, next, cause, facts)
        /\ facts.lost = past.lost
        /\ \/ facts.held = past.held /\ (mem[p].paused => r.paused) /\ (mem[p].cancelled => r.cancelled)
           \/ facts.held \subseteq past.held \cup {"paused"} /\ r.paused /\ (mem[p].cancelled => r.cancelled)
           \/ facts.held \subseteq past.held \cup {"cancelled"} /\ (mem[p].paused => r.paused) /\ r.cancelled
           \/ facts.held = past.held \ {"paused"} /\ (mem[p].cancelled => r.cancelled)
  BY DEF SavedHold
<1>2. row' = r /\ past'.held = facts.held /\ (~past'.lost => ~past.lost /\ (mem[p] = row \/ r = row))
  BY <1>1, SaveFacts
<1>. SUFFICES ASSUME ~past'.lost PROVE HoldStands'
  BY DEF HoldLostOnlyByOldCopy
<1>3. HoldStands /\ (mem[p] = row \/ r = row)
  BY <1>2 DEF HoldLostOnlyByOldCopy
<1>. QED
  BY <1>1, <1>2, <1>3 DEF HoldStands

LEMMA HandHolds ==
    ASSUME TypeInv, NEW h \in Hands, Handle(h)
    PROVE  SavedHold(h)
<1>1. PICK m : m = mem[h]
  OBVIOUS
<1>2. m \in Rows /\ past \in Pasts /\ asked \in Nat
  BY <1>1, KnownTypes DEF Processes
<1>3. "other" \in Causes /\ "idle" \in Places /\ "loaded" \in Places
  BY DEF Causes, Places
<1>4. CASE Ask(h)
  <2>1. PICK r : r = Advanced(m, evidence)
    OBVIOUS
  <2>2. r \in Rows /\ r.paused = m.paused /\ r.cancelled = m.cancelled
    BY <2>1, <1>2, AdvancedFacts DEF Kept
  <2>3. Save(h, r, "loaded", "other", past)
    BY <2>1, <1>1, <1>4 DEF Ask
  <2>. QED
    BY <2>2, <2>3, <1>1, <1>2, <1>3 DEF SavedHold
<1>5. ASSUME NEW q \in Questions, NEW yes \in BOOLEAN, Answer(h, q, yes) PROVE SavedHold(h)
  <2>1. PICK r : r = AnswerGiven(m, q, yes)
    OBVIOUS
  <2>2. r \in Rows /\ Kept(r, m)
    BY <2>1, <1>2, AnswerFacts
  <2>3. Save(h, r, "idle", "other", past)
    BY <2>1, <1>1, <1>5 DEF Answer, AnswerGiven
  <2>4. r.paused = mem[h].paused /\ r.cancelled = mem[h].cancelled
    BY <2>2, <1>1 DEF Kept
  <2>. QED
    BY <2>2, <2>3, <2>4, <1>2, <1>3 DEF SavedHold
<1>6. ASSUME NEW how \in {"paused", "cancelled"}, Hold(h, how) PROVE SavedHold(h)
  <2>. DEFINE facts == [past EXCEPT !.held = @ \cup {how}]
  <2>1. facts \in Pasts /\ facts.lost = past.lost /\ facts.held = past.held \cup {how}
    BY <1>2 DEF Pasts
  <2>2. Save(h, [m EXCEPT ![how] = TRUE], "idle", "other", facts)
    BY <1>1, <1>6 DEF Hold
  <2>. HIDE DEF facts
  <2>3. CASE how = "paused"
    <3>1. PICK r : r = [m EXCEPT !.paused = TRUE]
      OBVIOUS
    <3>2. r \in Rows /\ r.paused /\ r.cancelled = mem[h].cancelled
      BY <3>1, <1>1, <1>2 DEF Rows
    <3>3. Save(h, r, "idle", "other", facts)
      BY <3>1, <2>2, <2>3
    <3>. QED
      BY <3>2, <3>3, <2>1, <2>3, <1>3 DEF SavedHold
  <2>4. CASE how = "cancelled"
    <3>1. PICK r : r = [m EXCEPT !.cancelled = TRUE]
      OBVIOUS
    <3>2. r \in Rows /\ r.cancelled /\ r.paused = mem[h].paused
      BY <3>1, <1>1, <1>2 DEF Rows
    <3>3. Save(h, r, "idle", "other", facts)
      BY <3>1, <2>2, <2>4
    <3>. QED
      BY <3>2, <3>3, <2>1, <2>4, <1>3 DEF SavedHold
  <2>. QED
    BY <2>3, <2>4
<1>7. CASE Unpause(h)
  <2>. DEFINE facts == [past EXCEPT !.held = @ \ {"paused"}]
  <2>1. facts \in Pasts /\ facts.lost = past.lost /\ facts.held = past.held \ {"paused"}
    BY <1>2 DEF Pasts
  <2>2. PICK r : r = [m EXCEPT !.paused = FALSE]
    OBVIOUS
  <2>3. r \in Rows /\ r.cancelled = mem[h].cancelled
    BY <2>2, <1>1, <1>2 DEF Rows
  <2>4. Save(h, r, "idle", "other", facts)
    BY <2>2, <1>1, <1>7 DEF Unpause
  <2>. HIDE DEF facts
  <2>. QED
    BY <2>1, <2>3, <2>4, <1>3 DEF SavedHold
<1>8. CASE Release(h)
  <2>1. PICK r : r = [m EXCEPT !.state = m.from, !.from = "none", !.failure = "none"]
    OBVIOUS
  <2>2. m.from \in Sequence
    BY <1>1, <1>8, KnownTypes DEF Coherent, Release, Processes
  <2>3. r \in Rows /\ r.paused = mem[h].paused /\ r.cancelled = mem[h].cancelled
    BY <2>1, <2>2, <1>1, <1>2 DEF Rows
  <2>4. Save(h, r, "idle", "other", past)
    BY <2>1, <1>1, <1>8 DEF Release
  <2>. QED
    BY <2>3, <2>4, <1>2, <1>3 DEF SavedHold
<1>. QED
  BY <1>4, <1>5, <1>6, <1>7, <1>8 DEF Handle

LEMMA NextHolds ==
    TypeInv /\ HoldLostOnlyByOldCopy /\ [Next]_vars => HoldLostOnlyByOldCopy'
<1>. SUFFICES ASSUME TypeInv, HoldLostOnlyByOldCopy, [Next]_vars PROVE HoldLostOnlyByOldCopy'
  OBVIOUS
<1>1. ASSUME UNCHANGED <<row, past>> PROVE HoldLostOnlyByOldCopy'
  BY <1>1 DEF HoldLostOnlyByOldCopy, HoldStands
<1>2. CASE UNCHANGED vars \/ Poll \/ \E p \in Processes : Load(p) \/ Leave(p)
  BY <1>1, <1>2 DEF vars, Poll, Load, Leave
<1>3. Driver \in Processes /\ mem[Driver] \in Rows /\ asked \in Nat /\ past \in Pasts /\ "other" \in Causes
  BY PipelineFacts, KnownTypes DEF Causes
<1>4. "idle" \in Places /\ "loaded" \in Places /\ "running" \in Places /\ "assigned" \in Places
  BY DEF Places
<1>5. CASE Advance
  <2>1. PICK next \in {"assigned", "idle"} : Save(Driver, Advanced(mem[Driver], evidence), next, "other", past)
    BY <1>5, AdvanceSaves
  <2>2. PICK r : r = Advanced(mem[Driver], evidence)
    OBVIOUS
  <2>3. r \in Rows /\ r.paused = mem[Driver].paused /\ r.cancelled = mem[Driver].cancelled
    BY <2>2, <1>3, AdvancedFacts DEF Kept
  <2>4. SavedHold(Driver)
    BY <2>1, <2>2, <2>3, <1>3, <1>4 DEF SavedHold
  <2>. QED
    BY <2>4, <1>3, SavedHoldStands
<1>6. CASE Dispatch
  <2>1. PICK r \in Rows, facts \in Pasts :
          /\ Save(Driver, r, "running", "other", facts)
          /\ facts.lost = past.lost /\ facts.held = past.held
          /\ r.paused = mem[Driver].paused /\ r.cancelled = mem[Driver].cancelled
    BY <1>6, DispatchSaves
  <2>2. SavedHold(Driver)
    BY <2>1, <1>3, <1>4 DEF SavedHold
  <2>. QED
    BY <2>2, <1>3, SavedHoldStands
<1>7. CASE RecordDispatch
  <2>1. PICK r \in Rows :
          /\ Save(Driver, r, "running", "other", past)
          /\ r.paused = mem[Driver].paused /\ r.cancelled = mem[Driver].cancelled
    BY <1>7, RecordDispatchSaves
  <2>2. SavedHold(Driver)
    BY <2>1, <1>3, <1>4 DEF SavedHold
  <2>. QED
    BY <2>2, <1>3, SavedHoldStands
<1>8. ASSUME NEW o, Report(o) PROVE HoldLostOnlyByOldCopy'
  <2>1. PICK q, x \in Rows, next \in {"idle", "loaded"}, cause \in Causes, facts \in Pasts :
          Reported(o, q, x, next, cause, facts)
    BY <1>8, ReportSaves
  <2>2. q \in Rows /\ q.paused = mem[Driver].paused /\ q.cancelled = mem[Driver].cancelled
    BY <2>1 DEF Reported, SettledTo
  <2>3. x.paused = mem[Driver].paused /\ x.cancelled = mem[Driver].cancelled
    <3>1. x = Advanced(q, evidence')
      BY <2>1 DEF Reported
    <3>2. Kept(x, q)
      BY <2>2, <3>1, <1>3, AdvancedFacts
    <3>. QED
      BY <2>2, <3>2 DEF Kept
  <2>4. facts.held = past.held /\ facts.lost = past.lost /\ Save(Driver, x, next, cause, facts)
    BY <2>1 DEF Reported, RememberedAs
  <2>5. SavedHold(Driver)
    BY <2>3, <2>4, <1>4 DEF SavedHold
  <2>. QED
    BY <2>5, <1>3, SavedHoldStands
<1>9. ASSUME NEW h \in Hands, Handle(h) PROVE HoldLostOnlyByOldCopy'
  <2>1. h \in Processes /\ mem[h] \in Rows
    BY KnownTypes DEF Processes
  <2>2. SavedHold(h)
    BY <1>9, <2>1, HandHolds
  <2>. QED
    BY <2>1, <2>2, SavedHoldStands
<1>. QED
  BY <1>2, <1>5, <1>6, <1>7, <1>8, <1>9 DEF Next, Drive

(* A pause or a cancel is lost in one way only: a process saved a copy that *)
(* it had loaded before (orchestrator.ts, the snapshot that echoes the hold *)
(* it loaded; taskRegistry.ts:286).                                         *)
THEOREM HoldsKept == Spec => []HoldLostOnlyByOldCopy
<1>1. Init => HoldLostOnlyByOldCopy
  BY DEF Init, NoPast, HoldLostOnlyByOldCopy, HoldStands
<1>2. Spec => [](TypeInv /\ HoldLostOnlyByOldCopy)
  BY <1>1, InitTypes, NextTypes, NextHolds, PTL DEF Spec
<1>. QED
  BY <1>2, PTL
-----------------------------------------------------------------------------
(* A block that is a person's: it stays until the end.                      *)
Final(r) == r.state = "BLOCKED" /\ r.failure # "unavailable"

LEMMA LostStays ==
    ASSUME TypeInv, Next, ~past'.lost
    PROVE  ~past.lost
<1>0. Driver \in Processes /\ past \in Pasts /\ "other" \in Causes
  BY PipelineFacts, KnownTypes DEF Causes
<1>1. CASE Poll \/ \E p \in Processes : Load(p) \/ Leave(p)
  BY <1>1 DEF Poll, Load, Leave
<1>2. CASE Advance
  BY <1>0, <1>2, AdvanceSaves, SaveFacts
<1>3. CASE Dispatch
  BY <1>0, <1>3, DispatchSaves, SaveFacts
<1>4. CASE RecordDispatch
  BY <1>0, <1>4, RecordDispatchSaves, SaveFacts
<1>5. ASSUME NEW o, Report(o) PROVE ~past.lost
  <2>1. PICK q, x \in Rows, next \in {"idle", "loaded"}, cause \in Causes, facts \in Pasts :
          Reported(o, q, x, next, cause, facts)
    BY <1>5, ReportSaves
  <2>2. Save(Driver, x, next, cause, facts) /\ facts.lost = past.lost
    BY <2>1 DEF Reported, RememberedAs
  <2>. QED
    BY <2>2, <1>0, SaveFacts
<1>6. ASSUME NEW h \in Hands, Handle(h) PROVE ~past.lost
  <2>1. PICK r \in Rows, next \in Places, facts \in Pasts : Handed(h, r, next, facts)
    BY <1>6, HandFacts
  <2>2. h \in Processes /\ Save(h, r, next, "other", facts) /\ facts.lost = past.lost
    BY <2>1 DEF Handed, Processes
  <2>. QED
    BY <2>2, <1>0, SaveFacts
<1>. QED
  BY <1>1, <1>2, <1>3, <1>4, <1>5, <1>6 DEF Next, Drive

LEMMA WalkFinal ==
    ASSUME NEW r \in Rows, NEW ev, Coherent(r), asked \in Nat
    PROVE  /\ Final(r) => Advanced(r, ev) = r
           /\ r.state # "BLOCKED" => r.failure # "unavailable" /\ Advanced(r, ev).failure # "unavailable"
<1>1. Final(r) => ~Walks(r)
  BY SequenceFacts DEF Final, Walks
<1>2. r.state # "BLOCKED" => r.failure # "unavailable"
  BY DEF Coherent
<1>. QED
  BY <1>1, <1>2, AdvancedFacts DEF Kept

LEMMA HandFinal ==
    ASSUME TypeInv, NEW h \in Processes, NEW r \in Rows, NEW next, NEW facts, Handed(h, r, next, facts)
    PROVE  /\ Final(mem[h]) => Final(r)
           /\ mem[h].state # "BLOCKED" => r.failure # "unavailable"
<1>1. mem[h] \in Rows /\ Coherent(mem[h]) /\ asked \in Nat
  BY KnownTypes
<1>2. CASE r = Advanced(mem[h], evidence)
  BY <1>1, <1>2, WalkFinal
<1>3. CASE SameStanding(r, mem[h])
  BY <1>1, <1>3 DEF SameStanding, Final, Coherent
<1>4. CASE Lifted(r, mem[h])
  BY <1>4 DEF Lifted, Final
<1>. QED
  BY <1>2, <1>3, <1>4 DEF Handed

LEMMA FinalStays ==
    ASSUME TypeInv, [Next]_vars, Final(row), ~past'.lost
    PROVE  Final(row')
<1>0. Driver \in Processes /\ mem[Driver] \in Rows /\ Coherent(mem[Driver]) /\ asked \in Nat /\ past \in Pasts
      /\ "other" \in Causes
  BY PipelineFacts, KnownTypes DEF Causes
<1>1. CASE UNCHANGED vars \/ Poll \/ \E p \in Processes : Load(p) \/ Leave(p)
  <2>1. row' = row
    BY <1>1 DEF vars, Poll, Load, Leave
  <2>. QED
    BY <2>1
<1>2. CASE Advance
  <2>1. PICK next \in {"assigned", "idle"} : Save(Driver, Advanced(mem[Driver], evidence), next, "other", past)
    BY <1>2, AdvanceSaves
  <2>2. PICK r : r = Advanced(mem[Driver], evidence)
    OBVIOUS
  <2>3. row' = r /\ (mem[Driver] = row \/ r = row)
    BY <2>1, <2>2, <1>0, SaveFacts
  <2>. QED
    BY <2>2, <2>3, <1>0, WalkFinal
<1>3. CASE Dispatch
  <2>1. PICK r \in Rows, facts \in Pasts :
          Save(Driver, r, "running", "other", facts) /\ facts.lost = past.lost /\ r.state = mem[Driver].state
    BY <1>3, DispatchSaves
  <2>2. mem[Driver].state # "BLOCKED"
    BY <1>3, DispatchSaves, SequenceFacts DEF AtWork
  <2>3. row' = r /\ (mem[Driver] = row \/ r = row)
    BY <2>1, <1>0, SaveFacts
  <2>. QED
    BY <2>1, <2>2, <2>3 DEF Final
<1>4. CASE RecordDispatch
  <2>1. PICK r \in Rows : Save(Driver, r, "running", "other", past) /\ r.state = mem[Driver].state
    BY <1>4, RecordDispatchSaves
  <2>2. mem[Driver].state # "BLOCKED"
    BY <1>4, RecordDispatchSaves, SequenceFacts DEF AtWork
  <2>3. row' = r /\ (mem[Driver] = row \/ r = row)
    BY <2>1, <1>0, SaveFacts
  <2>. QED
    BY <2>1, <2>2, <2>3 DEF Final
<1>5. ASSUME NEW o, Report(o) PROVE Final(row')
  <2>1. PICK q, x \in Rows, next \in {"idle", "loaded"}, cause \in Causes, facts \in Pasts :
          Reported(o, q, x, next, cause, facts)
    BY <1>5, ReportSaves
  <2>2. Save(Driver, x, next, cause, facts) /\ facts.lost = past.lost
    BY <2>1 DEF Reported, RememberedAs
  <2>3. row' = x /\ (mem[Driver] = row \/ x = row)
    BY <2>2, <1>0, SaveFacts
  <2>4. mem[Driver].state # "BLOCKED"
    BY <1>5, ReportSaves, SequenceFacts DEF AtWork
  <2>. QED
    BY <2>3, <2>4 DEF Final
<1>6. ASSUME NEW h \in Hands, Handle(h) PROVE Final(row')
  <2>1. PICK r \in Rows, next \in Places, facts \in Pasts : Handed(h, r, next, facts)
    BY <1>6, HandFacts
  <2>2. h \in Processes /\ Save(h, r, next, "other", facts) /\ facts.lost = past.lost
    BY <2>1 DEF Handed, Processes
  <2>3. row' = r /\ (mem[h] = row \/ r = row)
    BY <2>2, <1>0, SaveFacts
  <2>. QED
    BY <2>1, <2>2, <2>3, HandFinal
<1>. QED
  BY <1>1, <1>2, <1>3, <1>4, <1>5, <1>6 DEF Next, Drive

(* The driver's copy lags behind the row only in what others may write, and *)
(* a stage that waits to start has nothing reserved.                        *)
Follow ==
    /\ pc[Driver] = "assigned" => mem[Driver].inflight = "none"
    /\ ~past.lost /\ pc[Driver] # "idle" => Owned(mem[Driver], row)

LEMMA DriverFollows ==
    ASSUME TypeInv, Follow, NEW r, NEW next, NEW cause \in Causes, NEW facts \in Pasts,
           Save(Driver, r, next, cause, facts), facts.lost = past.lost, next = "assigned" => r.inflight = "none"
    PROVE  Follow'
<1>1. row' = r /\ pc'[Driver] = next /\ (next # "idle" => mem'[Driver] = r)
  BY PipelineFacts, SaveFacts
<1>. QED
  BY <1>1 DEF Follow, Owned

LEMMA NextFollows == TypeInv /\ Follow /\ [Next]_vars => Follow'
<1>. SUFFICES ASSUME TypeInv, Follow, [Next]_vars PROVE Follow'
  OBVIOUS
<1>0. Driver \in Processes /\ mem[Driver] \in Rows /\ asked \in Nat /\ past \in Pasts /\ "other" \in Causes
  BY PipelineFacts, KnownTypes DEF Causes
<1>1. CASE UNCHANGED vars
  BY <1>1 DEF vars, Follow, Owned
<1>2. CASE Poll \/ \E p \in Processes : Load(p) \/ Leave(p)
  <2>1. row' = row /\ past' = past
    BY <1>2 DEF Poll, Load, Leave
  <2>2. \/ mem'[Driver] = mem[Driver] /\ pc'[Driver] = pc[Driver]
        \/ mem'[Driver] = mem[Driver] /\ pc[Driver] = "loaded" /\ pc'[Driver] = "polled"
        \/ mem'[Driver] = row /\ pc'[Driver] = "loaded"
        \/ pc'[Driver] = "idle"
    BY <1>2, <1>0 DEF Poll, Load, Leave, TypeInv, TypeOK
  <2>. QED
    BY <2>1, <2>2 DEF Follow, Owned
<1>3. CASE Advance
  <2>1. PICK next \in {"assigned", "idle"} :
          /\ Save(Driver, Advanced(mem[Driver], evidence), next, "other", past)
          /\ next = "assigned" => Running(Advanced(mem[Driver], evidence))
    BY <1>3, AdvanceSaves
  <2>2. next = "assigned" => Advanced(mem[Driver], evidence).inflight = "none"
    BY <2>1 DEF Running, Walks
  <2>. QED
    BY <2>1, <2>2, <1>0, DriverFollows
<1>4. CASE Dispatch
  <2>1. PICK r \in Rows, facts \in Pasts :
          Save(Driver, r, "running", "other", facts) /\ facts.lost = past.lost
    BY <1>4, DispatchSaves
  <2>. QED
    BY <2>1, <1>0, DriverFollows
<1>5. CASE RecordDispatch
  <2>1. PICK r \in Rows : Save(Driver, r, "running", "other", past)
    BY <1>5, RecordDispatchSaves
  <2>. QED
    BY <2>1, <1>0, DriverFollows
<1>6. ASSUME NEW o, Report(o) PROVE Follow'
  <2>1. PICK q, x \in Rows, next \in {"idle", "loaded"}, cause \in Causes, facts \in Pasts :
          Reported(o, q, x, next, cause, facts)
    BY <1>6, ReportSaves
  <2>2. Save(Driver, x, next, cause, facts) /\ facts.lost = past.lost
    BY <2>1 DEF Reported, RememberedAs
  <2>3. next # "assigned"
    OBVIOUS
  <2>. QED
    BY <2>2, <2>3, DriverFollows
<1>7. ASSUME NEW h \in Hands, Handle(h) PROVE Follow'
  <2>1. PICK r \in Rows, next \in Places, facts \in Pasts : Handed(h, r, next, facts)
    BY <1>7, HandFacts
  <2>2. h \in Processes /\ h # Driver /\ Save(h, r, next, "other", facts) /\ facts.lost = past.lost /\ Owned(r, mem[h])
    BY <2>1, <1>7, HandFacts DEF Handed
  <2>3. row' = r /\ (~past'.lost => ~past.lost /\ (mem[h] = row \/ r = row))
    BY <2>2, <1>0, SaveFacts
  <2>4. mem'[Driver] = mem[Driver] /\ pc'[Driver] = pc[Driver]
    BY <2>2, <1>0, SaveFacts
  <2>5. ~past'.lost => Owned(r, row)
    BY <2>2, <2>3 DEF Owned
  <2>. QED
    BY <2>3, <2>4, <2>5 DEF Follow, Owned
<1>. QED
  BY <1>1, <1>2, <1>3, <1>4, <1>5, <1>6, <1>7 DEF Next, Drive
-----------------------------------------------------------------------------
(* A block that did not come of having no runtime says so.                  *)
BlockKnown == ~past.lost /\ past.block = "other" => Final(row)

LEMMA NextBlockKnown == TypeInv /\ BlockKnown /\ [Next]_vars => BlockKnown'
<1>. SUFFICES ASSUME TypeInv, BlockKnown, [Next]_vars, ~past'.lost, past'.block = "other"
              PROVE  Final(row')
  BY DEF BlockKnown, Final
<1>0. Driver \in Processes /\ mem[Driver] \in Rows /\ Coherent(mem[Driver]) /\ asked \in Nat /\ past \in Pasts
      /\ "other" \in Causes
  BY PipelineFacts, KnownTypes DEF Causes
<1>1. ASSUME past.block = "other", ~past.lost PROVE Final(row')
  BY <1>1, FinalStays DEF BlockKnown
<1>2. CASE UNCHANGED vars \/ Poll \/ \E p \in Processes : Load(p) \/ Leave(p)
  <2>1. past' = past
    BY <1>2 DEF vars, Poll, Load, Leave
  <2>. QED
    BY <2>1, <1>1
<1>3. ASSUME NEW p \in Processes, NEW r, NEW next, NEW cause \in Causes, NEW facts \in Pasts,
             Save(p, r, next, cause, facts), facts.lost = past.lost, facts.block = past.block,
             mem[p].state # "BLOCKED" /\ cause = "other" => r.failure # "unavailable"
      PROVE  Final(row')
  <2>1. /\ row' = r
        /\ ~past.lost
        /\ r.state # "BLOCKED" => past'.block = "none"
        /\ r.state = "BLOCKED" /\ mem[p].state = "BLOCKED" => past'.block = facts.block
        /\ r.state = "BLOCKED" /\ mem[p].state # "BLOCKED" => past'.block = cause
    BY <1>3, SaveFacts
  <2>. QED
    BY <2>1, <1>1, <1>3 DEF Final
<1>4. CASE Advance
  <2>1. PICK next \in {"assigned", "idle"} : Save(Driver, Advanced(mem[Driver], evidence), next, "other", past)
    BY <1>4, AdvanceSaves
  <2>2. mem[Driver].state # "BLOCKED" => Advanced(mem[Driver], evidence).failure # "unavailable"
    BY <1>0, WalkFinal
  <2>. QED
    BY <2>1, <2>2, <1>0, <1>3
<1>5. CASE Dispatch
  <2>1. PICK r \in Rows, facts \in Pasts :
          /\ Save(Driver, r, "running", "other", facts) /\ facts.lost = past.lost /\ facts.block = past.block
          /\ r.failure = mem[Driver].failure
    BY <1>5, DispatchSaves
  <2>2. mem[Driver].state # "BLOCKED" => r.failure # "unavailable"
    BY <2>1, <1>0 DEF Coherent
  <2>. QED
    BY <2>1, <2>2, <1>0, <1>3
<1>6. CASE RecordDispatch
  <2>1. PICK r \in Rows : Save(Driver, r, "running", "other", past) /\ r.failure = mem[Driver].failure
    BY <1>6, RecordDispatchSaves
  <2>2. mem[Driver].state # "BLOCKED" => r.failure # "unavailable"
    BY <2>1, <1>0 DEF Coherent
  <2>. QED
    BY <2>1, <2>2, <1>0, <1>3
<1>7. ASSUME NEW o, Report(o) PROVE Final(row')
  <2>1. PICK q, x \in Rows, next \in {"idle", "loaded"}, cause \in Causes, facts \in Pasts :
          Reported(o, q, x, next, cause, facts)
    BY <1>7, ReportSaves
  <2>2. Save(Driver, x, next, cause, facts) /\ facts.lost = past.lost /\ facts.block = past.block
    BY <2>1 DEF Reported, RememberedAs
  <2>3. cause = "other" => x.failure # "unavailable"
    <3>1. cause = IF o = "unavailable" THEN o ELSE "other"
      BY <2>1 DEF Reported
    <3>2. q \in Rows /\ (o # "unavailable" => q.failure # "unavailable") /\ x = Advanced(q, evidence')
      BY <2>1 DEF Reported, SettledTo
    <3>3. x.failure = q.failure
      BY <3>2, <1>0, AdvancedFacts DEF Kept
    <3>. QED
      BY <3>1, <3>2, <3>3
  <2>. QED
    BY <2>2, <2>3, <1>0, <1>3
<1>8. ASSUME NEW h \in Hands, Handle(h) PROVE Final(row')
  <2>1. PICK r \in Rows, next \in Places, facts \in Pasts : Handed(h, r, next, facts)
    BY <1>8, HandFacts
  <2>2. h \in Processes /\ Save(h, r, next, "other", facts) /\ facts.lost = past.lost /\ facts.block = past.block
    BY <2>1 DEF Handed, Processes
  <2>3. mem[h].state # "BLOCKED" => r.failure # "unavailable"
    BY <2>1, <2>2, HandFinal
  <2>. QED
    BY <2>2, <2>3, <1>0, <1>3
<1>. QED
  BY <1>2, <1>4, <1>5, <1>6, <1>7, <1>8 DEF Next, Drive

(* Only a block that came of having no runtime is ever lifted: a rejection, *)
(* a spent budget, a finding or a refusal is a person's to answer           *)
(* (taskRegistry.ts:236), as long as no old copy overwrites the row.        *)
THEOREM BlocksStand == Spec => OnlyOutagesReleased
<1>1. Init => BlockKnown
  BY DEF Init, NoPast, BlockKnown
<1>2. TypeInv /\ BlockKnown /\ [Next]_vars => [past.block = "other" /\ ~past'.lost => row'.state = "BLOCKED"]_vars
  <2>. SUFFICES ASSUME TypeInv, BlockKnown, [Next]_vars, past.block = "other", ~past'.lost
                PROVE  row'.state = "BLOCKED" \/ UNCHANGED vars
    OBVIOUS
  <2>1. CASE UNCHANGED vars
    BY <2>1
  <2>2. CASE Next
    <3>1. ~past.lost
      BY <2>2, LostStays
    <3>. QED
      BY <3>1, FinalStays DEF BlockKnown, Final
  <2>. QED
    BY <2>1, <2>2
<1>3. Spec => [](TypeInv /\ BlockKnown)
  BY <1>1, InitTypes, NextTypes, NextBlockKnown, PTL DEF Spec
<1>. QED
  BY <1>2, <1>3, PTL DEF Spec, OnlyOutagesReleased
-----------------------------------------------------------------------------
(* Rounds.                                                                  *)
Counted ==
    ~past.lost =>
       \A k \in Verifiers : /\ past.rounds[k] = row.retries[k]
                            /\ past.rounds[k] > MaxRetry => Final(row)

(* A step that spends no round.                                             *)
LEMMA RoundsKept ==
    ASSUME TypeInv, Counted, [Next]_vars, ~past'.lost, NEW p \in Processes, NEW r, NEW next,
           NEW cause \in Causes, NEW facts \in Pasts, Save(p, r, next, cause, facts),
           facts.lost = past.lost, facts.rounds = past.rounds, r.retries = mem[p].retries
    PROVE  Counted'
<1>1. row' = r /\ ~past.lost /\ (mem[p] = row \/ r = row) /\ past'.rounds = past.rounds
  BY SaveFacts
<1>2. row'.retries = row.retries
  BY <1>1
<1>3. Final(row) => Final(row')
  BY FinalStays
<1>. QED
  BY <1>1, <1>2, <1>3 DEF Counted, Final

LEMMA NextCounts == TypeInv /\ Follow /\ Counted /\ [Next]_vars => Counted'
<1>. SUFFICES ASSUME TypeInv, Follow, Counted, [Next]_vars, ~past'.lost PROVE Counted'
  BY DEF Counted
<1>0. Driver \in Processes /\ mem[Driver] \in Rows /\ Coherent(mem[Driver]) /\ asked \in Nat /\ past \in Pasts
      /\ "other" \in Causes
  BY PipelineFacts, KnownTypes DEF Causes
<1>1. CASE UNCHANGED vars \/ Poll \/ \E p \in Processes : Load(p) \/ Leave(p)
  <2>1. past' = past /\ row' = row
    BY <1>1 DEF vars, Poll, Load, Leave
  <2>. QED
    BY <2>1 DEF Counted, Final
<1>2. CASE Advance
  <2>1. PICK next \in {"assigned", "idle"} : Save(Driver, Advanced(mem[Driver], evidence), next, "other", past)
    BY <1>2, AdvanceSaves
  <2>2. Advanced(mem[Driver], evidence).retries = mem[Driver].retries
    BY <1>0, AdvancedFacts DEF Kept
  <2>. QED
    BY <2>1, <2>2, <1>0, RoundsKept
<1>3. CASE Dispatch
  <2>1. PICK r \in Rows, facts \in Pasts :
          /\ Save(Driver, r, "running", "other", facts) /\ facts.lost = past.lost /\ facts.rounds = past.rounds
          /\ r.retries = mem[Driver].retries
    BY <1>3, DispatchSaves
  <2>. QED
    BY <2>1, <1>0, RoundsKept
<1>4. CASE RecordDispatch
  <2>1. PICK r \in Rows : Save(Driver, r, "running", "other", past) /\ r.retries = mem[Driver].retries
    BY <1>4, RecordDispatchSaves
  <2>. QED
    BY <2>1, <1>0, RoundsKept
<1>5. ASSUME NEW h \in Hands, Handle(h) PROVE Counted'
  <2>1. PICK r \in Rows, next \in Places, facts \in Pasts : Handed(h, r, next, facts)
    BY <1>5, HandFacts
  <2>2. /\ h \in Processes /\ Save(h, r, next, "other", facts) /\ facts.lost = past.lost
        /\ facts.rounds = past.rounds /\ r.retries = mem[h].retries
    BY <2>1 DEF Handed, Processes, Owned
  <2>. QED
    BY <2>2, <1>0, RoundsKept
<1>6. ASSUME NEW o, Report(o) PROVE Counted'
  <2>. DEFINE m == mem[Driver]
              g == Stage(m)
  <2>1. PICK q, x \in Rows, next \in {"idle", "loaded"}, cause \in Causes, facts \in Pasts :
          Reported(o, q, x, next, cause, facts)
    BY <1>6, ReportSaves
  <2>2. /\ Save(Driver, x, next, cause, facts) /\ facts.lost = past.lost
        /\ SettledTo(q, m, evidence, o) /\ x = Advanced(q, evidence') /\ RememberedAs(facts, m, o)
    BY <2>1 DEF Reported, RememberedAs
  <2>3. row' = x /\ ~past.lost /\ (m = row \/ x = row) /\ past'.rounds = facts.rounds
    BY <2>2, <1>0, SaveFacts
  <2>4. m \in Rows /\ AtWork(m) /\ o \in Outcomes(g) /\ pc[Driver] = "running" /\ m.state # "BLOCKED"
    BY <1>6, ReportSaves, SequenceFacts DEF Report, AtWork
  <2>5. m.retries = row.retries
    BY <2>3, <2>4 DEF Follow, Owned
  <2>6. x.retries = q.retries /\ x.failure = q.failure /\ q \in Rows
    BY <2>2, <1>0, AdvancedFacts DEF Kept, SettledTo
  <2>7. q.state = "BLOCKED" => x.state = "BLOCKED"
    <3>1. q.state = "BLOCKED" => ~Walks(q)
      BY SequenceFacts DEF Walks
    <3>. QED
      BY <3>1, <2>2, <2>6, <1>0, AdvancedFacts
  <2>8. CASE ~Fails(g, o) \/ o = "outage"
    <3>1. \A k \in Verifiers : q.retries[k] = m.retries[k]
      BY <2>2, <2>4, <2>8 DEF SettledTo, Used, Rows
    <3>2. \A k \in Verifiers : facts.rounds[k] = past.rounds[k]
      <4>1. g \in Verifiers => o \in {"complete", "incomplete", "spent", "unavailable", "outage"}
        BY <2>4, <2>8, RanStages DEF Fails, Outcomes, Verifiers, Implementers
      <4>. QED
        BY <4>1, <2>2 DEF RememberedAs
    <3>3. Final(row) => Final(row')
      BY FinalStays
    <3>. QED
      BY <3>1, <3>2, <3>3, <2>3, <2>5, <2>6 DEF Counted, Final
  <2>9. CASE Fails(g, o) /\ o # "outage"
    <3>1. g \in Verifiers /\ o \notin {"complete", "incomplete", "spent", "unavailable", "outage"} /\ o # "unavailable"
      BY <2>9 DEF Fails, Stages, StateOf
    <3>2. /\ q.retries[g] = m.retries[g] + 1
          /\ \A k \in Verifiers : k # g => q.retries[k] = m.retries[k]
          /\ q.state = "BLOCKED" \/ m.retries[g] + 1 <= MaxRetry
          /\ q.failure # "unavailable"
      BY <2>2, <2>9, <3>1 DEF SettledTo, Used
    <3>3. m.retries[g] \in Nat
      BY <2>4, <3>1 DEF Rows
    <3>4. m = row
      BY <2>3, <2>5, <2>6, <3>2, <3>3
    <3>5. \A k \in Verifiers : past.rounds[k] = m.retries[k] /\ ~(past.rounds[k] > MaxRetry)
      BY <3>4, <2>3, <2>4 DEF Counted, Final
    <3>6. past.rounds[g] <= MaxRetry
      BY <3>1, <3>3, <3>5, PipelineFacts
    <3>7. facts.rounds[g] = past.rounds[g] + 1 /\ \A k \in Verifiers : k # g => facts.rounds[k] = past.rounds[k]
      BY <3>1, <3>6, <2>2 DEF RememberedAs
    <3>8. \A k \in Verifiers : facts.rounds[k] = x.retries[k]
      BY <3>2, <3>5, <3>7, <2>6
    <3>9. facts.rounds[g] > MaxRetry => Final(x)
      <4>1. facts.rounds[g] = m.retries[g] + 1
        BY <3>1, <3>5, <3>7
      <4>2. facts.rounds[g] > MaxRetry => q.state = "BLOCKED"
        BY <4>1, <3>2, <3>3, PipelineFacts
      <4>. QED
        BY <4>2, <2>6, <2>7, <3>2 DEF Final
    <3>10. \A k \in Verifiers : facts.rounds[k] > MaxRetry => Final(x)
      BY <3>5, <3>7, <3>9
    <3>. QED
      BY <3>8, <3>10, <2>3 DEF Counted, Final
  <2>. QED
    BY <2>8, <2>9
<1>. QED
  BY <1>1, <1>2, <1>3, <1>4, <1>5, <1>6 DEF Next, Drive

(* Over all drives of a task a kind of verdict fails at most MAX_RETRY + 1  *)
(* times, and the last of these blocks the task (orchestrator.ts            *)
(* recordFailure, retryPolicy.ts), for every budget and every pipeline.     *)
THEOREM RoundsBounded == Spec => []RoundsAreBounded
<1>1. Init => Follow /\ Counted
  <2>. SUFFICES ASSUME Init PROVE Follow /\ Counted
    OBVIOUS
  <2>1. Follow
    BY PipelineFacts DEF Init, Follow
  <2>2. row.retries = [k \in Verifiers |-> 0] /\ past.rounds = [k \in Verifiers |-> 0]
    BY DEF Init, NoPast, Fresh
  <2>3. \A k \in Verifiers : past.rounds[k] = 0 /\ row.retries[k] = 0
    BY <2>2
  <2>4. ~(0 > MaxRetry)
    BY PipelineFacts
  <2>. QED
    BY <2>1, <2>3, <2>4 DEF Counted
<1>2. Spec => [](TypeInv /\ Follow /\ Counted)
  BY <1>1, InitTypes, NextTypes, NextFollows, NextCounts, PTL DEF Spec
<1>3. Counted => RoundsAreBounded
  BY DEF Counted, RoundsAreBounded, Final
<1>. QED
  BY <1>2, <1>3, PTL
-----------------------------------------------------------------------------
(* Deployments.  One that was started and not refused for want of a runtime *)
(* is reserved, behind the task, or what blocked it.                        *)
Spent(r) ==
    \/ r.inflight = "devops" /\ Stage(r) = "devops" /\ r.state = "APPROVED"
    \/ r.cursor > Len(Pipeline)
    \/ Final(r)

DeployKept == ~past.lost => past.deploys = 0 \/ (past.deploys = 1 /\ Spent(row))

(* The deployment is the last stage of a pipeline that has it.              *)
LEMMA DevopsLast ==
    ASSUME NEW i \in 1..Len(Pipeline), Pipeline[i] = "devops"
    PROVE  i = Len(Pipeline)
<1>. SUFFICES ASSUME i # Len(Pipeline) PROVE FALSE
  OBVIOUS
<1>. DEFINE j == i + 1
<1>1. j \in 1..Len(Pipeline) /\ i < j
  <2>. DEFINE n == Len(Pipeline)
  <2>1. n \in Nat
    BY PipelineFacts
  <2>2. i \in 1..n /\ i # n
    OBVIOUS
  <2>. HIDE DEF n
  <2>3. i + 1 \in 1..n /\ i < i + 1
    BY ONLY <2>1, <2>2
  <2>. QED
    BY <2>3 DEF n
<1>. HIDE DEF j
<1>2. Pipeline[j] # "devops" /\ Pipeline[j] \in Stages /\ Rank[StateOf["devops"]] <= Rank[StateOf[Pipeline[j]]]
  BY <1>1, PipelineFacts
<1>3. Rank[StateOf["devops"]] = 7
  BY DEF Rank, StateOf
<1>4. \A g \in Stages : g # "devops" => Rank[StateOf[g]] <= 6
  BY DEF Stages, Rank, StateOf
<1>. QED
  BY <1>2, <1>3, <1>4, StageFacts, SequenceFacts DEF Rank, StateOf

LEMMA WalkSpent ==
    ASSUME NEW r \in Rows, NEW ev, Coherent(r), asked \in Nat, Spent(r)
    PROVE  Spent(Advanced(r, ev))
<1>1. CASE r.inflight = "devops" /\ Stage(r) = "devops" /\ r.state = "APPROVED"
  <2>1. Advanced(r, ev) = r
    BY <1>1, AdvancedFacts DEF Walks
  <2>. QED
    BY <2>1
<1>2. CASE r.cursor > Len(Pipeline)
  BY <1>2, AdvancedFacts DEF Kept, Spent
<1>3. CASE Final(r)
  <2>1. Advanced(r, ev) = r
    BY <1>3, WalkFinal
  <2>. QED
    BY <2>1
<1>. QED
  BY <1>1, <1>2, <1>3 DEF Spent

LEMMA HandSpent ==
    ASSUME TypeInv, NEW h \in Processes, NEW r \in Rows, NEW next, NEW facts, Handed(h, r, next, facts), Spent(mem[h])
    PROVE  Spent(r)
<1>1. mem[h] \in Rows /\ Coherent(mem[h]) /\ asked \in Nat
  BY KnownTypes
<1>2. CASE r = Advanced(mem[h], evidence)
  BY <1>1, <1>2, WalkSpent
<1>3. CASE SameStanding(r, mem[h])
  BY <1>3 DEF SameStanding, Handed, Owned, Spent, Final, Stage
<1>4. CASE Lifted(r, mem[h])
  BY <1>4 DEF Lifted, Handed, Owned, Spent, Final
<1>. QED
  BY <1>2, <1>3, <1>4 DEF Handed

LEMMA NextDeploys == TypeInv /\ Follow /\ DeployKept /\ [Next]_vars => DeployKept'
<1>. SUFFICES ASSUME TypeInv, Follow, DeployKept, [Next]_vars, ~past'.lost PROVE DeployKept'
  BY DEF DeployKept
<1>0. Driver \in Processes /\ mem[Driver] \in Rows /\ Coherent(mem[Driver]) /\ asked \in Nat /\ past \in Pasts
      /\ "other" \in Causes /\ Len(Pipeline) \in Nat
  BY PipelineFacts, KnownTypes DEF Causes
<1>1. CASE UNCHANGED vars \/ Poll \/ \E p \in Processes : Load(p) \/ Leave(p)
  <2>1. past' = past /\ row' = row
    BY <1>1 DEF vars, Poll, Load, Leave
  <2>. QED
    BY <2>1 DEF DeployKept, Spent, Final, Stage
<1>7. ASSUME NEW p \in Processes, NEW r, NEW next, NEW cause \in Causes, NEW facts \in Pasts,
             Save(p, r, next, cause, facts), facts.lost = past.lost, facts.deploys = past.deploys,
             Spent(mem[p]) => Spent(r)
      PROVE  DeployKept'
  <2>1. row' = r /\ ~past.lost /\ (mem[p] = row \/ r = row) /\ past'.deploys = past.deploys
    BY <1>7, SaveFacts
  <2>2. Spent(row) => Spent(row')
    BY <2>1, <1>7
  <2>. QED
    BY <2>1, <2>2 DEF DeployKept, Spent, Final, Stage
<1>2. CASE Advance
  <2>1. PICK next \in {"assigned", "idle"} : Save(Driver, Advanced(mem[Driver], evidence), next, "other", past)
    BY <1>2, AdvanceSaves
  <2>. QED
    BY <2>1, <1>0, <1>7, WalkSpent
<1>3. CASE Dispatch
  <2>. DEFINE m == mem[Driver]
  <2>1. PICK r \in Rows, facts \in Pasts :
          /\ Save(Driver, r, "running", "other", facts) /\ facts.lost = past.lost
          /\ ~Executing(m) => r = m /\ facts.deploys = past.deploys
          /\ Executing(m) => r.inflight = "devops"
          /\ Executing(m) => facts.deploys = IF past.deploys = 2 THEN 2 ELSE past.deploys + 1
          /\ r.state = m.state /\ r.cursor = m.cursor
    BY <1>3, DispatchSaves
  <2>2. AtWork(m) /\ pc[Driver] = "assigned" /\ m.cursor <= Len(Pipeline) /\ m.state # "BLOCKED"
    BY <1>0, <1>3, DispatchSaves, AtWorkFacts, SequenceFacts DEF Dispatch, AtWork
  <2>3. row' = r /\ ~past.lost /\ (m = row \/ r = row) /\ past'.deploys = facts.deploys
    BY <2>1, <1>0, SaveFacts
  <2>4. CASE ~Executing(m)
    BY <2>1, <2>4, <1>0, <1>7
  <2>5. CASE Executing(m)
    <3>1. m.inflight = "none" /\ row.inflight = "none" /\ row.cursor = m.cursor
      BY <2>2, <2>3 DEF Follow, Owned
    <3>2. m = row
      BY <3>1, <2>1, <2>3, <2>5
    <3>3. ~Spent(row)
      BY <3>1, <3>2, <2>2, <1>0 DEF Spent, Final, Rows
    <3>4. past.deploys = 0
      BY <3>3, <2>3 DEF DeployKept
    <3>5. past'.deploys = 1
      BY <3>4, <2>1, <2>3, <2>5
    <3>6. r.inflight = "devops" /\ Stage(r) = "devops" /\ r.state = "APPROVED"
      BY <2>1, <2>5 DEF Executing, Stage
    <3>. QED
      BY <3>5, <3>6, <2>3 DEF DeployKept, Spent, Stage
  <2>. QED
    BY <2>4, <2>5
<1>4. CASE RecordDispatch
  <2>. DEFINE m == mem[Driver]
  <2>1. PICK r \in Rows :
          /\ Save(Driver, r, "running", "other", past)
          /\ r.inflight # "none" /\ r.state = m.state /\ r.cursor = m.cursor
    BY <1>4, RecordDispatchSaves
  <2>2. AtWork(m) /\ pc[Driver] = "running" /\ m.cursor <= Len(Pipeline) /\ m.state # "BLOCKED" /\ m.inflight = "none"
    BY <1>0, <1>4, RecordDispatchSaves, AtWorkFacts, SequenceFacts DEF RecordDispatch, AtWork
  <2>3. row' = r /\ ~past.lost /\ (m = row \/ r = row) /\ past'.deploys = past.deploys
    BY <2>1, <1>0, SaveFacts
  <2>4. row.inflight = "none" /\ row.cursor = m.cursor
    BY <2>2, <2>3 DEF Follow, Owned
  <2>5. m = row
    BY <2>1, <2>3, <2>4
  <2>6. ~Spent(row)
    BY <2>2, <2>5, <1>0 DEF Spent, Final, Rows
  <2>. QED
    BY <2>3, <2>6 DEF DeployKept
<1>5. ASSUME NEW h \in Hands, Handle(h) PROVE DeployKept'
  <2>1. PICK r \in Rows, next \in Places, facts \in Pasts : Handed(h, r, next, facts)
    BY <1>5, HandFacts
  <2>2. /\ h \in Processes /\ Save(h, r, next, "other", facts) /\ facts.lost = past.lost
        /\ facts.deploys = past.deploys
    BY <2>1 DEF Handed, Processes
  <2>3. Spent(mem[h]) => Spent(r)
    BY <2>1, <2>2, HandSpent
  <2>. QED
    BY <2>2, <2>3, <1>0, <1>7
<1>6. ASSUME NEW o, Report(o) PROVE DeployKept'
  <2>. DEFINE m == mem[Driver]
              g == Stage(m)
  <2>1. PICK q, x \in Rows, next \in {"idle", "loaded"}, cause \in Causes, facts \in Pasts :
          Reported(o, q, x, next, cause, facts)
    BY <1>6, ReportSaves
  <2>2. /\ Save(Driver, x, next, cause, facts) /\ facts.lost = past.lost
        /\ SettledTo(q, m, evidence, o) /\ x = Advanced(q, evidence') /\ RememberedAs(facts, m, o)
    BY <2>1 DEF Reported, RememberedAs
  <2>3. row' = x /\ ~past.lost /\ (m = row \/ x = row) /\ past'.deploys = facts.deploys
    BY <2>2, <1>0, SaveFacts
  <2>4. /\ m \in Rows /\ AtWork(m) /\ pc[Driver] = "running" /\ m.state # "BLOCKED"
        /\ m.cursor \in 1..Len(Pipeline) /\ g = Pipeline[m.cursor]
    BY <1>6, ReportSaves, AtWorkFacts, SequenceFacts DEF Report, AtWork
  <2>5. row.cursor = m.cursor /\ row.inflight = m.inflight
    BY <2>3, <2>4 DEF Follow, Owned
  <2>6. x.inflight = "none" /\ x.failure = q.failure /\ x.cursor = q.cursor /\ q \in Rows
    BY <2>2, <1>0, AdvancedFacts DEF Kept, SettledTo
  <2>7. CASE past.deploys = 0 \/ facts.deploys = 0
    BY <2>2, <2>3, <2>7 DEF DeployKept, RememberedAs
  <2>8. CASE past.deploys # 0 /\ facts.deploys # 0
    <3>1. past.deploys = 1 /\ facts.deploys = 1 /\ Spent(row)
      BY <2>2, <2>3, <2>8 DEF DeployKept, RememberedAs
    <3>2. CASE Final(row)
      <4>1. Final(row')
        BY <3>2, FinalStays
      <4>. QED
        BY <3>1, <4>1, <2>3 DEF DeployKept, Spent, Final
    <3>3. CASE ~Final(row)
      <4>1. row.inflight = "devops" /\ Stage(row) = "devops" /\ row.state = "APPROVED"
        BY <3>1, <3>3, <2>4, <2>5 DEF Spent
      <4>2. m = row
        BY <4>1, <2>3, <2>6
      <4>3. Executing(m) /\ g = "devops" /\ o # "unavailable"
        BY <4>1, <4>2, <2>2, <2>8 DEF Executing, RememberedAs
      <4>4. m.cursor = Len(Pipeline)
        BY <4>3, <2>4, DevopsLast
      <4>5. q.state = "BLOCKED" \/ q.cursor = m.cursor + 1
        BY <4>3, <2>2 DEF SettledTo, Onward
      <4>6. Spent(x)
        <5>1. CASE q.state = "BLOCKED"
          <6>1. ~Walks(q)
            BY <5>1, SequenceFacts DEF Walks
          <6>2. x = q
            BY <6>1, <2>2, <2>6, <1>0, AdvancedFacts
          <6>3. q.failure # "unavailable"
            BY <4>3, <2>2 DEF SettledTo
          <6>. QED
            BY <5>1, <6>2, <6>3 DEF Spent, Final
        <5>2. CASE q.cursor = m.cursor + 1
          BY <5>2, <4>4, <2>6, <1>0 DEF Spent
        <5>. QED
          BY <5>1, <5>2, <4>5
      <4>. QED
        BY <4>6, <3>1, <2>3 DEF DeployKept, Spent, Final, Stage
    <3>. QED
      BY <3>2, <3>3
  <2>. QED
    BY <2>7, <2>8
<1>. QED
  BY <1>1, <1>2, <1>3, <1>4, <1>5, <1>6 DEF Next, Drive

(* A deployment to production starts at most once unless no runtime served  *)
(* the attempt before (orchestrator.ts step, which reserves it before the   *)
(* executor starts), or an old copy erased the reservation.                 *)
THEOREM DeployOnce == Spec => []DeployedAtMostOnce
<1>1. Init => Follow /\ DeployKept
  BY PipelineFacts DEF Init, NoPast, Follow, DeployKept
<1>2. Spec => [](TypeInv /\ Follow /\ DeployKept)
  BY <1>1, InitTypes, NextTypes, NextFollows, NextDeploys, PTL DEF Spec
<1>3. DeployKept => DeployedAtMostOnce
  BY DEF DeployKept, DeployedAtMostOnce
<1>. QED
  BY <1>2, <1>3, PTL
-----------------------------------------------------------------------------
(* Where a copy stands, or stood before it was blocked: never past the      *)
(* stage that is due, past READY_TO_DEPLOY only with a person's word where  *)
(* one is asked.                                                            *)
At(r) == IF r.state = "BLOCKED" THEN r.from ELSE r.state

Sound(r) ==
    /\ At(r) \in Sequence /\ Stage(r) \notin {"none", "devops"} => Rank[At(r)] <= Rank[StateOf[Stage(r)]]
    /\ At(r) \in {"APPROVED", "DEPLOYED"} /\ RequiresHumanApproval => Said(r, "deploy", "approved")
    /\ r.state = "BLOCKED" => r.from # "DEPLOYED"
    /\ r.state = "DEPLOYED" => r.done

LEMMA RankFacts ==
    /\ Rank["CREATED"] = 0 /\ Rank["IMPLEMENTATION"] = 3 /\ Rank["READY_TO_DEPLOY"] = 7
    /\ Rank["APPROVED"] = 8 /\ Rank["DEPLOYED"] = 9
    /\ \A s \in Sequence : Rank[s] \in Nat
    /\ \A s \in Sequence : s \notin {"APPROVED", "DEPLOYED"} => Rank[s] <= 7
    /\ \A g \in Stages : Rank[StateOf[g]] \in Nat
    /\ \A g \in Stages : g # "devops" => Rank[StateOf[g]] <= 6
    /\ \A g \in Verifiers : Rank[StateOf[g]] >= 4
    /\ \A g \in Stages : StateOf[g] \in {"DESIGN", "PLAN", "IMPLEMENTATION"} => Rank[StateOf[g]] <= 3
    /\ \A g \in Implementers : Rank[StateOf[g]] = 3
    /\ "CREATED" \in Sequence /\ "READY_TO_DEPLOY" \in Sequence
    /\ RequiresHumanApproval <=> "APPROVED" \in Sequence
<1>1. /\ Rank["CREATED"] = 0 /\ Rank["IMPLEMENTATION"] = 3 /\ Rank["READY_TO_DEPLOY"] = 7
      /\ Rank["APPROVED"] = 8 /\ Rank["DEPLOYED"] = 9
  BY DEF Rank
<1>2. \A s \in DOMAIN Rank : s \notin {"APPROVED", "DEPLOYED"} => Rank[s] <= 7
  BY DEF Rank
<1>3. /\ \A g \in Stages : Rank[StateOf[g]] \in Nat
      /\ \A g \in Stages : g # "devops" => Rank[StateOf[g]] <= 6
      /\ \A g \in Stages : StateOf[g] \in {"DESIGN", "PLAN", "IMPLEMENTATION"} => Rank[StateOf[g]] <= 3
  BY DEF Stages, Rank, StateOf
<1>4. /\ \A g \in Verifiers : Rank[StateOf[g]] >= 4
      /\ \A g \in Implementers : Rank[StateOf[g]] = 3
  BY DEF Verifiers, Implementers, Rank, StateOf
<1>5. "CREATED" \in Sequence /\ "READY_TO_DEPLOY" \in Sequence
  BY DEF Sequence
<1>6. RequiresHumanApproval <=> "APPROVED" \in Sequence
  BY StageFacts, PipelineFacts DEF Sequence
<1>. QED
  BY <1>1, <1>2, <1>3, <1>4, <1>5, <1>6, SequenceFacts

LEMMA FreshSound == Sound(Fresh)
<1>1. Fresh.state = "CREATED"
  BY DEF Fresh
<1>2. Stage(Fresh) \notin {"none", "devops"} => Stage(Fresh) \in Stages
  BY PipelineFacts DEF Stage
<1>. QED
  BY <1>1, <1>2, RankFacts DEF Sound, At

LEMMA WalkSound ==
    ASSUME NEW r \in Rows, NEW ev, Sound(r), asked \in Nat
    PROVE  Sound(Advanced(r, ev))
<1>1. CASE ~Walks(r)
  BY <1>1, AdvancedFacts
<1>2. CASE Walks(r)
  <2>1. PICK a : a = Advanced(r, ev)
    OBVIOUS
  <2>2. PICK s : s = Reached(r, ev)
    OBVIOUS
  <2>3. r.state \in Sequence /\ r.state # "DEPLOYED" /\ r.state # "BLOCKED"
    BY <1>2, SequenceFacts DEF Walks
  <2>4. /\ s \in Sequence
        /\ \A t \in Sequence : Rank[r.state] <= Rank[t] /\ Rank[t] < Rank[s] => ~StopsAt(r, ev, t)
    BY <2>2, <2>3, ReachedFacts
  <2>5. /\ \A k \in Questions : r.asks[k].status # "none" => a.asks[k] = r.asks[k]
        /\ s = "DEPLOYED" => a.state = "DEPLOYED" /\ a.done
        /\ s # "DEPLOYED" => a.state \in {s, "BLOCKED"}
        /\ a.state = "BLOCKED" => a.from = s
    BY <1>2, <2>1, <2>2, WalkFacts
  <2>6. At(a) = s /\ At(r) = r.state
    BY <2>3, <2>4, <2>5, SequenceFacts DEF At
  <2>7. Stage(a) = Stage(r)
    BY <2>1, AdvancedFacts DEF Kept, Stage
  <2>8. ASSUME Stage(a) \notin {"none", "devops"} PROVE Rank[s] <= Rank[StateOf[Stage(a)]]
    <3>. DEFINE t == StateOf[Stage(r)]
    <3>1. Stage(r) \in Ran
      BY <2>7, <2>8, PipelineFacts DEF Stage
    <3>2. t \in Sequence /\ Rank[r.state] <= Rank[t]
      BY <3>1, <2>3, <2>6, <2>7, <2>8, StageFacts DEF Sound
    <3>3. StopsAt(r, ev, t)
      BY <2>7, <2>8 DEF StopsAt, Assigned
    <3>4. Rank[t] \in Nat /\ Rank[s] \in Nat
      BY <3>2, <2>4, RankFacts
    <3>. QED
      BY <3>2, <3>3, <3>4, <2>4, <2>7
  <2>9. ASSUME s \in {"APPROVED", "DEPLOYED"}, RequiresHumanApproval PROVE Said(a, "deploy", "approved")
    <3>1. Said(r, "deploy", "approved")
      <4>1. CASE r.state = "APPROVED"
        BY <4>1, <2>6, <2>9 DEF Sound
      <4>2. CASE r.state # "APPROVED"
        <5>1. Rank[r.state] <= 7 /\ Rank["READY_TO_DEPLOY"] = 7 /\ Rank[s] > 7 /\ "READY_TO_DEPLOY" \in Sequence
          BY <4>2, <2>3, <2>9, RankFacts
        <5>2. ~StopsAt(r, ev, "READY_TO_DEPLOY")
          BY <5>1, <2>4
        <5>3. GateOpen(r, "READY_TO_DEPLOY")
          BY <5>2 DEF StopsAt
        <5>. QED
          BY <5>3, <2>9 DEF GateOpen, QuestionAt
      <4>. QED
        BY <4>1, <4>2
    <3>. QED
      BY <3>1, <2>5 DEF Said
  <2>. QED
    BY <2>1, <2>4, <2>5, <2>6, <2>8, <2>9, SequenceFacts DEF Sound
<1>. QED
  BY <1>1, <1>2

(* The walk enters DEPLOYED only with a completion for everything.          *)
LEMMA WalkComplete ==
    ASSUME NEW r \in Rows, NEW ev, Walks(r), Advanced(r, ev).state = "DEPLOYED", asked \in Nat
    PROVE  TaskComplete(Advanced(r, ev), ev)
<1>1. r.state \in Sequence /\ r.state # "DEPLOYED"
  BY DEF Walks
<1>2. Reached(r, ev) = "DEPLOYED"
  BY WalkFacts
<1>3. \A t \in Sequence : Rank[r.state] <= Rank[t] /\ Rank[t] < 9 => ~StopsAt(r, ev, t)
  BY <1>1, <1>2, ReachedFacts, RankFacts
<1>. DEFINE t == IF RequiresHumanApproval THEN "APPROVED" ELSE "READY_TO_DEPLOY"
<1>4. t \in Sequence /\ Rank[t] < 9 /\ Rank[r.state] <= Rank[t]
  <2>1. Rank[r.state] \in Nat /\ Rank[r.state] <= 8
    BY <1>1, RankFacts
  <2>2. ~RequiresHumanApproval => Rank[r.state] <= 7
    BY <1>1, RankFacts
  <2>. QED
    BY <2>1, <2>2, RankFacts
<1>5. Last(t)
  <2>1. \A u \in Sequence : Rank[u] > Rank[t] <=> u = "DEPLOYED"
    <3>1. \A u \in Sequence : u \notin {"APPROVED", "DEPLOYED"} => Rank[u] <= 7
      BY RankFacts
    <3>2. Rank["READY_TO_DEPLOY"] = 7 /\ Rank["APPROVED"] = 8 /\ Rank["DEPLOYED"] = 9
      BY RankFacts
    <3>3. \A u \in Sequence : Rank[u] \in Nat
      BY RankFacts
    <3>4. ~RequiresHumanApproval => "APPROVED" \notin Sequence
      BY RankFacts
    <3>. QED
      BY <3>1, <3>2, <3>3, <3>4
  <2>. QED
    BY <2>1, SequenceFacts DEF Last, After
<1>6. ~StopsAt(r, ev, t)
  BY <1>3, <1>4
<1>7. TaskComplete(r, ev)
  BY <1>5, <1>6 DEF StopsAt, Justified
<1>8. Advanced(r, ev).asks = r.asks
  BY <1>2, WalkFacts
<1>. QED
  BY <1>7, <1>8 DEF TaskComplete, Said, Backed

LEMMA SettledSound ==
    ASSUME NEW r \in Rows, NEW ev, NEW o, NEW q, AtWork(r), Sound(r), SettledTo(q, r, ev, o)
    PROVE  Sound(q) /\ q.state # "DEPLOYED"
<1>1. /\ r.cursor \in 1..Len(Pipeline) /\ Stage(r) = Pipeline[r.cursor] /\ Stage(r) \in Ran
      /\ Stage(r) # "devops" => StateOf[Stage(r)] = r.state
  BY AtWorkFacts
<1>2. At(r) = r.state /\ r.state \in Sequence /\ r.state # "DEPLOYED" /\ r.state # "BLOCKED"
  BY SequenceFacts DEF At, AtWork
<1>3. \A k \in Questions : r.asks[k].status # "none" => q.asks[k] = r.asks[k]
  BY DEF SettledTo
<1>4. Said(r, "deploy", "approved") => Said(q, "deploy", "approved")
  BY <1>3 DEF Said
<1>5. CASE Stopped(q, r)
  <2>1. Stage(q) = Stage(r) /\ At(q) = q.from /\ q.state = "BLOCKED"
    BY <1>5 DEF Stopped, Stage, At
  <2>2. CASE q.from = r.state
    BY <2>1, <2>2, <1>2, <1>4 DEF Sound
  <2>3. CASE q.from = "FAILED"
    BY <2>1, <2>3, SequenceFacts DEF Sound
  <2>4. CASE q.from = "IMPLEMENTATION" /\ Stage(r) \in Verifiers
    <3>1. Rank["IMPLEMENTATION"] <= Rank[StateOf[Stage(r)]]
      <4>1. Rank[StateOf[Stage(r)]] >= 4 /\ Rank[StateOf[Stage(r)]] \in Nat /\ Rank["IMPLEMENTATION"] = 3
        BY <2>4, <1>1, PipelineFacts, RankFacts
      <4>. QED
        BY <4>1
    <3>. QED
      BY <2>1, <2>4, <3>1 DEF Sound
  <2>. QED
    BY <2>2, <2>3, <2>4, <1>5 DEF Stopped
<1>6. CASE Onward(q, r, ev, o)
  <2>1. q.cursor = r.cursor + 1 /\ q.state = r.state /\ At(q) = r.state
    BY <1>2, <1>6 DEF Onward, At
  <2>2. ASSUME Stage(q) \notin {"none", "devops"} PROVE Rank[r.state] <= Rank[StateOf[Stage(q)]]
    <3>1. q.cursor \in 1..Len(Pipeline) /\ Stage(q) = Pipeline[q.cursor]
      BY <2>2, PipelineFacts DEF Stage
    <3>2. r.cursor < q.cursor
      BY <2>1, <1>1
    <3>3. Stage(r) # "devops"
      <4>1. r.cursor # Len(Pipeline)
        BY <3>1, <3>2, PipelineFacts
      <4>. QED
        BY <4>1, <1>1, DevopsLast
    <3>. QED
      BY <3>1, <3>2, <3>3, <1>1, PipelineFacts
  <2>. QED
    BY <2>1, <2>2, <1>2, <1>4 DEF Sound
<1>7. CASE Stayed(q, r)
  <2>1. Stage(q) = Stage(r) /\ At(q) = r.state /\ q.state = r.state
    BY <1>2, <1>7 DEF Stayed, Stage, At
  <2>. QED
    BY <2>1, <1>2, <1>4 DEF Sound
<1>8. CASE Rewound(q)
  <2>1. PICK x \in Ran : /\ q.cursor = Position(x) /\ q.state = StateOf[x]
                         /\ StateOf[x] \in {"DESIGN", "PLAN", "IMPLEMENTATION"}
    BY <1>8 DEF Rewound
  <2>2. Stage(q) = x
    BY <2>1, PositionFacts, PipelineFacts DEF Stage
  <2>3. At(q) = StateOf[x]
    BY <2>1 DEF At
  <2>4. Rank[StateOf[x]] \in Nat
    BY RankFacts, PipelineFacts
  <2>. QED
    BY <2>1, <2>2, <2>3, <2>4 DEF Sound
<1>. QED
  BY <1>2, <1>5, <1>6, <1>7, <1>8 DEF SettledTo

LEMMA HandSound ==
    ASSUME TypeInv, NEW h \in Processes, NEW r \in Rows, NEW next, NEW facts, Handed(h, r, next, facts), Sound(mem[h])
    PROVE  Sound(r)
<1>1. mem[h] \in Rows /\ asked \in Nat
  BY KnownTypes
<1>2. CASE r = Advanced(mem[h], evidence)
  BY <1>1, <1>2, WalkSound
<1>3. Stage(r) = Stage(mem[h])
  BY DEF Handed, Owned, Stage
<1>4. Said(mem[h], "deploy", "approved") => Said(r, "deploy", "approved")
  BY DEF Handed, AsksKept, Said
<1>5. CASE SameStanding(r, mem[h])
  <2>1. At(r) = At(mem[h])
    BY <1>5 DEF SameStanding, At
  <2>. QED
    BY <2>1, <1>3, <1>4, <1>5 DEF Sound, SameStanding
<1>6. CASE Lifted(r, mem[h])
  <2>1. At(mem[h]) = mem[h].from /\ r.state = mem[h].from /\ r.state # "DEPLOYED"
    BY <1>6 DEF Lifted, At, Sound
  <2>2. r.state \in Sequence
    BY <1>1, <1>6, KnownTypes DEF Lifted, Coherent
  <2>3. At(r) = At(mem[h]) /\ r.state # "BLOCKED"
    BY <2>1, <2>2, SequenceFacts DEF At
  <2>. QED
    BY <2>1, <2>3, <1>3, <1>4 DEF Sound
<1>. QED
  BY <1>2, <1>5, <1>6 DEF Handed

SoundCopies == Sound(row) /\ \A p \in Processes : Sound(mem[p])

LEMMA SavedSound ==
    ASSUME TypeInv, SoundCopies, NEW p \in Processes, NEW r, NEW next, NEW cause \in Causes, NEW facts \in Pasts,
           Save(p, r, next, cause, facts), facts.lost = past.lost, Sound(r)
    PROVE  SoundCopies'
<1>1. /\ row' = r
      /\ \A q \in Processes : q # p => mem'[q] = mem[q]
      /\ mem'[p] = r \/ mem'[p] = Fresh
  BY SaveFacts
<1>2. Sound(row)'
  BY <1>1 DEF Sound, At, Stage, Said
<1>3. (\A q \in Processes : Sound(mem[q]))'
  <2>1. \A q \in Processes : \E c : mem'[q] = c /\ Sound(c)
    BY <1>1, FreshSound DEF SoundCopies
  <2>. QED
    BY <2>1 DEF Sound, At, Stage, Said
<1>. QED
  BY <1>2, <1>3 DEF SoundCopies

LEMMA NextSound == TypeInv /\ SoundCopies /\ [Next]_vars => SoundCopies'
<1>. SUFFICES ASSUME TypeInv, SoundCopies, [Next]_vars PROVE SoundCopies'
  OBVIOUS
<1>0. /\ Driver \in Processes /\ mem[Driver] \in Rows /\ asked \in Nat /\ past \in Pasts
      /\ "other" \in Causes /\ Sound(mem[Driver])
  BY PipelineFacts, KnownTypes DEF Causes, SoundCopies
<1>1. CASE UNCHANGED vars \/ Poll \/ \E p \in Processes : Load(p) \/ Leave(p)
  <2>1. row' = row
    BY <1>1 DEF vars, Poll, Load, Leave
  <2>2. \A q \in Processes : mem'[q] \in {mem[q], row, Fresh}
    BY <1>1 DEF vars, Poll, Load, Leave, TypeInv, TypeOK
  <2>3. Sound(row)'
    BY <2>1 DEF SoundCopies, Sound, At, Stage, Said
  <2>4. (\A q \in Processes : Sound(mem[q]))'
    <3>1. \A q \in Processes : \E c : mem'[q] = c /\ Sound(c)
      BY <2>2, FreshSound DEF SoundCopies
    <3>. QED
      BY <3>1 DEF Sound, At, Stage, Said
  <2>. QED
    BY <2>3, <2>4 DEF SoundCopies
<1>2. CASE Advance
  <2>1. PICK next \in {"assigned", "idle"} : Save(Driver, Advanced(mem[Driver], evidence), next, "other", past)
    BY <1>2, AdvanceSaves
  <2>. QED
    BY <2>1, <1>0, WalkSound, SavedSound
<1>3. ASSUME NEW r, r.state = mem[Driver].state, r.from = mem[Driver].from, r.cursor = mem[Driver].cursor,
             r.asks = mem[Driver].asks, r.done = mem[Driver].done
      PROVE  Sound(r)
  BY <1>0, <1>3 DEF Sound, At, Stage, Said
<1>4. CASE Dispatch
  <2>1. PICK r \in Rows, facts \in Pasts :
          /\ Save(Driver, r, "running", "other", facts) /\ facts.lost = past.lost
          /\ r.state = mem[Driver].state /\ r.from = mem[Driver].from /\ r.cursor = mem[Driver].cursor
          /\ r.asks = mem[Driver].asks /\ r.done = mem[Driver].done
    BY <1>4, DispatchSaves
  <2>2. Sound(r)
    BY <2>1, <1>3
  <2>. QED
    BY <2>1, <2>2, <1>0, SavedSound
<1>5. CASE RecordDispatch
  <2>1. PICK r \in Rows :
          /\ Save(Driver, r, "running", "other", past)
          /\ r.state = mem[Driver].state /\ r.from = mem[Driver].from /\ r.cursor = mem[Driver].cursor
          /\ r.asks = mem[Driver].asks /\ r.done = mem[Driver].done
    BY <1>5, RecordDispatchSaves
  <2>2. Sound(r)
    BY <2>1, <1>3
  <2>. QED
    BY <2>1, <2>2, <1>0, SavedSound
<1>6. ASSUME NEW o, Report(o) PROVE SoundCopies'
  <2>1. PICK q, x \in Rows, next \in {"idle", "loaded"}, cause \in Causes, facts \in Pasts :
          Reported(o, q, x, next, cause, facts)
    BY <1>6, ReportSaves
  <2>2. /\ Save(Driver, x, next, cause, facts) /\ facts.lost = past.lost
        /\ SettledTo(q, mem[Driver], evidence, o) /\ x = Advanced(q, evidence') /\ q \in Rows
    BY <2>1 DEF Reported, RememberedAs
  <2>3. Sound(q)
    BY <2>2, <1>0, <1>6, ReportSaves, SettledSound
  <2>4. Sound(x)
    BY <2>2, <2>3, <1>0, WalkSound
  <2>. QED
    BY <2>2, <2>4, <1>0, SavedSound
<1>7. ASSUME NEW h \in Hands, Handle(h) PROVE SoundCopies'
  <2>1. PICK r \in Rows, next \in Places, facts \in Pasts : Handed(h, r, next, facts)
    BY <1>7, HandFacts
  <2>2. h \in Processes /\ Save(h, r, next, "other", facts) /\ facts.lost = past.lost
    BY <2>1 DEF Handed, Processes
  <2>3. Sound(r)
    BY <2>1, <2>2, HandSound DEF SoundCopies
  <2>. QED
    BY <2>2, <2>3, <1>0, SavedSound
<1>. QED
  BY <1>1, <1>2, <1>4, <1>5, <1>6, <1>7 DEF Next, Drive
-----------------------------------------------------------------------------
(* Every verdict behind the cursor has seen the latest work.                *)
SeenBehind == ~past.lost => Behind(row) \cap Verifiers \subseteq past.seen

(* No verdict is behind a stage of the design, the plan or the work.        *)
LEMMA EarlyBehind ==
    ASSUME NEW r, NEW i \in 1..Len(Pipeline), r.cursor \in 1..i, Rank[StateOf[Pipeline[i]]] <= 3
    PROVE  Behind(r) \cap Verifiers = {}
<1>. SUFFICES ASSUME NEW j \in 1..(r.cursor - 1), Pipeline[j] \in Verifiers PROVE FALSE
  BY DEF Behind
<1>1. j \in 1..Len(Pipeline) /\ j < i
  <2>. DEFINE n == Len(Pipeline)
              c == r.cursor
  <2>1. n \in Nat /\ i \in 1..n /\ c \in 1..i /\ j \in 1..(c - 1)
    BY PipelineFacts
  <2>. HIDE DEF n, c
  <2>2. j \in 1..n /\ j < i
    BY ONLY <2>1
  <2>. QED
    BY <2>2 DEF n
<1>2. Rank[StateOf[Pipeline[j]]] <= Rank[StateOf[Pipeline[i]]] /\ Pipeline[j] \in Stages /\ Pipeline[i] \in Stages
  BY <1>1, PipelineFacts
<1>3. Rank[StateOf[Pipeline[j]]] \in Nat /\ Rank[StateOf[Pipeline[i]]] \in Nat /\ Rank[StateOf[Pipeline[j]]] >= 4
  BY <1>2, RankFacts
<1>. QED
  BY <1>2, <1>3

LEMMA SettledSeen ==
    ASSUME NEW m \in Rows, NEW ev, NEW o, NEW q, NEW facts, AtWork(m), SettledTo(q, m, ev, o),
           RememberedAs(facts, m, o), o \in Outcomes(Stage(m)), Behind(m) \cap Verifiers \subseteq past.seen
    PROVE  Behind(q) \cap Verifiers \subseteq facts.seen
<1>1. m.cursor \in 1..Len(Pipeline) /\ Stage(m) = Pipeline[m.cursor] /\ Stage(m) \in Ran /\ Stage(m) \in Stages
  BY AtWorkFacts, PipelineFacts
<1>2. Stage(m) \notin Implementers => past.seen \subseteq facts.seen
  BY DEF RememberedAs
<1>3. Stage(m) \in Implementers => Behind(m) \cap Verifiers = {}
  <2>. SUFFICES ASSUME Stage(m) \in Implementers PROVE Behind(m) \cap Verifiers = {}
    OBVIOUS
  <2>1. Rank[StateOf[Pipeline[m.cursor]]] <= 3
    BY <1>1, RankFacts
  <2>2. m.cursor \in 1..m.cursor
    BY <1>1
  <2>. QED
    BY <1>1, <2>1, <2>2, EarlyBehind
<1>4. CASE q.cursor = m.cursor
  <2>1. Behind(q) = Behind(m)
    BY <1>4 DEF Behind
  <2>. QED
    BY <2>1, <1>2, <1>3
<1>5. CASE Onward(q, m, ev, o)
  <2>1. q.cursor = m.cursor + 1
    BY <1>5 DEF Onward
  <2>2. Behind(q) \subseteq Behind(m) \cup {Stage(m)}
    <3>. SUFFICES ASSUME NEW i \in 1..(q.cursor - 1) PROVE Pipeline[i] \in Behind(m) \cup {Stage(m)}
      BY DEF Behind
    <3>1. i \in 1..(m.cursor - 1) \/ i = m.cursor
      <4>1. m.cursor \in Int
        BY <1>1
      <4>. QED
        BY <4>1, <2>1
    <3>. QED
      BY <3>1, <1>1 DEF Behind
  <2>3. CASE Stage(m) \in Implementers
    BY <2>2, <2>3, <1>3 DEF Implementers, Verifiers
  <2>4. CASE Stage(m) \in Verifiers
    <3>1. o = "complete"
      BY <1>5, <2>4, RanStages DEF Onward, Completes, Outcomes, Verifiers, Implementers, Stages, StateOf
    <3>2. facts.seen = past.seen \cup {Stage(m)}
      BY <2>4, <3>1 DEF RememberedAs
    <3>. QED
      BY <2>2, <3>2
  <2>5. CASE Stage(m) \notin Implementers \cup Verifiers
    BY <2>2, <2>5, <1>2
  <2>. QED
    BY <2>3, <2>4, <2>5
<1>6. CASE Rewound(q)
  <2>1. PICK x \in Ran : q.cursor = Position(x) /\ StateOf[x] \in {"DESIGN", "PLAN", "IMPLEMENTATION"}
    BY <1>6 DEF Rewound
  <2>2. Position(x) \in 1..Len(Pipeline) /\ Pipeline[Position(x)] = x
    BY PositionFacts
  <2>3. Rank[StateOf[x]] <= 3
    BY <2>1, RankFacts, PipelineFacts
  <2>4. q.cursor \in 1..Position(x)
    BY <2>1, <2>2
  <2>5. Behind(q) \cap Verifiers = {}
    BY <2>2, <2>3, <2>4, EarlyBehind
  <2>. QED
    BY <2>5
<1>. QED
  BY <1>4, <1>5, <1>6 DEF SettledTo, Stopped, Stayed

LEMMA NextSeen == TypeInv /\ Follow /\ SeenBehind /\ [Next]_vars => SeenBehind'
<1>. SUFFICES ASSUME TypeInv, Follow, SeenBehind, [Next]_vars, ~past'.lost PROVE SeenBehind'
  BY DEF SeenBehind
<1>0. Driver \in Processes /\ mem[Driver] \in Rows /\ asked \in Nat /\ past \in Pasts /\ "other" \in Causes
  BY PipelineFacts, KnownTypes DEF Causes
<1>1. CASE UNCHANGED vars \/ Poll \/ \E p \in Processes : Load(p) \/ Leave(p)
  <2>1. past' = past /\ row' = row
    BY <1>1 DEF vars, Poll, Load, Leave
  <2>. QED
    BY <2>1 DEF SeenBehind, Behind
<1>2. ASSUME NEW p \in Processes, NEW r, NEW next, NEW cause \in Causes, NEW facts \in Pasts,
             Save(p, r, next, cause, facts), facts.lost = past.lost, facts.seen = past.seen,
             r.cursor = mem[p].cursor
      PROVE  SeenBehind'
  <2>1. row' = r /\ ~past.lost /\ (mem[p] = row \/ r = row) /\ past'.seen = past.seen
    BY <1>2, SaveFacts
  <2>2. row'.cursor = row.cursor
    BY <2>1, <1>2
  <2>. QED
    BY <2>1, <2>2 DEF SeenBehind, Behind
<1>3. CASE Advance
  <2>1. PICK next \in {"assigned", "idle"} : Save(Driver, Advanced(mem[Driver], evidence), next, "other", past)
    BY <1>3, AdvanceSaves
  <2>2. Advanced(mem[Driver], evidence).cursor = mem[Driver].cursor
    BY <1>0, AdvancedFacts DEF Kept
  <2>. QED
    BY <2>1, <2>2, <1>0, <1>2
<1>4. CASE Dispatch
  <2>1. PICK r \in Rows, facts \in Pasts :
          /\ Save(Driver, r, "running", "other", facts) /\ facts.lost = past.lost /\ facts.seen = past.seen
          /\ r.cursor = mem[Driver].cursor
    BY <1>4, DispatchSaves
  <2>. QED
    BY <2>1, <1>0, <1>2
<1>5. CASE RecordDispatch
  <2>1. PICK r \in Rows : Save(Driver, r, "running", "other", past) /\ r.cursor = mem[Driver].cursor
    BY <1>5, RecordDispatchSaves
  <2>. QED
    BY <2>1, <1>0, <1>2
<1>6. ASSUME NEW h \in Hands, Handle(h) PROVE SeenBehind'
  <2>1. PICK r \in Rows, next \in Places, facts \in Pasts : Handed(h, r, next, facts)
    BY <1>6, HandFacts
  <2>2. /\ h \in Processes /\ Save(h, r, next, "other", facts) /\ facts.lost = past.lost
        /\ facts.seen = past.seen /\ r.cursor = mem[h].cursor
    BY <2>1 DEF Handed, Processes, Owned
  <2>. QED
    BY <2>2, <1>0, <1>2
<1>7. ASSUME NEW o, Report(o) PROVE SeenBehind'
  <2>. DEFINE m == mem[Driver]
  <2>1. PICK q, x \in Rows, next \in {"idle", "loaded"}, cause \in Causes, facts \in Pasts :
          Reported(o, q, x, next, cause, facts)
    BY <1>7, ReportSaves
  <2>2. /\ Save(Driver, x, next, cause, facts) /\ facts.lost = past.lost
        /\ SettledTo(q, m, evidence, o) /\ x = Advanced(q, evidence') /\ RememberedAs(facts, m, o) /\ q \in Rows
    BY <2>1 DEF Reported, RememberedAs
  <2>3. row' = x /\ ~past.lost /\ past'.seen = facts.seen
    BY <2>2, <1>0, SaveFacts
  <2>4. m \in Rows /\ AtWork(m) /\ o \in Outcomes(Stage(m)) /\ pc[Driver] # "idle"
    BY <1>7, ReportSaves DEF Report
  <2>5. row.cursor = m.cursor
    BY <2>3, <2>4 DEF Follow, Owned
  <2>6. Behind(m) \cap Verifiers \subseteq past.seen
    BY <2>3, <2>5 DEF SeenBehind, Behind
  <2>7. Behind(q) \cap Verifiers \subseteq facts.seen
    <3>. HIDE DEF m
    <3>. QED
      BY <2>2, <2>4, <2>6, SettledSeen
  <2>8. x.cursor = q.cursor
    BY <2>2, <1>0, AdvancedFacts DEF Kept
  <2>. QED
    BY <2>3, <2>7, <2>8 DEF SeenBehind, Behind
<1>. QED
  BY <1>1, <1>3, <1>4, <1>5, <1>6, <1>7 DEF Next, Drive

(* A task at DEPLOYED is complete, and stays so.                            *)
Whole == ~past.lost /\ row.state = "DEPLOYED" => TaskComplete(row, evidence)

LEMMA NextWhole == TypeInv /\ SoundCopies /\ Whole /\ [Next]_vars => Whole'
<1>. SUFFICES ASSUME TypeInv, SoundCopies, Whole, [Next]_vars, ~past'.lost, row'.state = "DEPLOYED"
              PROVE  TaskComplete(row', evidence')
  BY DEF Whole, TaskComplete, Recorded, Said, Backed
<1>0. Driver \in Processes /\ mem[Driver] \in Rows /\ asked \in Nat /\ past \in Pasts /\ "other" \in Causes
  BY PipelineFacts, KnownTypes DEF Causes
<1>1. CASE UNCHANGED vars \/ Poll \/ \E p \in Processes : Load(p) \/ Leave(p)
  <2>1. past' = past /\ row' = row /\ evidence' = evidence
    BY <1>1 DEF vars, Poll, Load, Leave
  <2>. QED
    BY <2>1 DEF Whole
<1>2. ASSUME NEW p \in Processes, NEW r, NEW next, NEW cause \in Causes, NEW facts \in Pasts,
             Save(p, r, next, cause, facts), facts.lost = past.lost, r = Advanced(mem[p], evidence),
             UNCHANGED evidence
      PROVE  TaskComplete(row', evidence')
  <2>1. row' = r /\ ~past.lost /\ (mem[p] = row \/ r = row)
    BY <1>2, SaveFacts
  <2>2. mem[p] \in Rows
    BY KnownTypes
  <2>3. CASE Walks(mem[p])
    BY <2>1, <2>2, <2>3, <1>0, <1>2, WalkComplete
  <2>4. CASE ~Walks(mem[p])
    <3>1. r = mem[p]
      BY <2>2, <2>4, <1>0, <1>2, AdvancedFacts
    <3>. QED
      BY <3>1, <2>1, <1>2 DEF Whole
  <2>. QED
    BY <2>3, <2>4
<1>3. CASE Advance
  <2>1. PICK next \in {"assigned", "idle"} :
          Save(Driver, Advanced(mem[Driver], evidence), next, "other", past) /\ UNCHANGED evidence
    BY <1>3, AdvanceSaves
  <2>. QED
    BY <2>1, <1>0, <1>2
<1>4. CASE Dispatch
  <2>1. PICK r \in Rows, facts \in Pasts :
          Save(Driver, r, "running", "other", facts) /\ facts.lost = past.lost /\ r.state = mem[Driver].state
    BY <1>4, DispatchSaves
  <2>2. row' = r
    BY <2>1, <1>0, SaveFacts
  <2>. QED
    BY <2>1, <2>2, <1>4, DispatchSaves DEF AtWork
<1>5. CASE RecordDispatch
  <2>1. PICK r \in Rows : Save(Driver, r, "running", "other", past) /\ r.state = mem[Driver].state
    BY <1>5, RecordDispatchSaves
  <2>2. row' = r
    BY <2>1, <1>0, SaveFacts
  <2>. QED
    BY <2>1, <2>2, <1>5, RecordDispatchSaves DEF AtWork
<1>6. ASSUME NEW o, Report(o) PROVE TaskComplete(row', evidence')
  <2>1. PICK q, x \in Rows, next \in {"idle", "loaded"}, cause \in Causes, facts \in Pasts :
          Reported(o, q, x, next, cause, facts)
    BY <1>6, ReportSaves
  <2>2. /\ Save(Driver, x, next, cause, facts) /\ facts.lost = past.lost
        /\ SettledTo(q, mem[Driver], evidence, o) /\ x = Advanced(q, evidence') /\ q \in Rows
    BY <2>1 DEF Reported, RememberedAs
  <2>3. row' = x
    BY <2>2, <1>0, SaveFacts
  <2>4. q.state # "DEPLOYED"
    BY <2>2, <1>0, <1>6, ReportSaves, SettledSound DEF SoundCopies
  <2>5. Walks(q)
    BY <2>2, <2>3, <2>4, <1>0, AdvancedFacts
  <2>. QED
    BY <2>2, <2>3, <2>5, <1>0, WalkComplete
<1>7. ASSUME NEW h \in Hands, Handle(h) PROVE TaskComplete(row', evidence')
  <2>1. PICK r \in Rows, next \in Places, facts \in Pasts : Handed(h, r, next, facts)
    BY <1>7, HandFacts
  <2>2. h \in Processes /\ Save(h, r, next, "other", facts) /\ facts.lost = past.lost
    BY <2>1 DEF Handed, Processes
  <2>3. row' = r /\ ~past.lost /\ (mem[h] = row \/ r = row)
    BY <2>2, <1>0, SaveFacts
  <2>4. CASE r = Advanced(mem[h], evidence) /\ UNCHANGED evidence
    BY <2>2, <2>4, <1>0, <1>2
  <2>5. CASE /\ SameStanding(r, mem[h])
             /\ \A k \in Questions : mem[h].asks[k].status # "pending" => r.asks[k] = mem[h].asks[k]
    <3>1. row.state = "DEPLOYED"
      BY <2>3, <2>5 DEF SameStanding
    <3>2. TaskComplete(row, evidence)
      BY <3>1, <2>3 DEF Whole
    <3>3. \A k \in Questions : r.asks[k] = row.asks[k]
      BY <3>2, <2>3, <2>5 DEF TaskComplete, Said
    <3>4. /\ evidence'.latest = evidence.latest /\ evidence'.phase = evidence.phase
          /\ evidence'.prepared = evidence.prepared /\ evidence.yes \subseteq evidence'.yes
      BY <2>1 DEF Handed
    <3>. QED
      BY <3>2, <3>3, <3>4, <2>3 DEF TaskComplete, Recorded, Said, Backed
  <2>6. CASE Lifted(r, mem[h])
    BY <2>2, <2>3, <2>6 DEF Lifted, SoundCopies, Sound
  <2>. QED
    BY <2>1, <2>4, <2>5, <2>6 DEF Handed
<1>. QED
  BY <1>1, <1>3, <1>4, <1>5, <1>6, <1>7 DEF Next, Drive

(* Past verification, every verdict of the pipeline is behind the cursor.   *)
LEMMA VerdictsBehind ==
    ASSUME NEW r \in Rows, Sound(r), r.state \in {"READY_TO_DEPLOY", "APPROVED", "DEPLOYED"}, r.state \in Sequence
    PROVE  Ran \cap Verifiers \subseteq Behind(r)
<1>. SUFFICES ASSUME NEW v \in Ran \cap Verifiers, v \notin Behind(r) PROVE FALSE
  OBVIOUS
<1>. DEFINE i == Position(v)
<1>1. i \in 1..Len(Pipeline) /\ Pipeline[i] = v
  BY PositionFacts
<1>2. Len(Pipeline) \in Nat /\ r.cursor \in 1..(Len(Pipeline) + 1)
  BY PipelineFacts DEF Rows
<1>. HIDE DEF i
<1>3. r.cursor <= i /\ r.cursor \in 1..Len(Pipeline)
  <2>1. ~(i \in 1..(r.cursor - 1))
    BY <1>1 DEF Behind
  <2>. DEFINE n == Len(Pipeline)
              c == r.cursor
  <2>2. n \in Nat /\ c \in 1..(n + 1) /\ i \in 1..n /\ ~(i \in 1..(c - 1))
    BY <1>1, <1>2, <2>1
  <2>. HIDE DEF n, c
  <2>3. c <= i /\ c \in 1..n
    BY ONLY <2>2
  <2>. QED
    BY <2>3 DEF n, c
<1>4. Stage(r) = Pipeline[r.cursor] /\ Stage(r) \in Stages /\ Stage(r) # "none"
  BY <1>3, PipelineFacts, StageFacts DEF Stage
<1>5. v \in Stages /\ v # "devops" /\ Rank[StateOf[v]] <= 6 /\ Rank[StateOf[v]] \in Nat
  BY PipelineFacts, RankFacts DEF Verifiers
<1>6. Stage(r) # "devops"
  <2>. SUFFICES ASSUME Stage(r) = "devops" PROVE FALSE
    OBVIOUS
  <2>1. r.cursor = Len(Pipeline)
    BY <1>3, <1>4, DevopsLast
  <2>2. i = r.cursor
    <3>. DEFINE n == Len(Pipeline)
                c == r.cursor
    <3>1. n \in Nat /\ c = n /\ c <= i /\ i \in 1..n
      BY <1>1, <1>2, <1>3, <2>1
    <3>. HIDE DEF n, c
    <3>2. i = c
      BY ONLY <3>1
    <3>. QED
      BY <3>2 DEF c
  <2>. QED
    BY <2>2, <1>1, <1>4, <1>5
<1>7. Rank[r.state] <= Rank[StateOf[Stage(r)]] /\ Rank[r.state] >= 7
  BY <1>4, <1>6, RankFacts DEF Sound, At
<1>8. Rank[StateOf[Stage(r)]] <= 6 /\ Rank[StateOf[Stage(r)]] \in Nat /\ Rank[r.state] \in Nat
  BY <1>4, <1>6, RankFacts
<1>. QED
  BY <1>7, <1>8

(* A task is past verification only on verdicts that saw its latest work,   *)
(* and DEPLOYED only on a completion for every stage and a recorded yes to  *)
(* everything asked (orchestrator.ts guardForward, completionPolicy), for   *)
(* every pipeline in the order of the states.                               *)
THEOREM DoneBacked == Spec => []DoneIsBacked
<1>1. Init => Follow /\ SoundCopies /\ SeenBehind /\ Whole
  <2>. SUFFICES ASSUME Init PROVE Follow /\ SoundCopies /\ SeenBehind /\ Whole
    OBVIOUS
  <2>1. Follow
    BY PipelineFacts DEF Init, Follow
  <2>2. SoundCopies
    BY FreshSound DEF Init, SoundCopies
  <2>3. row.cursor = 1 /\ row.state = "CREATED"
    BY DEF Init, Fresh
  <2>4. SeenBehind
    BY <2>3 DEF SeenBehind, Behind
  <2>. QED
    BY <2>1, <2>2, <2>3, <2>4 DEF Whole
<1>2. Spec => [](TypeInv /\ Follow /\ SoundCopies /\ SeenBehind /\ Whole)
  BY <1>1, InitTypes, NextTypes, NextFollows, NextSound, NextSeen, NextWhole, PTL DEF Spec
<1>3. TypeInv /\ SoundCopies /\ SeenBehind /\ Whole => DoneIsBacked
  <2>. SUFFICES ASSUME TypeInv, SoundCopies, SeenBehind, Whole, ~past.lost PROVE DoneIsBacked
    BY DEF DoneIsBacked
  <2>1. row \in Rows /\ Sound(row)
    BY KnownTypes DEF SoundCopies
  <2>2. ASSUME row.state \in {"READY_TO_DEPLOY", "APPROVED", "DEPLOYED"} PROVE Ran \cap Verifiers \subseteq past.seen
    <3>1. row.state \in Sequence
      BY <2>1, <2>2 DEF Rows
    <3>2. Ran \cap Verifiers \subseteq Behind(row)
      BY <2>1, <2>2, <3>1, VerdictsBehind
    <3>. QED
      BY <3>2 DEF SeenBehind
  <2>3. ASSUME row.state = "DEPLOYED"
        PROVE  row.done /\ TaskComplete(row, evidence) /\ (RequiresHumanApproval => Said(row, "deploy", "approved"))
    BY <2>1, <2>3 DEF Sound, At, Whole
  <2>. QED
    BY <2>2, <2>3 DEF DoneIsBacked
<1>. QED
  BY <1>2, <1>3, PTL

-----------------------------------------------------------------------------
(* How long a drive can be.  Every turn of its loop spends a round of some  *)
(* verdict, passes a stage or prepares the deployment - or else the loop    *)
(* ends; only the consultant's question to a stage before it spends         *)
(* nothing.  The turns left count the rounds and, for each, the whole way   *)
(* from the first stage; within a turn the steps are counted down.          *)
HandsBack(r, o) == Stage(r) = "uxui_designer" /\ o \in Ran /\ StateOf[o] \in {"DESIGN", "PLAN"}

Consults == \E o \in Outcomes(Stage(mem[Driver])) : HandsBack(mem[Driver], o) /\ Report(o)

RoundsOf(r, k) == IF r.retries[k] > MaxRetry THEN 0 ELSE MaxRetry + 1 - r.retries[k]

RoundsLeft(r) == RoundsOf(r, "reviewer") + RoundsOf(r, "qa") + RoundsOf(r, "security")

Way(r) == 2 * (Len(Pipeline) + 1 - r.cursor) + (IF r.prepared THEN 0 ELSE 1)

WholeWay == 2 * Len(Pipeline) + 2

TurnsLeft(r) == IF r.state = "BLOCKED" THEN 0 ELSE WholeWay * RoundsLeft(r) + Way(r)

TurnsBound == WholeWay * (3 * (MaxRetry + 1)) + WholeWay

StepsOfTurn(at, r) ==
    IF at = "loaded" THEN 5 ELSE IF at = "polled" THEN 4
    ELSE IF at = "assigned" THEN 3 ELSE IF r.inflight = "none" THEN 2 ELSE 1

StepsLeft(at, r) == IF at = "idle" THEN 0 ELSE 5 * TurnsLeft(r) + StepsOfTurn(at, r)

DriveLeft == StepsLeft(pc[Driver], mem[Driver])

LEMMA TimesFewer ==
    ASSUME NEW w \in Nat, NEW a \in Nat, NEW b \in Nat, a <= b
    PROVE  w * a <= w * b /\ (a < b => w * a + w <= w * b) /\ w * a \in Nat /\ w * b \in Nat
<1>1. PICK d \in Nat : b = a + d
  <2>1. b - a \in Nat /\ b = a + (b - a)
    OBVIOUS
  <2>. QED
    BY <2>1
<1>2. w * b = w * a + w * d /\ w * a \in Nat /\ w * d \in Nat
  BY <1>1
<1>3. CASE d = 0
  BY <1>1, <1>2, <1>3
<1>4. CASE d # 0
  <2>1. PICK e \in Nat : d = e + 1
    <3>1. d - 1 \in Nat /\ d = (d - 1) + 1
      BY <1>4
    <3>. QED
      BY <3>1
  <2>2. w * d = w * e + w /\ w * e \in Nat
    BY <2>1
  <2>. QED
    BY <1>1, <1>2, <2>2
<1>. QED
  BY <1>3, <1>4

(* The counts are numbers, below what the budgets and the pipeline allow.   *)
LEMMA TurnsCounted ==
    ASSUME NEW r \in Rows
    PROVE  /\ \A k \in Verifiers : RoundsOf(r, k) \in 0..(MaxRetry + 1)
           /\ RoundsLeft(r) \in 0..(3 * (MaxRetry + 1))
           /\ Way(r) \in 0..(WholeWay - 1) /\ WholeWay \in Nat
           /\ r.cursor \in 1..Len(Pipeline) => Way(r) >= 2
           /\ TurnsLeft(r) \in 0..TurnsBound
<1>1. MaxRetry \in Nat /\ Len(Pipeline) \in Nat
  BY PipelineFacts
<1>2. r.cursor \in 1..(Len(Pipeline) + 1) /\ \A k \in Verifiers : r.retries[k] \in Nat
  BY DEF Rows
<1>3. \A k \in Verifiers : RoundsOf(r, k) \in 0..(MaxRetry + 1)
  BY <1>1, <1>2 DEF RoundsOf
<1>4. RoundsLeft(r) \in 0..(3 * (MaxRetry + 1))
  <2>1. /\ RoundsOf(r, "reviewer") \in 0..(MaxRetry + 1) /\ RoundsOf(r, "qa") \in 0..(MaxRetry + 1)
        /\ RoundsOf(r, "security") \in 0..(MaxRetry + 1)
    BY <1>3 DEF Verifiers
  <2>. QED
    BY <2>1, <1>1 DEF RoundsLeft
<1>5. /\ Way(r) \in 0..(WholeWay - 1) /\ WholeWay \in Nat
      /\ r.cursor \in 1..Len(Pipeline) => Way(r) >= 2
  BY <1>1, <1>2 DEF Way, WholeWay
<1>6. TurnsLeft(r) \in 0..TurnsBound
  <2>1. PICK b \in Nat : b = 3 * (MaxRetry + 1)
    BY <1>1
  <2>2. PICK a \in Nat : a = RoundsLeft(r)
    BY <1>4
  <2>3. PICK w \in Nat : w = WholeWay
    BY <1>5
  <2>4. w * a <= w * b /\ w * a \in Nat /\ w * b \in Nat
    BY <1>1, <1>4, <2>1, <2>2, TimesFewer
  <2>5. PICK v \in Nat : v = Way(r) /\ v < w
    BY <1>5, <2>3
  <2>6. w * a + v \in 0..(w * b + w)
    BY <2>4, <2>5
  <2>7. 0 \in 0..(w * b + w)
    BY <2>4
  <2>. QED
    BY <2>1, <2>2, <2>3, <2>5, <2>6, <2>7 DEF TurnsLeft, TurnsBound
<1>. QED
  BY <1>3, <1>4, <1>5, <1>6

(* Comparing what two rows have left.                                       *)
LEMMA TurnsFewer ==
    ASSUME NEW q \in Rows, NEW r \in Rows, r.state # "BLOCKED"
    PROVE  /\ RoundsLeft(q) = RoundsLeft(r) /\ Way(q) <= Way(r) => TurnsLeft(q) <= TurnsLeft(r)
           /\ RoundsLeft(q) = RoundsLeft(r) /\ Way(q) < Way(r) => TurnsLeft(q) < TurnsLeft(r)
           /\ RoundsLeft(q) < RoundsLeft(r) => TurnsLeft(q) < TurnsLeft(r)
           /\ q.state = "BLOCKED" => TurnsLeft(q) <= TurnsLeft(r)
           /\ q.state = "BLOCKED" /\ r.cursor \in 1..Len(Pipeline) => TurnsLeft(q) < TurnsLeft(r)
<1>1. PICK a, b, w, u, v \in Nat : a = RoundsLeft(q) /\ b = RoundsLeft(r) /\ w = WholeWay /\ u = Way(q) /\ v = Way(r)
  BY TurnsCounted
<1>2. u < w /\ (r.cursor \in 1..Len(Pipeline) => v >= 2)
  BY <1>1, TurnsCounted
<1>3. TurnsLeft(r) = w * b + v /\ TurnsLeft(q) = IF q.state = "BLOCKED" THEN 0 ELSE w * a + u
  BY <1>1 DEF TurnsLeft
<1>4. w * a \in Nat /\ w * b \in Nat
  OBVIOUS
<1>5. a = b => w * a = w * b
  OBVIOUS
<1>6. a < b => w * a + w <= w * b
  BY TimesFewer
<1>7. PICK c, d \in Nat : c = w * a /\ d = w * b
  BY <1>4
<1>8. TurnsLeft(r) = d + v /\ TurnsLeft(q) = IF q.state = "BLOCKED" THEN 0 ELSE c + u
  BY <1>3, <1>7
<1>9. (a = b => c = d) /\ (a < b => c + w <= d)
  BY <1>5, <1>6, <1>7
<1>. QED
  BY <1>1, <1>2, <1>8, <1>9


(* Walking on spends nothing.                                               *)
LEMMA WalkTurns ==
    ASSUME NEW r \in Rows, NEW ev, asked \in Nat
    PROVE  TurnsLeft(Advanced(r, ev)) <= TurnsLeft(r)
<1>. DEFINE a == Advanced(r, ev)
<1>1. a \in Rows /\ Kept(a, r) /\ (~Walks(r) => a = r)
  BY AdvancedFacts
<1>2. TurnsLeft(r) \in Int
  BY TurnsCounted
<1>3. CASE r.state = "BLOCKED"
  <2>1. a = r
    BY <1>1, <1>3, SequenceFacts DEF Walks
  <2>. QED
    BY <1>2, <2>1
<1>4. CASE r.state # "BLOCKED"
  <2>1. RoundsLeft(a) = RoundsLeft(r) /\ Way(a) = Way(r) /\ Way(r) \in Int
    BY <1>1, TurnsCounted DEF RoundsLeft, RoundsOf, Way, Kept
  <2>2. Way(a) <= Way(r)
    BY <2>1
  <2>. HIDE DEF a
  <2>. QED
    BY <1>1, <1>4, <2>1, <2>2, TurnsFewer DEF a
<1>. QED
  BY <1>3, <1>4

(* A failed verdict that sends the task back has spent a round of its kind. *)
LEMMA RoundSpent ==
    ASSUME NEW q \in Rows, NEW r \in Rows, NEW g \in Verifiers, r.retries[g] + 1 <= MaxRetry,
           q.retries = [r.retries EXCEPT ![g] = r.retries[g] + 1]
    PROVE  RoundsLeft(q) < RoundsLeft(r)
<1>1. MaxRetry \in Nat /\ (\A k \in Verifiers : r.retries[k] \in Nat)
  BY PipelineFacts DEF Rows
<1>2. q.retries[g] = r.retries[g] + 1 /\ \A k \in Verifiers : k # g => q.retries[k] = r.retries[k]
  BY DEF Rows
<1>3. RoundsOf(q, g) < RoundsOf(r, g)
  BY <1>1, <1>2 DEF RoundsOf
<1>4. \A k \in Verifiers : k # g => RoundsOf(q, k) = RoundsOf(r, k)
  BY <1>2 DEF RoundsOf
<1>5. \A k \in Verifiers : RoundsOf(q, k) \in Int /\ RoundsOf(r, k) \in Int
  BY <1>1, TurnsCounted
<1>6. CASE g = "reviewer"
  BY <1>3, <1>4, <1>5, <1>6 DEF RoundsLeft, Verifiers
<1>7. CASE g = "qa"
  BY <1>3, <1>4, <1>5, <1>7 DEF RoundsLeft, Verifiers
<1>8. CASE g = "security"
  BY <1>3, <1>4, <1>5, <1>8 DEF RoundsLeft, Verifiers
<1>. QED
  BY <1>6, <1>7, <1>8 DEF Verifiers

(* What a stage left where it was looks like.                               *)
Same(q, r) == q.state = r.state /\ q.cursor = r.cursor /\ q.prepared = r.prepared /\ q.inflight = "none"

(* A settled attempt has spent a turn, or the same stage is due again.      *)
LEMMA SettledTurns ==
    ASSUME NEW r \in Rows, NEW ev, NEW o, NEW q, AtWork(r), o \in Outcomes(Stage(r)), asked \in Nat,
           q \in Rows, q = Settled(r, ev, Stage(r), o), ~HandsBack(r, o)
    PROVE  Same(q, r) \/ TurnsLeft(q) < TurnsLeft(r)
<1>. DEFINE g == Stage(r)
            n == Noted(r, g, o)
<1>1. /\ n \in Rows /\ n.state = r.state /\ n.cursor = r.cursor /\ n.prepared = r.prepared
      /\ n.retries = r.retries /\ n.inflight = "none"
  BY NotedFacts
<1>2. r.state \in Sequence /\ r.state # "BLOCKED" /\ r.cursor \in 1..Len(Pipeline) /\ Len(Pipeline) \in Nat
  BY AtWorkFacts, PipelineFacts, SequenceFacts DEF AtWork
<1>3. q = IF o \in {"spent", "unavailable"} THEN Block(n, r.state)
          ELSE IF Completes(r, ev, g, o)
          THEN IF g = "devops" /\ ~Executing(r) THEN [n EXCEPT !.prepared = TRUE]
               ELSE [n EXCEPT !.cursor = @ + 1]
          ELSE IF Passes(o) THEN n
          ELSE IF Executing(r) THEN Block(n, r.state)
          ELSE IF g \in Verifiers THEN Failed(n, g, o)
          ELSE IF g = "uxui_designer" /\ o # "fail" THEN Questioned(n, o)
          ELSE n
  BY DEF Settled
<1>4. ~(o \in {"spent", "unavailable"}) /\ ~Passes(o) /\ g \in Verifiers => o \in {"fail", "outage", "critical"} \cup Stages
  BY RanStages DEF Passes, Outcomes, Stages, StateOf, Verifiers
<1>5. g = "devops" /\ ~Executing(r) => ~r.prepared
  BY DEF AtWork, Assigned, Executing
<1>6. HandsBack(r, o) <=> (g = "uxui_designer" /\ o \in Ran /\ StateOf[o] \in {"DESIGN", "PLAN"})
  BY DEF HandsBack
<1>. HIDE DEF n, g
<1>7. CASE q.state = "BLOCKED"
  BY <1>2, <1>7, TurnsFewer
<1>8. CASE q = n
  BY <1>1, <1>8 DEF Same
<1>9. CASE q = [n EXCEPT !.prepared = TRUE] /\ ~r.prepared
  <2>1. q.cursor = r.cursor /\ q.prepared = TRUE /\ q.retries = r.retries
    BY <1>1, <1>9 DEF Rows
  <2>2. RoundsLeft(q) = RoundsLeft(r)
    BY <2>1 DEF RoundsLeft, RoundsOf
  <2>3. Way(q) < Way(r)
    BY <1>2, <1>9, <2>1 DEF Way
  <2>. QED
    BY <1>2, <2>2, <2>3, TurnsFewer
<1>10. CASE q = [n EXCEPT !.cursor = @ + 1]
  <2>1. q.cursor = r.cursor + 1 /\ q.prepared = r.prepared /\ q.retries = r.retries
    BY <1>1, <1>10 DEF Rows
  <2>2. RoundsLeft(q) = RoundsLeft(r)
    BY <2>1 DEF RoundsLeft, RoundsOf
  <2>3. Way(q) < Way(r)
    BY <1>2, <2>1 DEF Way
  <2>. QED
    BY <1>2, <2>2, <2>3, TurnsFewer
<1>11. CASE q = Failed(n, g, o) /\ g \in Verifiers /\ o \in {"fail", "outage", "critical"} \cup Stages
  <2>1. PICK f : f = Failed(n, g, o)
    OBVIOUS
  <2>2. /\ f.retries = [n.retries EXCEPT ![g] = Used(n, g, o)]
        /\ f.state = "BLOCKED" \/ Used(n, g, o) <= MaxRetry
    BY <1>1, <1>11, <2>1, FailedFacts
  <2>3. CASE o = "outage"
    <3>1. o \notin Ran
      BY <2>3, PipelineFacts, StageFacts
    <3>2. \A u : Escalates(o, u)
      BY <2>3, <3>1 DEF Escalates
    <3>3. q.state = "BLOCKED"
      BY <1>11, <3>2 DEF Failed, Block
    <3>. QED
      BY <3>3, <1>7
  <2>4. CASE o # "outage" /\ q.state # "BLOCKED"
    <3>1. Used(n, g, o) = r.retries[g] + 1
      BY <1>1, <2>4 DEF Used
    <3>2. q.retries = [r.retries EXCEPT ![g] = r.retries[g] + 1] /\ r.retries[g] + 1 <= MaxRetry
      BY <1>1, <1>11, <2>1, <2>2, <2>4, <3>1
    <3>3. RoundsLeft(q) < RoundsLeft(r)
      BY <3>2, <1>11, RoundSpent
    <3>. QED
      BY <3>3, <1>2, TurnsFewer
  <2>. QED
    BY <2>3, <2>4, <1>7
<1>12. CASE q = Questioned(n, o) /\ g = "uxui_designer"
  BY <1>6, <1>7, <1>12 DEF Questioned, Block
<1>13. CASE q = Block(n, r.state)
  BY <1>7, <1>13 DEF Block
<1>. QED
  BY <1>3, <1>4, <1>5, <1>8, <1>9, <1>10, <1>11, <1>12, <1>13


(* The steps left, as a number.                                             *)
LEMMA StepsCounted ==
    ASSUME NEW r \in Rows, NEW at \in Places
    PROVE  /\ StepsLeft(at, r) \in 0..(5 * TurnsBound + 5)
           /\ StepsLeft(at, r) = 0 <=> at = "idle"
           /\ at # "idle" => StepsLeft(at, r) > 5 * TurnsLeft(r) /\ StepsLeft(at, r) <= 5 * TurnsLeft(r) + 5
<1>1. PICK t, b \in Nat : t = TurnsLeft(r) /\ b = TurnsBound /\ t <= b
  <2>1. TurnsLeft(r) \in 0..TurnsBound /\ TurnsBound \in Int
    BY TurnsCounted, PipelineFacts DEF TurnsBound, WholeWay
  <2>2. TurnsLeft(r) \in Nat /\ TurnsBound \in Nat /\ TurnsLeft(r) <= TurnsBound
    BY <2>1
  <2>. QED
    BY <2>2
<1>2. StepsOfTurn(at, r) \in 1..5
  BY DEF StepsOfTurn
<1>3. StepsLeft(at, r) = IF at = "idle" THEN 0 ELSE 5 * t + StepsOfTurn(at, r)
  BY <1>1 DEF StepsLeft
<1>. QED
  BY <1>1, <1>2, <1>3

(* Fewer turns are fewer steps, and no more turns with a later step too.    *)
LEMMA StepsFewer ==
    ASSUME NEW q \in Rows, NEW r \in Rows, NEW to \in Places, NEW at \in Places, at # "idle"
    PROVE  /\ to = "idle" => StepsLeft(to, q) < StepsLeft(at, r)
           /\ TurnsLeft(q) < TurnsLeft(r) => StepsLeft(to, q) < StepsLeft(at, r)
           /\ TurnsLeft(q) <= TurnsLeft(r) /\ StepsOfTurn(to, q) < StepsOfTurn(at, r) =>
                 StepsLeft(to, q) < StepsLeft(at, r)
<1>1. PICK t, u \in Nat : t = TurnsLeft(r) /\ u = TurnsLeft(q)
  BY TurnsCounted
<1>2. StepsOfTurn(at, r) \in 1..5 /\ StepsOfTurn(to, q) \in 1..5
  BY DEF StepsOfTurn
<1>3. StepsLeft(at, r) = 5 * t + StepsOfTurn(at, r)
  BY <1>1 DEF StepsLeft
<1>4. StepsLeft(to, q) = IF to = "idle" THEN 0 ELSE 5 * u + StepsOfTurn(to, q)
  BY <1>1 DEF StepsLeft
<1>. QED
  BY <1>1, <1>2, <1>3, <1>4

(* A save of the driver leaves the steps of what it saved.                  *)
LEMMA SavedSteps ==
    ASSUME TypeInv, NEW r \in Rows, NEW next \in Places, NEW cause \in Causes, NEW facts \in Pasts,
           Save(Driver, r, next, cause, facts), facts.lost = past.lost
    PROVE  DriveLeft' = StepsLeft(next, r)
<1>1. pc'[Driver] = next /\ (next # "idle" => mem'[Driver] = r)
  BY PipelineFacts, SaveFacts
<1>2. DriveLeft' = StepsLeft(pc'[Driver], mem'[Driver])
  BY DEF DriveLeft, StepsLeft, TurnsLeft, StepsOfTurn, RoundsLeft, RoundsOf, Way, WholeWay
<1>. QED
  BY <1>1, <1>2 DEF StepsLeft

LEMMA ReportShortens ==
    ASSUME TypeInv, NEW o, Report(o), ~HandsBack(mem[Driver], o)
    PROVE  DriveLeft' < DriveLeft
<1>0. PICK m : m = mem[Driver]
  OBVIOUS
<1>1. PICK q : q = Settled(m, evidence, Stage(m), o)
  OBVIOUS
<1>2. /\ m \in Rows /\ AtWork(m) /\ o \in Outcomes(Stage(m)) /\ q \in Rows /\ asked \in Nat
      /\ evidence' = Witnessed(m, evidence, Stage(m), o)
      /\ Remembered(m, Stage(m), o) \in Pasts /\ ~HandsBack(m, o)
  BY <1>0, <1>1, ReportFacts, KnownTypes
<1>3. PICK x : x = Advanced(q, evidence')
  OBVIOUS
<1>4. x \in Rows /\ TurnsLeft(x) <= TurnsLeft(q)
  BY <1>2, <1>3, AdvancedFacts, WalkTurns
<1>5. PICK next : next = IF Running(x) /\ Stage(x) = Stage(m) THEN "idle" ELSE "loaded"
  OBVIOUS
<1>6. next \in Places /\ next \in {"idle", "loaded"}
  BY <1>5 DEF Places
<1>7. Save(Driver, x, next, IF o = "unavailable" THEN o ELSE "other", Remembered(m, Stage(m), o))
  BY <1>0, <1>1, <1>2, <1>3, <1>5 DEF Report
<1>8. (IF o = "unavailable" THEN o ELSE "other") \in Causes /\ Remembered(m, Stage(m), o).lost = past.lost
  <2>1. past \in Pasts
    BY KnownTypes
  <2>. QED
    BY <2>1 DEF Causes, Remembered, Pasts
<1>9. DriveLeft' = StepsLeft(next, x)
  <2>1. PICK cause : cause = IF o = "unavailable" THEN o ELSE "other"
    OBVIOUS
  <2>2. PICK facts : facts = Remembered(m, Stage(m), o)
    OBVIOUS
  <2>3. Save(Driver, x, next, cause, facts) /\ cause \in Causes /\ facts \in Pasts /\ facts.lost = past.lost
    BY <1>2, <1>7, <1>8, <2>1, <2>2
  <2>. QED
    BY <2>3, <1>4, <1>6, SavedSteps
<1>10. pc[Driver] = "running" /\ "running" \in Places /\ DriveLeft = StepsLeft("running", m)
  BY <1>0 DEF Report, Places, DriveLeft
<1>11. CASE Same(q, m)
  <2>1. Stage(q) = Stage(m) /\ AtWork(q) /\ Walks(q)
    BY <1>2, <1>11 DEF Same, Stage, AtWork, Assigned, Walks
  <2>2. x = q
    BY <1>2, <1>3, <2>1, WalkAgain
  <2>3. next = "idle"
    BY <1>5, <2>1, <2>2 DEF Running, AtWork
  <2>. QED
    BY <1>2, <1>4, <1>6, <1>9, <1>10, <2>3, StepsFewer
<1>12. CASE TurnsLeft(q) < TurnsLeft(m)
  <2>1. TurnsLeft(q) \in Int /\ TurnsLeft(m) \in Int /\ TurnsLeft(x) \in Int
    BY <1>2, <1>4, TurnsCounted
  <2>2. TurnsLeft(x) < TurnsLeft(m)
    BY <1>4, <1>12, <2>1
  <2>. QED
    BY <1>2, <1>4, <1>6, <1>9, <1>10, <2>2, StepsFewer
<1>13. Same(q, m) \/ TurnsLeft(q) < TurnsLeft(m)
  BY <1>1, <1>2, SettledTurns
<1>. QED
  BY <1>11, <1>12, <1>13


(* A step of the drive itself.                                              *)
LEMMA DriveTurns ==
    ASSUME TypeInv, Drive, ~Consults
    PROVE  DriveLeft' < DriveLeft
<1>0. PICK m : m = mem[Driver]
  OBVIOUS
<1>1. /\ Driver \in Processes /\ m \in Rows /\ asked \in Nat /\ past \in Pasts /\ "other" \in Causes
      /\ {"idle", "loaded", "polled", "assigned", "running"} \subseteq Places
  BY <1>0, PipelineFacts, KnownTypes DEF Causes, Places
<1>2. CASE Poll
  <2>1. pc[Driver] = "loaded" /\ DriveLeft = StepsLeft("loaded", m)
    BY <1>0, <1>2 DEF Poll, DriveLeft
  <2>2. \/ pc'[Driver] = "polled" /\ mem'[Driver] = m
        \/ pc'[Driver] = "idle" /\ mem'[Driver] = Fresh
    BY <1>0, <1>1, <1>2 DEF Poll, Leave, TypeInv, TypeOK
  <2>3. DriveLeft' = StepsLeft(pc'[Driver], mem'[Driver])
    BY DEF DriveLeft, StepsLeft, TurnsLeft, StepsOfTurn, RoundsLeft, RoundsOf, Way, WholeWay
  <2>4. StepsOfTurn("polled", m) < StepsOfTurn("loaded", m) /\ TurnsLeft(m) <= TurnsLeft(m)
    BY <1>1, TurnsCounted DEF StepsOfTurn
  <2>. QED
    BY <1>1, <2>1, <2>2, <2>3, <2>4, FreshFacts, StepsFewer
<1>3. CASE Advance
  <2>1. PICK next \in {"assigned", "idle"} : Save(Driver, Advanced(m, evidence), next, "other", past)
    BY <1>0, <1>3, AdvanceSaves
  <2>2. PICK a : a = Advanced(m, evidence)
    OBVIOUS
  <2>3. a \in Rows /\ TurnsLeft(a) <= TurnsLeft(m)
    BY <1>1, <2>2, AdvancedFacts, WalkTurns
  <2>4. DriveLeft' = StepsLeft(next, a)
    BY <1>1, <2>1, <2>2, <2>3, SavedSteps
  <2>5. pc[Driver] = "polled" /\ DriveLeft = StepsLeft("polled", m)
    BY <1>0, <1>3 DEF Advance, DriveLeft
  <2>6. StepsOfTurn("assigned", a) < StepsOfTurn("polled", m)
    BY DEF StepsOfTurn
  <2>. QED
    BY <1>1, <2>1, <2>3, <2>4, <2>5, <2>6, StepsFewer
<1>4. CASE Dispatch
  <2>1. PICK r \in Rows, facts \in Pasts :
          /\ Save(Driver, r, "running", "other", facts) /\ facts.lost = past.lost
          /\ r.state = m.state /\ r.cursor = m.cursor /\ r.retries = m.retries /\ r.prepared = m.prepared
    BY <1>0, <1>4, DispatchSaves
  <2>2. TurnsLeft(r) = TurnsLeft(m)
    BY <2>1 DEF TurnsLeft, RoundsLeft, RoundsOf, Way
  <2>3. TurnsLeft(r) <= TurnsLeft(m)
    BY <1>1, <2>2, TurnsCounted
  <2>4. DriveLeft' = StepsLeft("running", r)
    BY <1>1, <2>1, SavedSteps
  <2>5. pc[Driver] = "assigned" /\ DriveLeft = StepsLeft("assigned", m)
    BY <1>0, <1>4 DEF Dispatch, DriveLeft
  <2>6. StepsOfTurn("running", r) < StepsOfTurn("assigned", m)
    BY DEF StepsOfTurn
  <2>. QED
    BY <1>1, <2>3, <2>4, <2>5, <2>6, StepsFewer
<1>5. CASE RecordDispatch
  <2>1. PICK r \in Rows :
          /\ Save(Driver, r, "running", "other", past) /\ r.inflight # "none"
          /\ r.state = m.state /\ r.cursor = m.cursor /\ r.retries = m.retries /\ r.prepared = m.prepared
    BY <1>0, <1>5, RecordDispatchSaves
  <2>2. TurnsLeft(r) = TurnsLeft(m)
    BY <2>1 DEF TurnsLeft, RoundsLeft, RoundsOf, Way
  <2>3. TurnsLeft(r) <= TurnsLeft(m)
    BY <1>1, <2>2, TurnsCounted
  <2>4. DriveLeft' = StepsLeft("running", r)
    BY <1>1, <2>1, SavedSteps
  <2>5. pc[Driver] = "running" /\ m.inflight = "none" /\ DriveLeft = StepsLeft("running", m)
    BY <1>0, <1>5 DEF RecordDispatch, DriveLeft
  <2>6. StepsOfTurn("running", r) < StepsOfTurn("running", m)
    BY <2>1, <2>5 DEF StepsOfTurn
  <2>. QED
    BY <1>1, <2>3, <2>4, <2>5, <2>6, StepsFewer
<1>6. CASE \E o \in Outcomes(Stage(mem[Driver])) : Report(o)
  BY <1>6, ReportShortens DEF Consults
<1>. QED
  BY <1>2, <1>3, <1>4, <1>5, <1>6 DEF Drive

(* What anybody else does leaves the drive as many steps as it had.         *)
LEMMA OthersTurns ==
    ASSUME TypeInv, [Next]_vars, ~Drive, ~Load(Driver)
    PROVE  DriveLeft' <= DriveLeft
<1>0. /\ Driver \in Processes /\ mem[Driver] \in Rows /\ past \in Pasts /\ "other" \in Causes
      /\ pc[Driver] \in Places /\ "idle" \in Places
  BY PipelineFacts, KnownTypes DEF Causes, Places, TypeInv, TypeOK
<1>1. DriveLeft' = StepsLeft(pc'[Driver], mem'[Driver])
  BY DEF DriveLeft, StepsLeft, TurnsLeft, StepsOfTurn, RoundsLeft, RoundsOf, Way, WholeWay
<1>2. DriveLeft = StepsLeft(pc[Driver], mem[Driver]) /\ DriveLeft \in Int
  <2>1. DriveLeft = StepsLeft(pc[Driver], mem[Driver])
    BY DEF DriveLeft
  <2>2. StepsLeft(pc[Driver], mem[Driver]) \in Int
    BY <1>0, StepsCounted
  <2>. QED
    BY <2>1, <2>2
<1>3. CASE pc'[Driver] = pc[Driver] /\ mem'[Driver] = mem[Driver]
  <2>1. DriveLeft' = DriveLeft
    BY <1>1, <1>2, <1>3
  <2>. QED
    BY <1>2, <2>1
<1>4. CASE UNCHANGED vars
  BY <1>3, <1>4 DEF vars
<1>5. ASSUME NEW p \in Processes, Load(p) \/ Leave(p), p # Driver PROVE DriveLeft' <= DriveLeft
  BY <1>0, <1>3, <1>5 DEF Load, Leave, TypeInv, TypeOK
<1>6. CASE Leave(Driver)
  <2>1. pc'[Driver] = "idle" /\ pc[Driver] # "idle" /\ mem'[Driver] = Fresh
    BY <1>0, <1>6 DEF Leave, TypeInv, TypeOK
  <2>2. StepsLeft("idle", Fresh) < StepsLeft(pc[Driver], mem[Driver]) /\ StepsLeft("idle", Fresh) \in Int
    BY <1>0, <2>1, FreshFacts, StepsFewer, StepsCounted
  <2>. QED
    BY <1>1, <1>2, <2>1, <2>2
<1>7. ASSUME NEW h \in Hands, Handle(h) PROVE DriveLeft' <= DriveLeft
  <2>1. PICK r \in Rows, next \in Places, facts \in Pasts : Handed(h, r, next, facts)
    BY <1>7, HandFacts
  <2>2. h \in Processes /\ h # Driver /\ Save(h, r, next, "other", facts) /\ facts.lost = past.lost
    BY <2>1, <1>7, HandFacts DEF Handed
  <2>3. mem'[Driver] = mem[Driver] /\ pc'[Driver] = pc[Driver]
    BY <2>2, <1>0, SaveFacts
  <2>. QED
    BY <1>3, <2>3
<1>. QED
  BY <1>4, <1>5, <1>6, <1>7 DEF Next

(* What keeps a drive from going on for ever (driveTask's loop,             *)
(* engine/taskRunService.ts, with the routing of orchestrator.ts): the      *)
(* steps it has left are bounded by the pipeline and the budget of rounds,  *)
(* are none just when it has ended, and every step of it leaves fewer,      *)
(* whatever its executors answer and whoever writes the row meanwhile; only *)
(* a new drive has more.  The one exception is the consultant's question    *)
(* handed back to an analyst or planner (orchestrator.ts:1922), which       *)
(* spends nothing: without a consultant no drive is endless.                *)
THEOREM DriveShortens ==
    Spec => /\ [](DriveLeft \in 0..(5 * TurnsBound + 5) /\ (DriveLeft = 0 <=> pc[Driver] = "idle"))
            /\ [][/\ Drive /\ ~Consults => DriveLeft' < DriveLeft
                  /\ DriveLeft' <= DriveLeft \/ Load(Driver) \/ Consults]_vars
            /\ [][Consults => "uxui_designer" \in Ran]_vars
<1>1. TypeInv => DriveLeft \in 0..(5 * TurnsBound + 5) /\ (DriveLeft = 0 <=> pc[Driver] = "idle")
  <2>. SUFFICES ASSUME TypeInv
                PROVE  DriveLeft \in 0..(5 * TurnsBound + 5) /\ (DriveLeft = 0 <=> pc[Driver] = "idle")
    OBVIOUS
  <2>1. mem[Driver] \in Rows /\ pc[Driver] \in Places
    BY PipelineFacts, KnownTypes DEF Places, TypeInv, TypeOK
  <2>. QED
    BY <2>1, StepsCounted DEF DriveLeft
<1>2. TypeInv /\ [Next]_vars => /\ Drive /\ ~Consults => DriveLeft' < DriveLeft
                                /\ DriveLeft' <= DriveLeft \/ Load(Driver) \/ Consults
  <2>. SUFFICES ASSUME TypeInv, [Next]_vars
                PROVE  /\ Drive /\ ~Consults => DriveLeft' < DriveLeft
                       /\ DriveLeft' <= DriveLeft \/ Load(Driver) \/ Consults
    OBVIOUS
  <2>1. DriveLeft \in Int /\ DriveLeft' \in Int
    <3>1. TypeInv'
      BY NextTypes
    <3>2. (TypeInv => DriveLeft \in 0..(5 * TurnsBound + 5))'
      BY <1>1, PTL
    <3>3. TurnsBound' = TurnsBound
      BY DEF TurnsBound, WholeWay
    <3>. QED
      BY <1>1, <3>1, <3>2, <3>3
  <2>2. Drive /\ ~Consults => DriveLeft' < DriveLeft
    BY DriveTurns
  <2>3. ~Drive => DriveLeft' <= DriveLeft \/ Load(Driver)
    BY OthersTurns
  <2>. QED
    BY <2>1, <2>2, <2>3
<1>3. TypeInv /\ [Next]_vars => (Consults => "uxui_designer" \in Ran)
  <2>. SUFFICES ASSUME TypeInv, Consults PROVE "uxui_designer" \in Ran
    OBVIOUS
  <2>1. PICK o : HandsBack(mem[Driver], o) /\ Report(o)
    BY DEF Consults
  <2>2. mem[Driver] \in Rows /\ AtWork(mem[Driver])
    BY <2>1, ReportSaves
  <2>. QED
    BY <2>1, <2>2, AtWorkFacts DEF HandsBack
<1>4. Spec => []TypeInv
  BY InitTypes, NextTypes, PTL DEF Spec
<1>. QED
  BY <1>1, <1>2, <1>3, <1>4, PTL DEF Spec
=============================================================================
