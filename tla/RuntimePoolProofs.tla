--------------------------- MODULE RuntimePoolProofs ---------------------------
(***************************************************************************)
(* Proofs about RuntimePool, for any number of runtimes, work runs, stages *)
(* and tests.                                                              *)
(***************************************************************************)
EXTENDS RuntimePool, FiniteSetTheorems, WellFoundedInduction, TLAPS

Turns == [step: Steps, role: Roles \cup {None}, at: Runtimes \cup {None}, tried: SUBSET Runtimes,
          rest: SUBSET Runtimes, class: Failures \cup {None}, read: 0 .. TimeoutLimit - 1]
Rows == [timeouts: 0 .. TimeoutLimit - 1, left: Nat]

\* a process that runs or records does so on a runtime, and does not keep it for a hop
Sound ==
    \A p \in Processes :
        proc[p].step \in {"running", "record"} => proc[p].at \in Runtimes /\ proc[p].at \notin proc[p].rest

TypeInv == TypeOK /\ Sound

-----------------------------------------------------------------------------
(* What the steps write *)

LEMMA TurnTypes ==
    ASSUME PoolAssumption, NEW tried \in SUBSET Runtimes
    PROVE  /\ Walking(tried) \in Turns
           /\ \A step \in Steps : Resting(step) \in Turns
           /\ Healthy \in Rows
BY DEF Walking, Resting, Turns, Rows, Healthy, PoolAssumption, Steps, Failures

\* a process goes on to a turn of its own, the others stay
LEMMA Gone ==
    ASSUME TypeInv, NEW p \in Processes, NEW q \in Turns, Goto(p, q),
           q.step \in {"running", "record"} => q.at \in Runtimes /\ q.at \notin q.rest
    PROVE  /\ proc' \in [Processes -> Turns]
           /\ Sound'
           /\ proc'[p] = q
           /\ \A o \in Processes \ {p} : proc'[o] = proc[o]
<1>1. proc \in [Processes -> Turns]
  BY DEF TypeInv, TypeOK, Turns
<1>2. proc' \in [Processes -> Turns] /\ proc'[p] = q /\ \A o \in Processes \ {p} : proc'[o] = proc[o]
  BY <1>1 DEF Goto
<1>3. Sound'
  <2> SUFFICES ASSUME NEW o \in Processes, proc'[o].step \in {"running", "record"}
               PROVE  proc'[o].at \in Runtimes /\ proc'[o].at \notin proc'[o].rest
    BY DEF Sound
  <2>1. CASE o = p
    BY <1>2, <2>1
  <2>2. CASE o # p
    <3>1. proc'[o] = proc[o]
      BY <1>2, <2>2
    <3> QED
      BY <3>1 DEF TypeInv, Sound
  <2> QED
    BY <2>1, <2>2
<1> QED
  BY <1>2, <1>3

LEMMA TurnGone ==
    ASSUME TypeInv, PoolAssumption, NEW p \in Processes, NEW role \in Roles \cup {None}, NEW r \in Runtimes,
           NEW tried \in SUBSET Runtimes, NEW rest \in SUBSET Runtimes, r \notin rest, Turn(p, role, r, tried, rest)
    PROVE  /\ proc' \in [Processes -> Turns]
           /\ Sound'
           /\ proc'[p].step = "running" /\ proc'[p].role = role /\ proc'[p].at = r /\ proc'[p].rest = rest
           /\ \A o \in Processes \ {p} : proc'[o] = proc[o]
<1> DEFINE q == [step |-> "running", role |-> role, at |-> r, tried |-> tried, rest |-> rest, class |-> None, read |-> 0]
<1>1. q \in Turns
  BY DEF Turns, PoolAssumption, Steps, Failures
<1>2. Goto(p, q)
  BY DEF Turn
<1>3. q.step = "running" /\ q.role = role /\ q.at = r /\ q.rest = rest
  OBVIOUS
<1> HIDE DEF q
<1>4. /\ proc' \in [Processes -> Turns]
      /\ Sound'
      /\ proc'[p] = q
      /\ \A o \in Processes \ {p} : proc'[o] = proc[o]
  BY <1>1, <1>2, <1>3, Gone
<1> QED
  BY <1>3, <1>4

LEMMA RestGone ==
    ASSUME TypeInv, PoolAssumption, NEW p \in Processes, NEW step \in Steps \ {"running", "record"}, Goto(p, Resting(step))
    PROVE  /\ proc' \in [Processes -> Turns]
           /\ Sound'
           /\ proc'[p].step = step
           /\ \A o \in Processes \ {p} : proc'[o] = proc[o]
<1>1. Resting(step) \in Turns
  BY TurnTypes
<1>2. Resting(step).step = step
  BY DEF Resting
<1> QED
  BY <1>1, <1>2, Gone

LEMMA WalkGone ==
    ASSUME TypeInv, PoolAssumption, NEW p \in Processes, NEW tried \in SUBSET Runtimes, Goto(p, Walking(tried))
    PROVE  /\ proc' \in [Processes -> Turns]
           /\ Sound'
           /\ proc'[p].step = "choose"
           /\ \A o \in Processes \ {p} : proc'[o] = proc[o]
<1>1. Walking(tried) \in Turns
  BY TurnTypes
<1>2. Walking(tried).step = "choose"
  BY DEF Walking
<1> QED
  BY <1>1, <1>2, Gone

\* a row is written, the others stay
LEMMA Written ==
    ASSUME TypeInv, NEW r \in Runtimes, NEW row \in Rows, NEW n \in Nat, NEW others \in SUBSET Processes,
           Write(r, row, n, others)
    PROVE  /\ health' \in [Runtimes -> Rows] /\ streak' \in [Runtimes -> Nat] /\ under' \in [Runtimes -> SUBSET Processes]
           /\ health'[r] = row /\ streak'[r] = n /\ under'[r] = others
           /\ \A s \in Runtimes \ {r} : health'[s] = health[s] /\ streak'[s] = streak[s] /\ under'[s] = under[s]
<1>1. health \in [Runtimes -> Rows] /\ streak \in [Runtimes -> Nat] /\ under \in [Runtimes -> SUBSET Processes]
  BY DEF TypeInv, TypeOK, Rows
<1> QED
  BY <1>1 DEF Write

LEMMA AskGone ==
    ASSUME TypeInv, PoolAssumption, NEW p \in Processes, NEW role \in Roles \cup {None}, NEW rs \in SUBSET Runtimes,
           Ask(p, role, rs)
    PROVE  /\ proc' \in [Processes -> Turns]
           /\ Sound'
           /\ proc'[p].step = "running" /\ proc'[p].role = role /\ proc'[p].at \in rs /\ proc'[p].rest \subseteq rs
           /\ \A o \in Processes \ {p} : proc'[o] = proc[o]
<1>1. PICK r \in rs : \E rest \in {{}, rs \ {r}} : Turn(p, role, r, {}, rest)
  BY DEF Ask
<1>4. PICK rest \in {{}, rs \ {r}} : Turn(p, role, r, {}, rest)
  BY <1>1
<1>2. r \in Runtimes /\ rest \in SUBSET Runtimes /\ rest \subseteq rs /\ r \notin rest /\ {} \in SUBSET Runtimes
  OBVIOUS
<1>3. /\ proc' \in [Processes -> Turns]
      /\ Sound'
      /\ proc'[p].step = "running" /\ proc'[p].role = role /\ proc'[p].at = r /\ proc'[p].rest = rest
      /\ \A o \in Processes \ {p} : proc'[o] = proc[o]
  BY <1>2, <1>4, TurnGone
<1> QED
  BY <1>2, <1>3

LEMMA DispatchGone ==
    ASSUME TypeInv, PoolAssumption, NEW s \in Stages, Dispatch(s)
    PROVE  /\ proc' \in [Processes -> Turns]
           /\ Sound'
           /\ s \in Processes /\ \A o \in Processes \ {s} : proc'[o] = proc[o]
           /\ proc'[s].step = "running"
           /\ \E role \in Roles : /\ proc'[s].role = role
                                  /\ proc'[s].at \in Routed(role) /\ proc'[s].rest \subseteq Routed(role)
           /\ UNCHANGED <<health, wait, streak, under>>
<1>1. PICK role \in Roles : Ask(s, role, Routed(role))
  BY DEF Dispatch
<1>2. s \in Processes /\ role \in Roles \cup {None} /\ Routed(role) \in SUBSET Runtimes
  BY DEF Processes, Routed, Usable, Range, PoolAssumption
<1>3. /\ proc' \in [Processes -> Turns]
      /\ Sound'
      /\ proc'[s].step = "running" /\ proc'[s].role = role
      /\ proc'[s].at \in Routed(role) /\ proc'[s].rest \subseteq Routed(role)
      /\ \A o \in Processes \ {s} : proc'[o] = proc[o]
  BY <1>1, <1>2, AskGone
<1> QED
  BY <1>2, <1>3 DEF Dispatch

LEMMA OverGone ==
    ASSUME TypeInv, PoolAssumption, NEW p \in Processes, Over(p)
    PROVE  /\ proc' \in [Processes -> Turns]
           /\ Sound'
           /\ proc'[p].step \in {"idle", "check"}
           /\ \A o \in Processes \ {p} : proc'[o] = proc[o]
<1>1. PICK step \in {"idle", "check"} : Goto(p, Resting(step))
  BY DEF Over
<1>2. step \in Steps \ {"running", "record"}
  BY DEF Steps
<1> QED
  BY <1>1, <1>2, RestGone

\* after a failure a process is done with the runtime, or asks one of those it kept
LEMMA AfterGone ==
    ASSUME TypeInv, PoolAssumption, NEW p \in Processes, At(p, "record"), AfterFailure(p)
    PROVE  /\ proc' \in [Processes -> Turns]
           /\ Sound'
           /\ \A o \in Processes \ {p} : proc'[o] = proc[o]
           /\ proc'[p].step # "record"
           /\ proc'[p].step = "running" => /\ proc'[p].at \in proc[p].rest /\ proc'[p].rest \subseteq proc[p].rest
                                           /\ proc'[p].role = proc[p].role
<1>1. proc[p] \in Turns /\ proc[p].at \in Runtimes
  BY DEF TypeInv, TypeOK, Turns, Sound, At
<1>2. /\ proc[p].tried \cup {proc[p].at} \in SUBSET Runtimes /\ proc[p].rest \in SUBSET Runtimes
      /\ proc[p].role \in Roles \cup {None}
  BY <1>1 DEF Turns
<1>3. CASE Goto(p, Walking(proc[p].tried \cup {proc[p].at}))
  BY <1>2, <1>3, WalkGone
<1>4. CASE Ask(p, proc[p].role, proc[p].rest)
  BY <1>2, <1>4, AskGone
<1>5. CASE Goto(p, Resting("idle"))
  <2>1. "idle" \in Steps \ {"running", "record"}
    BY DEF Steps
  <2> QED
    BY <2>1, <1>5, RestGone
<1> QED
  BY <1>3, <1>4, <1>5 DEF AfterFailure, StageAfterFailure

-----------------------------------------------------------------------------
(* Types *)

LEMMA InitTypes == ASSUME PoolAssumption, Init PROVE TypeInv
<1>1. {} \in SUBSET Runtimes
  OBVIOUS
<1>2. Healthy \in Rows /\ Resting("idle") \in Turns
  BY <1>1, TurnTypes DEF Steps
<1>3. TypeOK
  BY <1>2 DEF Init, TypeOK, Turns, Rows
<1>4. Sound
  BY DEF Init, Sound, Resting
<1> QED
  BY <1>3, <1>4 DEF TypeInv

\* TypeOK from its parts
LEMMA Types ==
    ASSUME proc' \in [Processes -> Turns], Sound', health' \in [Runtimes -> Rows],
           wait' \in [Consults -> Nat \cup {None}], streak' \in [Runtimes -> Nat], under' \in [Runtimes -> SUBSET Processes]
    PROVE  TypeInv'
BY DEF TypeInv, TypeOK, Turns, Rows

\* the processes step, the rows stay
LEMMA ProcTypes ==
    ASSUME TypeInv, proc' \in [Processes -> Turns], Sound', UNCHANGED <<health, streak, under>>,
           wait' \in [Consults -> Nat \cup {None}]
    PROVE  TypeInv'
<1>1. health \in [Runtimes -> Rows] /\ streak \in [Runtimes -> Nat] /\ under \in [Runtimes -> SUBSET Processes]
  BY DEF TypeInv, TypeOK, Rows
<1> QED
  BY <1>1, Types

LEMMA WaitTypes == ASSUME TypeInv PROVE wait \in [Consults -> Nat \cup {None}]
BY DEF TypeInv, TypeOK

LEMMA PauseTypes ==
    ASSUME TypeInv, PoolAssumption, NEW w \in Consults, NEW n \in Times, PauseExhausted(w, n)
    PROVE  /\ proc' \in [Processes -> Turns]
           /\ Sound'
           /\ proc'[w].step = "paused"
           /\ \A o \in Processes \ {w} : proc'[o] = proc[o]
           /\ wait' \in [Consults -> Nat \cup {None}]
<1>1. n \in Nat \cup {None}
  BY DEF Times, TypeInv, TypeOK
<1>2. wait' \in [Consults -> Nat \cup {None}]
  BY <1>1, WaitTypes DEF PauseExhausted
<1>3. w \in Processes /\ "paused" \in Steps \ {"running", "record"} /\ Goto(w, Resting("paused"))
  BY DEF Processes, Steps, PauseExhausted
<1> QED
  BY <1>2, <1>3, RestGone

\* what the Commander's walk does to a work run
LEMMA ChooseGone ==
    ASSUME TypeInv, PoolAssumption, NEW w \in Consults, Choose(w)
    PROVE  /\ proc' \in [Processes -> Turns]
           /\ Sound'
           /\ wait' \in [Consults -> Nat \cup {None}]
           /\ \A o \in Processes \ {w} : proc'[o] = proc[o]
           /\ \/ proc'[w].step = "running" /\ ~Cooling(proc'[w].at) /\ proc'[w].rest = {}
              \/ proc'[w].step = "paused"
<1>1. w \in Processes /\ proc[w] \in Turns
  BY DEF Processes, TypeInv, TypeOK, Turns
<1> DEFINE usable == Usable(Candidates, proc[w].tried)
<1>2. CASE /\ \E r \in usable : First(r, Candidates, usable) /\ Turn(w, None, r, proc[w].tried, {})
           /\ UNCHANGED wait
  <2>1. PICK r \in usable : Turn(w, None, r, proc[w].tried, {})
    BY <1>2
  <2>2. Range(Candidates) \subseteq Runtimes
    BY DEF Candidates, PoolAssumption, Range
  <2>3. r \in Runtimes /\ ~Cooling(r)
    BY <2>2 DEF Usable
  <2>4. proc[w].tried \in SUBSET Runtimes /\ {} \in SUBSET Runtimes /\ r \notin {}
    BY <1>1 DEF Turns
  <2>5. /\ proc' \in [Processes -> Turns]
        /\ Sound'
        /\ proc'[w].step = "running" /\ proc'[w].at = r /\ proc'[w].rest = {}
        /\ \A o \in Processes \ {w} : proc'[o] = proc[o]
    BY <1>1, <2>1, <2>3, <2>4, TurnGone
  <2> QED
    BY <2>3, <2>5, <1>2, WaitTypes
<1>3. CASE \E n \in Times : WalkRecovery(n, proc[w].tried) /\ PauseExhausted(w, n)
  BY <1>3, PauseTypes
<1> QED
  BY <1>2, <1>3 DEF Choose

LEMMA CheckGone ==
    ASSUME TypeInv, PoolAssumption, NEW w \in Consults, PoolCheck(w)
    PROVE  /\ proc' \in [Processes -> Turns]
           /\ Sound'
           /\ wait' \in [Consults -> Nat \cup {None}]
           /\ \A o \in Processes \ {w} : proc'[o] = proc[o]
           /\ proc'[w].step \in {"idle", "paused"}
<1>1. w \in Processes /\ "idle" \in Steps \ {"running", "record"}
  BY DEF Processes, Steps
<1>2. CASE Goto(w, Resting("idle")) /\ UNCHANGED wait
  BY <1>1, <1>2, RestGone, WaitTypes
<1>3. CASE \E n \in Times : PauseExhausted(w, n)
  BY <1>3, PauseTypes
<1> QED
  BY <1>2, <1>3 DEF PoolCheck

LEMMA ResumeGone ==
    ASSUME TypeInv, PoolAssumption, NEW w \in Consults, Resumed(w)
    PROVE  /\ proc' \in [Processes -> Turns]
           /\ Sound'
           /\ wait' \in [Consults -> Nat \cup {None}]
           /\ \A o \in Processes \ {w} : proc'[o] = proc[o]
           /\ proc'[w].step \in {"choose", "check"}
<1>1. w \in Processes /\ "check" \in Steps \ {"running", "record"} /\ {} \in SUBSET Runtimes
  BY DEF Processes, Steps
<1>2. wait' \in [Consults -> Nat \cup {None}]
  BY WaitTypes DEF Resumed
<1>3. CASE Goto(w, Walking({}))
  BY <1>1, <1>2, <1>3, WalkGone
<1>4. CASE Goto(w, Resting("check"))
  BY <1>1, <1>2, <1>4, RestGone
<1> QED
  BY <1>3, <1>4 DEF Resumed

LEMMA FailGone ==
    ASSUME TypeInv, PoolAssumption, NEW p \in Processes, NEW class \in Failures, RuntimeFails(p, class)
    PROVE  /\ proc' \in [Processes -> Turns]
           /\ Sound'
           /\ \A o \in Processes \ {p} : proc'[o] = proc[o]
           /\ proc'[p].step = "record" /\ proc'[p].at = proc[p].at /\ proc'[p].rest = proc[p].rest
           /\ proc'[p].role = proc[p].role /\ proc'[p].class = class
           /\ proc'[p].read = IF class = "TIMEOUT" THEN health[proc[p].at].timeouts ELSE 0
<1>1. proc[p] \in Turns /\ proc[p].at \in Runtimes /\ proc[p].at \notin proc[p].rest
  BY DEF RuntimeFails, At, TypeInv, TypeOK, Turns, Sound
<1> DEFINE read == IF class = "TIMEOUT" THEN health[proc[p].at].timeouts ELSE 0
           q == [step |-> "record", role |-> proc[p].role, at |-> proc[p].at, tried |-> proc[p].tried,
                 rest |-> proc[p].rest, class |-> class, read |-> read]
<1>2. read \in 0 .. TimeoutLimit - 1
  <2>1. TimeoutLimit \in Nat \ {0}
    BY DEF PoolAssumption
  <2>2. health[proc[p].at].timeouts \in 0 .. TimeoutLimit - 1
    BY <1>1 DEF TypeInv, TypeOK
  <2> QED
    BY <2>1, <2>2
<1>3. Goto(p, q)
  BY DEF RuntimeFails
<1> HIDE DEF read
<1>4. q \in Turns
  BY <1>1, <1>2 DEF Turns, Steps
<1>5. /\ q.step = "record" /\ q.at = proc[p].at /\ q.rest = proc[p].rest /\ q.class = class /\ q.read = read
      /\ q.role = proc[p].role
  OBVIOUS
<1> HIDE DEF q
<1>6. /\ proc' \in [Processes -> Turns]
      /\ Sound'
      /\ proc'[p] = q
      /\ \A o \in Processes \ {p} : proc'[o] = proc[o]
  BY <1>1, <1>3, <1>4, <1>5, Gone
<1> QED
  BY <1>5, <1>6 DEF read

\* what recordFailure leaves in the row, and in no other
LEMMA RecordWritten ==
    ASSUME TypeInv, PoolAssumption, NEW p \in Processes, At(p, "record"), Recorded(p)
    PROVE  LET r == proc[p].at
           IN  /\ health' \in [Runtimes -> Rows] /\ streak' \in [Runtimes -> Nat]
               /\ under' \in [Runtimes -> SUBSET Processes]
               /\ \A s \in Runtimes \ {r} : health'[s] = health[s] /\ streak'[s] = streak[s] /\ under'[s] = under[s]
               /\ \/ /\ proc[p].class = "TIMEOUT" /\ proc[p].read + 1 < TimeoutLimit
                     /\ health'[r].timeouts = proc[p].read + 1 /\ health'[r].left = 0
                     /\ streak'[r] = streak[r] + 1
                  \/ /\ health'[r].timeouts = 0 /\ streak'[r] = 0 /\ under'[r] = Bound(r, p)
<1> DEFINE r == proc[p].at
           timeouts == proc[p].read + 1
<1>1. r \in Runtimes /\ proc[p].read \in 0 .. TimeoutLimit - 1
  BY DEF TypeInv, TypeOK, Sound, At
<1>2. TimeoutLimit \in Nat \ {0} /\ Cooldowns \subseteq Nat /\ streak[r] \in Nat
  BY <1>1 DEF PoolAssumption, TypeInv, TypeOK
<1>3. CASE /\ proc[p].class = "TIMEOUT" /\ timeouts < TimeoutLimit
           /\ Write(r, [timeouts |-> timeouts, left |-> 0], streak[r] + 1, {})
  <2> DEFINE row == [timeouts |-> timeouts, left |-> 0]
  <2>1. timeouts \in 0 .. TimeoutLimit - 1 /\ streak[r] + 1 \in Nat
    BY <1>1, <1>2, <1>3
  <2>2. row \in Rows /\ {} \in SUBSET Processes /\ row.timeouts = timeouts /\ row.left = 0
    BY <2>1 DEF Rows
  <2>3. Write(r, row, streak[r] + 1, {})
    BY <1>3
  <2> HIDE DEF row, r, timeouts
  <2>4. /\ health' \in [Runtimes -> Rows] /\ streak' \in [Runtimes -> Nat] /\ under' \in [Runtimes -> SUBSET Processes]
        /\ health'[r] = row /\ streak'[r] = streak[r] + 1
        /\ \A s \in Runtimes \ {r} : health'[s] = health[s] /\ streak'[s] = streak[s] /\ under'[s] = under[s]
    BY <1>1, <2>1, <2>2, <2>3, Written
  <2> QED
    BY <2>2, <2>4, <1>3 DEF r, timeouts
<1>4. CASE \E n \in Cooldowns : Write(r, [timeouts |-> 0, left |-> n], 0, Bound(r, p))
  <2>1. PICK n \in Cooldowns : Write(r, [timeouts |-> 0, left |-> n], 0, Bound(r, p))
    BY <1>4
  <2> DEFINE row == [timeouts |-> 0, left |-> n]
  <2>2. row \in Rows /\ row.timeouts = 0 /\ 0 \in Nat
    BY <1>2 DEF Rows
  <2>3. Bound(r, p) \in SUBSET Processes
    BY DEF Bound, Processes
  <2>4. Write(r, row, 0, Bound(r, p))
    BY <2>1
  <2> HIDE DEF row, r
  <2>5. /\ health' \in [Runtimes -> Rows] /\ streak' \in [Runtimes -> Nat] /\ under' \in [Runtimes -> SUBSET Processes]
        /\ health'[r] = row /\ streak'[r] = 0 /\ under'[r] = Bound(r, p)
        /\ \A s \in Runtimes \ {r} : health'[s] = health[s] /\ streak'[s] = streak[s] /\ under'[s] = under[s]
    BY <1>1, <2>2, <2>3, <2>4, Written
  <2> QED
    BY <2>2, <2>5 DEF r
<1> QED
  BY <1>3, <1>4 DEF Recorded

\* a success and a person's word leave a healthy row
LEMMA HealedRow ==
    ASSUME TypeInv, PoolAssumption, NEW r \in Runtimes, Write(r, Healthy, 0, {})
    PROVE  /\ health' \in [Runtimes -> Rows] /\ streak' \in [Runtimes -> Nat] /\ under' \in [Runtimes -> SUBSET Processes]
           /\ health'[r].left = 0 /\ streak'[r] = 0
           /\ \A s \in Runtimes \ {r} : health'[s] = health[s] /\ streak'[s] = streak[s] /\ under'[s] = under[s]
<1>1. {} \in SUBSET Runtimes /\ {} \in SUBSET Processes /\ 0 \in Nat
  OBVIOUS
<1>2. Healthy \in Rows
  BY <1>1, TurnTypes
<1>3. Healthy.left = 0
  BY DEF Healthy
<1>4. /\ health' \in [Runtimes -> Rows] /\ streak' \in [Runtimes -> Nat] /\ under' \in [Runtimes -> SUBSET Processes]
      /\ health'[r] = Healthy /\ streak'[r] = 0
      /\ \A s \in Runtimes \ {r} : health'[s] = health[s] /\ streak'[s] = streak[s] /\ under'[s] = under[s]
  BY <1>1, <1>2, Written
<1> QED
  BY <1>3, <1>4

LEMMA TickTypes ==
    ASSUME TypeInv, PoolAssumption, Tick
    PROVE  /\ TypeInv'
           /\ \A r \in Runtimes : health'[r].timeouts = health[r].timeouts /\ streak'[r] = streak[r]
           /\ \A r \in Runtimes : health'[r].left > 0 => health[r].left > 0 /\ under'[r] = under[r]
<1>1. \A n \in Nat \cup {None} : Elapsed(n) \in Nat \cup {None} /\ (n \in Nat => Elapsed(n) \in Nat)
  BY DEF Elapsed
<1>2. wait' \in [Consults -> Nat \cup {None}]
  BY <1>1, WaitTypes DEF Tick
<1>3. /\ health \in [Runtimes -> Rows] /\ streak \in [Runtimes -> Nat] /\ under \in [Runtimes -> SUBSET Processes]
      /\ proc \in [Processes -> Turns] /\ Sound
  BY DEF TypeInv, TypeOK, Rows, Turns
<1>4. ASSUME NEW r \in Runtimes
      PROVE  health[r].timeouts \in 0 .. TimeoutLimit - 1 /\ Elapsed(health[r].left) \in Nat
  <2>1. health[r].timeouts \in 0 .. TimeoutLimit - 1 /\ health[r].left \in Nat
    BY <1>3 DEF Rows
  <2> QED
    BY <1>1, <2>1
<1>5. health' \in [Runtimes -> Rows]
  BY <1>4 DEF Tick, Rows
<1>6. under' \in [Runtimes -> SUBSET Processes]
  BY <1>3 DEF Tick
<1>7. TypeInv'
  <2>1. proc' = proc /\ streak' = streak
    BY DEF Tick
  <2>2. Sound'
    BY <1>3, <2>1 DEF Sound
  <2> QED
    BY <1>2, <1>3, <1>5, <1>6, <2>1, <2>2, Types
<1>8. ASSUME NEW r \in Runtimes
      PROVE  /\ health'[r].timeouts = health[r].timeouts /\ streak'[r] = streak[r]
             /\ health'[r].left > 0 => health[r].left > 0 /\ under'[r] = under[r]
  <2>1. health'[r].timeouts = health[r].timeouts /\ health'[r].left = Elapsed(health[r].left) /\ streak' = streak
    BY DEF Tick
  <2>2. under'[r] = IF health'[r].left = 0 THEN {} ELSE under[r]
    BY DEF Tick
  <2>3. health[r].left \in Nat
    BY <1>3 DEF Rows
  <2> QED
    BY <2>1, <2>2, <2>3 DEF Elapsed
<1> QED
  BY <1>7, <1>8

LEMMA StepTypes == ASSUME TypeInv, PoolAssumption, [Next]_vars PROVE TypeInv'
<1>1. ASSUME NEW p \in Processes, Succeed(p) PROVE TypeInv'
  <2>1. proc[p].at \in Runtimes
    BY <1>1 DEF Succeed, At, TypeInv, Sound
  <2>2. health' \in [Runtimes -> Rows] /\ streak' \in [Runtimes -> Nat] /\ under' \in [Runtimes -> SUBSET Processes]
    BY <1>1, <2>1, HealedRow DEF Succeed
  <2>3. proc' \in [Processes -> Turns] /\ Sound'
    BY <1>1, OverGone DEF Succeed
  <2>4. wait' \in [Consults -> Nat \cup {None}]
    BY <1>1, WaitTypes DEF Succeed
  <2> QED
    BY <2>2, <2>3, <2>4, Types
<1>2. ASSUME NEW p \in Processes, WorkFails(p) PROVE TypeInv'
  BY <1>2, OverGone, WaitTypes, ProcTypes DEF WorkFails
<1>3. ASSUME NEW p \in Processes, NEW class \in Failures, RuntimeFails(p, class) PROVE TypeInv'
  <2>1. proc' \in [Processes -> Turns] /\ Sound'
    BY <1>3, FailGone
  <2>2. UNCHANGED <<health, streak, under>> /\ wait' \in [Consults -> Nat \cup {None}]
    BY <1>3, WaitTypes DEF RuntimeFails
  <2> QED
    BY <2>1, <2>2, ProcTypes
<1>4. ASSUME NEW p \in Processes, Record(p) PROVE TypeInv'
  <2>1. proc' \in [Processes -> Turns] /\ Sound'
    BY <1>4, AfterGone DEF Record
  <2>2. health' \in [Runtimes -> Rows] /\ streak' \in [Runtimes -> Nat] /\ under' \in [Runtimes -> SUBSET Processes]
    BY <1>4, RecordWritten DEF Record
  <2>3. wait' \in [Consults -> Nat \cup {None}]
    BY <1>4, WaitTypes DEF Record
  <2> QED
    BY <2>1, <2>2, <2>3, Types
<1>5. ASSUME NEW w \in Consults, Choose(w) PROVE TypeInv'
  BY <1>5, ChooseGone, ProcTypes DEF Choose
<1>6. ASSUME NEW w \in Consults, PoolCheck(w) PROVE TypeInv'
  BY <1>6, CheckGone, ProcTypes DEF PoolCheck
<1>7. ASSUME NEW w \in Consults, Resumed(w) PROVE TypeInv'
  BY <1>7, ResumeGone, ProcTypes DEF Resumed
<1>8. ASSUME NEW w \in Consults, Consult(w) PROVE TypeInv'
  <2>1. w \in Processes /\ {} \in SUBSET Runtimes
    BY DEF Processes
  <2>2. proc' \in [Processes -> Turns] /\ Sound'
    BY <1>8, <2>1, WalkGone DEF Consult
  <2> QED
    BY <1>8, <2>2, WaitTypes, ProcTypes DEF Consult
<1>9. ASSUME NEW s \in Stages, Dispatch(s) PROVE TypeInv'
  <2>1. proc' \in [Processes -> Turns] /\ Sound' /\ UNCHANGED <<health, wait, streak, under>>
    BY <1>9, DispatchGone
  <2> QED
    BY <2>1, WaitTypes, ProcTypes
<1>10. ASSUME NEW t \in Tests, Test(t) PROVE TypeInv'
  <2>1. t \in Processes
    BY DEF Processes
  <2>2. PICK r \in Runtimes : Turn(t, None, r, {}, {})
    BY <1>10 DEF Test
  <2>3. proc' \in [Processes -> Turns] /\ Sound'
    BY <2>1, <2>2, TurnGone
  <2> QED
    BY <1>10, <2>3, WaitTypes, ProcTypes DEF Test
<1>11. ASSUME NEW r \in Runtimes, Clear(r) PROVE TypeInv'
  <2>1. health' \in [Runtimes -> Rows] /\ streak' \in [Runtimes -> Nat] /\ under' \in [Runtimes -> SUBSET Processes]
    BY <1>11, HealedRow DEF Clear
  <2>2. proc' = proc /\ wait' = wait
    BY <1>11 DEF Clear
  <2>3. proc' \in [Processes -> Turns] /\ Sound'
    BY <2>2 DEF TypeInv, TypeOK, Turns, Sound
  <2> QED
    BY <2>1, <2>2, <2>3, WaitTypes, Types
<1>12. ASSUME Tick PROVE TypeInv'
  BY <1>12, TickTypes
<1>13. CASE UNCHANGED vars
  BY <1>13 DEF vars, TypeInv, TypeOK, Sound
<1> QED
  BY <1>1, <1>2, <1>3, <1>4, <1>5, <1>6, <1>7, <1>8, <1>9, <1>10, <1>11, <1>12, <1>13
     DEF Next, Goes, TurnEnds, AutoResume, PersonResumes

\* TypeOK is the type invariant of runtimeHealth.ts's rows and of the walks over them: the count of timeouts stays
\* below the limit and every turn is on a runtime of the machine.
THEOREM TypeCorrect == ASSUME PoolAssumption PROVE Spec => []TypeOK
<1>1. Init => TypeInv
  BY InitTypes
<1>2. TypeInv /\ [Next]_vars => TypeInv'
  BY StepTypes
<1>3. TypeInv => TypeOK
  BY DEF TypeInv
<1> QED
  BY <1>1, <1>2, <1>3, PTL DEF Spec

-----------------------------------------------------------------------------
(* Who may end a cooldown *)

\* a process that may still report on a runtime that cools had chosen it before, or had no other to choose
BoundInv ==
    \A r \in Runtimes, p \in Consults \cup Stages :
        /\ Cooling(r)
        /\ proc[p].step \in {"running", "record"}
        /\ r \in {proc[p].at} \cup proc[p].rest
        => p \in under[r] \cup Alone

\* the processes step, and none of them settles on a runtime that cools unless it was to it already
LEMMA BoundKept ==
    ASSUME BoundInv, NEW p \in Processes, UNCHANGED <<health, under>>,
           \A o \in Processes \ {p} : proc'[o] = proc[o],
           \A r \in Runtimes :
               /\ Cooling(r)
               /\ proc'[p].step \in {"running", "record"}
               /\ r \in {proc'[p].at} \cup proc'[p].rest
               => \/ /\ proc[p].step \in {"running", "record"} /\ r \in {proc[p].at} \cup proc[p].rest
                     /\ proc'[p].role = proc[p].role
                  \/ p \in Alone'
    PROVE  BoundInv'
<1> SUFFICES ASSUME NEW r \in Runtimes, NEW o \in Consults \cup Stages, Cooling(r)',
                    proc'[o].step \in {"running", "record"}, r \in {proc'[o].at} \cup proc'[o].rest
             PROVE  o \in under'[r] \cup Alone'
  BY DEF BoundInv
<1>1. Cooling(r) /\ under' = under /\ o \in Processes
  BY DEF Cooling, Processes
<1>2. \/ /\ proc[o].step \in {"running", "record"} /\ r \in {proc[o].at} \cup proc[o].rest
         /\ proc'[o].role = proc[o].role
      \/ o \in Alone'
  BY <1>1
<1>3. proc'[o].role = proc[o].role /\ o \in Alone => o \in Alone'
  BY DEF Alone
<1> QED
  BY <1>1, <1>2, <1>3 DEF BoundInv

\* the row of r is written by a process that is done with it; the others stay
LEMMA BoundWritten ==
    ASSUME TypeInv, BoundInv, NEW p \in Processes, NEW r \in Runtimes,
           \A o \in Processes \ {p} : proc'[o] = proc[o],
           \A s \in Runtimes \ {r} : health'[s] = health[s] /\ under'[s] = under[s],
           health'[r].left = 0 \/ under'[r] = Bound(r, p),
           \A s \in Runtimes :
               proc'[p].step \in {"running", "record"} /\ s \in {proc'[p].at} \cup proc'[p].rest
               => /\ s # r /\ proc[p].step \in {"running", "record"} /\ s \in proc[p].rest
                  /\ proc'[p].role = proc[p].role
    PROVE  BoundInv'
<1> SUFFICES ASSUME NEW s \in Runtimes, NEW o \in Consults \cup Stages, Cooling(s)',
                    proc'[o].step \in {"running", "record"}, s \in {proc'[o].at} \cup proc'[o].rest
             PROVE  o \in under'[s] \cup Alone'
  BY DEF BoundInv
<1>0. o \in Processes /\ (proc'[o].role = proc[o].role /\ o \in Alone => o \in Alone')
  BY DEF Processes, Alone
<1>1. CASE o = p
  <2>1. s # r /\ proc[o].step \in {"running", "record"} /\ s \in proc[o].rest /\ proc'[o].role = proc[o].role
    BY <1>1
  <2>2. Cooling(s) /\ under'[s] = under[s]
    BY <2>1 DEF Cooling
  <2> QED
    BY <1>0, <2>1, <2>2 DEF BoundInv
<1>2. CASE o # p
  <2>1. /\ proc[o].step \in {"running", "record"} /\ s \in {proc[o].at} \cup proc[o].rest
        /\ proc'[o].role = proc[o].role
    BY <1>0, <1>2
  <2>2. CASE s = r
    <3>1. under'[r] = Bound(r, p)
      BY <2>2 DEF Cooling
    <3> QED
      BY <3>1, <2>1, <2>2, <1>2 DEF Bound
  <2>3. CASE s # r
    <3>1. Cooling(s) /\ under'[s] = under[s]
      BY <2>3 DEF Cooling
    <3> QED
      BY <1>0, <2>1, <3>1 DEF BoundInv
  <2> QED
    BY <2>2, <2>3
<1> QED
  BY <1>1, <1>2

\* with an order of more than one runtime a stage is sent to those that do not cool
LEMMA RoutedUsable ==
    ASSUME PoolAssumption, NEW role \in Roles
    PROVE  (\A r \in Routed(role) : ~Cooling(r)) \/ Len(WorkerOrder[role]) = 1
<1>1. CASE Len(WorkerOrder[role]) > 1
  BY <1>1 DEF Routed, Usable
<1>2. CASE ~(Len(WorkerOrder[role]) > 1)
  <2>1. Len(WorkerOrder[role]) \in Nat /\ Len(WorkerOrder[role]) # 0
    BY DEF PoolAssumption
  <2>2. \A n \in Nat : n # 0 /\ ~(n > 1) => n = 1
    OBVIOUS
  <2> QED
    BY <1>2, <2>1, <2>2
<1> QED
  BY <1>1, <1>2

LEMMA BoundStep ==
    ASSUME TypeInv, BoundInv, PoolAssumption, [Next]_vars
    PROVE  BoundInv'
<1>1. ASSUME NEW p \in Processes, Succeed(p) PROVE BoundInv'
  <2>1. proc[p].at \in Runtimes
    BY <1>1 DEF Succeed, At, TypeInv, Sound
  <2>2. /\ health'[proc[p].at].left = 0
        /\ \A s \in Runtimes \ {proc[p].at} : health'[s] = health[s] /\ under'[s] = under[s]
    BY <1>1, <2>1, HealedRow DEF Succeed
  <2>3. proc'[p].step \in {"idle", "check"} /\ \A o \in Processes \ {p} : proc'[o] = proc[o]
    BY <1>1, OverGone DEF Succeed
  <2> QED
    BY <2>1, <2>2, <2>3, BoundWritten
<1>2. ASSUME NEW p \in Processes, WorkFails(p) PROVE BoundInv'
  <2>1. proc'[p].step \in {"idle", "check"} /\ \A o \in Processes \ {p} : proc'[o] = proc[o]
    BY <1>2, OverGone DEF WorkFails
  <2> QED
    BY <1>2, <2>1, BoundKept DEF WorkFails
<1>3. ASSUME NEW p \in Processes, NEW class \in Failures, RuntimeFails(p, class) PROVE BoundInv'
  <2>1. /\ proc'[p].step = "record" /\ proc'[p].at = proc[p].at /\ proc'[p].rest = proc[p].rest
        /\ proc'[p].role = proc[p].role
        /\ \A o \in Processes \ {p} : proc'[o] = proc[o]
    BY <1>3, FailGone
  <2>2. proc[p].step = "running" /\ UNCHANGED <<health, under>>
    BY <1>3 DEF RuntimeFails, At
  <2> QED
    BY <2>1, <2>2, BoundKept
<1>4. ASSUME NEW p \in Processes, Record(p) PROVE BoundInv'
  <2> DEFINE r == proc[p].at
  <2>1. proc[p].step = "record" /\ r \in Runtimes /\ r \notin proc[p].rest
    BY <1>4 DEF Record, At, TypeInv, Sound
  <2>2. /\ \A s \in Runtimes \ {r} : health'[s] = health[s] /\ under'[s] = under[s]
        /\ health'[r].left = 0 \/ under'[r] = Bound(r, p)
    BY <1>4, RecordWritten DEF Record
  <2>3. /\ \A o \in Processes \ {p} : proc'[o] = proc[o]
        /\ proc'[p].step # "record"
        /\ proc'[p].step = "running" => /\ proc'[p].at \in proc[p].rest /\ proc'[p].rest \subseteq proc[p].rest
                                        /\ proc'[p].role = proc[p].role
    BY <1>4, AfterGone DEF Record
  <2> HIDE DEF r
  <2>4. ASSUME NEW s \in Runtimes, proc'[p].step \in {"running", "record"}, s \in {proc'[p].at} \cup proc'[p].rest
        PROVE  /\ s # r /\ proc[p].step \in {"running", "record"} /\ s \in proc[p].rest
               /\ proc'[p].role = proc[p].role
    BY <2>1, <2>3, <2>4
  <2> QED
    BY <2>1, <2>2, <2>3, <2>4, BoundWritten
<1>5. ASSUME NEW w \in Consults, Choose(w) PROVE BoundInv'
  <2>1. /\ \A o \in Processes \ {w} : proc'[o] = proc[o]
        /\ \/ proc'[w].step = "running" /\ ~Cooling(proc'[w].at) /\ proc'[w].rest = {}
           \/ proc'[w].step = "paused"
    BY <1>5, ChooseGone
  <2>2. UNCHANGED <<health, under>> /\ w \in Processes
    BY <1>5 DEF Choose, Processes
  <2> QED
    BY <2>1, <2>2, BoundKept
<1>6. ASSUME NEW w \in Consults, PoolCheck(w) PROVE BoundInv'
  <2>1. proc'[w].step \in {"idle", "paused"} /\ \A o \in Processes \ {w} : proc'[o] = proc[o]
    BY <1>6, CheckGone
  <2>2. UNCHANGED <<health, under>> /\ w \in Processes
    BY <1>6 DEF PoolCheck, Processes
  <2> QED
    BY <2>1, <2>2, BoundKept
<1>7. ASSUME NEW w \in Consults, Resumed(w) PROVE BoundInv'
  <2>1. proc'[w].step \in {"choose", "check"} /\ \A o \in Processes \ {w} : proc'[o] = proc[o]
    BY <1>7, ResumeGone
  <2>2. UNCHANGED <<health, under>> /\ w \in Processes
    BY <1>7 DEF Resumed, Processes
  <2> QED
    BY <2>1, <2>2, BoundKept
<1>8. ASSUME NEW w \in Consults, Consult(w) PROVE BoundInv'
  <2>1. w \in Processes /\ {} \in SUBSET Runtimes /\ UNCHANGED <<health, under>>
    BY <1>8 DEF Processes, Consult
  <2>2. proc'[w].step = "choose" /\ \A o \in Processes \ {w} : proc'[o] = proc[o]
    BY <1>8, <2>1, WalkGone DEF Consult
  <2> QED
    BY <2>1, <2>2, BoundKept
<1>9. ASSUME NEW s \in Stages, Dispatch(s) PROVE BoundInv'
  <2>1. PICK role \in Roles : /\ proc'[s].role = role
                              /\ proc'[s].at \in Routed(role) /\ proc'[s].rest \subseteq Routed(role)
    BY <1>9, DispatchGone
  <2>2. s \in Processes /\ (\A o \in Processes \ {s} : proc'[o] = proc[o]) /\ UNCHANGED <<health, under>>
    BY <1>9, DispatchGone
  <2>3. (\A r \in Routed(role) : ~Cooling(r)) \/ s \in Alone'
    BY <2>1, RoutedUsable DEF Alone
  <2> QED
    BY <2>1, <2>2, <2>3, BoundKept
<1>10. ASSUME NEW t \in Tests, Test(t) PROVE BoundInv'
  <2>1. t \in Processes /\ t \notin Consults \cup Stages /\ UNCHANGED <<health, under>>
    BY <1>10 DEF Processes, PoolAssumption, Test
  <2>2. PICK r \in Runtimes : Turn(t, None, r, {}, {})
    BY <1>10 DEF Test
  <2>3. \A o \in Processes \ {t} : proc'[o] = proc[o]
    BY <2>1, <2>2, TurnGone
  <2>4. \A o \in Consults \cup Stages : proc'[o] = proc[o]
    BY <2>1, <2>3 DEF Processes
  <2> QED
    BY <2>1, <2>4 DEF BoundInv, Cooling, Alone
<1>11. ASSUME NEW r \in Runtimes, Clear(r) PROVE BoundInv'
  <2>1. /\ health'[r].left = 0 /\ under' \in [Runtimes -> SUBSET Processes]
        /\ \A s \in Runtimes \ {r} : health'[s] = health[s] /\ under'[s] = under[s]
    BY <1>11, HealedRow DEF Clear
  <2>2. proc' = proc
    BY <1>11 DEF Clear
  <2> QED
    BY <2>1, <2>2 DEF BoundInv, Cooling, Alone
<1>12. ASSUME Tick PROVE BoundInv'
  <2>1. \A r \in Runtimes : health'[r].left > 0 => health[r].left > 0 /\ under'[r] = under[r]
    BY <1>12, TickTypes
  <2>2. proc' = proc
    BY <1>12 DEF Tick
  <2> QED
    BY <2>1, <2>2 DEF BoundInv, Cooling, Alone
<1>13. CASE UNCHANGED vars
  BY <1>13 DEF vars, BoundInv, Cooling, Alone
<1> QED
  BY <1>1, <1>2, <1>3, <1>4, <1>5, <1>6, <1>7, <1>8, <1>9, <1>10, <1>11, <1>12, <1>13
     DEF Next, Goes, TurnEnds, AutoResume, PersonResumes

\* who may make a cooldown shorter
Ends(r) ==
    \/ Tick \/ Clear(r)
    \/ \E p \in Tests \cup under[r] \cup Alone : proc[p].at = r /\ proc'[p] # proc[p]

\* a process that writes the row of the runtime it was on
LEMMA WriterEnds ==
    ASSUME TypeInv, BoundInv, PoolAssumption, NEW p \in Processes, NEW r \in Runtimes,
           proc[p].step \in {"running", "record"}, proc'[p].step # proc[p].step \/ proc'[p].at # proc[p].at,
           \A s \in Runtimes \ {proc[p].at} : health'[s] = health[s],
           health'[r].left < health[r].left, health'[r].left \in Nat
    PROVE  Ends(r)
<1>1. health[r].left \in Nat
  BY DEF TypeInv, TypeOK
<1>2. Cooling(r)
  BY <1>1 DEF Cooling
<1>3. proc[p].at = r
  BY <1>1
<1>4. p \in Tests \cup under[r] \cup Alone
  BY <1>2, <1>3 DEF Processes, BoundInv
<1>5. proc'[p] # proc[p]
  OBVIOUS
<1> QED
  BY <1>3, <1>4, <1>5 DEF Ends

LEMMA CooldownStep ==
    ASSUME TypeInv, BoundInv, PoolAssumption, [Next]_vars, NEW r \in Runtimes, health'[r].left < health[r].left
    PROVE  Ends(r)
<1>0. health[r].left \in Nat /\ health'[r].left \in Nat
  <2>1. TypeInv'
    BY StepTypes
  <2> QED
    BY <2>1 DEF TypeInv, TypeOK
<1>1. ASSUME UNCHANGED health PROVE FALSE
  BY <1>0, <1>1
<1>2. ASSUME NEW p \in Processes, Succeed(p) PROVE Ends(r)
  <2>1. proc[p].at \in Runtimes /\ proc[p].step = "running"
    BY <1>2 DEF Succeed, At, TypeInv, Sound
  <2>2. \A s \in Runtimes \ {proc[p].at} : health'[s] = health[s]
    BY <1>2, <2>1, HealedRow DEF Succeed
  <2>3. proc'[p].step \in {"idle", "check"}
    BY <1>2, OverGone DEF Succeed
  <2> QED
    BY <1>0, <2>1, <2>2, <2>3, WriterEnds
<1>3. ASSUME NEW p \in Processes, Record(p) PROVE Ends(r)
  <2>1. proc[p].step = "record"
    BY <1>3 DEF Record, At
  <2>2. \A s \in Runtimes \ {proc[p].at} : health'[s] = health[s]
    BY <1>3, RecordWritten DEF Record
  <2>3. proc'[p].step # "record"
    BY <1>3, AfterGone DEF Record
  <2> QED
    BY <1>0, <2>1, <2>2, <2>3, WriterEnds
<1>4. ASSUME NEW s \in Runtimes, Clear(s) PROVE Ends(r)
  <2>1. \A o \in Runtimes \ {s} : health'[o] = health[o]
    BY <1>4, HealedRow DEF Clear
  <2>2. r = s
    BY <1>0, <2>1
  <2> QED
    BY <1>4, <2>2 DEF Ends
<1>5. ASSUME Tick PROVE Ends(r)
  BY <1>5 DEF Ends
<1>6. ASSUME NEW p \in Processes, WorkFails(p) PROVE UNCHANGED health
  BY <1>6 DEF WorkFails
<1>7. ASSUME NEW p \in Processes, NEW class \in Failures, RuntimeFails(p, class) PROVE UNCHANGED health
  BY <1>7 DEF RuntimeFails
<1>8. ASSUME NEW w \in Consults, Choose(w) \/ PoolCheck(w) \/ Resumed(w) \/ Consult(w) PROVE UNCHANGED health
  BY <1>8 DEF Choose, PoolCheck, Resumed, Consult
<1>9. ASSUME NEW s \in Stages, Dispatch(s) PROVE UNCHANGED health
  BY <1>9 DEF Dispatch
<1>10. ASSUME NEW t \in Tests, Test(t) PROVE UNCHANGED health
  BY <1>10 DEF Test
<1>11. CASE UNCHANGED vars
  BY <1>1, <1>11 DEF vars
<1> QED
  BY <1>1, <1>2, <1>3, <1>4, <1>5, <1>6, <1>7, <1>8, <1>9, <1>10, <1>11
     DEF Next, Goes, TurnEnds, AutoResume, PersonResumes

\* CooldownRespected, for every pool and every order of its roles: a cooldown ends before its time only by a person, by
\* the result of a process that had chosen the runtime before it was recorded, or by a stage whose role has no other
\* runtime, which resolveRuntimeRoute sends to it although it cools (runtimeRouting.ts:381).
THEOREM CooldownKept ==
    ASSUME PoolAssumption
    PROVE  Spec => CooldownRespected
<1>1. Init => TypeInv /\ BoundInv
  <2>1. Init => BoundInv
    BY DEF Init, BoundInv, Cooling, Healthy
  <2> QED
    BY <2>1, InitTypes
<1>2. TypeInv /\ BoundInv /\ [Next]_vars => TypeInv' /\ BoundInv'
  BY StepTypes, BoundStep
<1>3. TypeInv /\ BoundInv /\ [Next]_vars
      => [ \A r \in Runtimes :
             health'[r].left < health[r].left =>
                 \/ Tick \/ Clear(r)
                 \/ \E p \in Tests \cup under[r] \cup Alone : proc[p].at = r /\ proc'[p] # proc[p] ]_vars
  BY CooldownStep DEF Ends
<1> QED
  BY <1>1, <1>2, <1>3, PTL DEF Spec, CooldownRespected

-----------------------------------------------------------------------------
(* How many timeouts in a row there may be *)

Counts == 1 .. TimeoutLimit - 1

\* the count of r that p would write next, less one
Seen(p, r) ==
    IF proc[p].step = "record" /\ proc[p].at = r /\ proc[p].class = "TIMEOUT" THEN proc[p].read ELSE health[r].timeouts

\* how the processes are spread over the counts, each with what s says it has
Having(k, s) == {p \in Processes : s[p] >= k}
Spread(s) == [k \in Counts |-> Cardinality(Having(k, s))]
Views(r) == [p \in Processes |-> Seen(p, r)]
Level(r) == Spread(Views(r))

\* the order of the ladders: the lowest count on which they differ decides
Lower(g, f) == \E k \in Counts : g[k] < f[k] /\ \A j \in Counts : j < k => g[j] = f[j]
Below(f) == {g \in Ladders : Lower(g, f)}

\* every timeout of the streak has left a level of its own below
RankInv == \A r \in Runtimes : streak[r] <= Cardinality(Below(Level(r)))

LEMMA LowerOrders ==
    ASSUME TimeoutLimit \in Nat, NEW f \in [Counts -> Nat], NEW g \in [Counts -> Nat], NEW h \in [Counts -> Nat]
    PROVE  ~Lower(f, f) /\ (Lower(f, g) /\ Lower(g, h) => Lower(f, h))
<1>1. ~Lower(f, f)
  BY DEF Lower
<1>2. ASSUME Lower(f, g), Lower(g, h) PROVE Lower(f, h)
  <2>1. PICK k \in Counts : f[k] < g[k] /\ \A j \in Counts : j < k => f[j] = g[j]
    BY <1>2 DEF Lower
  <2>2. PICK l \in Counts : g[l] < h[l] /\ \A j \in Counts : j < l => g[j] = h[j]
    BY <1>2 DEF Lower
  <2>3. k \in Nat /\ l \in Nat
    BY DEF Counts
  <2>4. CASE k <= l
    <3>1. f[k] < h[k]
      BY <2>1, <2>2, <2>3, <2>4
    <3>2. \A j \in Counts : j < k => f[j] = h[j]
      <4>1. ASSUME NEW j \in Counts, j < k PROVE f[j] = h[j]
        <5>1. j \in Nat /\ j < l
          BY <2>3, <2>4, <4>1 DEF Counts
        <5> QED
          BY <2>1, <2>2, <4>1, <5>1
      <4> QED
        BY <4>1
    <3> QED
      BY <3>1, <3>2 DEF Lower
  <2>5. CASE l < k
    <3>1. f[l] < h[l]
      BY <2>1, <2>2, <2>5
    <3>2. \A j \in Counts : j < l => f[j] = h[j]
      <4>1. ASSUME NEW j \in Counts, j < l PROVE f[j] = h[j]
        <5>1. j \in Nat /\ j < k
          BY <2>3, <2>5, <4>1 DEF Counts
        <5> QED
          BY <2>1, <2>2, <4>1, <5>1
      <4> QED
        BY <4>1
    <3> QED
      BY <3>1, <3>2 DEF Lower
  <2> QED
    BY <2>3, <2>4, <2>5
<1> QED
  BY <1>1, <1>2

\* there are finitely many ladders: each is known by its graph
LEMMA LaddersFinite ==
    ASSUME TimeoutLimit \in Nat \ {0}, IsFiniteSet(Processes)
    PROVE  IsFiniteSet(Ladders)
<1> DEFINE N == Cardinality(Processes)
           Cells == Counts \X (0 .. N)
           Graph == [f \in Ladders |-> {<<k, f[k]>> : k \in Counts}]
<1>1. N \in Nat
  BY FS_CardinalityType
<1>2. IsFiniteSet(Counts) /\ IsFiniteSet(0 .. N)
  BY <1>1, FS_Interval DEF Counts
<1>3. IsFiniteSet(SUBSET Cells)
  BY <1>2, FS_Product, FS_SUBSET
<1>4. Ladders \subseteq [Counts -> 0 .. N]
  BY DEF Ladders, Counts
<1>5. ASSUME NEW f \in Ladders PROVE Graph[f] \in SUBSET Cells
  <2>1. \A k \in Counts : f[k] \in 0 .. N
    BY <1>4
  <2> QED
    BY <2>1
<1>6. ASSUME NEW f \in Ladders, NEW g \in Ladders, Graph[f] = Graph[g] PROVE f = g
  <2>1. ASSUME NEW k \in Counts PROVE f[k] = g[k]
    <3>1. <<k, f[k]>> \in Graph[f]
      OBVIOUS
    <3>2. PICK j \in Counts : <<k, f[k]>> = <<j, g[j]>>
      BY <3>1, <1>6
    <3> QED
      BY <3>2
  <2> QED
    BY <2>1, <1>4
<1>7. Graph \in Injection(Ladders, SUBSET Cells)
  <2>1. Graph \in [Ladders -> SUBSET Cells]
    BY <1>5
  <2>2. \A f, g \in Ladders : Graph[f] = Graph[g] => f = g
    BY <1>6
  <2> HIDE DEF Graph, Cells
  <2> QED
    BY <2>1, <2>2 DEF Injection, IsInjective
<1> HIDE DEF Graph, Cells
<1> QED
  BY <1>3, <1>7, FS_Injection

LEMMA ViewTypes ==
    ASSUME TypeInv, NEW r \in Runtimes
    PROVE  Views(r) \in [Processes -> 0 .. TimeoutLimit - 1]
BY DEF Views, Seen, TypeInv, TypeOK

\* whoever has a count has every lower one
LEMMA SpreadIsLadder ==
    ASSUME PoolAssumption, IsFiniteSet(Processes), NEW s \in [Processes -> 0 .. TimeoutLimit - 1]
    PROVE  Spread(s) \in Ladders /\ Spread(s) \in [Counts -> Nat]
<1>1. TimeoutLimit \in Nat \ {0} /\ Cardinality(Processes) \in Nat
  BY FS_CardinalityType DEF PoolAssumption
<1>2. ASSUME NEW k \in Counts
      PROVE  /\ IsFiniteSet(Having(k, s))
             /\ Cardinality(Having(k, s)) \in 0 .. Cardinality(Processes)
  <2>1. Having(k, s) \in SUBSET Processes
    BY DEF Having
  <2>2. IsFiniteSet(Having(k, s)) /\ Cardinality(Having(k, s)) <= Cardinality(Processes)
    BY <2>1, FS_Subset
  <2> QED
    BY <1>1, <2>2, FS_CardinalityType
<1>3. ASSUME NEW i \in Counts, NEW j \in Counts, i <= j
      PROVE  Cardinality(Having(j, s)) <= Cardinality(Having(i, s))
  <2>1. \A p \in Processes : s[p] >= j => s[p] >= i
    BY <1>1, <1>3 DEF Counts
  <2>2. Having(j, s) \in SUBSET Having(i, s)
    BY <2>1 DEF Having
  <2> QED
    BY <1>2, <2>2, FS_Subset
<1>4. Spread(s) \in [Counts -> 0 .. Cardinality(Processes)]
  BY <1>2 DEF Spread
<1>5. \A i, j \in Counts : i <= j => Spread(s)[j] <= Spread(s)[i]
  BY <1>3 DEF Spread
<1> QED
  BY <1>1, <1>4, <1>5 DEF Ladders, Counts

LEMMA RankTypes ==
    ASSUME PoolAssumption, IsFiniteSet(Processes), NEW f
    PROVE  IsFiniteSet(Below(f)) /\ Cardinality(Below(f)) \in Nat
<1>1. IsFiniteSet(Ladders)
  BY LaddersFinite DEF PoolAssumption
<1>2. Below(f) \in SUBSET Ladders
  BY DEF Below
<1> QED
  BY <1>1, <1>2, FS_Subset, FS_CardinalityType

\* a ladder that rises has its old place below it
LEMMA RankRises ==
    ASSUME PoolAssumption, IsFiniteSet(Processes), NEW f \in Ladders, NEW g \in Ladders, Lower(f, g)
    PROVE  Cardinality(Below(f)) + 1 <= Cardinality(Below(g))
<1>1. TimeoutLimit \in Nat /\ Cardinality(Processes) \in Nat
  BY FS_CardinalityType DEF PoolAssumption
<1>2. Ladders \subseteq [Counts -> Nat]
  BY <1>1 DEF Ladders, Counts
<1>3. f \notin Below(f)
  BY <1>1, <1>2, LowerOrders DEF Below
<1>4. Below(f) \cup {f} \in SUBSET Below(g)
  <2>1. ASSUME NEW h \in Below(f) PROVE h \in Below(g)
    <3>1. h \in Ladders /\ Lower(h, f)
      BY <2>1 DEF Below
    <3>2. h \in [Counts -> Nat] /\ f \in [Counts -> Nat] /\ g \in [Counts -> Nat]
      BY <1>2, <3>1
    <3>3. Lower(h, g)
      BY <1>1, <3>1, <3>2, LowerOrders
    <3> QED
      BY <3>1, <3>3 DEF Below
  <2>2. f \in Below(g)
    BY DEF Below
  <2> QED
    BY <2>1, <2>2
<1>5. Cardinality(Below(f) \cup {f}) = Cardinality(Below(f)) + 1
  BY <1>3, RankTypes, FS_AddElement
<1>6. Cardinality(Below(f) \cup {f}) <= Cardinality(Below(g))
  BY <1>4, RankTypes, FS_Subset
<1> QED
  BY <1>5, <1>6

LEMMA LeastExists ==
    ASSUME NEW S \in SUBSET Nat, NEW x \in S
    PROVE  \E k \in S : \A j \in S : k <= j
<1>1. S \subseteq Nat /\ S # {}
  OBVIOUS
<1>2. PICK k \in S : \A j \in S : ~(<<j, k>> \in OpToRel(<, Nat))
  BY <1>1, NatLessThanWellFounded, WFMin
<1>3. \A j \in S : ~(j < k)
  BY <1>2 DEF OpToRel
<1>4. S \subseteq Nat
  OBVIOUS
<1> QED
  BY <1>3, <1>4

\* nobody loses a count up to n, and p gains n
LEMMA SpreadRises ==
    ASSUME PoolAssumption, IsFiniteSet(Processes),
           NEW s \in [Processes -> 0 .. TimeoutLimit - 1], NEW t \in [Processes -> 0 .. TimeoutLimit - 1],
           NEW n \in Counts, NEW p \in Processes, s[p] < n, t[p] = n,
           \A o \in Processes : t[o] = s[o] \/ t[o] = n
    PROVE  Lower(Spread(s), Spread(t))
<1> DEFINE Gained == {k \in Counts : k <= n /\ Spread(s)[k] < Spread(t)[k]}
<1>1. TimeoutLimit \in Nat /\ n \in Nat /\ Counts \subseteq Nat
  BY DEF PoolAssumption, Counts
<1>2. \A o \in Processes : s[o] \in Nat /\ t[o] \in Nat
  BY <1>1
<1>3. ASSUME NEW k \in Counts, k <= n
      PROVE  /\ Having(k, s) \in SUBSET Having(k, t) /\ IsFiniteSet(Having(k, t))
             /\ Spread(s)[k] <= Spread(t)[k] /\ Spread(s)[k] \in Nat /\ Spread(t)[k] \in Nat
  <2>1. \A o \in Processes : s[o] >= k => t[o] >= k
    BY <1>1, <1>2, <1>3
  <2>2. Having(k, s) \in SUBSET Having(k, t) /\ Having(k, t) \in SUBSET Processes
    BY <2>1 DEF Having
  <2>3. IsFiniteSet(Having(k, t))
    BY <2>2, FS_Subset
  <2>4. IsFiniteSet(Having(k, s)) /\ Cardinality(Having(k, s)) <= Cardinality(Having(k, t))
    BY <2>2, <2>3, FS_Subset
  <2>5. Cardinality(Having(k, s)) \in Nat /\ Cardinality(Having(k, t)) \in Nat
    BY <2>3, <2>4, FS_CardinalityType
  <2> QED
    BY <2>2, <2>3, <2>4, <2>5 DEF Spread
<1>4. n \in Gained
  <2>1. p \in Having(n, t) /\ p \notin Having(n, s)
    BY <1>1, <1>2 DEF Having
  <2>2. n <= n
    BY <1>1
  <2>3. Having(n, s) \in SUBSET Having(n, t) /\ Having(n, s) # Having(n, t) /\ IsFiniteSet(Having(n, t))
    BY <2>1, <2>2, <1>3
  <2>4. Cardinality(Having(n, t)) # Cardinality(Having(n, s))
    BY <2>3, FS_Subset
  <2>5. Spread(s)[n] # Spread(t)[n]
    BY <2>4 DEF Spread
  <2> QED
    BY <2>2, <2>5, <1>3
<1>5. Gained \in SUBSET Nat
  BY <1>1
<1>6. PICK k \in Gained : \A j \in Gained : k <= j
  <2> HIDE DEF Gained
  <2> QED
    BY <1>4, <1>5, LeastExists
<1>7. ASSUME NEW j \in Counts, j < k PROVE Spread(s)[j] = Spread(t)[j]
  <2>1. j \in Nat /\ k \in Nat /\ k <= n
    BY <1>1
  <2>2. j <= n /\ j \notin Gained
    BY <2>1, <1>1, <1>6, <1>7
  <2> QED
    BY <2>2, <1>3
<1> QED
  BY <1>7 DEF Lower

\* the streak of r ends, or everybody keeps the count of r that it has
LEMMA RankKept ==
    ASSUME TypeInv', RankInv, PoolAssumption, IsFiniteSet(Processes), NEW r \in Runtimes,
           \/ streak'[r] = 0
           \/ streak'[r] = streak[r] /\ \A p \in Processes : Seen(p, r)' = Seen(p, r)
    PROVE  streak'[r] <= Cardinality(Below(Level(r)'))
<1>1. CASE streak'[r] = 0
  BY <1>1, RankTypes
<1>2. CASE streak'[r] = streak[r] /\ \A p \in Processes : Seen(p, r)' = Seen(p, r)
  <2>1. Views(r)' = Views(r)
    BY <1>2 DEF Views
  <2>2. Level(r)' = Level(r)
    BY <2>1 DEF Level, Spread, Having
  <2> QED
    BY <1>2, <2>2 DEF RankInv
<1> QED
  BY <1>1, <1>2

\* p comes from no record of r and goes to none, the others stay
LEMMA SeenKept ==
    ASSUME NEW p \in Processes, \A o \in Processes \ {p} : proc'[o] = proc[o],
           proc'[p].step # "record", NEW r \in Runtimes,
           proc[p].step # "record" \/ proc[p].at # r,
           health'[r].timeouts = health[r].timeouts
    PROVE  \A o \in Processes : Seen(o, r)' = Seen(o, r)
BY DEF Seen

\* a step of a process that writes no row
LEMMA RankIdle ==
    ASSUME TypeInv', RankInv, PoolAssumption, IsFiniteSet(Processes),
           NEW p \in Processes, \A o \in Processes \ {p} : proc'[o] = proc[o],
           proc[p].step # "record", proc'[p].step # "record", UNCHANGED <<health, streak>>
    PROVE  RankInv'
<1>1. ASSUME NEW r \in Runtimes PROVE streak'[r] <= Cardinality(Below(Level(r)'))
  <2>1. \A o \in Processes : Seen(o, r)' = Seen(o, r)
    BY SeenKept
  <2> QED
    BY <2>1, RankKept
<1> QED
  BY <1>1 DEF RankInv, Below, Ladders, Lower, Counts

\* a row that is written healthy or cooling
LEMMA RankReset ==
    ASSUME TypeInv', RankInv, PoolAssumption, IsFiniteSet(Processes), NEW r \in Runtimes, streak'[r] = 0,
           \A s \in Runtimes \ {r} : streak'[s] = streak[s] /\ \A p \in Processes : Seen(p, s)' = Seen(p, s)
    PROVE  RankInv'
<1>1. ASSUME NEW s \in Runtimes PROVE streak'[s] <= Cardinality(Below(Level(s)'))
  BY RankKept
<1> QED
  BY <1>1 DEF RankInv, Below, Ladders, Lower, Counts

\* a turn that times out reads the count it had seen
LEMMA RankFail ==
    ASSUME TypeInv, TypeInv', RankInv, PoolAssumption, IsFiniteSet(Processes),
           NEW p \in Processes, NEW class \in Failures, RuntimeFails(p, class)
    PROVE  RankInv'
<1>1. /\ proc[p].step = "running" /\ UNCHANGED <<health, streak>>
      /\ \A o \in Processes \ {p} : proc'[o] = proc[o]
      /\ proc'[p].step = "record" /\ proc'[p].at = proc[p].at /\ proc'[p].class = class
      /\ proc'[p].read = IF class = "TIMEOUT" THEN health[proc[p].at].timeouts ELSE 0
  BY FailGone DEF RuntimeFails, At
<1>2. ASSUME NEW r \in Runtimes PROVE streak'[r] <= Cardinality(Below(Level(r)'))
  <2>1. Seen(p, r)' = Seen(p, r)
    BY <1>1 DEF Seen
  <2>2. \A o \in Processes \ {p} : Seen(o, r)' = Seen(o, r)
    BY <1>1 DEF Seen
  <2> QED
    BY <1>1, <2>1, <2>2, RankKept
<1> QED
  BY <1>2 DEF RankInv, Below, Ladders, Lower, Counts

\* a timeout that is counted raises the level
LEMMA LevelRises ==
    ASSUME TypeInv, TypeInv', PoolAssumption, IsFiniteSet(Processes), NEW p \in Processes, NEW r \in Runtimes,
           proc[p].step = "record", proc[p].at = r, proc[p].class = "TIMEOUT",
           proc[p].read + 1 < TimeoutLimit, health'[r].timeouts = proc[p].read + 1,
           proc'[p].step # "record", \A o \in Processes \ {p} : proc'[o] = proc[o]
    PROVE  /\ Lower(Level(r), Level(r)')
           /\ Level(r) \in Ladders /\ Level(r)' \in Ladders
<1>0. proc[p].read \in 0 .. TimeoutLimit - 1 /\ TimeoutLimit \in Nat
  BY DEF TypeInv, TypeOK, PoolAssumption
<1>1. PICK n \in Nat : n = proc[p].read + 1
  <2>1. proc[p].read \in Nat
    BY <1>0
  <2> QED
    BY <2>1
<1>2. n \in Counts /\ proc[p].read < n
  <2>1. proc[p].read \in Nat /\ TimeoutLimit \in Nat
    BY <1>0
  <2>2. n < TimeoutLimit
    BY <1>1
  <2> QED
    BY <2>1, <2>2, <1>1 DEF Counts
<1>3. Views(r) \in [Processes -> 0 .. TimeoutLimit - 1]
  BY ViewTypes
<1>4. Views(r)' \in [Processes -> 0 .. TimeoutLimit - 1]
  BY DEF Views, Seen, TypeInv, TypeOK
<1>5. Views(r)[p] < n /\ Views(r)'[p] = n
  BY <1>1, <1>2 DEF Views, Seen
<1>6. \A o \in Processes : Views(r)'[o] = Views(r)[o] \/ Views(r)'[o] = n
  BY <1>1 DEF Views, Seen
<1>7. Lower(Spread(Views(r)), Spread(Views(r)'))
  BY <1>2, <1>3, <1>4, <1>5, <1>6, SpreadRises
<1>8. Spread(Views(r)) \in Ladders /\ Spread(Views(r)') \in Ladders
  BY <1>3, <1>4, SpreadIsLadder
<1>9. Level(r) = Spread(Views(r)) /\ Level(r)' = Spread(Views(r)')
  BY DEF Level, Spread, Having
<1> QED
  BY <1>7, <1>8, <1>9

LEMMA RankRecord ==
    ASSUME TypeInv, TypeInv', RankInv, PoolAssumption, IsFiniteSet(Processes), NEW p \in Processes, Record(p)
    PROVE  RankInv'
<1>0. PICK r \in Runtimes : r = proc[p].at
  BY DEF Record, At, TypeInv, Sound
<1>1. proc[p].step = "record" /\ proc'[p].step # "record" /\ \A o \in Processes \ {p} : proc'[o] = proc[o]
  BY AfterGone DEF Record, At
<1>2. /\ \A s \in Runtimes \ {r} : health'[s] = health[s] /\ streak'[s] = streak[s]
      /\ \/ /\ proc[p].class = "TIMEOUT" /\ proc[p].read + 1 < TimeoutLimit
            /\ health'[r].timeouts = proc[p].read + 1 /\ streak'[r] = streak[r] + 1
         \/ streak'[r] = 0
  BY <1>0, RecordWritten DEF Record
<1>3. \A s \in Runtimes \ {r} : \A o \in Processes : Seen(o, s)' = Seen(o, s)
  BY <1>0, <1>1, <1>2, SeenKept
<1>4. CASE streak'[r] = 0
  BY <1>2, <1>3, <1>4, RankReset
<1>5. CASE /\ proc[p].class = "TIMEOUT" /\ proc[p].read + 1 < TimeoutLimit
           /\ health'[r].timeouts = proc[p].read + 1 /\ streak'[r] = streak[r] + 1
  <2>1. /\ Lower(Level(r), Level(r)')
        /\ Level(r) \in Ladders /\ Level(r)' \in Ladders
    BY <1>0, <1>1, <1>5, LevelRises
  <2>2. Cardinality(Below(Level(r))) + 1 <= Cardinality(Below(Level(r)'))
    BY <2>1, RankRises
  <2>3. streak[r] \in Nat /\ streak[r] <= Cardinality(Below(Level(r)))
    BY DEF TypeInv, TypeOK, RankInv
  <2>4. streak'[r] <= Cardinality(Below(Level(r)'))
    BY <1>5, <2>2, <2>3, RankTypes
  <2>5. ASSUME NEW s \in Runtimes, s # r PROVE streak'[s] <= Cardinality(Below(Level(s)'))
    BY <1>2, <1>3, <2>5, RankKept
  <2>6. \A s \in Runtimes : streak'[s] <= Cardinality(Below(Level(s)'))
    BY <2>4, <2>5
  <2> QED
    BY <2>6 DEF RankInv, Below, Ladders, Lower, Counts
<1> QED
  BY <1>2, <1>4, <1>5

LEMMA RankStep ==
    ASSUME TypeInv, RankInv, PoolAssumption, IsFiniteSet(Processes), [Next]_vars
    PROVE  RankInv'
<1>0. TypeInv'
  BY StepTypes
<1>1. ASSUME NEW p \in Processes, Succeed(p) PROVE RankInv'
  <2>1. proc[p].at \in Runtimes /\ proc[p].step = "running"
    BY <1>1 DEF Succeed, At, TypeInv, Sound
  <2>2. /\ streak'[proc[p].at] = 0
        /\ \A s \in Runtimes \ {proc[p].at} : health'[s] = health[s] /\ streak'[s] = streak[s]
    BY <1>1, <2>1, HealedRow DEF Succeed
  <2>3. proc'[p].step \in {"idle", "check"} /\ \A o \in Processes \ {p} : proc'[o] = proc[o]
    BY <1>1, OverGone DEF Succeed
  <2>4. \A s \in Runtimes \ {proc[p].at} : \A o \in Processes : Seen(o, s)' = Seen(o, s)
    BY <2>1, <2>2, <2>3, SeenKept
  <2> QED
    BY <1>0, <2>1, <2>2, <2>4, RankReset
<1>2. ASSUME NEW p \in Processes, WorkFails(p) PROVE RankInv'
  <2>1. proc'[p].step \in {"idle", "check"} /\ \A o \in Processes \ {p} : proc'[o] = proc[o]
    BY <1>2, OverGone DEF WorkFails
  <2>2. proc[p].step # "record" /\ UNCHANGED <<health, streak>>
    BY <1>2 DEF WorkFails, At
  <2> QED
    BY <1>0, <2>1, <2>2, RankIdle
<1>3. ASSUME NEW p \in Processes, NEW class \in Failures, RuntimeFails(p, class) PROVE RankInv'
  BY <1>0, <1>3, RankFail
<1>4. ASSUME NEW p \in Processes, Record(p) PROVE RankInv'
  BY <1>0, <1>4, RankRecord
<1>5. ASSUME NEW w \in Consults, Choose(w) PROVE RankInv'
  <2>1. (\A o \in Processes \ {w} : proc'[o] = proc[o]) /\ proc'[w].step \in {"running", "paused"}
    BY <1>5, ChooseGone
  <2>2. UNCHANGED <<health, streak>> /\ w \in Processes /\ proc[w].step # "record"
    BY <1>5 DEF Choose, Processes, At
  <2> QED
    BY <1>0, <2>1, <2>2, RankIdle
<1>6. ASSUME NEW w \in Consults, PoolCheck(w) PROVE RankInv'
  <2>1. proc'[w].step \in {"idle", "paused"} /\ \A o \in Processes \ {w} : proc'[o] = proc[o]
    BY <1>6, CheckGone
  <2>2. UNCHANGED <<health, streak>> /\ w \in Processes /\ proc[w].step # "record"
    BY <1>6 DEF PoolCheck, Processes, At
  <2> QED
    BY <1>0, <2>1, <2>2, RankIdle
<1>7. ASSUME NEW w \in Consults, At(w, "paused"), Resumed(w) PROVE RankInv'
  <2>1. proc'[w].step \in {"choose", "check"} /\ \A o \in Processes \ {w} : proc'[o] = proc[o]
    BY <1>7, ResumeGone
  <2>2. UNCHANGED <<health, streak>> /\ w \in Processes /\ proc[w].step # "record"
    BY <1>7 DEF Resumed, Processes, At
  <2> QED
    BY <1>0, <2>1, <2>2, RankIdle
<1>8. ASSUME NEW w \in Consults, Consult(w) PROVE RankInv'
  <2>1. w \in Processes /\ {} \in SUBSET Runtimes /\ UNCHANGED <<health, streak>> /\ proc[w].step # "record"
    BY <1>8 DEF Processes, Consult, At
  <2>2. proc'[w].step = "choose" /\ \A o \in Processes \ {w} : proc'[o] = proc[o]
    BY <1>8, <2>1, WalkGone DEF Consult
  <2> QED
    BY <1>0, <2>1, <2>2, RankIdle
<1>9. ASSUME NEW s \in Stages, Dispatch(s) PROVE RankInv'
  <2>1. s \in Processes /\ UNCHANGED <<health, streak>> /\ proc[s].step # "record"
    BY <1>9 DEF Processes, Dispatch, At
  <2>2. proc'[s].step = "running" /\ \A o \in Processes \ {s} : proc'[o] = proc[o]
    BY <1>9, DispatchGone
  <2> QED
    BY <1>0, <2>1, <2>2, RankIdle
<1>10. ASSUME NEW t \in Tests, Test(t) PROVE RankInv'
  <2>1. t \in Processes /\ UNCHANGED <<health, streak>> /\ proc[t].step # "record"
    BY <1>10 DEF Processes, Test, At
  <2>2. PICK r \in Runtimes : Turn(t, None, r, {}, {})
    BY <1>10 DEF Test
  <2>3. proc'[t].step = "running" /\ \A o \in Processes \ {t} : proc'[o] = proc[o]
    BY <2>1, <2>2, TurnGone
  <2> QED
    BY <1>0, <2>1, <2>3, RankIdle
<1>11. ASSUME NEW r \in Runtimes, Clear(r) PROVE RankInv'
  <2>1. /\ streak'[r] = 0
        /\ \A s \in Runtimes \ {r} : health'[s] = health[s] /\ streak'[s] = streak[s]
    BY <1>11, HealedRow DEF Clear
  <2>2. \A s \in Runtimes \ {r} : \A o \in Processes : Seen(o, s)' = Seen(o, s)
    BY <1>11, <2>1 DEF Clear, Seen
  <2> QED
    BY <1>0, <2>1, <2>2, RankReset
<1>12. ASSUME Tick PROVE RankInv'
  <2>1. \A r \in Runtimes : health'[r].timeouts = health[r].timeouts /\ streak'[r] = streak[r]
    BY <1>12, TickTypes
  <2>2. \A r \in Runtimes : \A o \in Processes : Seen(o, r)' = Seen(o, r)
    BY <1>12, <2>1 DEF Tick, Seen
  <2>3. \A r \in Runtimes : streak'[r] <= Cardinality(Below(Level(r)'))
    BY <1>0, <2>1, <2>2, RankKept
  <2> QED
    BY <2>3 DEF RankInv, Below, Ladders, Lower, Counts
<1>13. CASE UNCHANGED vars
  <2>1. \A r \in Runtimes : streak'[r] = streak[r] /\ \A o \in Processes : Seen(o, r)' = Seen(o, r)
    BY <1>13 DEF vars, Seen
  <2>2. \A r \in Runtimes : streak'[r] <= Cardinality(Below(Level(r)'))
    BY <1>0, <2>1, RankKept
  <2> QED
    BY <2>2 DEF RankInv, Below, Ladders, Lower, Counts
<1> QED
  BY <1>1, <1>2, <1>3, <1>4, <1>5, <1>6, <1>7, <1>8, <1>9, <1>10, <1>11, <1>12, <1>13
     DEF Next, Goes, TurnEnds, AutoResume, PersonResumes

\* TimeoutsBounded: whatever the limit and however many processes share a runtime's row, the timeouts recorded of
\* it in a row stay below the number of ladders (core/runtimeHealth.ts).  Each one leaves a ladder of its own below
\* the place the processes have reached, and that place is none of them.
THEOREM BoundedTimeouts ==
    ASSUME PoolAssumption, IsFiniteSet(Processes)
    PROVE  Spec => []TimeoutsBounded
<1>1. Init => TypeInv /\ RankInv
  <2>1. ASSUME Init PROVE RankInv
    <3>1. \A r \in Runtimes : streak[r] = 0
      BY <2>1 DEF Init
    <3>2. \A r \in Runtimes : streak[r] <= Cardinality(Below(Level(r)))
      BY <3>1, RankTypes
    <3> QED
      BY <3>2 DEF RankInv
  <2> QED
    BY <2>1, InitTypes
<1>2. TypeInv /\ RankInv /\ [Next]_vars => TypeInv' /\ RankInv'
  BY StepTypes, RankStep
<1>3. TypeInv /\ RankInv => TimeoutsBounded
  <2> SUFFICES ASSUME TypeInv, RankInv, NEW r \in Runtimes PROVE streak[r] < Cardinality(Ladders)
    BY DEF TimeoutsBounded
  <2>1. TimeoutLimit \in Nat \ {0}
    BY DEF PoolAssumption
  <2>2. Level(r) \in Ladders /\ Level(r) \in [Counts -> Nat]
    BY ViewTypes, SpreadIsLadder DEF Level
  <2>3. Level(r) \notin Below(Level(r))
    BY <2>1, <2>2, LowerOrders DEF Below
  <2>4. Below(Level(r)) \in SUBSET Ladders /\ Below(Level(r)) # Ladders
    BY <2>2, <2>3 DEF Below
  <2>5. IsFiniteSet(Ladders)
    BY <2>1, LaddersFinite
  <2>6. Cardinality(Below(Level(r))) <= Cardinality(Ladders) /\ Cardinality(Below(Level(r))) # Cardinality(Ladders)
    BY <2>4, <2>5, FS_Subset
  <2>7. Cardinality(Below(Level(r))) \in Nat /\ Cardinality(Ladders) \in Nat
    BY <2>5, RankTypes, FS_CardinalityType
  <2>8. streak[r] \in Nat /\ streak[r] <= Cardinality(Below(Level(r)))
    BY DEF TypeInv, TypeOK, RankInv
  <2> QED
    BY <2>6, <2>7, <2>8
<1> QED
  BY <1>1, <1>2, <1>3, PTL DEF Spec

\* With the default limit of 2 (core/runtimeHealth.ts) there is one ladder per number of processes: between two
\* other results of a runtime there are no more timeouts without a cooldown than there are processes that use it.
THEOREM DefaultLimitBounded ==
    ASSUME PoolAssumption, TimeoutLimit = 2, IsFiniteSet(Processes)
    PROVE  Spec => [](\A r \in Runtimes : streak[r] <= Cardinality(Processes))
<1> DEFINE N == Cardinality(Processes)
           First1 == [f \in Ladders |-> f[1]]
<1>1. N \in Nat /\ IsFiniteSet(0 .. N) /\ Cardinality(0 .. N) = N + 1
  BY FS_CardinalityType, FS_Interval
<1>2. First1 \in Injection(Ladders, 0 .. N)
  <2>1. \A f \in Ladders : f \in [{1} -> 0 .. N]
    BY DEF Ladders
  <2>2. First1 \in [Ladders -> 0 .. N]
    BY <2>1
  <2>3. \A f, g \in Ladders : First1[f] = First1[g] => f = g
    BY <2>1
  <2> HIDE DEF First1
  <2> QED
    BY <2>2, <2>3 DEF Injection, IsInjective
<1> HIDE DEF First1
<1>3. IsFiniteSet(Ladders) /\ Cardinality(Ladders) <= N + 1
  BY <1>1, <1>2, FS_Injection
<1>4. TypeInv /\ TimeoutsBounded => \A r \in Runtimes : streak[r] <= N
  <2> SUFFICES ASSUME TypeInv, TimeoutsBounded, NEW r \in Runtimes PROVE streak[r] <= N
    OBVIOUS
  <2>1. streak[r] \in Nat /\ streak[r] < Cardinality(Ladders)
    BY DEF TypeInv, TypeOK, TimeoutsBounded
  <2>2. Cardinality(Ladders) \in Nat
    BY <1>3, FS_CardinalityType
  <2> QED
    BY <1>1, <1>3, <2>1, <2>2
<1>5. Init /\ [][Next]_vars => []TypeInv
  <2>1. Init => TypeInv
    BY InitTypes
  <2>2. TypeInv /\ [Next]_vars => TypeInv'
    BY StepTypes
  <2> QED
    BY <2>1, <2>2, PTL
<1>6. Spec => []TimeoutsBounded
  BY BoundedTimeouts
<1> QED
  BY <1>4, <1>5, <1>6, PTL DEF Spec

-----------------------------------------------------------------------------
(* How far a walk can go *)

Untried(w) == Range(Candidates) \ proc[w].tried
WalkSteps == {"choose", "running", "record", "check"}

\* the runtime a walk is at is a candidate it has not tried yet
WalkInv == \A w \in Consults : proc[w].step \in {"running", "record"} => proc[w].at \in Untried(w)

\* what is left of the walk of w: three steps for every candidate it may still ask, and the last look or check
WalkLeft(w) ==
    CASE proc[w].step = "choose"  -> 3 * Cardinality(Untried(w)) + 3
      [] proc[w].step = "running" -> 3 * Cardinality(Untried(w)) + 2
      [] proc[w].step = "record"  -> 3 * Cardinality(Untried(w)) + 1
      [] proc[w].step = "check"   -> 1
      [] OTHER                    -> 0

\* one step of a work run along its walk, as its own row shows it
Moves(w) ==
    LET old == proc[w]
        new == proc'[w]
    IN  \/ old.step \in {"idle", "paused"} /\ new.step \in {"choose", "check"}
        \/ old.step = "choose" /\ new.step = "running" /\ new.tried = old.tried /\ new.at \in Range(Candidates) \ old.tried
        \/ old.step = "choose" /\ new.step = "paused"
        \/ old.step = "running" /\ new.step = "record" /\ new.tried = old.tried /\ new.at = old.at
        \/ old.step = "running" /\ new.step \in {"idle", "check"}
        \/ old.step = "record" /\ new.step = "choose" /\ new.tried = old.tried \cup {old.at}
        \/ old.step = "check" /\ new.step \in {"idle", "paused"}

LEMMA Lands ==
    ASSUME TypeInv, NEW p \in Processes, NEW q, Goto(p, q)
    PROVE  proc'[p] = q /\ \A o \in Processes \ {p} : proc'[o] = proc[o]
<1>1. proc \in [Processes -> Turns]
  BY DEF TypeInv, TypeOK, Turns
<1> QED
  BY <1>1 DEF Goto

\* nobody moves a walk but its own run, and that one only forwards
LEMMA WalkMoves ==
    ASSUME TypeInv, PoolAssumption, [Next]_vars, NEW w \in Consults
    PROVE  proc'[w] = proc[w] \/ Moves(w)
<1>0. Consults \subseteq Processes /\ Consults \cap Stages = {} /\ Consults \cap Tests = {}
  BY DEF Processes, PoolAssumption
<1>1. ASSUME NEW p \in Processes, Succeed(p) \/ WorkFails(p) PROVE proc'[w] = proc[w] \/ Moves(w)
  <2>1. Over(p) /\ proc[p].step = "running"
    BY <1>1 DEF Succeed, WorkFails, At
  <2>2. proc'[p].step \in {"idle", "check"} /\ \A o \in Processes \ {p} : proc'[o] = proc[o]
    BY <2>1, OverGone
  <2> QED
    BY <1>0, <2>1, <2>2 DEF Moves
<1>2. ASSUME NEW p \in Processes, NEW class \in Failures, RuntimeFails(p, class) PROVE proc'[w] = proc[w] \/ Moves(w)
  <2>1. proc[p].step = "running"
    BY <1>2 DEF RuntimeFails, At
  <2> DEFINE q == [step |-> "record", role |-> proc[p].role, at |-> proc[p].at, tried |-> proc[p].tried,
                   rest |-> proc[p].rest, class |-> class,
                   read |-> IF class = "TIMEOUT" THEN health[proc[p].at].timeouts ELSE 0]
  <2>2. Goto(p, q)
    BY <1>2 DEF RuntimeFails
  <2>3. q.step = "record" /\ q.at = proc[p].at /\ q.tried = proc[p].tried
    OBVIOUS
  <2> HIDE DEF q
  <2>4. proc'[p] = q /\ \A o \in Processes \ {p} : proc'[o] = proc[o]
    BY <2>2, Lands
  <2> QED
    BY <1>0, <2>1, <2>3, <2>4 DEF Moves
<1>3. ASSUME NEW p \in Processes, Record(p) PROVE proc'[w] = proc[w] \/ Moves(w)
  <2>1. proc[p].step = "record" /\ AfterFailure(p)
    BY <1>3 DEF Record, At
  <2>2. CASE p # w
    BY <1>0, <1>3, <2>2, AfterGone DEF Record
  <2>3. CASE p = w
    <3>1. Goto(w, Walking(proc[w].tried \cup {proc[w].at}))
      BY <2>1, <2>3 DEF AfterFailure
    <3>2. proc'[w] = Walking(proc[w].tried \cup {proc[w].at})
      BY <1>0, <3>1, Lands
    <3> QED
      BY <2>1, <2>3, <3>2 DEF Moves, Walking
  <2> QED
    BY <2>2, <2>3
<1>4. ASSUME NEW v \in Consults, Choose(v) PROVE proc'[w] = proc[w] \/ Moves(w)
  <2>1. proc[v].step = "choose" /\ v \in Processes
    BY <1>0, <1>4 DEF Choose, At
  <2>2. CASE v # w
    BY <1>0, <1>4, <2>2, ChooseGone
  <2>3. CASE \E r \in Usable(Candidates, proc[v].tried) : Turn(v, None, r, proc[v].tried, {})
    <3>1. PICK r \in Range(Candidates) \ proc[v].tried : Turn(v, None, r, proc[v].tried, {})
      BY <2>3 DEF Usable
    <3> DEFINE q == [step |-> "running", role |-> None, at |-> r, tried |-> proc[v].tried, rest |-> {}, class |-> None,
                     read |-> 0]
    <3>2. Goto(v, q) /\ q.step = "running" /\ q.at = r /\ q.tried = proc[v].tried
      BY <3>1 DEF Turn
    <3> HIDE DEF q
    <3>3. proc'[v] = q /\ \A o \in Processes \ {v} : proc'[o] = proc[o]
      BY <2>1, <3>2, Lands
    <3> QED
      BY <1>0, <2>1, <3>1, <3>2, <3>3 DEF Moves
  <2>4. CASE \E n \in Times : PauseExhausted(v, n)
    BY <1>0, <2>1, <2>4, PauseTypes DEF Moves
  <2> QED
    BY <1>4, <2>3, <2>4 DEF Choose
<1>5. ASSUME NEW v \in Consults, PoolCheck(v) PROVE proc'[w] = proc[w] \/ Moves(w)
  BY <1>0, <1>5, CheckGone DEF Moves, PoolCheck, At
<1>6. ASSUME NEW v \in Consults, Resumed(v), At(v, "paused") PROVE proc'[w] = proc[w] \/ Moves(w)
  BY <1>0, <1>6, ResumeGone DEF Moves, At
<1>7. ASSUME NEW v \in Consults, Consult(v) PROVE proc'[w] = proc[w] \/ Moves(w)
  <2>1. Goto(v, Walking({})) /\ proc[v].step = "idle" /\ v \in Processes /\ {} \in SUBSET Runtimes
    BY <1>0, <1>7 DEF Consult, At
  <2>2. proc'[v].step = "choose" /\ \A o \in Processes \ {v} : proc'[o] = proc[o]
    BY <2>1, WalkGone
  <2> QED
    BY <1>0, <2>1, <2>2 DEF Moves
<1>8. ASSUME NEW s \in Stages, Dispatch(s) PROVE proc'[w] = proc[w]
  BY <1>0, <1>8, DispatchGone
<1>9. ASSUME NEW t \in Tests, Test(t) PROVE proc'[w] = proc[w]
  <2>1. PICK r \in Runtimes : Turn(t, None, r, {}, {})
    BY <1>9 DEF Test
  <2>2. t \in Processes /\ {} \in SUBSET Runtimes /\ r \notin {}
    BY DEF Processes
  <2>3. \A o \in Processes \ {t} : proc'[o] = proc[o]
    BY <2>1, <2>2, TurnGone
  <2> QED
    BY <1>0, <2>3
<1>10. ASSUME NEW r \in Runtimes, Clear(r) PROVE proc'[w] = proc[w]
  BY <1>10 DEF Clear
<1>11. ASSUME Tick PROVE proc'[w] = proc[w]
  BY <1>11 DEF Tick
<1>12. CASE UNCHANGED vars
  BY <1>12 DEF vars
<1> QED
  BY <1>1, <1>2, <1>3, <1>4, <1>5, <1>6, <1>7, <1>8, <1>9, <1>10, <1>11, <1>12
     DEF Next, Goes, TurnEnds, AutoResume, PersonResumes

LEMMA UntriedSize ==
    ASSUME PoolAssumption, NEW tried
    PROVE  /\ IsFiniteSet(Range(Candidates) \ tried)
           /\ Cardinality(Range(Candidates) \ tried) \in Nat
           /\ Cardinality(Range(Candidates) \ tried) <= Len(CommanderOrder)
           /\ \A r \in Range(Candidates) \ tried :
                  Cardinality(Range(Candidates) \ (tried \cup {r})) = Cardinality(Range(Candidates) \ tried) - 1
<1> DEFINE D == 1 .. Len(CommanderOrder)
<1>1. CommanderOrder \in Seq(Runtimes) /\ CommanderOrder # <<>>
  BY DEF PoolAssumption
<1>2. /\ Len(CommanderOrder) \in Nat /\ DOMAIN CommanderOrder = D /\ 1 \in D
      /\ CommanderOrder \in [D -> Range(CommanderOrder)]
  BY <1>1 DEF Range
<1>3. IsFiniteSet(D) /\ Cardinality(D) = Len(CommanderOrder)
  BY <1>2, FS_Interval
<1>4. CommanderOrder \in Surjection(D, Range(CommanderOrder))
  BY <1>2 DEF Range, Surjection
<1>5. IsFiniteSet(Range(CommanderOrder)) /\ Cardinality(Range(CommanderOrder)) <= Len(CommanderOrder)
  BY <1>3, <1>4, FS_Surjection
<1>6. Range(Candidates) \subseteq Range(CommanderOrder)
  <2>1. CASE Fallback
    BY <2>1 DEF Candidates
  <2>2. CASE ~Fallback
    <3>1. Candidates = <<CommanderOrder[1]>>
      BY <1>1, <2>2 DEF Candidates
    <3>2. Range(Candidates) = {CommanderOrder[1]}
      BY <3>1 DEF Range
    <3> QED
      BY <1>2, <3>2 DEF Range
  <2> QED
    BY <2>1, <2>2
<1> DEFINE U == Range(Candidates) \ tried
<1>7. IsFiniteSet(U) /\ Cardinality(U) <= Cardinality(Range(CommanderOrder))
  BY <1>5, <1>6, FS_Subset
<1>8. Cardinality(U) \in Nat /\ Cardinality(Range(CommanderOrder)) \in Nat
  BY <1>5, <1>7, FS_CardinalityType
<1>9. ASSUME NEW r \in U PROVE Cardinality(Range(Candidates) \ (tried \cup {r})) = Cardinality(U) - 1
  <2>1. Range(Candidates) \ (tried \cup {r}) = U \ {r}
    OBVIOUS
  <2> QED
    BY <1>7, <2>1, FS_RemoveElement
<1>10. Cardinality(U) <= Len(CommanderOrder)
  BY <1>2, <1>5, <1>7, <1>8
<1> QED
  BY <1>7, <1>8, <1>9, <1>10

LEMMA WalkInvStep ==
    ASSUME TypeInv, WalkInv, PoolAssumption, [Next]_vars
    PROVE  WalkInv'
<1> SUFFICES ASSUME NEW w \in Consults, proc'[w].step \in {"running", "record"}
             PROVE  proc'[w].at \in Range(Candidates) \ proc'[w].tried
  BY DEF WalkInv, Untried
<1>1. CASE proc'[w] = proc[w]
  BY <1>1 DEF WalkInv, Untried
<1>2. CASE Moves(w)
  BY <1>2 DEF Moves, WalkInv, Untried
<1> QED
  BY <1>1, <1>2, WalkMoves

\* every step of a run along its walk leaves less of it
LEMMA WalkShrinks ==
    ASSUME WalkInv, PoolAssumption, NEW w \in Consults, proc[w].step \in WalkSteps, Moves(w)
    PROVE  WalkLeft(w)' < WalkLeft(w)
<1> DEFINE n == Cardinality(Range(Candidates) \ proc[w].tried)
           m == Cardinality(Range(Candidates) \ proc'[w].tried)
<1>1. n \in Nat /\ m \in Nat
  BY UntriedSize
<1>2. WalkLeft(w) = CASE proc[w].step = "choose"  -> 3 * n + 3
                      [] proc[w].step = "running" -> 3 * n + 2
                      [] proc[w].step = "record"  -> 3 * n + 1
                      [] proc[w].step = "check"   -> 1
                      [] OTHER                    -> 0
  BY DEF WalkLeft, Untried
<1>3. WalkLeft(w)' = CASE proc'[w].step = "choose"  -> 3 * m + 3
                       [] proc'[w].step = "running" -> 3 * m + 2
                       [] proc'[w].step = "record"  -> 3 * m + 1
                       [] proc'[w].step = "check"   -> 1
                       [] OTHER                     -> 0
  BY DEF WalkLeft, Untried
<1>4. proc'[w].tried = proc[w].tried => m = n
  OBVIOUS
<1>5. proc[w].step = "record" /\ proc'[w].tried = proc[w].tried \cup {proc[w].at} => m = n - 1
  <2> HAVE proc[w].step = "record" /\ proc'[w].tried = proc[w].tried \cup {proc[w].at}
  <2>1. proc[w].at \in Range(Candidates) \ proc[w].tried
    BY DEF WalkInv, Untried
  <2> QED
    BY <2>1, UntriedSize
<1> HIDE DEF n, m
<1>6. CASE proc[w].step = "choose"
  <2>1. proc'[w].step = "paused" \/ (proc'[w].step = "running" /\ proc'[w].tried = proc[w].tried)
    BY <1>6 DEF Moves
  <2> QED
    BY <1>1, <1>2, <1>3, <1>4, <1>6, <2>1
<1>7. CASE proc[w].step = "running"
  <2>1. proc'[w].step \in {"idle", "check"} \/ (proc'[w].step = "record" /\ proc'[w].tried = proc[w].tried)
    BY <1>7 DEF Moves
  <2> QED
    BY <1>1, <1>2, <1>3, <1>4, <1>7, <2>1
<1>8. CASE proc[w].step = "record"
  <2>1. proc'[w].step = "choose" /\ proc'[w].tried = proc[w].tried \cup {proc[w].at}
    BY <1>8 DEF Moves
  <2> QED
    BY <1>1, <1>2, <1>3, <1>5, <1>8, <2>1
<1>9. CASE proc[w].step = "check"
  <2>1. proc'[w].step \in {"idle", "paused"}
    BY <1>9 DEF Moves
  <2> QED
    BY <1>2, <1>3, <1>9, <2>1
<1> QED
  BY <1>6, <1>7, <1>8, <1>9 DEF WalkSteps

LEMMA WalkBound ==
    ASSUME PoolAssumption, NEW w \in Consults
    PROVE  WalkLeft(w) \in 0 .. 3 * Len(CommanderOrder) + 3
<1> DEFINE n == Cardinality(Untried(w))
<1>1. n \in Nat /\ n <= Len(CommanderOrder)
  BY UntriedSize DEF Untried
<1>2. WalkLeft(w) \in {3 * n + 3, 3 * n + 2, 3 * n + 1, 1, 0}
  BY DEF WalkLeft
<1>3. Len(CommanderOrder) \in Nat
  BY DEF PoolAssumption
<1> HIDE DEF n
<1> QED
  BY <1>1, <1>2, <1>3

\* A walk is short whatever the rest of the machine does meanwhile, cools, heals or clears: what is left of it is
\* never more than three steps for each runtime of the order and three more, a step of the run itself takes some of
\* that away, and a step of anybody else takes none of it back.  No runtime is asked twice (runCommander,
\* core/commander.ts: "nothing can loop forever").
THEOREM WalkShortens ==
    ASSUME PoolAssumption
    PROVE  /\ Spec => [](\A w \in Consults : WalkLeft(w) \in 0 .. 3 * Len(CommanderOrder) + 3)
           /\ Spec => [][ \A w \in Consults :
                             proc[w].step \in WalkSteps =>
                                 /\ proc'[w] # proc[w] => WalkLeft(w)' < WalkLeft(w)
                                 /\ proc'[w].step = "running" /\ proc[w].step # "running" =>
                                        proc'[w].at \in Untried(w) ]_vars
<1>1. Init => TypeInv /\ WalkInv
  <2>1. Init => WalkInv
    BY DEF Init, WalkInv, Resting, Processes
  <2> QED
    BY <2>1, InitTypes
<1>2. TypeInv /\ WalkInv /\ [Next]_vars => TypeInv' /\ WalkInv'
  BY StepTypes, WalkInvStep
<1>3. \A w \in Consults : WalkLeft(w) \in 0 .. 3 * Len(CommanderOrder) + 3
  BY WalkBound
<1>4. TypeInv /\ WalkInv /\ [Next]_vars =>
      [ \A w \in Consults :
          proc[w].step \in WalkSteps =>
              /\ proc'[w] # proc[w] => WalkLeft(w)' < WalkLeft(w)
              /\ proc'[w].step = "running" /\ proc[w].step # "running" => proc'[w].at \in Untried(w) ]_vars
  <2> SUFFICES ASSUME TypeInv, WalkInv, [Next]_vars, NEW w \in Consults, proc[w].step \in WalkSteps,
                      proc'[w] # proc[w]
               PROVE  /\ WalkLeft(w)' < WalkLeft(w)
                      /\ proc'[w].step = "running" /\ proc[w].step # "running" => proc'[w].at \in Untried(w)
    OBVIOUS
  <2>1. Moves(w)
    BY WalkMoves
  <2>2. WalkLeft(w)' < WalkLeft(w)
    BY <2>1, WalkShrinks
  <2>3. proc'[w].step = "running" /\ proc[w].step # "running" => proc'[w].at \in Untried(w)
    BY <2>1 DEF Moves, WalkSteps, Untried
  <2> QED
    BY <2>2, <2>3
<1>5. Spec => [](\A w \in Consults : WalkLeft(w) \in 0 .. 3 * Len(CommanderOrder) + 3)
  BY <1>3, PTL
<1>6. Spec => [][ \A w \in Consults :
                    proc[w].step \in WalkSteps =>
                        /\ proc'[w] # proc[w] => WalkLeft(w)' < WalkLeft(w)
                        /\ proc'[w].step = "running" /\ proc[w].step # "running" => proc'[w].at \in Untried(w) ]_vars
  BY <1>1, <1>2, <1>4, PTL DEF Spec
<1> QED
  BY <1>5, <1>6

-----------------------------------------------------------------------------
(* How a pause with a known end goes on *)

\* who changes what a run waits for: time, the run's own resume, and the step that pauses it
LEMMA WaitMoves ==
    ASSUME TypeInv, PoolAssumption, [Next]_vars, NEW w \in Consults
    PROVE  \/ wait'[w] = wait[w] /\ (proc[w].step = "paused" => proc'[w] = proc[w])
           \/ Tick /\ wait'[w] = Elapsed(wait[w]) /\ proc'[w] = proc[w]
           \/ wait'[w] = None /\ proc[w].step = "paused" /\ proc'[w].step \in {"choose", "check"}
           \/ proc'[w].step = "paused" /\ proc[w].step \in {"choose", "check"}
<1> DEFINE Stays == wait'[w] = wait[w] /\ (proc[w].step = "paused" => proc'[w] = proc[w])
           Comes == wait'[w] = None /\ proc[w].step = "paused" /\ proc'[w].step \in {"choose", "check"}
           Pauses == proc'[w].step = "paused" /\ proc[w].step \in {"choose", "check"}
<1>0. /\ Consults \subseteq Processes /\ Consults \cap Stages = {} /\ Consults \cap Tests = {}
      /\ wait \in [Consults -> Nat \cup {None}]
  BY WaitTypes DEF Processes, PoolAssumption
<1>1. ASSUME NEW p \in Processes, TurnEnds(p) PROVE Stays
  <2>1. proc[p].step \in {"running", "record"} /\ UNCHANGED wait
    BY <1>1 DEF TurnEnds, Succeed, WorkFails, Record, RuntimeFails, At
  <2>2. \A o \in Processes \ {p} : proc'[o] = proc[o]
    <3>1. CASE Succeed(p) \/ WorkFails(p)
      BY <3>1, OverGone DEF Succeed, WorkFails
    <3>2. CASE Record(p)
      BY <3>2, AfterGone DEF Record
    <3>3. ASSUME NEW class \in Failures, RuntimeFails(p, class) PROVE \A o \in Processes \ {p} : proc'[o] = proc[o]
      BY <3>3, Lands DEF RuntimeFails
    <3> QED
      BY <1>1, <3>1, <3>2, <3>3 DEF TurnEnds
  <2> QED
    BY <1>0, <2>1, <2>2
<1>2. ASSUME NEW v \in Consults, Choose(v) \/ PoolCheck(v) PROVE Stays \/ Pauses
  <2>1. proc[v].step \in {"choose", "check"} /\ v \in Processes
    BY <1>0, <1>2 DEF Choose, PoolCheck, At
  <2>2. UNCHANGED wait \/ \E n \in Times : PauseExhausted(v, n)
    BY <1>2 DEF Choose, PoolCheck
  <2>3. \A o \in Processes \ {v} : proc'[o] = proc[o]
    BY <1>2, ChooseGone, CheckGone
  <2>4. CASE v # w
    BY <1>0, <2>2, <2>3, <2>4 DEF PauseExhausted
  <2>5. CASE v = w /\ \E n \in Times : PauseExhausted(v, n)
    BY <2>1, <2>5, PauseTypes
  <2> QED
    BY <2>1, <2>2, <2>4, <2>5
<1>3. ASSUME NEW v \in Consults, Resumed(v), At(v, "paused") PROVE Stays \/ Comes
  <2>1. (\A o \in Processes \ {v} : proc'[o] = proc[o]) /\ proc'[v].step \in {"choose", "check"}
    BY <1>3, ResumeGone
  <2>2. wait' = [wait EXCEPT ![v] = None]
    BY <1>3 DEF Resumed
  <2> QED
    BY <1>0, <1>3, <2>1, <2>2 DEF At
<1>4. ASSUME NEW v \in Consults, Consult(v) PROVE Stays
  <2>1. Goto(v, Walking({})) /\ proc[v].step = "idle" /\ v \in Processes /\ UNCHANGED wait
    BY <1>0, <1>4 DEF Consult, At
  <2> QED
    BY <1>0, <2>1, Lands
<1>5. ASSUME NEW s \in Stages, Dispatch(s) PROVE Stays
  BY <1>0, <1>5, DispatchGone
<1>6. ASSUME NEW t \in Tests, Test(t) PROVE Stays
  <2>1. PICK r \in Runtimes : Turn(t, None, r, {}, {})
    BY <1>6 DEF Test
  <2>2. t \in Processes /\ {} \in SUBSET Runtimes /\ r \notin {}
    BY DEF Processes
  <2>3. \A o \in Processes \ {t} : proc'[o] = proc[o]
    BY <2>1, <2>2, TurnGone
  <2> QED
    BY <1>0, <1>6, <2>3 DEF Test
<1>7. ASSUME NEW r \in Runtimes, Clear(r) PROVE Stays
  BY <1>7 DEF Clear
<1>8. ASSUME Tick PROVE wait'[w] = Elapsed(wait[w]) /\ proc'[w] = proc[w]
  BY <1>8 DEF Tick
<1>9. CASE UNCHANGED vars
  BY <1>9 DEF vars
<1> QED
  BY <1>1, <1>2, <1>3, <1>4, <1>5, <1>6, <1>7, <1>8, <1>9 DEF Next, Goes, AutoResume, PersonResumes

\* A pause with a known end is a pause, and comes nearer to its end: no failure,
\* cooldown or success of anybody else puts it off or drops its time, only the run's
\* resume ends it, and every tick takes some of what is left (pauseExhausted and the resume of step, workRunService.ts).
THEOREM PauseCountsDown ==
    ASSUME PoolAssumption
    PROVE  /\ Spec => [](\A w \in Consults : wait[w] # None => At(w, "paused") /\ wait[w] \in Nat)
           /\ Spec => [][ \A w \in Consults : wait[w] # None =>
                             \/ /\ proc'[w] = proc[w] /\ wait'[w] # None
                                /\ IF Tick /\ wait[w] # 0 THEN wait'[w] < wait[w] ELSE wait'[w] = wait[w]
                             \/ wait'[w] = None /\ proc'[w].step \in {"choose", "check"} ]_vars
<1> DEFINE Waits == \A w \in Consults : wait[w] # None => At(w, "paused") /\ wait[w] \in Nat
           Nearer(w) == \/ /\ proc'[w] = proc[w] /\ wait'[w] # None
                           /\ IF Tick /\ wait[w] # 0 THEN wait'[w] < wait[w] ELSE wait'[w] = wait[w]
                        \/ wait'[w] = None /\ proc'[w].step \in {"choose", "check"}
<1>1. Init => TypeInv /\ Waits
  BY InitTypes DEF Init
<1>2. ASSUME TypeInv, Waits, [Next]_vars, NEW w \in Consults, wait[w] # None
      PROVE  Nearer(w)
  <2>1. proc[w].step = "paused" /\ wait[w] \in Nat
    BY <1>2 DEF At
  <2>2. CASE Tick
    <3>1. wait'[w] = Elapsed(wait[w]) /\ proc'[w] = proc[w]
      BY <2>2 DEF Tick
    <3>2. IF wait[w] # 0 THEN wait'[w] \in Nat /\ wait'[w] < wait[w] ELSE wait'[w] = wait[w]
      BY <2>1, <3>1 DEF Elapsed
    <3> QED
      BY <1>2, <2>2, <3>1, <3>2 DEF PoolAssumption
  <2>3. CASE ~Tick
    BY <1>2, <2>1, <2>3, WaitMoves
  <2> QED
    BY <2>2, <2>3
<1>3. ASSUME TypeInv, TypeInv', Waits, [Next]_vars PROVE Waits'
  <2> SUFFICES ASSUME NEW w \in Consults, wait'[w] # None PROVE proc'[w].step = "paused" /\ wait'[w] \in Nat
    BY DEF At
  <2>1. wait'[w] \in Nat
    <3>1. wait' \in [Consults -> Nat \cup {None}]
      BY <1>3 DEF TypeInv, TypeOK
    <3> QED
      BY <3>1
  <2>2. CASE wait[w] # None
    <3>1. proc'[w] = proc[w]
      <4>1. Nearer(w)
        BY <1>2, <1>3, <2>2
      <4> QED
        BY <4>1
    <3>2. proc[w].step = "paused"
      BY <1>3, <2>2 DEF At
    <3> QED
      BY <2>1, <3>1, <3>2
  <2>3. CASE wait[w] = None
    <3>1. Elapsed(wait[w]) = None
      <4>1. None \notin Nat \ {0}
        BY DEF PoolAssumption
      <4> QED
        BY <2>3, <4>1 DEF Elapsed
    <3>2. \/ wait'[w] = wait[w]
          \/ wait'[w] = Elapsed(wait[w])
          \/ wait'[w] = None
          \/ proc'[w].step = "paused"
      BY <1>3, WaitMoves
    <3> QED
      BY <2>1, <2>3, <3>1, <3>2
  <2> QED
    BY <2>1, <2>2, <2>3
<1>4. TypeInv /\ Waits /\ [Next]_vars => TypeInv' /\ Waits'
  BY <1>3, StepTypes
<1>5. TypeInv /\ Waits /\ [Next]_vars => [ \A w \in Consults : wait[w] # None => Nearer(w) ]_vars
  BY <1>2
<1>6. Spec => []Waits
  BY <1>1, <1>4, PTL DEF Spec
<1>7. Spec => [][ \A w \in Consults : wait[w] # None => Nearer(w) ]_vars
  BY <1>1, <1>4, <1>5, PTL DEF Spec
<1> QED
  BY <1>6, <1>7

=============================================================================
