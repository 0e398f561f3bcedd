---------------------------- MODULE WorkRunProofs ----------------------------
(***************************************************************************)
(* Proofs about WorkRun for every number of runs, groups, segments and     *)
(* faults.  IInv is the inductive invariant: besides the types it relates  *)
(* the request flags to the status and to the segments of a run.           *)
(***************************************************************************)
EXTENDS WorkRun, SequenceTheorems, FiniteSetTheorems, TLAPS

NoRequest(d) == ~d.pauseRequested /\ ~d.stopRequested

\* the service died in this gap of a step of this run; "assess": in a turn that had
\* recorded an exhausted pool over a request
Cut(r, g) == <<r, g>> \in faults.cut
Free(d, x) == NoRequest(d) \/ x

\* A document that may be driven carries no request, and neither does one that
\* has no segment yet: before the first segment every request takes effect at once.
DocInv(d, x) ==
    /\ d.status \in {"ABSENT", "QUEUED", "RUNNING", "PAUSED_RUNTIME_EXHAUSTED"} => Free(d, x)
    /\ d.segs = <<>> => NoRequest(d) /\ d.status \notin {"RUNNING", "PAUSING", "STOPPING"}
    /\ CommanderEnabled /\ ~d.noted => d.segs = <<>>

DocOK(d, x) == d \in Docs /\ Len(d.segs) <= MaxSegments /\ DocInv(d, x)

FrameInv == \A r \in Runs : frame[r] = "start" => run[r].segs = <<>>

IInv == TypeOK /\ (\A r \in Runs : DocInv(run[r], Cut(r, "assess"))) /\ FrameInv

-----------------------------------------------------------------------------
(* Documents: what each operation does to the parts IInv speaks of *)

LEMMA StatusDoc ==
    ASSUME NEW d \in Docs, NEW s \in Statuses
    PROVE  /\ SetStatus(d, s) \in Docs
           /\ SetStatus(d, s).status = s
           /\ SetStatus(d, s).segs = d.segs
           /\ SetStatus(d, s).noted = d.noted
           /\ NoRequest(SetStatus(d, s)) = NoRequest(d)
BY DEF SetStatus, Docs, NoRequest

LEMMA GateDoc ==
    ASSUME NEW d \in Docs, NEW k \in GateKinds
    PROVE  /\ OpenGate(d, k) \in Docs
           /\ OpenGate(d, k).status = "WAITING_FOR_HUMAN"
           /\ OpenGate(d, k).segs = d.segs
           /\ OpenGate(d, k).noted = d.noted
           /\ NoRequest(OpenGate(d, k)) = NoRequest(d)
BY DEF OpenGate, Docs, NoRequest, Statuses

LEMMA BlockedDoc ==
    ASSUME NEW d \in Docs, NEW b \in Blocked(d)
    PROVE  /\ b \in Docs
           /\ b.status \in {"PAUSED_RUNTIME_EXHAUSTED", "WAITING_FOR_HUMAN"}
           /\ b.segs = d.segs
           /\ b.noted = d.noted
           /\ NoRequest(b) = NoRequest(d)
<1>1. CASE b = OpenGate(d, "security_runtime")
  BY <1>1, GateDoc DEF GateKinds
<1>2. CASE \E at \in {"later", "none"} : b = PauseExhausted(d, at)
  <2>1. PICK at \in {"later", "none"} : b = PauseExhausted(d, at)
    BY <1>2
  <2>2. d.gates \cup {"runtime_exhausted"} \in SUBSET GateKinds
    BY DEF Docs, GateKinds
  <2>3. at \in {"none", "later", "due"} /\ "PAUSED_RUNTIME_EXHAUSTED" \in Statuses
    BY DEF Statuses
  <2>4. PauseExhausted(d, at) \in Docs
    BY <2>2, <2>3 DEF PauseExhausted, Docs
  <2>5. /\ PauseExhausted(d, at).status = "PAUSED_RUNTIME_EXHAUSTED"
        /\ PauseExhausted(d, at).segs = d.segs
        /\ PauseExhausted(d, at).noted = d.noted
        /\ PauseExhausted(d, at).pauseRequested = d.pauseRequested
        /\ PauseExhausted(d, at).stopRequested = d.stopRequested
    BY DEF PauseExhausted, Docs
  <2> QED BY <2>1, <2>4, <2>5 DEF NoRequest
<1> QED BY <1>1, <1>2 DEF Blocked

LEMMA TargetsDoc ==
    ASSUME NEW d \in Docs
    PROVE  /\ EnsureTargets(d) \in Docs
           /\ EnsureTargets(d).status = d.status
           /\ EnsureTargets(d).segs = d.segs
           /\ EnsureTargets(d).noted = d.noted
           /\ NoRequest(EnsureTargets(d)) = NoRequest(d)
BY DEF EnsureTargets, Docs, NoRequest, GroupStates

LEMMA MarkDoc ==
    ASSUME NEW d \in Docs, NEW s \in GroupStates, NEW t \in GroupStates
    PROVE  /\ MarkFirst(d, s, t) \in Docs
           /\ MarkFirst(d, s, t).status = d.status
           /\ MarkFirst(d, s, t).segs = d.segs
           /\ MarkFirst(d, s, t).noted = d.noted
           /\ NoRequest(MarkFirst(d, s, t)) = NoRequest(d)
BY DEF MarkFirst, Docs, NoRequest

LEMMA AttributedDoc ==
    ASSUME NEW d \in Docs, NEW b \in Bid
    PROVE  /\ Attributed(d, b) \in Docs
           /\ Attributed(d, b).status = d.status
           /\ Attributed(d, b).segs = d.segs
           /\ Attributed(d, b).noted = d.noted
           /\ NoRequest(Attributed(d, b)) = NoRequest(d)
BY DEF Attributed, Docs, NoRequest, IsFirst

LEMMA ClosedDoc ==
    ASSUME NEW d \in Docs, SegOpen(d), NEW f \in Files, NEW code \in SegStates
    PROVE  /\ Closed(d, f, code) \in Docs
           /\ Closed(d, f, code).status = d.status
           /\ Len(Closed(d, f, code).segs) = Len(d.segs)
           /\ Closed(d, f, code).segs # <<>>
           /\ Closed(d, f, code).noted = d.noted
           /\ NoRequest(Closed(d, f, code)) = NoRequest(d)
<1> DEFINE n == Len(d.segs)
           c == [d EXCEPT !.segs[n] = code]
<1>1. d.segs \in Seq(SegStates) /\ d.segs # <<>> /\ n \in Nat /\ n \in 1 .. n
  BY DEF Docs, SegOpen
<1>2. [d.segs EXCEPT ![n] = code] \in Seq(SegStates) /\ Len([d.segs EXCEPT ![n] = code]) = n
  BY <1>1
<1>3. /\ c \in Docs /\ c.status = d.status /\ c.segs = [d.segs EXCEPT ![n] = code]
      /\ c.noted = d.noted /\ NoRequest(c) = NoRequest(d)
  BY <1>2 DEF Docs, NoRequest
<1>4. BidOf(d, f) \in Bid
  BY DEF BidOf, Docs, Files
<1>5. Closed(d, f, code) = Attributed(c, BidOf(d, f))
  BY DEF Closed
<1> HIDE DEF c, n
<1>6. c.segs # <<>>
  BY <1>1, <1>2, <1>3 DEF n
<1> QED BY <1>2, <1>3, <1>4, <1>5, <1>6, AttributedDoc DEF n
-----------------------------------------------------------------------------
(* Steps: an action that replaces one document and moves one frame *)

OthersTyped ==
    /\ paused' \in [Runs -> [Groups -> Flags]]
    /\ live' \in [Runs -> SUBSET Children]
    /\ file' \in [Runs -> [Index -> Files]]
    /\ faults' \in FaultRecords
    /\ faults.cut \subseteq faults'.cut

\* the document of one run is replaced, the others are excused at least as before
LEMMA DocsStep ==
    ASSUME IInv, OthersTyped, NEW r \in Runs, NEW x, x => Cut(r, "assess")', NEW d, DocOK(d, x), Save(r, d)
    PROVE  /\ run' \in [Runs -> Docs] /\ run'[r] = d /\ (\A q \in Runs \ {r} : run'[q] = run[q])
           /\ \A q \in Runs : Len(run'[q].segs) <= MaxSegments
           /\ \A q \in Runs : DocInv(run[q], Cut(q, "assess"))'
<1>1. run' = [run EXCEPT ![r] = d] /\ run \in [Runs -> Docs]
  BY DEF Save, IInv, TypeOK
<1>2. ASSUME NEW q \in Runs PROVE run'[q] = IF q = r THEN d ELSE run[q]
  BY <1>1
<1>3. ASSUME NEW q \in Runs PROVE DocInv(run'[q], Cut(q, "assess")')
  <2>1. Cut(q, "assess") => Cut(q, "assess")'
    BY DEF OthersTyped, Cut
  <2> QED BY <1>2, <2>1 DEF IInv, DocOK, DocInv, Free
<1>4. \A q \in Runs : DocInv(run[q], Cut(q, "assess"))'
  BY <1>3 DEF DocInv, Free, NoRequest
<1> QED BY <1>1, <1>2, <1>4 DEF IInv, TypeOK, DocOK

LEMMA DocStep ==
    ASSUME IInv, OthersTyped, NEW r \in Runs, NEW d, DocOK(d, Cut(r, "assess")), Save(r, d),
           NEW f \in Frames, f = "start" => d.segs = <<>>, frame' = [frame EXCEPT ![r] = f]
    PROVE  IInv'
<1>0. Cut(r, "assess") => Cut(r, "assess")'
  BY DEF OthersTyped, Cut
<1>1. /\ run' \in [Runs -> Docs] /\ run'[r] = d /\ (\A q \in Runs \ {r} : run'[q] = run[q])
      /\ \A q \in Runs : Len(run'[q].segs) <= MaxSegments
      /\ \A q \in Runs : DocInv(run[q], Cut(q, "assess"))'
  BY <1>0, DocsStep
<1>2. frame' \in [Runs -> Frames] /\ \A q \in Runs : frame'[q] = IF q = r THEN f ELSE frame[q]
  BY DEF IInv, TypeOK
<1>3. FrameInv'
  BY <1>1, <1>2 DEF IInv, FrameInv
<1> QED BY <1>1, <1>2, <1>3 DEF IInv, TypeOK, OthersTyped

\* the service comes back with nothing under way
LEMMA RestartStep ==
    ASSUME IInv, OthersTyped, NEW r \in Runs, NEW x, x => Cut(r, "assess")', NEW d, DocOK(d, x), Save(r, d), Restarts
    PROVE  IInv'
<1>1. /\ run' \in [Runs -> Docs] /\ \A q \in Runs : Len(run'[q].segs) <= MaxSegments
      /\ \A q \in Runs : DocInv(run[q], Cut(q, "assess"))'
  BY DocsStep
<1>2. frame' \in [Runs -> Frames] /\ FrameInv'
  BY DEF Restarts, Frames, FrameInv
<1> QED BY <1>1, <1>2 DEF IInv, TypeOK, OthersTyped

LEMMA SaveStep ==
    ASSUME IInv, OthersTyped, NEW r \in Runs, NEW d, DocOK(d, Cut(r, "assess")), Save(r, d),
           frame[r] = "start" => d.segs = <<>>, frame' = frame
    PROVE  IInv'
<1>1. frame' = [frame EXCEPT ![r] = frame[r]] /\ frame[r] \in Frames
  BY DEF IInv, TypeOK
<1> QED BY <1>1, DocStep

LEMMA RestStep ==
    ASSUME IInv, OthersTyped, NEW r \in Runs, NEW d, DocOK(d, Cut(r, "assess")), Rests(r, d)
    PROVE  IInv'
BY DocStep DEF Rests, Goto, Frames

\* faults are only added
Grows == faults.cut \subseteq faults'.cut /\ faults.errors <= faults'.errors /\ faults.lost <= faults'.lost

LEMMA FaultType ==
    ASSUME TypeOK, NEW r \in Runs, NEW d, NEW gaps \in SUBSET Gaps,
           Fault("crashes", MaxCrashes) \/ Fault("errors", MaxErrors) \/ Fault("lost", MaxLost) \/ Dies(r, d, gaps)
    PROVE  /\ faults' \in FaultRecords /\ Grows
           /\ Fault("errors", MaxErrors) => faults'.errors = faults.errors + 1
           /\ Fault("lost", MaxLost) => faults'.lost = faults.lost + 1
           /\ \A g \in gaps : Dies(r, d, gaps) => <<r, g>> \in faults'.cut
<1>0. /\ faults \in FaultRecords /\ MaxCrashes \in Nat /\ MaxErrors \in Nat /\ MaxLost \in Nat
  BY ConstantsAssumption DEF TypeOK
<1>1. ASSUME NEW k \in {"crashes", "errors", "lost"}, NEW max \in Nat,
             max = (IF k = "crashes" THEN MaxCrashes ELSE IF k = "errors" THEN MaxErrors ELSE MaxLost), Fault(k, max)
      PROVE  /\ faults' \in FaultRecords /\ faults'.cut = faults.cut
             /\ faults'.errors = faults.errors + (IF k = "errors" THEN 1 ELSE 0)
             /\ faults'.lost = faults.lost + (IF k = "lost" THEN 1 ELSE 0)
  <2>1. CASE k = "crashes"
    <3>1. faults' = [faults EXCEPT !.crashes = @ + 1] /\ faults.crashes < MaxCrashes
      BY <1>1, <2>1 DEF Fault
    <3>2. faults.crashes + 1 \in 0 .. MaxCrashes /\ faults.errors \in Nat /\ faults.lost \in Nat
      BY <1>0, <3>1 DEF FaultRecords
    <3>3. faults' \in FaultRecords /\ faults'.cut = faults.cut /\ faults'.errors = faults.errors /\ faults'.lost = faults.lost
      BY <1>0, <3>1, <3>2 DEF FaultRecords
    <3> QED BY <2>1, <3>2, <3>3
  <2>2. CASE k = "errors"
    <3>1. faults' = [faults EXCEPT !.errors = @ + 1] /\ faults.errors < MaxErrors
      BY <1>1, <2>2 DEF Fault
    <3>2. faults.errors + 1 \in 0 .. MaxErrors /\ faults.errors \in Nat /\ faults.lost \in Nat
      BY <1>0, <3>1 DEF FaultRecords
    <3>3. faults' \in FaultRecords /\ faults'.cut = faults.cut /\ faults'.errors = faults.errors + 1 /\ faults'.lost = faults.lost
      BY <1>0, <3>1, <3>2 DEF FaultRecords
    <3> QED BY <2>2, <3>2, <3>3
  <2>3. CASE k = "lost"
    <3>1. faults' = [faults EXCEPT !.lost = @ + 1] /\ faults.lost < MaxLost
      BY <1>1, <2>3 DEF Fault
    <3>2. faults.lost + 1 \in 0 .. MaxLost /\ faults.errors \in Nat /\ faults.lost \in Nat
      BY <1>0, <3>1 DEF FaultRecords
    <3>3. faults' \in FaultRecords /\ faults'.cut = faults.cut /\ faults'.errors = faults.errors /\ faults'.lost = faults.lost + 1
      BY <1>0, <3>1, <3>2 DEF FaultRecords
    <3> QED BY <2>3, <3>2, <3>3
  <2> QED BY <2>1, <2>2, <2>3
<1>2. ASSUME Dies(r, d, gaps)
      PROVE  /\ faults' \in FaultRecords /\ faults'.cut = faults.cut \cup ({r} \X gaps)
             /\ faults'.errors = faults.errors /\ faults'.lost = faults.lost
  <2>1. faults' = [faults EXCEPT !.crashes = @ + 1, !.cut = @ \cup ({r} \X gaps)] /\ faults.crashes < MaxCrashes
    BY <1>2 DEF Dies
  <2>2. faults.cut \cup ({r} \X gaps) \in SUBSET (Runs \X Gaps)
    BY <1>0 DEF FaultRecords
  <2>3. faults.crashes + 1 \in 0 .. MaxCrashes
    BY <1>0, <2>1 DEF FaultRecords
  <2> QED BY <1>0, <2>1, <2>2, <2>3 DEF FaultRecords
<1>3. faults.errors \in Nat /\ faults.lost \in Nat
  BY <1>0 DEF FaultRecords
<1>4. /\ Fault("crashes", MaxCrashes) => faults' \in FaultRecords /\ Grows
      /\ Fault("errors", MaxErrors) => faults' \in FaultRecords /\ Grows /\ faults'.errors = faults.errors + 1
      /\ Fault("lost", MaxLost) => faults' \in FaultRecords /\ Grows /\ faults'.lost = faults.lost + 1
  BY <1>0, <1>1, <1>3 DEF Grows
<1>5. Dies(r, d, gaps) => faults' \in FaultRecords /\ Grows /\ \A g \in gaps : <<r, g>> \in faults'.cut
  BY <1>2, <1>3 DEF Grows
<1> QED BY <1>4, <1>5

\* what IInv says of one document
LEMMA DocFacts ==
    ASSUME IInv, NEW r \in Runs
    PROVE  /\ DocOK(run[r], Cut(r, "assess")) /\ run[r] \in Docs /\ Len(run[r].segs) <= MaxSegments
           /\ DocInv(run[r], Cut(r, "assess"))
           /\ frame[r] = "start" => run[r].segs = <<>>
BY DEF IInv, TypeOK, FrameInv, DocOK

LEMMA Stutters ==
    ASSUME IInv, paused' = paused \/ paused' \in [Runs -> [Groups -> Flags]],
           live' = live \/ live' \in [Runs -> SUBSET Children],
           file' = file \/ file' \in [Runs -> [Index -> Files]],
           faults' = faults \/ (faults' \in FaultRecords /\ faults.cut \subseteq faults'.cut)
    PROVE  OthersTyped
BY DEF IInv, TypeOK, OthersTyped

-----------------------------------------------------------------------------
(* Requests of a person *)

LEMMA PausedType ==
    ASSUME IInv, NEW r \in Runs, NEW bids, NEW f \in Flags, SetFlags(r, bids, f)
    PROVE  /\ paused' \in [Runs -> [Groups -> Flags]]
           /\ \A q \in Runs \ {r} : paused'[q] = paused[q]
           /\ \A b \in Groups : paused'[r][b] = IF b \in bids THEN f ELSE paused[r][b]
<1>1. PICK g : g = Flagged(paused[r], bids, f)
  OBVIOUS
<1>2. paused \in [Runs -> [Groups -> Flags]] /\ paused[r] \in [Groups -> Flags]
  BY DEF IInv, TypeOK
<1>3. g \in [Groups -> Flags] /\ \A b \in Groups : g[b] = IF b \in bids THEN f ELSE paused[r][b]
  BY <1>1, <1>2 DEF Flagged
<1>4. paused' = [paused EXCEPT ![r] = g]
  BY <1>1 DEF SetFlags
<1> QED BY <1>2, <1>3, <1>4

LEMMA CreateInv == ASSUME IInv, NEW r \in Runs, Create(r) PROVE IInv'
<1> DEFINE d == SetStatus(run[r], "QUEUED")
<1>1. DocOK(d, Cut(r, "assess"))
  BY DocFacts, StatusDoc DEF Create, DocOK, DocInv, Free, Statuses
<1>2. frame[r] = "start" => d.segs = <<>>
  BY DocFacts, StatusDoc DEF Statuses
<1>3. Save(r, d) /\ UNCHANGED <<paused, live, file, frame, faults>>
  BY DEF Create
<1>4. OthersTyped
  BY <1>3, Stutters
<1> HIDE DEF d
<1> QED BY <1>1, <1>2, <1>3, <1>4, SaveStep

LEMMA PauseInv == ASSUME IInv, NEW r \in Runs, Pause(r) PROVE IInv'
<1> DEFINE d == run[r]
           p == [d EXCEPT !.status = "PAUSED", !.pauseRequested = FALSE, !.autoResumeAt = "none"]
           q == [d EXCEPT !.status = "PAUSING", !.pauseRequested = TRUE]
<1>1. CASE d.status \in {"QUEUED", "PAUSED_RUNTIME_EXHAUSTED", "WAITING_FOR_HUMAN"} /\ Save(r, p) /\ UNCHANGED paused
  <2>1. p \in Docs /\ p.status = "PAUSED" /\ p.segs = d.segs /\ p.noted = d.noted
        /\ ~p.pauseRequested /\ p.stopRequested = d.stopRequested
    BY DocFacts DEF Docs, Statuses
  <2>2. DocOK(p, Cut(r, "assess"))
    BY <2>1, DocFacts DEF DocOK, DocInv, Free, NoRequest
  <2>3. OthersTyped
    BY <1>1, Stutters DEF Pause
  <2>4. frame' = frame /\ (frame[r] = "start" => p.segs = <<>>)
    BY <2>1, DocFacts DEF Pause
  <2> HIDE DEF p
  <2> QED BY <1>1, <2>2, <2>3, <2>4, SaveStep
<1>2. CASE d.status = "RUNNING" /\ Save(r, q) /\ SetFlags(r, BoundedRunIds(d), "on")
  <2>1. q \in Docs /\ q.status = "PAUSING" /\ q.segs = d.segs /\ q.noted = d.noted
    BY DocFacts DEF Docs, Statuses
  <2>2. d.segs # <<>>
    BY <1>2, DocFacts DEF DocInv
  <2>3. DocOK(q, Cut(r, "assess"))
    BY <2>1, <2>2, DocFacts DEF DocOK, DocInv, Free
  <2>4. paused' \in [Runs -> [Groups -> Flags]]
    BY <1>2, PausedType DEF Flags
  <2>5. OthersTyped
    BY <2>4, Stutters DEF Pause
  <2>6. frame' = frame /\ (frame[r] = "start" => q.segs = <<>>)
    BY <2>1, DocFacts DEF Pause
  <2> HIDE DEF q
  <2> QED BY <1>2, <2>3, <2>5, <2>6, SaveStep
<1> QED BY <1>1, <1>2 DEF Pause

LEMMA ResumeInv == ASSUME IInv, NEW r \in Runs, Resume(r) PROVE IInv'
<1> DEFINE d == Resumed(run[r])
<1>1. /\ d \in Docs /\ d.status = "QUEUED" /\ d.segs = run[r].segs /\ d.noted = run[r].noted
      /\ ~d.pauseRequested /\ ~d.stopRequested
  <2> DEFINE group == [g \in Groups |-> IF run[r].group[g] \in {"waiting", "halted"} THEN "running" ELSE run[r].group[g]]
  <2>1. run[r] \in Docs
    BY DocFacts
  <2>2. group \in [Groups -> GroupStates]
    BY <2>1 DEF Docs, GroupStates
  <2>3. run[r].gates \cap {"review"} \in SUBSET GateKinds
    BY <2>1 DEF Docs
  <2> HIDE DEF group
  <2>4. d = [run[r] EXCEPT !.group = group, !.pauseRequested = FALSE, !.stopRequested = FALSE,
                           !.autoResumeAt = "none", !.gates = run[r].gates \cap {"review"}, !.status = "QUEUED"]
    BY DEF Resumed, group
  <2> QED BY <2>1, <2>2, <2>3, <2>4 DEF Docs, Statuses
<1>2. DocOK(d, Cut(r, "assess"))
  BY <1>1, DocFacts DEF DocOK, DocInv, Free, NoRequest
<1>3. paused' \in [Runs -> [Groups -> Flags]]
  BY PausedType DEF Resume, Flags
<1>4. OthersTyped
  BY <1>3, Stutters DEF Resume
<1>5. Save(r, d) /\ frame' = frame /\ (frame[r] = "start" => d.segs = <<>>)
  BY <1>1, DocFacts DEF Resume
<1> HIDE DEF d
<1> QED BY <1>2, <1>4, <1>5, SaveStep

LEMMA StopInv == ASSUME IInv, NEW r \in Runs, Stop(r) PROVE IInv'
<1> DEFINE d == run[r]
           q == [d EXCEPT !.status = "STOPPING", !.stopRequested = TRUE]
<1>1. paused' \in [Runs -> [Groups -> Flags]]
  BY PausedType DEF Stop, Flags
<1>2. CASE ChildAlive(r) /\ Save(r, q) /\ UNCHANGED live
  <2>1. q \in Docs /\ q.status = "STOPPING" /\ q.segs = d.segs /\ q.noted = d.noted
    BY DocFacts DEF Docs, Statuses
  <2>2. d.segs # <<>>
    BY <1>2 DEF ChildAlive, SegOpen
  <2>3. DocOK(q, Cut(r, "assess"))
    BY <2>1, <2>2, DocFacts DEF DocOK, DocInv, Free
  <2> QED BY <1>1, <1>2, <2>1, <2>3, DocFacts, SaveStep, Stutters DEF Stop
<1>3. CASE Save(r, StoppedNow(d)) /\ (Kill(r) \/ UNCHANGED live)
  <2> DEFINE s == StoppedNow(d)
  <2>1. s \in Docs /\ s.status = "STOPPED" /\ s.segs = d.segs /\ s.noted = d.noted
        /\ s.pauseRequested = d.pauseRequested /\ ~s.stopRequested
    BY DocFacts DEF StoppedNow, Docs, Statuses
  <2>2. DocOK(s, Cut(r, "assess"))
    BY <2>1, DocFacts DEF DocOK, DocInv, Free, NoRequest
  <2>3. live' = live \/ live' \in [Runs -> SUBSET Children]
    BY <1>3 DEF Kill, IInv, TypeOK
  <2> QED BY <1>1, <1>3, <2>1, <2>2, <2>3, DocFacts, SaveStep, Stutters DEF Stop
<1> QED BY <1>2, <1>3 DEF Stop

LEMMA ApproveInv == ASSUME IInv, NEW r \in Runs, Approve(r) PROVE IInv'
<1> DEFINE d == [run[r] EXCEPT !.status = "APPROVED", !.gates = @ \ {"review"}]
<1>1. /\ d \in Docs /\ d.status = "APPROVED" /\ d.segs = run[r].segs /\ d.noted = run[r].noted
      /\ d.pauseRequested = run[r].pauseRequested /\ d.stopRequested = run[r].stopRequested
  BY DocFacts DEF Docs, Statuses
<1>2. DocOK(d, Cut(r, "assess"))
  BY <1>1, DocFacts DEF DocOK, DocInv, Free, NoRequest
<1> QED BY <1>1, <1>2, DocFacts, SaveStep, Stutters DEF Approve

LEMMA SendBackInv == ASSUME IInv, NEW r \in Runs, SendBack(r) PROVE IInv'
<1> DEFINE d == OpenGate(run[r], "review")
<1>1. /\ d \in Docs /\ d.status = "WAITING_FOR_HUMAN" /\ d.segs = run[r].segs /\ d.noted = run[r].noted
      /\ NoRequest(d) = NoRequest(run[r])
  BY DocFacts, GateDoc DEF GateKinds
<1>2. DocOK(d, Cut(r, "assess"))
  BY <1>1, DocFacts DEF DocOK, DocInv, Free
<1> QED BY <1>1, <1>2, DocFacts, SaveStep, Stutters DEF SendBack

LEMMA RequestFailsInv == ASSUME IInv, NEW r \in Runs, RequestFails(r) PROVE IInv'
<1>1. /\ faults' \in FaultRecords /\ faults.cut \subseteq faults'.cut
      /\ UNCHANGED <<run, live, file>> /\ (frame' = frame \/ Restarts)
  BY FaultType DEF RequestFails, IInv, Grows
<1>2. \E part : SetFlags(r, part, "on") \/ SetFlags(r, part, "off")
  BY Zenon DEF RequestFails
<1>3. paused' \in [Runs -> [Groups -> Flags]]
  BY <1>2, PausedType DEF Flags
<1>4. OthersTyped
  BY <1>1, <1>3, Stutters
<1>5. Save(r, run[r]) /\ DocOK(run[r], Cut(r, "assess")) /\ (Cut(r, "assess") => Cut(r, "assess")')
  BY <1>1, DocFacts DEF Save, IInv, TypeOK, Cut
<1>6. CASE frame' = frame
  BY <1>4, <1>5, <1>6, DocFacts, SaveStep
<1>7. CASE Restarts
  BY <1>4, <1>5, <1>7, RestartStep
<1> QED BY <1>1, <1>6, <1>7

-----------------------------------------------------------------------------
(* The control loop *)

LEMMA WaitingOK ==
    ASSUME NEW x, NEW d, DocOK(d, x)
    PROVE  /\ DocOK(SetStatus(d, "WAITING_FOR_HUMAN"), x)
           /\ \A k \in GateKinds : DocOK(OpenGate(d, k), x)
           /\ DocOK(ReadyForReview(d), x)
           /\ Free(d, x) => \A b \in Blocked(d) : DocOK(b, x)
<1>1. d \in Docs /\ "WAITING_FOR_HUMAN" \in Statuses
  BY DEF DocOK, Statuses
<1>2. DocOK(SetStatus(d, "WAITING_FOR_HUMAN"), x)
  BY <1>1, StatusDoc DEF DocOK, DocInv, Free
<1>3. ASSUME NEW k \in GateKinds PROVE DocOK(OpenGate(d, k), x)
  BY <1>1, GateDoc DEF DocOK, DocInv, Free
<1>4. DocOK(ReadyForReview(d), x)
  <2> DEFINE q == ReadyForReview(d)
  <2>1. "review" \in GateKinds /\ "READY_FOR_REVIEW" \in Statuses
    BY DEF GateKinds, Statuses
  <2>2. /\ q \in Docs /\ q.status = "READY_FOR_REVIEW" /\ q.segs = d.segs /\ q.noted = d.noted
        /\ q.pauseRequested = d.pauseRequested /\ q.stopRequested = d.stopRequested
    BY <1>1, <2>1 DEF ReadyForReview, Docs
  <2> QED BY <2>2 DEF DocOK, DocInv, Free, NoRequest
<1>5. ASSUME Free(d, x), NEW b \in Blocked(d) PROVE DocOK(b, x)
  BY <1>1, <1>5, BlockedDoc DEF DocOK, DocInv, Free
<1> QED BY <1>2, <1>3, <1>4, <1>5

LEMMA ThrowsStep ==
    ASSUME IInv, NEW r \in Runs, NEW d, DocOK(d, Cut(r, "assess")), Throws(r, d),
           paused' = paused \/ paused' \in [Runs -> [Groups -> Flags]], UNCHANGED <<live, file>>
    PROVE  IInv'
<1>1. faults' \in FaultRecords /\ faults.cut \subseteq faults'.cut
  BY FaultType DEF Throws, IInv, Grows
<1>2. DocOK(SetStatus(d, "WAITING_FOR_HUMAN"), Cut(r, "assess"))
  BY WaitingOK
<1> QED BY <1>1, <1>2, RestStep, Stutters DEF Throws

LEMMA DiesStep ==
    ASSUME IInv, NEW r \in Runs, NEW gaps \in SUBSET Gaps, NEW d, DocOK(d, Cut(r, "assess") \/ "assess" \in gaps),
           Dies(r, d, gaps),
           paused' = paused \/ paused' \in [Runs -> [Groups -> Flags]], UNCHANGED <<live, file>>
    PROVE  IInv'
<1>1. faults' \in FaultRecords /\ faults.cut \subseteq faults'.cut /\ \A g \in gaps : <<r, g>> \in faults'.cut
  BY FaultType DEF IInv, Grows
<1>2. OthersTyped
  BY <1>1, Stutters
<1>3. (Cut(r, "assess") \/ "assess" \in gaps) => Cut(r, "assess")'
  BY <1>1 DEF Cut
<1> QED BY <1>2, <1>3, RestartStep DEF Dies

LEMMA BreaksStep ==
    ASSUME IInv, NEW r \in Runs, NEW d, DocOK(d, Cut(r, "assess")), Breaks(r, d),
           paused' = paused \/ paused' \in [Runs -> [Groups -> Flags]], UNCHANGED <<live, file>>
    PROVE  IInv'
<1>1. {} \in SUBSET Gaps /\ DocOK(d, Cut(r, "assess") \/ "assess" \in {})
  BY DEF DocOK, DocInv, Free
<1> QED BY <1>1, ThrowsStep, DiesStep DEF Breaks

LEMMA FinalizeStep ==
    ASSUME IInv, NEW r \in Runs, NEW d, DocOK(d, Cut(r, "assess")), Finalize(r, d), UNCHANGED <<paused, live, file, faults>>
    PROVE  IInv'
<1>1. OthersTyped
  BY Stutters
<1>2. CASE CommanderEnabled
  <2>1. PICK f \in {"assess_waiting", "assess"} : Goto(r, f)
    BY <1>2 DEF Finalize
  <2>2. Save(r, d)
    BY <1>2 DEF Finalize
  <2> QED BY <1>1, <2>1, <2>2, DocStep DEF Goto, Frames
<1>3. CASE ~CommanderEnabled
  <2>1. Rests(r, SetStatus(d, "WAITING_FOR_HUMAN")) \/ Rests(r, ReadyForReview(d))
    BY <1>3 DEF Finalize
  <2>2. DocOK(SetStatus(d, "WAITING_FOR_HUMAN"), Cut(r, "assess")) /\ DocOK(ReadyForReview(d), Cut(r, "assess"))
    BY WaitingOK
  <2> QED BY <1>1, <2>1, <2>2, RestStep
<1> QED BY <1>2, <1>3

LEMMA SpawnType ==
    ASSUME IInv, NEW r \in Runs, NEW d \in Docs, Len(d.segs) < MaxSegments, NEW g \in Groups,
           NEW lost \in 0 .. MaxLost, Spawn(r, d, g, lost)
    PROVE  live' \in [Runs -> SUBSET Children]
<1>1. Len(d.segs) \in Nat /\ d.groupBid[g] \in Bid
  BY DEF Docs
<1>2. [seg |-> Len(d.segs) + 1, grp |-> g, bid |-> d.groupBid[g], lost |-> lost] \in Children
  BY <1>1, ConstantsAssumption DEF Children, Index
<1> QED BY <1>2 DEF Spawn, IInv, TypeOK

LEMMA LaunchedOK ==
    ASSUME NEW x, NEW d, DocOK(d, x), Free(d, x), Len(d.segs) < MaxSegments, CommanderEnabled => d.noted, NEW g \in Groups
    PROVE  DocOK(Launched(d, g), x)
<1> DEFINE l == Launched(d, g)
<1>1. d \in Docs /\ d.segs \in Seq(SegStates) /\ d.groupBid[g] \in Bid /\ "open" \in SegStates
  BY DEF DocOK, Docs, SegStates
<1>2. /\ Append(d.segs, "open") \in Seq(SegStates) /\ Append(d.segs, "open") # <<>>
      /\ Len(Append(d.segs, "open")) = Len(d.segs) + 1
  BY <1>1, AppendProperties
<1>3. /\ l \in Docs /\ l.status = "RUNNING" /\ l.segs = Append(d.segs, "open") /\ l.noted = d.noted
      /\ l.pauseRequested = d.pauseRequested /\ l.stopRequested = d.stopRequested
  BY <1>1, <1>2 DEF Launched, Docs, Statuses, GroupStates
<1>4. Len(d.segs) + 1 <= MaxSegments
  BY <1>1, ConstantsAssumption
<1> QED BY <1>2, <1>3, <1>4 DEF DocOK, DocInv, Free, NoRequest

LEMMA DispatchStep ==
    ASSUME IInv, NEW r \in Runs, NEW d, DocOK(d, Cut(r, "assess")), Free(d, Cut(r, "assess")), Len(d.segs) < MaxSegments,
           CommanderEnabled => d.noted, Dispatch(r, d), UNCHANGED <<paused, file>>
    PROVE  IInv'
<1> DEFINE e == EnsureTargets(d)
<1>1. DocOK(e, Cut(r, "assess")) /\ Free(e, Cut(r, "assess")) /\ e.segs = d.segs /\ e.noted = d.noted
  BY TargetsDoc DEF DocOK, DocInv, Free
<1> HIDE DEF e
<1>2. CASE (\E b \in Blocked(d) : Rests(r, b)) /\ UNCHANGED <<live, faults>>
  <2>1. PICK b \in Blocked(d) : Rests(r, b)
    BY <1>2
  <2>2. DocOK(b, Cut(r, "assess"))
    BY WaitingOK
  <2> QED BY <1>2, <2>1, <2>2, RestStep, Stutters
<1>3. ASSUME NEW g \in Groups, Spawn(r, e, g, 0), Rests(r, Launched(e, g)), UNCHANGED faults
      PROVE  IInv'
  <2>1. live' \in [Runs -> SUBSET Children]
    BY <1>1, <1>3, SpawnType, ConstantsAssumption DEF DocOK
  <2>2. DocOK(Launched(e, g), Cut(r, "assess"))
    BY <1>1, LaunchedOK
  <2> QED BY <1>3, <2>1, <2>2, RestStep, Stutters
<1>4. CASE Breaks(r, e) /\ UNCHANGED live
  BY <1>1, <1>4, BreaksStep
<1>5. ASSUME NEW g \in Groups, SpawnUnrecorded(r, e, g) PROVE IInv'
  <2>0. faults.lost + 1 \in 0 .. MaxLost /\ Spawn(r, e, g, faults.lost + 1) /\ Fault("lost", MaxLost)
    BY <1>5, ConstantsAssumption DEF SpawnUnrecorded, Fault, IInv, TypeOK, FaultRecords
  <2>1. live' \in [Runs -> SUBSET Children]
    BY <1>1, <2>0, SpawnType DEF DocOK
  <2>2. faults' \in FaultRecords /\ faults.cut \subseteq faults'.cut
    BY <2>0, FaultType DEF IInv, Grows
  <2>3. OthersTyped /\ (Cut(r, "assess") => Cut(r, "assess")')
    BY <2>1, <2>2, Stutters DEF Cut
  <2>4. CASE Save(r, e) /\ Restarts
    BY <1>1, <2>3, <2>4, RestartStep
  <2>5. CASE Rests(r, SetStatus(e, "WAITING_FOR_HUMAN"))
    <3>1. DocOK(SetStatus(e, "WAITING_FOR_HUMAN"), Cut(r, "assess"))
      BY <1>1, WaitingOK
    <3> QED BY <2>3, <2>5, <3>1, RestStep
  <2> QED BY <1>5, <2>4, <2>5 DEF SpawnUnrecorded
<1>6. CASE Finalize(r, e) /\ UNCHANGED <<live, faults>>
  BY <1>1, <1>6, FinalizeStep
<1>7. \/ (\E b \in Blocked(d) : Rests(r, b)) /\ UNCHANGED <<live, faults>>
      \/ \E g \in Groups :
            \/ Spawn(r, e, g, 0) /\ Rests(r, Launched(e, g)) /\ UNCHANGED faults
            \/ SpawnUnrecorded(r, e, g)
      \/ Breaks(r, e) /\ UNCHANGED live
      \/ Finalize(r, e) /\ UNCHANGED <<live, faults>>
  BY Zenon DEF Dispatch, e
<1> QED BY <1>2, <1>3, <1>4, <1>5, <1>6, <1>7, Zenon

LEMMA AutoResumedOK ==
    ASSUME NEW x, NEW d, DocOK(d, x)
    PROVE  DocOK(AutoResumed(d), x) /\ AutoResumed(d).segs = d.segs /\ AutoResumed(d).noted = d.noted
                /\ (d.status \in {"QUEUED", "RUNNING"} \/ CooledDown(d) => Free(AutoResumed(d), x))
<1> DEFINE a == [d EXCEPT !.status = "QUEUED", !.autoResumeAt = "none"]
<1>1. CASE CooledDown(d)
  <2>1. d.status = "PAUSED_RUNTIME_EXHAUSTED" /\ Free(d, x) /\ AutoResumed(d) = a
    BY <1>1 DEF CooledDown, AutoResumed, DocOK, DocInv
  <2>2. /\ a \in Docs /\ a.status = "QUEUED" /\ a.segs = d.segs /\ a.noted = d.noted
        /\ a.pauseRequested = d.pauseRequested /\ a.stopRequested = d.stopRequested
    BY DEF DocOK, Docs, Statuses
  <2> QED BY <2>1, <2>2 DEF DocOK, DocInv, Free, NoRequest
<1>2. CASE ~CooledDown(d)
  BY <1>2 DEF AutoResumed, DocOK, DocInv
<1> QED BY <1>1, <1>2

LEMMA LaunchNextInv == ASSUME IInv, NEW r \in Runs, LaunchNext(r) PROVE IInv'
<1> DEFINE d == AutoResumed(run[r])
<1>1. /\ DocOK(d, Cut(r, "assess")) /\ Free(d, Cut(r, "assess")) /\ d.segs = run[r].segs /\ d.noted = run[r].noted
  BY DocFacts, AutoResumedOK DEF LaunchNext, CanLaunch
<1>2. UNCHANGED <<paused, file>>
  BY DEF LaunchNext
<1>3. \/ \E k \in {"segment_budget", "knowledge_changed"} : Rests(r, OpenGate(d, k)) /\ UNCHANGED <<live, faults>>
      \/ (Throws(r, run[r]) \/ Breaks(r, d)) /\ UNCHANGED live
      \/ /\ CommanderEnabled /\ ~d.noted
         /\ Save(r, d) /\ Goto(r, "start") /\ UNCHANGED <<live, faults>>
      \/ /\ ~OutOfBudget(d) /\ (~CommanderEnabled \/ d.noted) /\ Dispatch(r, d)
  BY Zenon DEF LaunchNext
<1> HIDE DEF d
<1>4. ASSUME NEW k \in {"segment_budget", "knowledge_changed"}, Rests(r, OpenGate(d, k)), UNCHANGED <<live, faults>>
      PROVE  IInv'
  <2>1. DocOK(OpenGate(d, k), Cut(r, "assess"))
    BY <1>1, WaitingOK DEF GateKinds
  <2> QED BY <1>2, <1>4, <2>1, RestStep, Stutters
<1>6. CASE (Throws(r, run[r]) \/ Breaks(r, d)) /\ UNCHANGED live
  BY <1>1, <1>2, <1>6, DocFacts, ThrowsStep, BreaksStep
<1>7. CASE CommanderEnabled /\ ~d.noted /\ Save(r, d) /\ Goto(r, "start") /\ UNCHANGED <<live, faults>>
  <2>1. d.segs = <<>>
    BY <1>1, <1>7 DEF DocOK, DocInv
  <2>2. OthersTyped
    BY <1>2, <1>7, Stutters
  <2> QED BY <1>1, <1>7, <2>1, <2>2, DocStep DEF Goto, Frames
<1>8. CASE ~OutOfBudget(d) /\ (~CommanderEnabled \/ d.noted) /\ Dispatch(r, d)
  <2>1. Len(d.segs) < MaxSegments
    BY <1>1, <1>8, ConstantsAssumption DEF OutOfBudget, DocOK, Docs
  <2> QED BY <1>1, <1>2, <1>8, <2>1, DispatchStep
<1> QED BY <1>3, <1>4, <1>6, <1>7, <1>8

LEMMA StartReturnsInv == ASSUME IInv, NEW r \in Runs, StartReturns(r) PROVE IInv'
<1> DEFINE d == [run[r] EXCEPT !.noted = TRUE]
<1>1. DocOK(run[r], Cut(r, "assess")) /\ run[r].segs = <<>> /\ NoRequest(run[r])
  BY DocFacts DEF StartReturns, DocInv
<1>2. /\ d \in Docs /\ d.status = run[r].status /\ d.segs = run[r].segs /\ d.noted
      /\ d.pauseRequested = run[r].pauseRequested /\ d.stopRequested = run[r].stopRequested
  BY <1>1 DEF DocOK, Docs
<1>3. DocOK(d, Cut(r, "assess")) /\ NoRequest(d) /\ Len(d.segs) < MaxSegments
  BY <1>1, <1>2, ConstantsAssumption DEF DocOK, DocInv, Free, NoRequest
<1>4. UNCHANGED <<paused, file>>
  BY DEF StartReturns
<1>5. \/ (\E b \in Blocked(run[r]) : Rests(r, b)) /\ UNCHANGED <<live, faults>>
      \/ Rests(r, OpenGate(d, "engine_waiting")) /\ UNCHANGED <<live, faults>>
      \/ (Throws(r, run[r]) \/ Breaks(r, d)) /\ UNCHANGED live
      \/ Dispatch(r, d)
  BY Zenon DEF StartReturns
<1>6. d.noted
  BY <1>2
<1> HIDE DEF d
<1>7. CASE (\E b \in Blocked(run[r]) : Rests(r, b)) /\ UNCHANGED <<live, faults>>
  <2>1. PICK b \in Blocked(run[r]) : Rests(r, b)
    BY <1>7
  <2>2. DocOK(b, Cut(r, "assess"))
    BY <1>1, WaitingOK DEF Free
  <2> QED BY <1>4, <1>7, <2>1, <2>2, RestStep, Stutters
<1>8. CASE Rests(r, OpenGate(d, "engine_waiting")) /\ UNCHANGED <<live, faults>>
  <2>1. DocOK(OpenGate(d, "engine_waiting"), Cut(r, "assess"))
    BY <1>3, WaitingOK DEF GateKinds
  <2> QED BY <1>4, <1>8, <2>1, RestStep, Stutters
<1>9. CASE (Throws(r, run[r]) \/ Breaks(r, d)) /\ UNCHANGED live
  BY <1>1, <1>3, <1>4, <1>9, ThrowsStep, BreaksStep
<1>10. CASE Dispatch(r, d)
  BY <1>3, <1>4, <1>6, <1>10, DispatchStep DEF Free
<1> QED BY <1>5, <1>7, <1>8, <1>9, <1>10

LEMMA AssessReturnsInv == ASSUME IInv, NEW r \in Runs, AssessReturns(r) PROVE IInv'
<1>1. DocOK(run[r], Cut(r, "assess")) /\ UNCHANGED <<paused, live, file>>
  BY DocFacts DEF AssessReturns
<1>2. \/ /\ \E d \in {run[r]} \cup Blocked(run[r]) :
               Rests(r, IF frame[r] = "assess" THEN ReadyForReview(d) ELSE SetStatus(d, "WAITING_FOR_HUMAN"))
         /\ UNCHANGED faults
      \/ \E d \in {run[r]} \cup Blocked(run[r]) : Throws(r, d)
      \/ \E d \in Blocked(run[r]) : Dies(r, d, IF d.pauseRequested \/ d.stopRequested THEN {"assess"} ELSE {})
  BY Zenon DEF AssessReturns
<1>3. ASSUME NEW d \in {run[r]} \cup Blocked(run[r]), UNCHANGED faults,
             Rests(r, IF frame[r] = "assess" THEN ReadyForReview(d) ELSE SetStatus(d, "WAITING_FOR_HUMAN"))
      PROVE  IInv'
  <2> DEFINE q == IF frame[r] = "assess" THEN ReadyForReview(d) ELSE SetStatus(d, "WAITING_FOR_HUMAN")
  <2>1. /\ d \in Docs /\ d.segs = run[r].segs /\ d.noted = run[r].noted
        /\ NoRequest(d) = NoRequest(run[r])
    BY <1>1, <1>3, BlockedDoc DEF DocOK
  <2>2. "READY_FOR_REVIEW" \in Statuses /\ "WAITING_FOR_HUMAN" \in Statuses /\ "review" \in GateKinds
    BY DEF Statuses, GateKinds
  <2>3. /\ q \in Docs /\ q.status \in {"READY_FOR_REVIEW", "WAITING_FOR_HUMAN"}
        /\ q.segs = d.segs /\ q.noted = d.noted
        /\ q.pauseRequested = d.pauseRequested /\ q.stopRequested = d.stopRequested
    BY <2>1, <2>2 DEF ReadyForReview, SetStatus, Docs
  <2>4. DocOK(q, Cut(r, "assess"))
    BY <1>1, <2>1, <2>3 DEF DocOK, DocInv, Free, NoRequest
  <2> QED BY <1>1, <1>3, <2>4, RestStep, Stutters
<1>4. ASSUME NEW d \in Blocked(run[r]) PROVE DocOK(d, Cut(r, "assess") \/ ~NoRequest(d))
  BY <1>1, BlockedDoc DEF DocOK, DocInv, Free
<1>5. ASSUME NEW d \in {run[r]} \cup Blocked(run[r]), Throws(r, d) PROVE IInv'
  <2>1. DocOK(SetStatus(d, "WAITING_FOR_HUMAN"), Cut(r, "assess"))
    <3>1. d \in Docs /\ d.segs = run[r].segs /\ d.noted = run[r].noted /\ NoRequest(d) = NoRequest(run[r])
      BY <1>1, BlockedDoc DEF DocOK
    <3> QED BY <1>1, <3>1, StatusDoc DEF DocOK, DocInv, Statuses
  <2>2. faults' \in FaultRecords /\ faults.cut \subseteq faults'.cut
    BY <1>5, FaultType DEF Throws, IInv, Grows
  <2> QED BY <1>1, <1>5, <2>1, <2>2, RestStep, Stutters DEF Throws
<1>6. ASSUME NEW d \in Blocked(run[r]), Dies(r, d, IF d.pauseRequested \/ d.stopRequested THEN {"assess"} ELSE {})
      PROVE  IInv'
  <2>1. CASE NoRequest(d)
    <3>1. Breaks(r, d) /\ DocOK(d, Cut(r, "assess"))
      BY <1>4, <1>6, <2>1 DEF NoRequest, Breaks, DocOK, DocInv, Free
    <3> QED BY <1>1, <3>1, BreaksStep
  <2>2. CASE ~NoRequest(d)
    <3>1. Dies(r, d, {"assess"}) /\ {"assess"} \in SUBSET Gaps /\ DocOK(d, Cut(r, "assess") \/ "assess" \in {"assess"})
      BY <1>4, <1>6, <2>2 DEF NoRequest, Gaps, DocOK, DocInv, Free
    <3> QED BY <1>1, <3>1, DiesStep
  <2> QED BY <2>1, <2>2
<1> QED BY <1>1, <1>2, <1>3, <1>5, <1>6

LEMMA LearnedOK ==
    ASSUME IInv, NEW r \in Runs, SegOpen(run[r])
    PROVE  /\ LastFile(r) \in Files /\ DocOK(Learned(r), Cut(r, "assess")) /\ SegOpen(Learned(r))
           /\ PausedOnLearning(r) => paused' \in [Runs -> [Groups -> Flags]]
<1>1. DocOK(run[r], Cut(r, "assess")) /\ run[r] \in Docs /\ Len(run[r].segs) \in Nat /\ Len(run[r].segs) # 0
  BY DocFacts DEF Docs, SegOpen
<1>2. Len(run[r].segs) \in Index
  BY <1>1, ConstantsAssumption DEF DocOK, Index
<1>3. LastFile(r) \in Files
  BY <1>2 DEF LastFile, IInv, TypeOK
<1>4. LastFile(r).bid \in Bid
  BY <1>3 DEF Files
<1> DEFINE a == Attributed(run[r], LastFile(r).bid)
<1>5. a \in Docs /\ a.status = run[r].status /\ a.segs = run[r].segs /\ a.noted = run[r].noted
      /\ NoRequest(a) = NoRequest(run[r])
  BY <1>1, <1>4, AttributedDoc
<1>6. Learned(r) = a \/ Learned(r) = run[r]
  BY DEF Learned
<1> HIDE DEF a
<1>7. DocOK(a, Cut(r, "assess")) /\ SegOpen(a)
  BY <1>1, <1>5 DEF DocOK, DocInv, Free, SegOpen
<1>8. PausedOnLearning(r) => paused' \in [Runs -> [Groups -> Flags]]
  BY PausedType DEF PausedOnLearning, Flags
<1> QED BY <1>1, <1>3, <1>6, <1>7, <1>8

LEMMA WatchLiveInv == ASSUME IInv, NEW r \in Runs, WatchLive(r) PROVE IInv'
<1>1. SegOpen(run[r]) /\ frame[r] = "idle" /\ Save(r, Learned(r)) /\ PausedOnLearning(r)
      /\ UNCHANGED <<live, file, frame, faults>>
  BY DEF WatchLive, Watched, Stepped
<1> QED BY <1>1, LearnedOK, SaveStep, Stutters

LEMMA ClosesStep ==
    ASSUME IInv, NEW r \in Runs, SegOpen(run[r]), NEW code \in SegStates, Closes(r, code), UNCHANGED faults,
           live' = live \/ live' \in [Runs -> SUBSET Children],
           file' = file \/ file' \in [Runs -> [Index -> Files]]
    PROVE  IInv'
<1> DEFINE d == Learned(r)
           c == Closed(d, LastFile(r), code)
<1>1. LastFile(r) \in Files /\ DocOK(d, Cut(r, "assess")) /\ SegOpen(d) /\ d \in Docs
  BY LearnedOK DEF DocOK
<1>2. DocOK(c, Cut(r, "assess"))
  BY <1>1, ClosedDoc DEF DocOK, DocInv, Free, SegOpen
<1>3. OthersTyped
  BY LearnedOK, Stutters DEF Closes
<1>4. Save(r, c) /\ frame' = [frame EXCEPT ![r] = "snapshot"]
  BY DEF Closes, Goto
<1> HIDE DEF c
<1> QED BY <1>2, <1>3, <1>4, DocStep DEF Frames

LEMMA WatchEndedInv == ASSUME IInv, NEW r \in Runs, WatchEnded(r) PROVE IInv'
<1>1. SegOpen(run[r]) /\ UNCHANGED <<live, file, faults>>
  BY DEF WatchEnded, Watched
<1>2. LastFile(r).exit \in Recorded \cup {"absent"}
  BY <1>1, LearnedOK DEF Files
<1>3. CASE LastFile(r).exit # "absent" /\ Closes(r, LastFile(r).exit)
  BY <1>1, <1>2, <1>3, ClosesStep DEF SegStates
<1>4. CASE Closes(r, "none")
  BY <1>1, <1>4, ClosesStep DEF SegStates
<1> QED BY <1>3, <1>4 DEF WatchEnded

LEMMA WatchMissesRecordInv == ASSUME IInv, NEW r \in Runs, WatchMissesRecord(r) PROVE IInv'
<1>1. SegOpen(run[r]) /\ Closes(r, "none") /\ UNCHANGED faults
  BY DEF WatchMissesRecord, Watched
<1>2. PICK code \in Recorded : file' = [file EXCEPT ![r][Len(run[r].segs)].exit = code]
  BY DEF WatchMissesRecord
<1>3. file' \in [Runs -> [Index -> Files]]
  <2> DEFINE n == Len(run[r].segs)
             x == [file[r][n] EXCEPT !.exit = code]
  <2>1. file \in [Runs -> [Index -> Files]]
    BY DEF IInv, TypeOK
  <2>2. LastFile(r) \in Files
    BY <1>1, LearnedOK
  <2>3. x \in Files
    BY <2>2 DEF LastFile, Files
  <2>4. file' = [file EXCEPT ![r] = [file[r] EXCEPT ![n] = x]]
    BY <1>2
  <2> HIDE DEF x
  <2> QED BY <2>1, <2>3, <2>4
<1>4. live' \in [Runs -> SUBSET Children]
  BY DEF WatchMissesRecord, IInv, TypeOK
<1> QED BY <1>1, <1>3, <1>4, ClosesStep DEF SegStates

LEMMA WatchBreaksInv == ASSUME IInv, NEW r \in Runs, WatchBreaks(r) PROVE IInv'
<1>1. SegOpen(run[r]) /\ UNCHANGED <<live, file>>
  BY DEF WatchBreaks, Watched
<1>2. DocOK(run[r], Cut(r, "assess")) /\ DocOK(Learned(r), Cut(r, "assess"))
  BY <1>1, DocFacts, LearnedOK
<1>3. CASE (Throws(r, run[r]) \/ Throws(r, Learned(r))) /\ UNCHANGED paused
  BY <1>1, <1>2, <1>3, ThrowsStep
<1>4. CASE Dies(r, Learned(r), IF PausesLearned(r) THEN {"learn"} ELSE {}) /\ UNCHANGED paused
  <2>1. PICK gaps \in SUBSET Gaps : "assess" \notin gaps /\ Dies(r, Learned(r), gaps)
    BY <1>4 DEF Gaps
  <2>2. DocOK(Learned(r), Cut(r, "assess") \/ "assess" \in gaps)
    BY <1>2, <2>1 DEF DocOK, DocInv, Free
  <2> QED BY <1>1, <1>4, <2>1, <2>2, DiesStep
<1>5. CASE Breaks(r, Learned(r)) /\ PausedOnLearning(r)
  BY <1>1, <1>2, <1>5, LearnedOK, BreaksStep
<1> QED BY <1>3, <1>4, <1>5 DEF WatchBreaks

LEMMA FinishInv == ASSUME IInv, NEW r \in Runs, Finish(r) PROVE IInv'
<1> DEFINE d == run[r]
           asked == StopAsked(d) \/ PauseAsked(d)
<1>1. DocOK(d, Cut(r, "assess")) /\ d \in Docs /\ (~asked => NoRequest(d)) /\ UNCHANGED <<paused, live, file>>
  BY DocFacts DEF Finish, NoRequest, StopAsked, PauseAsked
<1>2. UNCHANGED faults => OthersTyped
  BY <1>1, Stutters
<1>3. ASSUME NoRequest(d) PROVE DocOK(SetStatus(d, "QUEUED"), Cut(r, "assess"))
  BY <1>1, <1>3, StatusDoc DEF DocOK, DocInv, Free, Statuses
<1>4. ASSUME FinishRequested(r), UNCHANGED faults PROVE IInv'
  <2> DEFINE p == [d EXCEPT !.status = "STOPPED", !.stopRequested = FALSE]
             q == [d EXCEPT !.status = "PAUSED", !.pauseRequested = FALSE]
  <2>1. /\ p \in Docs /\ p.status = "STOPPED" /\ p.segs = d.segs /\ p.noted = d.noted
        /\ p.pauseRequested = d.pauseRequested /\ ~p.stopRequested
    BY <1>1 DEF Docs, Statuses
  <2>2. /\ q \in Docs /\ q.status = "PAUSED" /\ q.segs = d.segs /\ q.noted = d.noted
        /\ q.stopRequested = d.stopRequested /\ ~q.pauseRequested
    BY <1>1 DEF Docs, Statuses
  <2>3. DocOK(p, Cut(r, "assess"))
    BY <1>1, <2>1 DEF DocOK, DocInv, Free, NoRequest
  <2>4. DocOK(q, Cut(r, "assess"))
    BY <1>1, <2>2 DEF DocOK, DocInv, Free, NoRequest
  <2>5. Rests(r, p) \/ Rests(r, q)
    BY <1>4 DEF FinishRequested
  <2> QED BY <1>2, <1>4, <2>3, <2>4, <2>5, RestStep
<1>5. ASSUME ~asked, FinishUnavailable(r), UNCHANGED faults PROVE IInv'
  <2>1. PICK b \in Blocked(d) \cup {SetStatus(d, "QUEUED")} : Rests(r, b)
    BY <1>5 DEF FinishUnavailable
  <2>2. DocOK(b, Cut(r, "assess"))
    BY <1>1, <1>3, <1>5, <2>1, WaitingOK DEF Free
  <2> QED BY <1>2, <1>5, <2>1, <2>2, RestStep
<1>6. ASSUME ~asked, FinishInterrupted(r), UNCHANGED faults PROVE IInv'
  <2>1. Rests(r, OpenGate(d, "interrupted")) \/ Rests(r, SetStatus(d, "QUEUED"))
    BY <1>6 DEF FinishInterrupted
  <2>2. DocOK(OpenGate(d, "interrupted"), Cut(r, "assess"))
    BY <1>1, WaitingOK DEF GateKinds
  <2> QED BY <1>1, <1>2, <1>3, <1>6, <2>1, <2>2, RestStep
<1>7. ASSUME ~asked, FinishSettled(r) PROVE IInv'
  <2> DEFINE m(t) == MarkFirst(d, "running", t)
             e == GroupSettled(r)
  <2>1. \A t \in {"done", "waiting"} :
           /\ m(t) \in Docs /\ m(t).status = d.status /\ m(t).segs = d.segs /\ m(t).noted = d.noted
           /\ NoRequest(m(t)) = NoRequest(d)
    BY <1>1, MarkDoc DEF GroupStates
  <2>2. e = IF Ended(r) = "completed" THEN m("done") ELSE [m("waiting") EXCEPT !.gates = @ \cup {"engine_waiting"}]
    BY DEF GroupSettled
  <2> HIDE DEF m, e
  <2>3. /\ e \in Docs /\ e.status = d.status /\ e.segs = d.segs /\ e.noted = d.noted
        /\ NoRequest(e) = NoRequest(d)
    BY <2>1, <2>2 DEF Docs, GateKinds, NoRequest
  <2>4. DocOK(e, Cut(r, "assess")) /\ NoRequest(e)
    BY <1>1, <1>7, <2>3 DEF DocOK, DocInv, Free
  <2>5. \/ (Rests(r, SetStatus(e, "QUEUED")) \/ Finalize(r, e)) /\ UNCHANGED faults
        \/ Breaks(r, e)
    BY <1>7 DEF FinishSettled, e
  <2>6. DocOK(SetStatus(e, "QUEUED"), Cut(r, "assess"))
    BY <2>4, StatusDoc DEF DocOK, DocInv, Free, Statuses
  <2> QED BY <1>1, <1>2, <1>7, <2>4, <2>5, <2>6, RestStep, FinalizeStep, BreaksStep
<1>8. ASSUME ~asked, FinishHalted(r) PROVE IInv'
  <2> DEFINE m == GroupHalted(r)
  <2>1. /\ m \in Docs /\ m.status = d.status /\ m.segs = d.segs /\ m.noted = d.noted
        /\ NoRequest(m) = NoRequest(d)
    BY <1>1, MarkDoc DEF GroupStates, GroupHalted
  <2> HIDE DEF m
  <2>2. \/ /\ \/ Rests(r, OpenGate(m, "engine_halted")) \/ Rests(r, OpenGate(m, "engine_refused"))
              \/ Rests(r, SetStatus(m, "FAILED"))
           /\ UNCHANGED faults
        \/ Throws(r, m) \/ Dies(r, m, {"halt"})
    BY <1>8 DEF FinishHalted, m
  <2>3. DocOK(m, Cut(r, "assess")) /\ DocOK(m, Cut(r, "assess") \/ "assess" \in {"halt"}) /\ {"halt"} \in SUBSET Gaps
    BY <1>1, <2>1 DEF DocOK, DocInv, Free, Gaps
  <2>4. DocOK(SetStatus(m, "FAILED"), Cut(r, "assess"))
    BY <2>3, StatusDoc DEF DocOK, DocInv, Free, Statuses
  <2>5. DocOK(OpenGate(m, "engine_halted"), Cut(r, "assess")) /\ DocOK(OpenGate(m, "engine_refused"), Cut(r, "assess"))
    BY <2>3, WaitingOK DEF GateKinds
  <2>6. CASE Throws(r, m) \/ Dies(r, m, {"halt"})
    BY <1>1, <2>3, <2>6, ThrowsStep, DiesStep
  <2> QED BY <1>2, <1>8, <2>2, <2>4, <2>5, <2>6, RestStep
<1>9. CASE Throws(r, d)
  BY <1>1, <1>9, ThrowsStep
<1> QED BY <1>4, <1>5, <1>6, <1>7, <1>8, <1>9 DEF Finish, FinishRequested, FinishUnavailable, FinishInterrupted

LEMMA StepRequestedInv == ASSUME IInv, NEW r \in Runs, StepRequested(r) PROVE IInv'
<1>1. PICK s \in {"STOPPED", "PAUSED"} : Save(r, SetStatus(run[r], s))
  BY DEF StepRequested
<1>2. DocOK(SetStatus(run[r], s), Cut(r, "assess"))
  BY DocFacts, StatusDoc DEF DocOK, DocInv, Free, Statuses
<1>3. frame[r] = "idle" /\ UNCHANGED <<paused, live, file, frame, faults>>
  BY DEF StepRequested, Stepped
<1> HIDE DEF SetStatus
<1> QED BY <1>1, <1>2, <1>3, SaveStep, Stutters

-----------------------------------------------------------------------------
(* Children and the world *)

LEMMA ChildInv ==
    ASSUME IInv, NEW r \in Runs, NEW c \in live[r],
           ChildAnnounces(r, c) \/ ChildExits(r, c) \/ ChildDies(r, c) \/ ChildSavesOver(r, c)
    PROVE  IInv'
<1>1. /\ c \in Children /\ c.seg \in Index /\ c.grp \in Groups /\ c.bid \in Bid
      /\ live \in [Runs -> SUBSET Children] /\ file \in [Runs -> [Index -> Files]]
  BY DEF IInv, TypeOK, Children
<1>2. UNCHANGED <<run, frame, faults>> /\ (paused' = paused \/ paused' \in [Runs -> [Groups -> Flags]])
  BY PausedType DEF ChildAnnounces, ChildExits, ChildDies, ChildSavesOver, Flags
<1>3. ASSUME ~ChildSavesOver(r, c) PROVE \E x \in Files : file' = [file EXCEPT ![r] = [file[r] EXCEPT ![c.seg] = x]]
  <2>1. file[r][c.seg] \in Files
    BY <1>1
  <2>2. CASE ChildAnnounces(r, c)
    <3> DEFINE x == [file[r][c.seg] EXCEPT !.bid = IF c.bid = 0 THEN c.grp ELSE c.bid]
    <3>0. Groups \subseteq Bid
      BY ConstantsAssumption DEF Groups, Bid
    <3>1. x \in Files
      BY <1>1, <2>1, <3>0 DEF Files
    <3>2. file' = [file EXCEPT ![r] = [file[r] EXCEPT ![c.seg] = x]]
      BY <2>2 DEF ChildAnnounces
    <3> QED BY <3>1, <3>2
  <2>3. CASE ChildExits(r, c)
    <3>1. PICK code \in Recorded, u \in BOOLEAN :
             file' = [file EXCEPT ![r][c.seg].exit = code, ![r][c.seg].unavailable = @ \/ u]
      BY <2>3 DEF ChildExits
    <3> DEFINE x == [file[r][c.seg] EXCEPT !.exit = code, !.unavailable = @ \/ u]
    <3>2. x \in Files
      BY <2>1 DEF Files
    <3>3. file' = [file EXCEPT ![r] = [file[r] EXCEPT ![c.seg] = x]]
      BY <1>1, <2>1, <3>1 DEF Files
    <3> QED BY <3>2, <3>3
  <2>4. CASE ChildDies(r, c)
    <3>1. PICK u \in BOOLEAN : file' = [file EXCEPT ![r][c.seg].unavailable = @ \/ u]
      BY <2>4 DEF ChildDies
    <3> DEFINE x == [file[r][c.seg] EXCEPT !.unavailable = @ \/ u]
    <3>2. x \in Files
      BY <2>1 DEF Files
    <3>3. file' = [file EXCEPT ![r] = [file[r] EXCEPT ![c.seg] = x]]
      BY <1>1, <3>1
    <3> QED BY <3>2, <3>3
  <2> QED BY <1>3, <2>2, <2>3, <2>4
<1>4. file' \in [Runs -> [Index -> Files]]
  BY <1>1, <1>3 DEF ChildSavesOver
<1>5. live' \in [Runs -> SUBSET Children]
  BY <1>1 DEF ChildAnnounces, ChildExits, ChildDies, ChildSavesOver
<1> QED BY <1>2, <1>4, <1>5 DEF IInv, TypeOK, FrameInv, DocInv, NoRequest, Free, Cut

LEMMA CooldownLapsesInv == ASSUME IInv, NEW r \in Runs, CooldownLapses(r) PROVE IInv'
<1> DEFINE d == [run[r] EXCEPT !.autoResumeAt = "due"]
<1>1. /\ d \in Docs /\ d.status = run[r].status /\ d.segs = run[r].segs /\ d.noted = run[r].noted
      /\ d.pauseRequested = run[r].pauseRequested /\ d.stopRequested = run[r].stopRequested
  BY DocFacts DEF Docs
<1>2. DocOK(d, Cut(r, "assess"))
  BY <1>1, DocFacts DEF DocOK, DocInv, Free, NoRequest
<1> QED BY <1>1, <1>2, DocFacts, SaveStep, Stutters DEF CooldownLapses

LEMMA CrashInv == ASSUME IInv, Crash PROVE IInv'
<1>1. PICK r \in Runs : frame[r] # "idle"
  BY DEF Crash
<1>2. faults' \in FaultRecords /\ faults.cut \subseteq faults'.cut
  BY FaultType DEF Crash, IInv, Grows
<1>3. OthersTyped /\ (Cut(r, "assess") => Cut(r, "assess")')
  BY <1>2, Stutters DEF Crash, Cut
<1>4. Save(r, run[r]) /\ Restarts
  BY DEF Crash, Save, IInv, TypeOK
<1> QED BY <1>3, <1>4, DocFacts, RestartStep

-----------------------------------------------------------------------------
(* The invariant *)

LEMMA InitInv == Init => IInv
<1> SUFFICES ASSUME Init PROVE IInv
  OBVIOUS
<1>0. 0 \in Bid /\ <<>> \in Seq(SegStates)
  BY ConstantsAssumption DEF Bid
<1>1. NewDoc \in Docs /\ NewDoc.segs = <<>> /\ NewDoc.status = "ABSENT"
      /\ ~NewDoc.pauseRequested /\ ~NewDoc.stopRequested
  BY <1>0 DEF NewDoc, Docs, Statuses, GroupStates
<1>2. NoFile \in Files
  BY <1>0 DEF NoFile, Files
<1>3. TypeOK
  BY <1>1, <1>2, ConstantsAssumption DEF Init, TypeOK, Frames, Flags, FaultRecords
<1> QED BY <1>1, <1>3 DEF Init, IInv, DocInv, FrameInv, NoRequest, Free

LEMMA NextInv == IInv /\ [Next]_vars => IInv'
<1> SUFFICES ASSUME IInv, [Next]_vars PROVE IInv'
  OBVIOUS
<1>1. CASE UNCHANGED vars
  BY <1>1 DEF vars, IInv, TypeOK, FrameInv, DocInv, NoRequest, Free, Cut
<1>2. CASE Crash
  BY <1>2, CrashInv
<1>3. ASSUME NEW r \in Runs, Person(r) PROVE IInv'
  BY <1>3, CreateInv, PauseInv, ResumeInv, StopInv, ApproveInv, SendBackInv, RequestFailsInv DEF Person
<1>4. ASSUME NEW r \in Runs, Core(r) PROVE IInv'
  BY <1>4, LaunchNextInv, StartReturnsInv, AssessReturnsInv, WatchLiveInv, WatchEndedInv,
     WatchMissesRecordInv, WatchBreaksInv, FinishInv, StepRequestedInv DEF Core
<1>5. ASSUME NEW r \in Runs, Child(r) PROVE IInv'
  BY <1>5, ChildInv DEF Child
<1>6. ASSUME NEW r \in Runs, CooldownLapses(r) PROVE IInv'
  BY <1>6, CooldownLapsesInv
<1> QED BY <1>1, <1>2, <1>3, <1>4, <1>5, <1>6 DEF Next

LEMMA Inductive == Spec => []IInv
BY InitInv, NextInv, PTL DEF Spec

\* Every document, child, log, frame and fault counter keeps its type; in
\* particular no run is ever given more segments than max_segments allows.
THEOREM TypeCorrect == Spec => []TypeOK
<1>1. IInv => TypeOK
  BY DEF IInv
<1> QED BY <1>1, Inductive, PTL

\* No request survives what ended it, for any number of runs, groups, segments,
\* crashes, exceptions and lost children: a run that is QUEUED or RUNNING
\* carries no pause or stop that finishSegment would obey later, save where the
\* service died in the assess turn of a run it had found exhausted.
THEOREM NoStaleRequestHolds == Spec => []NoStaleRequest
<1>1. IInv => NoStaleRequest
  BY DEF IInv, DocInv, NoRequest, NoStaleRequest, Free, Cut
<1> QED BY <1>1, Inductive, PTL
-----------------------------------------------------------------------------
(* The second invariant: what a document says of its groups, and which     *)
(* children are alive beside it.                                           *)

Parked == {"WAITING_FOR_HUMAN", "FAILED", "PAUSED", "STOPPED"}
Paid(d) == {i \in 1 .. Len(d.segs) : d.segs[i] = "completed"}

\* no group is halted, or (x) the service died between halting one and saying so
NoHalted(d, x) == In(d, "halted") = {} \/ x

\* the groups are split all at once, and leave "pending" from the first on
OrderInv(d) ==
    /\ (\A g \in Groups : d.group[g] = "none") \/ (\A g \in Groups : d.group[g] # "none")
    /\ \A g, h \in Groups : d.group[g] = "pending" /\ g < h => d.group[h] = "pending"

\* a status that speaks of the groups, or of a request
StatusInv(d, x) ==
    /\ d.status = "READY_FOR_REVIEW" => "review" \in d.gates /\ ~SegOpen(d) /\ In(d, "pending") = {}
    /\ NoHalted(d, x) \/ (d.status \in Parked /\ ~SegOpen(d))
    /\ In(d, "waiting") # {} => "engine_waiting" \in d.gates
    /\ d.status = "PAUSING" => d.pauseRequested
    /\ d.status = "STOPPING" => d.stopRequested

\* at an await no segment is open and nothing halted; a closing turn has nothing pending, and a
\* segment that completed has not been spent on a group before its snapshot returns
AwaitInv(d, f, x) ==
    /\ f # "idle" => ~SegOpen(d) /\ NoHalted(d, x) /\ d.status # "READY_FOR_REVIEW"
    /\ f = "assess" => In(d, "pending") = {}
    /\ f = "snapshot" => /\ d.segs # <<>>
                         /\ d.segs[Len(d.segs)] = "completed" => Cardinality(In(d, "done")) < Cardinality(Paid(d))

RunOK(d, f, x) ==
    OrderInv(d) /\ StatusInv(d, x) /\ AwaitInv(d, f, x) /\ Cardinality(In(d, "done")) <= Cardinality(Paid(d))

\* the segment that runs, or the next one
Place(d) == IF SegOpen(d) THEN Len(d.segs) ELSE Len(d.segs) + 1
OnRecord(d, c) == SegOpen(d) /\ c.lost = 0 /\ c.seg = Len(d.segs)
Strays(d, children) == {c \in children : ~OnRecord(d, c)}

\* an unrecorded child has written an exit record that will be read as another child's
Stale(d, children, files) ==
    Place(d) \in Index /\ files[Place(d)].exit # "absent" /\ (SegOpen(d) => \E c \in children : OnRecord(d, c))

\* the children of one run, at most k of them strays or already mistaken for another
CountOK(d, children, files, k) ==
    /\ IsFiniteSet(children)
    /\ \A c \in children : c.seg <= Place(d) /\ (c.lost = 0 => c.seg <= Len(d.segs))
    /\ \A c, e \in children : c.lost = 0 /\ e.lost = 0 /\ c.seg = e.seg => c = e
    /\ \A i \in Index : i > Place(d) => files[i].exit = "absent"
    /\ Cardinality(Strays(d, children)) + (IF Stale(d, children, files) THEN 1 ELSE 0) <= k

SupervisedOK(d, children, flags, x) ==
    children # {} => /\ d.status \in {"RUNNING", "PAUSING", "STOPPING"}
                     /\ d.status # "RUNNING" /\ d.boundedRunId # 0 => flags[d.boundedRunId] # "off" \/ x

GroupInv == \A r \in Runs : RunOK(run[r], frame[r], Cut(r, "halt"))
CountInv == \A r \in Runs : CountOK(run[r], live[r], file[r], faults.lost)
SupervisedInv == faults.lost = 0 /\ faults.errors = 0 =>
                     \A r \in Runs : SupervisedOK(run[r], live[r], paused[r], Cut(r, "learn"))

MoreInv == IInv /\ GroupInv /\ CountInv /\ SupervisedInv

LEMMA AwaitOver == ASSUME NEW d, NEW f, NEW x, NEW y, x => y, RunOK(d, f, x) PROVE RunOK(d, "idle", y)
BY DEF RunOK, AwaitInv, StatusInv, NoHalted

LEMMA RunLater == ASSUME NEW d, NEW f, NEW x, NEW y, x => y, RunOK(d, f, x) PROVE RunOK(d, f, y)
BY DEF RunOK, AwaitInv, StatusInv, NoHalted

-----------------------------------------------------------------------------
(* Counting children *)

LEMMA StraysType ==
    ASSUME NEW d, NEW children, IsFiniteSet(children)
    PROVE  IsFiniteSet(Strays(d, children)) /\ Cardinality(Strays(d, children)) \in Nat
<1>1. Strays(d, children) \subseteq children
  BY DEF Strays
<1> QED BY <1>1, FS_Subset, FS_CardinalityType

LEMMA PlaceType == ASSUME NEW d \in Docs PROVE Len(d.segs) \in Nat /\ Place(d) \in Nat
BY DEF Docs, Place

\* children leave, and nothing else changes that is counted
LEMMA CountLess ==
    ASSUME NEW d, NEW e, e.segs = d.segs, NEW b, NEW c, b \subseteq c, NEW files, NEW logs,
           \A i \in Index : logs[i].exit = files[i].exit,
           NEW k \in Nat, NEW m \in Nat, k <= m, CountOK(d, c, files, k)
    PROVE  CountOK(e, b, logs, m)
<1>1. SegOpen(e) = SegOpen(d) /\ Place(e) = Place(d) /\ \A x : OnRecord(e, x) = OnRecord(d, x)
  BY DEF SegOpen, Place, OnRecord
<1>2. Strays(e, b) \subseteq Strays(d, c) /\ IsFiniteSet(b)
  BY <1>1, FS_Subset DEF Strays, CountOK
<1>3. /\ Cardinality(Strays(d, c)) \in Nat /\ Cardinality(Strays(e, b)) \in Nat
      /\ Cardinality(Strays(e, b)) <= Cardinality(Strays(d, c))
  BY <1>2, StraysType, FS_Subset DEF CountOK
<1>4. Stale(e, b, logs) => Stale(d, c, files)
  BY <1>1 DEF Stale
<1>5. Cardinality(Strays(e, b)) + (IF Stale(e, b, logs) THEN 1 ELSE 0) <= m
  BY <1>3, <1>4 DEF CountOK
<1> QED BY <1>1, <1>2, <1>5 DEF CountOK

\* a child is started and never recorded
LEMMA CountSpawn ==
    ASSUME NEW d \in Docs, ~SegOpen(d), NEW e, e.segs = d.segs, NEW children, NEW files, NEW k \in Nat,
           NEW c, c.lost # 0, c.seg = Len(d.segs) + 1, CountOK(d, children, files, k)
    PROVE  CountOK(e, children \cup {c}, files, k + 1)
<1> DEFINE b == children \cup {c}
<1>1. ~SegOpen(e) /\ Place(e) = Len(d.segs) + 1 /\ Place(d) = Place(e) /\ Len(d.segs) \in Nat
  BY PlaceType DEF SegOpen, Place
<1>2. Strays(e, b) = b /\ Strays(d, children) = children
  BY <1>1 DEF Strays, OnRecord
<1>0. IsFiniteSet(children) /\ Cardinality(children) \in Nat
  BY FS_CardinalityType DEF CountOK
<1>3. IsFiniteSet(b) /\ Cardinality(b) \in Nat /\ Cardinality(b) <= Cardinality(children) + 1
  <2>1. /\ IsFiniteSet(b)
        /\ Cardinality(b) = Cardinality(children) \/ Cardinality(b) = Cardinality(children) + 1
    BY <1>0, FS_AddElement
  <2> QED BY <1>0, <2>1
<1>4. Stale(e, b, files) = Stale(d, children, files)
  BY <1>1 DEF Stale
<1>5. Cardinality(Strays(e, b)) + (IF Stale(e, b, files) THEN 1 ELSE 0) <= k + 1
  <2>1. Cardinality(children) + (IF Stale(d, children, files) THEN 1 ELSE 0) <= k
    BY <1>2 DEF CountOK
  <2>2. Cardinality(Strays(e, b)) = Cardinality(b)
    BY <1>2
  <2> HIDE DEF b
  <2> QED BY <1>0, <1>3, <1>4, <2>1, <2>2
<1>6. \A x \in b : x.seg <= Place(e) /\ (x.lost = 0 => x.seg <= Len(e.segs))
  BY <1>1 DEF CountOK
<1> QED BY <1>1, <1>3, <1>5, <1>6 DEF CountOK

\* a child is started and its segment recorded
LEMMA CountLaunch ==
    ASSUME NEW d \in Docs, ~SegOpen(d), NEW e \in Docs, SegOpen(e), Len(e.segs) = Len(d.segs) + 1,
           NEW children \in SUBSET Children, NEW files, NEW k \in Nat,
           NEW c \in Children, c.lost = 0, c.seg = Len(e.segs), CountOK(d, children, files, k)
    PROVE  CountOK(e, children \cup {c}, files, k)
<1> DEFINE b == children \cup {c}
<1>1. Place(d) = Len(e.segs) /\ Place(e) = Len(e.segs) /\ Len(d.segs) \in Nat
  BY PlaceType DEF Place
<1>2. ASSUME NEW x \in children PROVE ~OnRecord(e, x) /\ ~(x.lost = 0 /\ x.seg = c.seg)
  BY <1>1 DEF OnRecord, CountOK, Children, Index
<1>3. Strays(d, children) = children /\ Strays(e, b) = children
  BY <1>2 DEF Strays, OnRecord
<1>4. IsFiniteSet(b)
  BY FS_AddElement DEF CountOK
<1>5. Stale(e, b, files) => Stale(d, children, files)
  BY <1>1 DEF Stale
<1>6. Cardinality(children) \in Nat
  BY FS_CardinalityType DEF CountOK
<1>7. Cardinality(Strays(e, b)) + (IF Stale(e, b, files) THEN 1 ELSE 0) <= k
  BY <1>3, <1>5, <1>6 DEF CountOK
<1>8. \A x \in b : x.seg <= Place(e) /\ (x.lost = 0 => x.seg <= Len(e.segs))
  BY <1>1 DEF CountOK, Children, Index
<1>9. \A x, y \in b : x.lost = 0 /\ y.lost = 0 /\ x.seg = y.seg => x = y
  BY <1>2 DEF CountOK
<1>10. \A i \in Index : i > Place(e) => files[i].exit = "absent"
  BY <1>1 DEF CountOK
<1> QED BY <1>4, <1>7, <1>8, <1>9, <1>10 DEF CountOK

\* the open segment is closed: over its exit record, over no child, or over a child that has just left
LEMMA CountClose ==
    ASSUME NEW d \in Docs, SegOpen(d), NEW e \in Docs, ~SegOpen(e), Len(e.segs) = Len(d.segs),
           NEW c \in SUBSET Children, NEW b, b \subseteq c, NEW files, NEW logs, NEW k \in Nat, Len(d.segs) \in Index,
           \A i \in Index : i # Len(d.segs) => logs[i] = files[i],
           b \subseteq Strays(d, c) \/ files[Len(d.segs)].exit # "absent", CountOK(d, c, files, k)
    PROVE  CountOK(e, b, logs, k)
<1>1. Place(d) = Len(d.segs) /\ Place(e) = Len(d.segs) + 1 /\ Len(d.segs) \in Nat
  BY PlaceType DEF Place
<1>2. \A i \in Index : i > Len(d.segs) => logs[i].exit = "absent"
  BY <1>1 DEF CountOK, Index
<1>3. ~Stale(e, b, logs) /\ Strays(e, b) = b
  BY <1>1, <1>2 DEF Stale, Strays, OnRecord, Index
<1>4. IsFiniteSet(c) /\ IsFiniteSet(b) /\ Cardinality(b) \in Nat /\ Cardinality(Strays(d, c)) \in Nat
  BY FS_Subset, FS_CardinalityType, StraysType DEF CountOK
<1>5. Cardinality(b) <= k
  <2>1. CASE b \subseteq Strays(d, c)
    <3>1. Cardinality(b) <= Cardinality(Strays(d, c))
      BY <1>4, <2>1, StraysType, FS_Subset
    <3> QED BY <1>4, <3>1 DEF CountOK
  <2>2. CASE \E x \in c : OnRecord(d, x) /\ files[Len(d.segs)].exit # "absent"
    <3>1. PICK x \in c : OnRecord(d, x)
      BY <2>2
    <3>2. c = Strays(d, c) \cup {x}
      BY <3>1 DEF Strays, OnRecord, CountOK
    <3>3. Cardinality(c) <= Cardinality(Strays(d, c)) + 1 /\ Cardinality(c) \in Nat
      BY <1>4, <3>2, StraysType, FS_AddElement, FS_CardinalityType
    <3>4. Stale(d, c, files)
      BY <1>1, <2>2 DEF Stale
    <3>5. Cardinality(b) <= Cardinality(c)
      BY <1>4, FS_Subset
    <3> QED BY <1>4, <3>3, <3>4, <3>5 DEF CountOK
  <2>3. CASE \A x \in c : ~OnRecord(d, x)
    BY <2>1, <2>3 DEF Strays
  <2> QED BY <2>1, <2>2, <2>3
<1>6. \A x \in b : x.seg <= Place(e) /\ (x.lost = 0 => x.seg <= Len(e.segs))
  BY <1>1 DEF CountOK, Children, Index
<1>7. Cardinality(Strays(e, b)) + (IF Stale(e, b, logs) THEN 1 ELSE 0) <= k
  BY <1>3, <1>4, <1>5
<1> QED BY <1>1, <1>2, <1>4, <1>6, <1>7 DEF CountOK, Index

\* a child ends, and writes at most the exit record of its own segment
LEMMA CountExit ==
    ASSUME NEW d \in Docs, NEW children \in SUBSET Children, NEW files, NEW logs, NEW k \in Nat, NEW c \in children,
           \A i \in Index : i # c.seg => logs[i] = files[i], CountOK(d, children, files, k)
    PROVE  CountOK(d, children \ {c}, logs, k)
<1> DEFINE b == children \ {c}
<1>1. IsFiniteSet(b) /\ IsFiniteSet(Strays(d, children)) /\ Place(d) \in Nat
      /\ Cardinality(Strays(d, b)) \in Nat /\ Cardinality(Strays(d, children)) \in Nat
  BY FS_RemoveElement, StraysType, PlaceType DEF CountOK
<1>2. \A i \in Index : i > Place(d) => logs[i].exit = "absent"
  <2>1. c.seg <= Place(d) /\ c.seg \in Nat
    BY DEF CountOK, Children, Index
  <2> QED BY <1>1, <2>1 DEF CountOK, Index
<1>3. Cardinality(Strays(d, b)) + (IF Stale(d, b, logs) THEN 1 ELSE 0) <= k
  <2>1. CASE OnRecord(d, c)
    <3>1. Strays(d, b) = Strays(d, children) /\ ~Stale(d, b, logs)
      BY <2>1 DEF Strays, Stale, OnRecord, CountOK
    <3> QED BY <1>1, <3>1 DEF CountOK
  <2>2. CASE ~OnRecord(d, c)
    <3>1. Strays(d, b) = Strays(d, children) \ {c} /\ c \in Strays(d, children)
      BY <2>2 DEF Strays
    <3>2. Cardinality(Strays(d, children) \ {c}) = Cardinality(Strays(d, children)) - 1
      BY <1>1, <3>1, FS_RemoveElement
    <3>3. Cardinality(Strays(d, b)) = Cardinality(Strays(d, children)) - 1
      BY <3>1, <3>2, Zenon
    <3> QED BY <1>1, <3>3 DEF CountOK
  <2> QED BY <2>1, <2>2
<1> QED BY <1>1, <1>2, <1>3 DEF CountOK

\* without an unrecorded child there is only the process of the open segment, which has not ended
ChildrenOK(d, children, files) ==
    /\ \A i \in Index : i > Len(d.segs) => files[i].exit = "absent"
    /\ \A c \in children : OnRecord(d, c) /\ children = {c} /\ files[c.seg].exit = "absent"

LEMMA CountNone ==
    ASSUME NEW d \in Docs, NEW children \in SUBSET Children, NEW files, CountOK(d, children, files, 0)
    PROVE  ChildrenOK(d, children, files)
<1>1. IsFiniteSet(Strays(d, children)) /\ Cardinality(Strays(d, children)) \in Nat
      /\ Len(d.segs) \in Nat /\ Place(d) \in Nat
  BY StraysType, PlaceType DEF CountOK
<1>2. Cardinality(Strays(d, children)) = 0 /\ ~Stale(d, children, files)
  BY <1>1 DEF CountOK
<1>3. Strays(d, children) = {}
  BY <1>1, <1>2, FS_EmptySet
<1>4. ASSUME NEW c \in children PROVE OnRecord(d, c) /\ children = {c} /\ files[c.seg].exit = "absent"
  <2>1. \A x \in children : OnRecord(d, x)
    BY <1>3 DEF Strays
  <2>2. c.seg \in Index /\ Place(d) = c.seg
    BY <2>1 DEF OnRecord, Place, Children
  <2> QED BY <1>2, <2>1, <2>2 DEF OnRecord, CountOK, Stale
<1>5. ASSUME NEW i \in Index, i > Len(d.segs) PROVE files[i].exit = "absent"
  <2>1. CASE i > Place(d)
    BY <2>1 DEF CountOK
  <2>2. CASE i <= Place(d)
    <3>1. i = Place(d) /\ ~SegOpen(d)
      BY <1>1, <1>5, <2>2 DEF Place, Index
    <3> QED BY <1>2, <3>1 DEF Stale
  <2> QED BY <1>1, <2>1, <2>2 DEF Index
<1> QED BY <1>4, <1>5 DEF ChildrenOK

-----------------------------------------------------------------------------
(* Steps: a document, its children and its frame *)

\* the step ends at f, or the service comes back with nothing under way
Goes(r, f) == Goto(r, f) \/ (f = "idle" /\ Restarts)

\* a document that says the same of its segments and groups, and loses no engine gate
Kept(d, e) ==
    /\ e.segs = d.segs /\ e.group = d.group
    /\ "engine_waiting" \in d.gates => "engine_waiting" \in e.gates

\* a request is in its status and in its flag
Asked(d) == (d.status = "PAUSING" => d.pauseRequested) /\ (d.status = "STOPPING" => d.stopRequested)

LEMMA Unfaulted ==
    ASSUME IInv
    PROVE  /\ faults.errors \in Nat /\ faults.lost \in Nat
           /\ faults' = faults => Grows
           /\ Fault("errors", MaxErrors) => Grows /\ faults'.errors # 0
           /\ IInv' => faults'.errors \in Nat /\ faults'.lost \in Nat
<1>1. faults.errors \in Nat /\ faults.lost \in Nat
  BY DEF IInv, TypeOK, FaultRecords
<1>2. IInv' => faults'.errors \in Nat /\ faults'.lost \in Nat
  BY DEF IInv, TypeOK, FaultRecords
<1>3. Fault("errors", MaxErrors) => faults' = [faults EXCEPT !.errors = @ + 1] /\ faults \in FaultRecords
  BY DEF Fault, IInv, TypeOK
<1>4. Fault("errors", MaxErrors) => faults'.errors = faults.errors + 1 /\ faults'.lost = faults.lost /\ faults'.cut = faults.cut
  BY <1>3 DEF FaultRecords
<1> QED BY <1>1, <1>2, <1>4 DEF Grows

\* one run takes a step
LEMMA RunStep ==
    ASSUME MoreInv, IInv', Grows, NEW r \in Runs, NEW d, NEW f, Save(r, d), Goes(r, f),
           RunOK(d, f, Cut(r, "halt")'), CountOK(d, live'[r], file'[r], faults'.lost),
           \A q \in Runs \ {r} : live'[q] = live[q] /\ file'[q] = file[q] /\ paused'[q] = paused[q],
           faults'.lost = 0 /\ faults'.errors = 0 => SupervisedOK(d, live'[r], paused'[r], Cut(r, "learn")')
    PROVE  MoreInv'
<1>1. \A q \in Runs : run'[q] = (IF q = r THEN d ELSE run[q])
  BY DEF Save, MoreInv, IInv, TypeOK
<1>2. \A q \in Runs : frame'[q] = (IF q = r THEN f ELSE frame[q]) \/ frame'[q] = "idle"
  BY DEF Goes, Goto, Restarts, MoreInv, IInv, TypeOK
<1>3. frame'[r] = f
  BY DEF Goes, Goto, Restarts, MoreInv, IInv, TypeOK
<1>4. \A q \in Runs : \A g : Cut(q, g) => Cut(q, g)'
  BY DEF Grows, Cut
<1>5. faults.lost \in Nat /\ faults'.lost \in Nat /\ faults.errors \in Nat /\ faults'.errors \in Nat
  BY Unfaulted DEF MoreInv
<1>6. ASSUME NEW q \in Runs PROVE RunOK(run'[q], frame'[q], Cut(q, "halt")')
  <2>1. CASE q = r
    BY <1>1, <1>3, <2>1
  <2>2. CASE q # r
    <3>1. RunOK(run[q], frame[q], Cut(q, "halt"))
      BY DEF MoreInv, GroupInv
    <3>2. RunOK(run[q], frame[q], Cut(q, "halt")') /\ RunOK(run[q], "idle", Cut(q, "halt")')
      BY <1>4, <3>1, RunLater, AwaitOver
    <3> QED BY <1>1, <1>2, <2>2, <3>2
  <2> QED BY <2>1, <2>2
<1>7. ASSUME NEW q \in Runs PROVE CountOK(run'[q], live'[q], file'[q], faults'.lost)
  <2>1. CASE q = r
    BY <1>1, <2>1
  <2>2. CASE q # r
    <3>1. CountOK(run[q], live[q], file[q], faults.lost)
      BY DEF MoreInv, CountInv
    <3>2. CountOK(run[q], live[q], file[q], faults'.lost)
      BY <1>5, <3>1, CountLess DEF Grows
    <3> QED BY <1>1, <2>2, <3>2
  <2> QED BY <2>1, <2>2
<1>8. faults'.lost = 0 /\ faults'.errors = 0 =>
        \A q \in Runs : SupervisedOK(run'[q], live'[q], paused'[q], Cut(q, "learn")')
  <2>1. faults'.lost = 0 /\ faults'.errors = 0 => faults.lost = 0 /\ faults.errors = 0
    BY <1>5 DEF Grows
  <2> QED BY <1>1, <1>4, <2>1 DEF MoreInv, SupervisedInv, SupervisedOK
<1>9. GroupInv'
  BY <1>6 DEF GroupInv, RunOK, OrderInv, StatusInv, AwaitInv, NoHalted, In, SegOpen, Paid
<1>10. CountInv'
  BY <1>7 DEF CountInv, CountOK, Strays, Stale, OnRecord, Place, SegOpen
<1>11. SupervisedInv'
  BY <1>8 DEF SupervisedInv, SupervisedOK
<1> QED BY <1>9, <1>10, <1>11 DEF MoreInv

\* what MoreInv says of one run
LEMMA MoreFacts ==
    ASSUME MoreInv, NEW r \in Runs
    PROVE  /\ IInv /\ run[r] \in Docs /\ DocOK(run[r], Cut(r, "assess")) /\ live[r] \in SUBSET Children
           /\ RunOK(run[r], frame[r], Cut(r, "halt")) /\ RunOK(run[r], "idle", Cut(r, "halt"))
           /\ CountOK(run[r], live[r], file[r], faults.lost)
           /\ run[r].status \notin Parked => NoHalted(run[r], Cut(r, "halt"))
           /\ SegOpen(run[r]) => NoHalted(run[r], Cut(r, "halt"))
           /\ frame[r] # "idle" => /\ ~SegOpen(run[r]) /\ NoHalted(run[r], Cut(r, "halt"))
                                   /\ run[r].status # "READY_FOR_REVIEW"
           /\ Asked(run[r])
           /\ faults.lost = 0 /\ faults.errors = 0 => SupervisedOK(run[r], live[r], paused[r], Cut(r, "learn"))
<1>1. IInv /\ run[r] \in Docs /\ DocOK(run[r], Cut(r, "assess")) /\ live[r] \in SUBSET Children
  BY DocFacts DEF MoreInv, IInv, TypeOK
<1>2. RunOK(run[r], frame[r], Cut(r, "halt")) /\ CountOK(run[r], live[r], file[r], faults.lost)
  BY DEF MoreInv, GroupInv, CountInv
<1>3. RunOK(run[r], "idle", Cut(r, "halt"))
  BY <1>2, AwaitOver
<1>4. faults.lost = 0 /\ faults.errors = 0 => SupervisedOK(run[r], live[r], paused[r], Cut(r, "learn"))
  BY DEF MoreInv, SupervisedInv
<1> QED BY <1>1, <1>2, <1>3, <1>4 DEF RunOK, StatusInv, AwaitInv, Asked

LEMMA ChildFacts ==
    ASSUME MoreInv, NEW r \in Runs, faults.lost = 0
    PROVE  ChildrenOK(run[r], live[r], file[r])
BY MoreFacts, CountNone

LEMMA NoChild ==
    ASSUME MoreInv, NEW r \in Runs, faults.lost = 0, ~SegOpen(run[r])
    PROVE  live[r] = {}
BY ChildFacts DEF ChildrenOK, OnRecord

\* the segment's child is the only one there can be
LEMMA OnlyChild ==
    ASSUME MoreInv, NEW r \in Runs, faults.lost = 0
    PROVE  live[r] \ SegChild(r) = {} /\ (~ChildAlive(r) => live[r] = {})
BY ChildFacts DEF ChildrenOK, OnRecord, SegChild, ChildAlive

-----------------------------------------------------------------------------
(* Documents that keep segments and groups *)

LEMMA KeptTransitive == ASSUME NEW d, NEW e, NEW g, Kept(d, e), Kept(e, g) PROVE Kept(d, g)
BY DEF Kept

LEMMA KeptOK ==
    ASSUME NEW d, NEW e, NEW f, NEW h \in {"idle", f}, NEW x, NEW y, x => y, RunOK(d, f, x), Kept(d, e), Asked(e),
           e.status # "READY_FOR_REVIEW", NoHalted(d, y) \/ e.status \in Parked
    PROVE  RunOK(e, h, y)
<1>1. SegOpen(e) = SegOpen(d) /\ Paid(e) = Paid(d) /\ (\A s : In(e, s) = In(d, s)) /\ NoHalted(e, y) = NoHalted(d, y)
      /\ (NoHalted(d, x) => NoHalted(d, y))
  BY DEF Kept, SegOpen, Paid, In, NoHalted
<1>2. OrderInv(e)
  BY DEF Kept, RunOK, OrderInv
<1>3. StatusInv(e, y)
  BY <1>1 DEF Kept, RunOK, StatusInv, Asked
<1>4. AwaitInv(e, h, y)
  BY <1>1 DEF Kept, RunOK, AwaitInv
<1> QED BY <1>1, <1>2, <1>3, <1>4 DEF RunOK

LEMMA SameOK ==
    ASSUME NEW d, NEW e, NEW f, NEW x, RunOK(d, f, x), e.segs = d.segs, e.group = d.group, e.gates = d.gates,
           e.status = d.status, e.pauseRequested = d.pauseRequested, e.stopRequested = d.stopRequested
    PROVE  RunOK(e, f, x)
<1>1. SegOpen(e) = SegOpen(d) /\ Paid(e) = Paid(d) /\ (\A s : In(e, s) = In(d, s)) /\ NoHalted(e, x) = NoHalted(d, x)
  BY DEF SegOpen, Paid, In, NoHalted
<1>2. OrderInv(e)
  BY DEF RunOK, OrderInv
<1>3. StatusInv(e, x)
  BY <1>1 DEF RunOK, StatusInv
<1>4. AwaitInv(e, f, x)
  BY <1>1 DEF RunOK, AwaitInv
<1> QED BY <1>1, <1>2, <1>3, <1>4 DEF RunOK

LEMMA StatusKept ==
    ASSUME NEW d \in Docs, NEW s \in Statuses
    PROVE  /\ Kept(d, SetStatus(d, s)) /\ SetStatus(d, s).status = s
           /\ SetStatus(d, s).gates = d.gates
           /\ SetStatus(d, s).pauseRequested = d.pauseRequested /\ SetStatus(d, s).stopRequested = d.stopRequested
BY DEF SetStatus, Docs, Kept

LEMMA GateKept ==
    ASSUME NEW d \in Docs, NEW k \in GateKinds
    PROVE  Kept(d, OpenGate(d, k)) /\ OpenGate(d, k).status = "WAITING_FOR_HUMAN"
BY DEF OpenGate, Docs, Kept

LEMMA BlockedKept ==
    ASSUME NEW d \in Docs, NEW b \in Blocked(d)
    PROVE  Kept(d, b) /\ b.status \in {"PAUSED_RUNTIME_EXHAUSTED", "WAITING_FOR_HUMAN"}
<1>1. CASE b = OpenGate(d, "security_runtime")
  BY <1>1, GateKept DEF GateKinds
<1>2. CASE \E at \in {"later", "none"} : b = PauseExhausted(d, at)
  <2>1. PICK at \in {"later", "none"} : b = PauseExhausted(d, at)
    BY <1>2
  <2> QED BY <2>1 DEF PauseExhausted, Docs, Kept
<1> QED BY <1>1, <1>2 DEF Blocked

LEMMA AttributedKept ==
    ASSUME NEW d \in Docs, NEW b \in Bid
    PROVE  /\ Kept(d, Attributed(d, b)) /\ Attributed(d, b).status = d.status /\ Attributed(d, b).boundedRunId = b
           /\ Attributed(d, b).pauseRequested = d.pauseRequested /\ Attributed(d, b).stopRequested = d.stopRequested
<1> DEFINE bids == [g \in Groups |-> IF IsFirst(d, "running", g) /\ d.groupBid[g] = 0 THEN b ELSE d.groupBid[g]]
<1>1. Attributed(d, b) = [d EXCEPT !.boundedRunId = b, !.groupBid = bids]
  BY DEF Attributed
<1> HIDE DEF bids
<1> QED BY <1>1 DEF Docs, Kept

\* the count of a run whose segments are kept
LEMMA KeptCount ==
    ASSUME MoreInv, IInv', Grows, NEW r \in Runs, NEW d, d.segs = run[r].segs, live'[r] \subseteq live[r], UNCHANGED file
    PROVE  CountOK(d, live'[r], file'[r], faults'.lost)
<1>1. faults.lost \in Nat /\ faults'.lost \in Nat /\ faults.lost <= faults'.lost
  BY Unfaulted DEF Grows, MoreInv
<1>2. CountOK(run[r], live[r], file[r], faults.lost)
  BY MoreFacts
<1> QED BY <1>1, <1>2, CountLess

\* a step that keeps segments and groups, and ends where it stood or at rest
LEMMA CalmStep ==
    ASSUME MoreInv, IInv', Grows, NEW r \in Runs, NEW d, NEW f \in {"idle", frame[r]},
           Save(r, d), Goes(r, f), Kept(run[r], d), Asked(d), d.status # "READY_FOR_REVIEW",
           NoHalted(run[r], Cut(r, "halt")') \/ d.status \in Parked,
           UNCHANGED live \/ Kill(r), UNCHANGED file, \A q \in Runs \ {r} : paused'[q] = paused[q],
           faults'.lost = 0 /\ faults'.errors = 0 => SupervisedOK(d, live'[r], paused'[r], Cut(r, "learn")')
    PROVE  MoreInv'
<1>1. Cut(r, "halt") => Cut(r, "halt")'
  BY DEF Grows, Cut
<1>2. RunOK(d, f, Cut(r, "halt")')
  BY <1>1, MoreFacts, KeptOK
<1>3. live'[r] \subseteq live[r] /\ \A q \in Runs \ {r} : live'[q] = live[q]
  BY DEF Kill, MoreInv, IInv, TypeOK
<1>4. CountOK(d, live'[r], file'[r], faults'.lost)
  BY <1>3, KeptCount DEF Kept
<1> QED BY <1>2, <1>3, <1>4, RunStep

\* the same of a run whose segment is closed: nothing is alive that had to be supervised
LEMMA ClosedStep ==
    ASSUME MoreInv, IInv', Grows, NEW r \in Runs, NEW d, NEW f \in {"idle", frame[r]},
           Save(r, d), Goes(r, f), ~SegOpen(run[r]), Kept(run[r], d), Asked(d), d.status # "READY_FOR_REVIEW",
           NoHalted(run[r], Cut(r, "halt")') \/ d.status \in Parked, UNCHANGED <<live, file, paused>>
    PROVE  MoreInv'
<1>1. faults'.lost = 0 => live'[r] = {}
  BY NoChild, Unfaulted DEF Grows, MoreInv
<1> QED BY <1>1, CalmStep DEF SupervisedOK

-----------------------------------------------------------------------------
(* Requests of a person *)

LEMMA RequestStep ==
    ASSUME MoreInv, IInv', NEW r \in Runs, NEW d, Save(r, d), UNCHANGED <<file, frame, faults>>,
           Kept(run[r], d), Asked(d), d.status # "READY_FOR_REVIEW",
           NoHalted(run[r], Cut(r, "halt")) \/ d.status \in Parked,
           UNCHANGED live \/ Kill(r), \A q \in Runs \ {r} : paused'[q] = paused[q],
           faults.lost = 0 /\ faults.errors = 0 => SupervisedOK(d, live'[r], paused'[r], Cut(r, "learn"))
    PROVE  MoreInv'
<1>1. Goes(r, frame[r])
  BY DEF MoreInv, IInv, TypeOK, Goes, Goto
<1>2. Grows /\ Cut(r, "halt")' = Cut(r, "halt") /\ Cut(r, "learn")' = Cut(r, "learn")
  BY Unfaulted DEF MoreInv, Cut
<1> QED BY <1>1, <1>2, CalmStep

LEMMA CreateMore == ASSUME MoreInv, NEW r \in Runs, Create(r) PROVE MoreInv'
<1> DEFINE d == SetStatus(run[r], "QUEUED")
<1>1. IInv' /\ run[r].status = "ABSENT" /\ Save(r, d) /\ UNCHANGED <<paused, live, file, frame, faults>>
  BY CreateInv DEF MoreInv, Create
<1>2. Kept(run[r], d) /\ d.status = "QUEUED"
  BY MoreFacts, StatusKept DEF Statuses
<1>3. NoHalted(run[r], Cut(r, "halt")) /\ (faults.lost = 0 /\ faults.errors = 0 => live[r] = {})
  BY <1>1, MoreFacts DEF Parked, SupervisedOK
<1> HIDE DEF d
<1> QED BY <1>1, <1>2, <1>3, RequestStep DEF Asked, SupervisedOK

\* the flag of the document's own bounded run is set with the others
LEMMA OwnFlag ==
    ASSUME MoreInv, NEW r \in Runs, NEW f \in Flags, SetFlags(r, BoundedRunIds(run[r]), f)
    PROVE  /\ run[r].boundedRunId # 0 => paused'[r][run[r].boundedRunId] = f
           /\ \A q \in Runs \ {r} : paused'[q] = paused[q]
<1>1. run[r].boundedRunId \in Bid
  BY MoreFacts DEF Docs
<1>2. run[r].boundedRunId # 0 => run[r].boundedRunId \in Groups /\ run[r].boundedRunId \in BoundedRunIds(run[r])
  BY <1>1 DEF BoundedRunIds, Bid, Groups
<1> QED BY <1>2, MoreFacts, PausedType

LEMMA PauseMore == ASSUME MoreInv, NEW r \in Runs, Pause(r) PROVE MoreInv'
<1> DEFINE d == run[r]
           p == [d EXCEPT !.status = "PAUSED", !.pauseRequested = FALSE, !.autoResumeAt = "none"]
           q == [d EXCEPT !.status = "PAUSING", !.pauseRequested = TRUE]
<1>1. IInv' /\ UNCHANGED <<live, file, frame, faults>>
  BY PauseInv DEF MoreInv, Pause
<1>2. CASE d.status \in {"QUEUED", "PAUSED_RUNTIME_EXHAUSTED", "WAITING_FOR_HUMAN"} /\ Save(r, p) /\ UNCHANGED paused
  <2>1. Kept(d, p) /\ p.status = "PAUSED"
    BY MoreFacts DEF Kept, Docs
  <2>2. faults.lost = 0 /\ faults.errors = 0 => live[r] = {}
    BY <1>2, MoreFacts DEF SupervisedOK
  <2> HIDE DEF p
  <2> QED BY <1>1, <1>2, <2>1, <2>2, RequestStep DEF Asked, SupervisedOK, Parked
<1>3. CASE d.status = "RUNNING" /\ Save(r, q) /\ SetFlags(r, BoundedRunIds(d), "on")
  <2>1. Kept(d, q) /\ q.status = "PAUSING" /\ q.pauseRequested /\ q.boundedRunId = d.boundedRunId
    BY MoreFacts DEF Kept, Docs
  <2>2. /\ d.boundedRunId # 0 => paused'[r][d.boundedRunId] = "on"
        /\ \A k \in Runs \ {r} : paused'[k] = paused[k]
    BY <1>3, OwnFlag DEF Flags
  <2>3. NoHalted(d, Cut(r, "halt"))
    BY <1>3, MoreFacts DEF Parked
  <2> HIDE DEF q
  <2> QED BY <1>1, <1>3, <2>1, <2>2, <2>3, RequestStep DEF Asked, SupervisedOK
<1> QED BY <1>2, <1>3 DEF Pause

LEMMA StopMore == ASSUME MoreInv, NEW r \in Runs, Stop(r) PROVE MoreInv'
<1> DEFINE d == run[r]
           q == [d EXCEPT !.status = "STOPPING", !.stopRequested = TRUE]
           s == StoppedNow(d)
<1>1. IInv' /\ UNCHANGED <<file, frame, faults>> /\ SetFlags(r, BoundedRunIds(d), "on")
  BY StopInv DEF MoreInv, Stop
<1>2. /\ d.boundedRunId # 0 => paused'[r][d.boundedRunId] = "on"
      /\ (\A k \in Runs \ {r} : paused'[k] = paused[k]) /\ live \in [Runs -> SUBSET Children]
  BY <1>1, OwnFlag DEF Flags, MoreInv, IInv, TypeOK
<1>3. CASE ChildAlive(r) /\ Save(r, q) /\ UNCHANGED live
  <2>1. Kept(d, q) /\ q.status = "STOPPING" /\ q.stopRequested /\ q.boundedRunId = d.boundedRunId
    BY MoreFacts DEF Kept, Docs
  <2>2. NoHalted(d, Cut(r, "halt"))
    BY <1>3, MoreFacts DEF ChildAlive
  <2> HIDE DEF q
  <2> QED BY <1>1, <1>2, <1>3, <2>1, <2>2, RequestStep DEF Asked, SupervisedOK
<1>4. CASE Save(r, s) /\ (Kill(r) \/ (~ChildAlive(r) /\ UNCHANGED live))
  <2>1. Kept(d, s) /\ s.status = "STOPPED"
    BY MoreFacts DEF Kept, Docs, StoppedNow
  <2>2. faults.lost = 0 => live'[r] = {}
    BY <1>2, <1>4, OnlyChild DEF Kill
  <2>3. UNCHANGED live \/ Kill(r)
    BY <1>4
  <2> HIDE DEF s
  <2> QED BY <1>1, <1>2, <1>4, <2>1, <2>2, <2>3, RequestStep DEF Asked, SupervisedOK, Parked
<1> QED BY <1>3, <1>4 DEF Stop

LEMMA ApproveMore == ASSUME MoreInv, NEW r \in Runs, Approve(r) PROVE MoreInv'
<1> DEFINE d == [run[r] EXCEPT !.status = "APPROVED", !.gates = @ \ {"review"}]
<1>1. IInv' /\ run[r].status = "READY_FOR_REVIEW" /\ Save(r, d) /\ UNCHANGED <<paused, live, file, frame, faults>>
  BY ApproveInv DEF MoreInv, Approve
<1>2. Kept(run[r], d) /\ d.status = "APPROVED"
  BY MoreFacts DEF Kept, Docs
<1>3. NoHalted(run[r], Cut(r, "halt")) /\ (faults.lost = 0 /\ faults.errors = 0 => live[r] = {})
  BY <1>1, MoreFacts DEF Parked, SupervisedOK
<1> HIDE DEF d
<1> QED BY <1>1, <1>2, <1>3, RequestStep DEF Asked, SupervisedOK

LEMMA SendBackMore == ASSUME MoreInv, NEW r \in Runs, SendBack(r) PROVE MoreInv'
<1> DEFINE d == OpenGate(run[r], "review")
<1>1. IInv' /\ run[r].status = "READY_FOR_REVIEW" /\ Save(r, d) /\ UNCHANGED <<paused, live, file, frame, faults>>
  BY SendBackInv DEF MoreInv, SendBack
<1>2. Kept(run[r], d) /\ d.status = "WAITING_FOR_HUMAN"
  BY MoreFacts, GateKept DEF GateKinds
<1>3. faults.lost = 0 /\ faults.errors = 0 => live[r] = {}
  BY <1>1, MoreFacts DEF SupervisedOK
<1> HIDE DEF d
<1> QED BY <1>1, <1>2, <1>3, RequestStep DEF Asked, SupervisedOK, Parked


LEMMA RequestFailsMore == ASSUME MoreInv, NEW r \in Runs, RequestFails(r) PROVE MoreInv'
<1> DEFINE d == run[r]
<1>1. IInv' /\ UNCHANGED <<run, live, file>> /\ IInv /\ d \in Docs
  BY RequestFailsInv, MoreFacts DEF MoreInv, RequestFails
<1>2. Grows /\ ((Fault("errors", MaxErrors) /\ UNCHANGED frame) \/ Restarts)
  BY <1>1, FaultType DEF RequestFails, IInv
<1>3. PICK f \in {"on", "off"}, part \in SUBSET BoundedRunIds(d) :
         SetFlags(r, part, f) /\ (f = "off" => d.status \notin {"RUNNING", "PAUSING", "STOPPING"})
  BY DEF RequestFails
<1>4. /\ \A q \in Runs \ {r} : paused'[q] = paused[q]
      /\ \A b \in Groups : paused'[r][b] = IF b \in part THEN f ELSE paused[r][b]
  BY <1>1, <1>3, PausedType DEF Flags
<1>5. PICK h \in {"idle", frame[r]} : Goes(r, h) /\ (h # "idle" => h = frame[r])
  BY <1>1, <1>2 DEF Goes, Goto, IInv, TypeOK
<1>6. Save(r, d)
  BY <1>1 DEF Save, IInv, TypeOK
<1>7. Cut(r, "halt") => Cut(r, "halt")'
  BY <1>2 DEF Grows, Cut
<1>8. RunOK(d, h, Cut(r, "halt")')
  BY <1>5, <1>7, MoreFacts, RunLater
<1>9. CountOK(d, live'[r], file'[r], faults'.lost)
  BY <1>1, <1>2, KeptCount
<1>10. faults'.lost = 0 /\ faults'.errors = 0 => SupervisedOK(d, live'[r], paused'[r], Cut(r, "learn")')
  <2>1. faults'.lost = 0 /\ faults'.errors = 0 => SupervisedOK(d, live[r], paused[r], Cut(r, "learn"))
    BY <1>1, <1>2, MoreFacts, Unfaulted DEF Grows
  <2>2. d.boundedRunId # 0 => d.boundedRunId \in Groups
    BY <1>1 DEF Docs, Bid, Groups
  <2>3. Cut(r, "learn") => Cut(r, "learn")'
    BY <1>2 DEF Grows, Cut
  <2> QED BY <1>1, <1>3, <1>4, <2>1, <2>2, <2>3 DEF SupervisedOK
<1> QED BY <1>1, <1>2, <1>4, <1>5, <1>6, <1>8, <1>9, <1>10, RunStep

LEMMA ResumeMore == ASSUME MoreInv, NEW r \in Runs, Resume(r) PROVE MoreInv'
<1> DEFINE d == run[r]
           e == Resumed(d)
           x == Cut(r, "halt")
           group == [g \in Groups |-> IF d.group[g] \in {"waiting", "halted"} THEN "running" ELSE d.group[g]]
<1>1. /\ IInv' /\ d.status \in {"PAUSED", "PAUSED_RUNTIME_EXHAUSTED", "WAITING_FOR_HUMAN", "STOPPED"}
      /\ Save(r, e) /\ UNCHANGED <<live, file, frame, faults>> /\ SetFlags(r, BoundedRunIds(d), "off")
  BY ResumeInv DEF MoreInv, Resume
<1>2. d \in Docs /\ RunOK(d, frame[r], x)
  BY MoreFacts
<1>3. e.segs = d.segs /\ e.group = group /\ e.status = "QUEUED"
  <2>1. e = [d EXCEPT !.group = group, !.pauseRequested = FALSE, !.stopRequested = FALSE,
                      !.autoResumeAt = "none", !.gates = d.gates \cap {"review"}, !.status = "QUEUED"]
    BY DEF Resumed
  <2> HIDE DEF group
  <2> QED BY <1>2, <2>1 DEF Docs
<1>4. /\ \A s \in {"none", "pending", "done"} : In(e, s) = In(d, s)
      /\ In(e, "waiting") = {} /\ In(e, "halted") = {}
  BY <1>3 DEF In
<1>5. SegOpen(e) = SegOpen(d) /\ Paid(e) = Paid(d)
  BY <1>3 DEF SegOpen, Paid
<1>6. OrderInv(e)
  <2>1. \A g \in Groups : (e.group[g] = "none" <=> d.group[g] = "none") /\ (e.group[g] = "pending" <=> d.group[g] = "pending")
    BY <1>3
  <2> QED BY <1>2, <2>1 DEF RunOK, OrderInv
<1> HIDE DEF e, x
<1>7. RunOK(e, frame[r], x)
  BY <1>2, <1>3, <1>4, <1>5, <1>6 DEF RunOK, StatusInv, AwaitInv, NoHalted
<1>8. Goes(r, frame[r]) /\ \A q \in Runs \ {r} : paused'[q] = paused[q]
  BY <1>1, OwnFlag, MoreFacts DEF IInv, TypeOK, Goes, Goto, Flags
<1>9. Grows /\ Cut(r, "halt")' = x /\ Cut(r, "learn")' = Cut(r, "learn")
  BY <1>1, Unfaulted DEF MoreInv, Cut, x
<1>10. CountOK(e, live'[r], file'[r], faults'.lost)
  BY <1>1, <1>3, <1>9, KeptCount
<1>11. faults.lost = 0 /\ faults.errors = 0 => live[r] = {}
  BY <1>1, MoreFacts DEF SupervisedOK
<1> QED BY <1>1, <1>7, <1>8, <1>9, <1>10, <1>11, RunStep DEF SupervisedOK

-----------------------------------------------------------------------------
(* The control loop *)

LEMMA ThrowsMore ==
    ASSUME MoreInv, IInv', NEW r \in Runs, NEW d \in Docs, Kept(run[r], d), Throws(r, d),
           UNCHANGED <<live, file>>, \A q \in Runs \ {r} : paused'[q] = paused[q]
    PROVE  MoreInv'
<1> DEFINE e == SetStatus(d, "WAITING_FOR_HUMAN")
<1>1. Save(r, e) /\ Goes(r, "idle") /\ Fault("errors", MaxErrors)
  BY DEF Throws, Rests, Goes
<1>2. Kept(run[r], e) /\ e.status = "WAITING_FOR_HUMAN"
  BY StatusKept, KeptTransitive DEF Statuses
<1>3. Grows /\ faults'.errors # 0
  BY <1>1, Unfaulted DEF MoreInv
<1> HIDE DEF e
<1> QED BY <1>1, <1>2, <1>3, CalmStep DEF Asked, Parked

LEMMA DiesGrows ==
    ASSUME MoreInv, NEW r \in Runs, NEW gaps \in SUBSET Gaps, NEW d, Dies(r, d, gaps)
    PROVE  /\ Save(r, d) /\ Goes(r, "idle") /\ Grows
           /\ \A g : Cut(r, g) => Cut(r, g)'
           /\ \A g \in gaps : Cut(r, g)'
<1>1. TypeOK
  BY DEF MoreInv, IInv
<1>2. Grows /\ \A g \in gaps : <<r, g>> \in faults'.cut
  BY <1>1, FaultType
<1> QED BY <1>2 DEF Dies, Goes, Grows, Cut

LEMMA NoGaps == {} \in SUBSET Gaps
OBVIOUS

\* a step over a closed segment that goes no further
LEMMA BreaksMore ==
    ASSUME MoreInv, IInv', NEW r \in Runs, NEW d \in Docs, Kept(run[r], d), Asked(d), d.status # "READY_FOR_REVIEW",
           ~SegOpen(run[r]), NoHalted(run[r], Cut(r, "halt")), Breaks(r, d), UNCHANGED <<paused, live, file>>
    PROVE  MoreInv'
<1>1. CASE Throws(r, d)
  BY <1>1, ThrowsMore
<1>2. CASE Dies(r, d, {})
  <2>1. Save(r, d) /\ Goes(r, "idle") /\ Grows /\ (Cut(r, "halt") => Cut(r, "halt")')
    BY <1>2, NoGaps, DiesGrows
  <2>2. NoHalted(run[r], Cut(r, "halt")')
    BY <2>1 DEF NoHalted
  <2> QED BY <2>1, <2>2, ClosedStep
<1> QED BY <1>1, <1>2 DEF Breaks

\* a step over a closed segment that rests, waiting or queued
LEMMA RestsMore ==
    ASSUME MoreInv, IInv', NEW r \in Runs, NEW d, Kept(run[r], d), Rests(r, d), ~SegOpen(run[r]),
           d.status \in {"WAITING_FOR_HUMAN", "PAUSED", "STOPPED"}
           \/ (d.status \in {"QUEUED", "PAUSED_RUNTIME_EXHAUSTED"} /\ NoHalted(run[r], Cut(r, "halt"))),
           UNCHANGED <<paused, live, file, faults>>
    PROVE  MoreInv'
<1>1. Grows /\ Cut(r, "halt")' = Cut(r, "halt")
  BY Unfaulted DEF MoreInv, Cut
<1> QED BY <1>1, ClosedStep DEF Rests, Goes, Asked, Parked

LEMMA BlockedMore ==
    ASSUME MoreInv, IInv', NEW r \in Runs, NEW d \in Docs, Kept(run[r], d), ~SegOpen(run[r]),
           NoHalted(run[r], Cut(r, "halt")),
           NEW b \in Blocked(d), Rests(r, b), UNCHANGED <<paused, live, file, faults>>
    PROVE  MoreInv'
BY RestsMore, BlockedKept, KeptTransitive

LEMMA GateMore ==
    ASSUME MoreInv, IInv', NEW r \in Runs, NEW d \in Docs, Kept(run[r], d), ~SegOpen(run[r]),
           NEW k \in GateKinds, Rests(r, OpenGate(d, k)), UNCHANGED <<paused, live, file, faults>>
    PROVE  MoreInv'
<1>1. PICK e : e = OpenGate(d, k)
  OBVIOUS
<1>2. Kept(run[r], e) /\ e.status = "WAITING_FOR_HUMAN" /\ Rests(r, e)
  BY <1>1, GateKept, KeptTransitive
<1> QED BY <1>2, RestsMore

LEMMA AutoResumedKept ==
    ASSUME NEW d \in Docs
    PROVE  Kept(d, AutoResumed(d)) /\ (d.status \in {"QUEUED", "RUNNING"} \/ CooledDown(d) =>
               AutoResumed(d).status \in {"QUEUED", "RUNNING"})
<1> DEFINE a == [d EXCEPT !.status = "QUEUED", !.autoResumeAt = "none"]
<1>1. a.status = "QUEUED" /\ a.segs = d.segs /\ a.group = d.group /\ a.gates = d.gates
  BY DEF Docs
<1> QED BY <1>1 DEF AutoResumed, Kept

LEMMA StepRequestedMore == ASSUME MoreInv, NEW r \in Runs, StepRequested(r) PROVE MoreInv'
<1>1. PICK s \in {"STOPPED", "PAUSED"} : Save(r, SetStatus(run[r], s))
  BY DEF StepRequested
<1>2. PICK d : d = SetStatus(run[r], s)
  OBVIOUS
<1>3. Kept(run[r], d) /\ d.status = s
  BY <1>2, MoreFacts, StatusKept DEF Statuses
<1>4. /\ IInv' /\ ~SegOpen(run[r]) /\ frame[r] = "idle" /\ UNCHANGED <<paused, live, file, frame, faults>>
  BY StepRequestedInv DEF MoreInv, StepRequested, Stepped
<1>5. faults.lost = 0 => live[r] = {}
  BY <1>4, NoChild
<1> QED BY <1>1, <1>2, <1>3, <1>4, <1>5, RequestStep DEF Asked, Parked, SupervisedOK

LEMMA CooldownLapsesMore == ASSUME MoreInv, NEW r \in Runs, CooldownLapses(r) PROVE MoreInv'
<1> DEFINE e == [run[r] EXCEPT !.autoResumeAt = "due"]
<1>1. IInv' /\ Save(r, e) /\ UNCHANGED <<paused, live, file, frame, faults>>
  BY CooldownLapsesInv DEF MoreInv, CooldownLapses
<1>2. /\ e.segs = run[r].segs /\ e.group = run[r].group /\ e.gates = run[r].gates /\ e.status = run[r].status
      /\ e.pauseRequested = run[r].pauseRequested /\ e.stopRequested = run[r].stopRequested
      /\ e.boundedRunId = run[r].boundedRunId
  BY MoreFacts DEF Docs
<1> HIDE DEF e
<1>3. Grows /\ Cut(r, "halt")' = Cut(r, "halt") /\ Cut(r, "learn")' = Cut(r, "learn") /\ Goes(r, frame[r])
  BY <1>1, Unfaulted DEF MoreInv, Cut, Goes, Goto, IInv, TypeOK
<1>4. RunOK(e, frame[r], Cut(r, "halt"))
  BY <1>2, MoreFacts, SameOK
<1>5. CountOK(e, live'[r], file'[r], faults'.lost)
  BY <1>1, <1>2, <1>3, KeptCount
<1>6. faults.lost = 0 /\ faults.errors = 0 => SupervisedOK(e, live[r], paused[r], Cut(r, "learn"))
  BY <1>2, MoreFacts DEF SupervisedOK
<1> QED BY <1>1, <1>3, <1>4, <1>5, <1>6, RunStep

\* a document that may be driven: nothing open, nothing halted
Drivable(d, x) == d \in Docs /\ RunOK(d, "idle", x) /\ ~SegOpen(d) /\ NoHalted(d, x) /\ d.status # "READY_FOR_REVIEW"

LEMMA KeptDrivable ==
    ASSUME MoreInv, NEW r \in Runs, NEW d \in Docs, Kept(run[r], d), Asked(d), d.status # "READY_FOR_REVIEW",
           ~SegOpen(run[r]), NoHalted(run[r], Cut(r, "halt"))
    PROVE  Drivable(d, Cut(r, "halt"))
<1>1. RunOK(d, "idle", Cut(r, "halt"))
  BY KeptOK, MoreFacts
<1>2. SegOpen(d) = SegOpen(run[r]) /\ NoHalted(d, Cut(r, "halt"))
  BY DEF Kept, SegOpen, In, NoHalted
<1> QED BY <1>1, <1>2 DEF Drivable

\* a step that leaves the segments alone, none of them open
LEMMA EndStep ==
    ASSUME MoreInv, IInv', Grows, NEW r \in Runs, NEW d, NEW f, NEW x, x => Cut(r, "halt")', Save(r, d), Goes(r, f),
           RunOK(d, f, x), d.segs = run[r].segs, ~SegOpen(run[r]), UNCHANGED <<paused, live, file>>
    PROVE  MoreInv'
<1>1. faults'.lost = 0 => live[r] = {}
  BY NoChild, Unfaulted DEF MoreInv, Grows
<1>2. CountOK(d, live'[r], file'[r], faults'.lost)
  BY KeptCount
<1>3. RunOK(d, f, Cut(r, "halt")')
  BY RunLater
<1> QED BY <1>1, <1>2, <1>3, RunStep DEF SupervisedOK

LEMMA ReviewOK ==
    ASSUME NEW d, NEW x, d \in Docs, RunOK(d, "idle", x), ~SegOpen(d), NoHalted(d, x), In(d, "pending") = {}
    PROVE  RunOK(ReadyForReview(d), "idle", x)
<1> DEFINE e == ReadyForReview(d)
<1>1. e.segs = d.segs /\ e.group = d.group /\ e.gates = d.gates \cup {"review"} /\ e.status = "READY_FOR_REVIEW"
  BY DEF ReadyForReview, Docs
<1> HIDE DEF e
<1>2. SegOpen(e) = SegOpen(d) /\ Paid(e) = Paid(d) /\ (\A s : In(e, s) = In(d, s)) /\ NoHalted(e, x)
  BY <1>1 DEF SegOpen, Paid, In, NoHalted
<1>3. OrderInv(e)
  BY <1>1 DEF RunOK, OrderInv
<1>4. StatusInv(e, x)
  BY <1>1, <1>2 DEF RunOK, StatusInv
<1> QED BY <1>2, <1>3, <1>4 DEF RunOK, AwaitInv, e

LEMMA FinalizeMore ==
    ASSUME MoreInv, IInv', NEW r \in Runs, NEW d, Drivable(d, Cut(r, "halt")), d.segs = run[r].segs, In(d, "pending") = {},
           Finalize(r, d), UNCHANGED <<paused, live, file, faults>>
    PROVE  MoreInv'
<1> DEFINE x == Cut(r, "halt")
<1>1. d \in Docs /\ RunOK(d, "idle", x) /\ ~SegOpen(d) /\ ~SegOpen(run[r]) /\ NoHalted(d, x)
  BY DEF Drivable, SegOpen
<1>2. Grows /\ (x => Cut(r, "halt")')
  BY Unfaulted DEF MoreInv, Cut
<1> HIDE DEF x
<1>3. CASE CommanderEnabled
  <2>1. PICK f \in {"assess_waiting", "assess"} : Goes(r, f)
    BY <1>3 DEF Finalize, Goes
  <2>2. Save(r, d)
    BY <1>3 DEF Finalize
  <2>3. RunOK(d, f, x)
    BY <1>1 DEF Drivable, RunOK, AwaitInv
  <2> QED BY <1>1, <1>2, <2>1, <2>2, <2>3, EndStep
<1>4. CASE ~CommanderEnabled
  <2>1. PICK e \in {SetStatus(d, "WAITING_FOR_HUMAN"), ReadyForReview(d)} : Save(r, e) /\ Goes(r, "idle")
    BY <1>4 DEF Finalize, Rests, Goes
  <2>2. CASE e = SetStatus(d, "WAITING_FOR_HUMAN")
    <3>1. Kept(d, e) /\ e.status = "WAITING_FOR_HUMAN"
      BY <1>1, <2>2, StatusKept DEF Statuses
    <3>2. RunOK(e, "idle", x)
      BY <1>1, <3>1, KeptOK DEF Asked
    <3> QED BY <1>1, <1>2, <2>1, <3>1, <3>2, EndStep DEF Kept
  <2>3. CASE e = ReadyForReview(d)
    <3>1. RunOK(e, "idle", x) /\ e.segs = d.segs
      BY <1>1, <2>3, ReviewOK DEF ReadyForReview, Docs
    <3> QED BY <1>1, <1>2, <2>1, <3>1, EndStep
  <2> QED BY <2>1, <2>2, <2>3
<1> QED BY <1>3, <1>4

LEMMA PaidType == ASSUME NEW d \in Docs PROVE IsFiniteSet(Paid(d)) /\ Cardinality(Paid(d)) \in Nat
<1>1. IsFiniteSet(1 .. Len(d.segs)) /\ Paid(d) \subseteq 1 .. Len(d.segs)
  BY FS_Interval DEF Docs, Paid
<1> QED BY <1>1, FS_Subset, FS_CardinalityType

LEMMA TargetsOK ==
    ASSUME NEW d, NEW x, Drivable(d, x)
    PROVE  Drivable(EnsureTargets(d), x) /\ EnsureTargets(d).segs = d.segs /\ In(EnsureTargets(d), "none") = {}
<1> DEFINE e == [d EXCEPT !.group = [g \in Groups |-> "pending"]]
<1>1. CASE In(d, "none") = {}
  BY <1>1 DEF EnsureTargets
<1>2. CASE In(d, "none") # {}
  <2>1. EnsureTargets(d) = e /\ e \in Docs
    BY <1>2, TargetsDoc DEF EnsureTargets, Drivable
  <2>2. /\ e.segs = d.segs /\ e.status = d.status /\ e.gates = d.gates /\ e.group = [g \in Groups |-> "pending"]
        /\ e.pauseRequested = d.pauseRequested /\ e.stopRequested = d.stopRequested
    BY DEF Drivable, Docs
  <2> HIDE DEF e
  <2>3. /\ SegOpen(e) = SegOpen(d) /\ Paid(e) = Paid(d)
        /\ \A s \in {"none", "done", "waiting", "halted"} : In(e, s) = {}
    BY <2>2 DEF SegOpen, Paid, In
  <2>4. Cardinality(In(e, "done")) <= Cardinality(Paid(e))
    BY <2>1, <2>3, PaidType, FS_EmptySet
  <2>5. OrderInv(e)
    BY <2>2 DEF OrderInv
  <2>6. StatusInv(e, x)
    BY <2>2, <2>3 DEF Drivable, RunOK, StatusInv, NoHalted
  <2> QED BY <2>1, <2>2, <2>3, <2>4, <2>5, <2>6 DEF Drivable, RunOK, AwaitInv, NoHalted
<1> QED BY <1>1, <1>2

LEMMA LaunchedMore ==
    ASSUME NEW d, NEW x, Drivable(d, x), NEW g \in Groups, NextGroup(d, g), In(d, "none") = {}
    PROVE  /\ RunOK(Launched(d, g), "idle", x) /\ SegOpen(Launched(d, g)) /\ Launched(d, g).status = "RUNNING"
           /\ Len(Launched(d, g).segs) = Len(d.segs) + 1
<1> DEFINE l == Launched(d, g)
           groups == [d.group EXCEPT ![g] = "running"]
<1>0. d \in Docs /\ d.segs \in Seq(SegStates) /\ d.group \in [Groups -> GroupStates] /\ Len(d.segs) \in Nat
  BY DEF Drivable, Docs
<1>1. l.group = groups /\ l.status = "RUNNING" /\ l.segs = Append(d.segs, "open") /\ l.gates = d.gates
  <2>1. l = [d EXCEPT !.group = groups, !.boundedRunId = d.groupBid[g], !.status = "RUNNING",
                      !.segs = Append(d.segs, "open")]
    BY <1>0 DEF Launched, Docs
  <2> HIDE DEF groups
  <2> QED BY <1>0, <2>1 DEF Docs
<1> HIDE DEF l
<1>2. Len(l.segs) = Len(d.segs) + 1 /\ SegOpen(l)
  BY <1>0, <1>1 DEF SegOpen, SegStates
<1>3. Paid(l) = Paid(d)
  <2>1. \A i \in 1 .. Len(d.segs) : l.segs[i] = d.segs[i]
    BY <1>0, <1>1
  <2>2. l.segs[Len(d.segs) + 1] = "open"
    BY <1>0, <1>1
  <2> QED BY <1>0, <1>2, <2>1, <2>2 DEF Paid
<1>4. \A h \in Groups : l.group[h] = IF h = g THEN "running" ELSE d.group[h]
  BY <1>0, <1>1
<1>5. d.group[g] \in {"running", "pending"}
  BY DEF NextGroup, IsFirst, In
<1>6. In(l, "done") = In(d, "done") /\ In(l, "halted") = In(d, "halted") /\ In(l, "waiting") = In(d, "waiting")
  BY <1>4, <1>5 DEF In
<1>7. OrderInv(l)
  <2>1. \A h \in Groups : l.group[h] # "none"
    BY <1>4 DEF In
  <2>2. ASSUME NEW h \in Groups, NEW k \in Groups, l.group[h] = "pending", h < k PROVE l.group[k] = "pending"
    <3>1. h # g /\ d.group[h] = "pending" /\ d.group[k] = "pending"
      BY <1>4, <2>2 DEF Drivable, RunOK, OrderInv
    <3>2. k # g
      <4>1. SUFFICES ASSUME k = g PROVE FALSE
        OBVIOUS
      <4>2. IsFirst(d, "pending", g)
        BY <3>1, <4>1 DEF NextGroup, IsFirst, In
      <4> QED BY <2>2, <3>1, <4>1, <4>2, ConstantsAssumption DEF IsFirst, In, Groups
    <3> QED BY <1>4, <3>1, <3>2
  <2> QED BY <2>1, <2>2 DEF OrderInv
<1>8. StatusInv(l, x)
  BY <1>1, <1>6 DEF Drivable, RunOK, StatusInv, NoHalted
<1>9. RunOK(l, "idle", x)
  BY <1>3, <1>6, <1>7, <1>8 DEF Drivable, RunOK, AwaitInv
<1> QED BY <1>1, <1>2, <1>9 DEF l

\* a step over a document that could be driven goes no further
LEMMA BreaksDrivable ==
    ASSUME MoreInv, IInv', NEW r \in Runs, NEW d, Drivable(d, Cut(r, "halt")), d.segs = run[r].segs, Breaks(r, d),
           UNCHANGED <<paused, live, file>>
    PROVE  MoreInv'
<1> DEFINE x == Cut(r, "halt")
<1>1. ~SegOpen(run[r]) /\ d \in Docs /\ RunOK(d, "idle", x) /\ NoHalted(d, x)
  BY DEF Drivable, SegOpen
<1> HIDE DEF x
<1>2. CASE Throws(r, d)
  <2>1. PICK e : e = SetStatus(d, "WAITING_FOR_HUMAN")
    OBVIOUS
  <2>2. Kept(d, e) /\ e.status = "WAITING_FOR_HUMAN"
    BY <1>1, <2>1, StatusKept DEF Statuses
  <2>3. RunOK(e, "idle", x)
    BY <1>1, <2>2, KeptOK DEF Asked
  <2>4. Save(r, e) /\ Goes(r, "idle") /\ Grows
    BY <1>2, <2>1, Unfaulted DEF Throws, Rests, Goes, MoreInv
  <2>5. x => Cut(r, "halt")'
    BY <2>4 DEF Grows, Cut, x
  <2> QED BY <1>1, <2>2, <2>3, <2>4, <2>5, EndStep DEF Kept
<1>3. CASE Dies(r, d, {})
  <2>1. Save(r, d) /\ Goes(r, "idle") /\ Grows /\ (x => Cut(r, "halt")')
    BY <1>3, NoGaps, DiesGrows DEF x
  <2> QED BY <1>1, <2>1, EndStep
<1> QED BY <1>2, <1>3 DEF Breaks

\* the child is started and recorded
LEMMA SpawnMore ==
    ASSUME MoreInv, IInv', NEW r \in Runs, NEW e, Drivable(e, Cut(r, "halt")), e.segs = run[r].segs,
           NEW g \in Groups, NextGroup(e, g), In(e, "none") = {}, Len(e.segs) < MaxSegments,
           Spawn(r, e, g, 0), Rests(r, Launched(e, g)), UNCHANGED <<paused, file, faults>>
    PROVE  MoreInv'
<1>0. Launched(e, g) \in Docs
  <2>1. e \in Docs /\ e.segs \in Seq(SegStates) /\ e.groupBid[g] \in Bid /\ "open" \in SegStates
    BY DEF Drivable, Docs, SegStates
  <2>2. Append(e.segs, "open") \in Seq(SegStates)
    BY <2>1
  <2> QED BY <2>1, <2>2 DEF Launched, Docs, Statuses, GroupStates
<1>1. PICK l \in Docs : l = Launched(e, g)
  BY <1>0
<1>2. RunOK(l, "idle", Cut(r, "halt")) /\ SegOpen(l) /\ l.status = "RUNNING" /\ Len(l.segs) = Len(e.segs) + 1
  BY <1>1, LaunchedMore
<1>3. PICK c : c = [seg |-> Len(e.segs) + 1, grp |-> g, bid |-> e.groupBid[g], lost |-> 0]
  OBVIOUS
<1>4. live' = [live EXCEPT ![r] = @ \cup {c}] /\ live \in [Runs -> SUBSET Children] /\ live' \in [Runs -> SUBSET Children]
  BY <1>3 DEF Spawn, MoreInv, IInv, TypeOK
<1>5. live'[r] = live[r] \cup {c} /\ c \in Children /\ \A q \in Runs \ {r} : live'[q] = live[q]
  BY <1>4
<1>6. c.lost = 0 /\ c.seg = Len(l.segs)
  BY <1>2, <1>3
<1>7. e \in Docs /\ ~SegOpen(run[r]) /\ run[r] \in Docs /\ Len(l.segs) = Len(run[r].segs) + 1
  BY <1>2, MoreFacts DEF Drivable, SegOpen
<1>8. Grows /\ Cut(r, "halt")' = Cut(r, "halt") /\ faults.lost \in Nat
  BY Unfaulted DEF MoreInv, Cut
<1>9. CountOK(l, live'[r], file'[r], faults'.lost)
  <2>1. CountOK(run[r], live[r], file[r], faults.lost) /\ live[r] \in SUBSET Children
    BY MoreFacts
  <2>2. CountOK(l, live[r] \cup {c}, file[r], faults.lost)
    BY <1>1, <1>2, <1>5, <1>6, <1>7, <1>8, <2>1, CountLaunch
  <2> QED BY <1>5, <2>2
<1>10. Save(r, l) /\ Goes(r, "idle")
  BY <1>1 DEF Rests, Goes
<1>11. faults'.lost = 0 => SupervisedOK(l, live'[r], paused'[r], Cut(r, "learn")')
  BY <1>2 DEF SupervisedOK
<1> QED BY <1>2, <1>5, <1>8, <1>9, <1>10, <1>11, RunStep

\* the child is started and the step ends before it is recorded
LEMMA LostMore ==
    ASSUME MoreInv, IInv', NEW r \in Runs, NEW e, Drivable(e, Cut(r, "halt")), e.segs = run[r].segs,
           NEW g \in Groups, SpawnUnrecorded(r, e, g), UNCHANGED <<paused, file>>
    PROVE  MoreInv'
<1> DEFINE x == Cut(r, "halt")
<1>1. e \in Docs /\ RunOK(e, "idle", x) /\ ~SegOpen(run[r]) /\ run[r] \in Docs
  BY MoreFacts DEF Drivable, SegOpen
<1>2. Fault("lost", MaxLost) /\ Spawn(r, e, g, faults.lost + 1)
  BY DEF SpawnUnrecorded
<1>3. TypeOK /\ faults.lost \in Nat
  BY Unfaulted DEF MoreInv, IInv
<1>4. Grows /\ faults'.lost = faults.lost + 1
  BY <1>2, <1>3, FaultType
<1>5. x => Cut(r, "halt")'
  BY <1>4 DEF Grows, Cut
<1> HIDE DEF x
<1>6. PICK d : Save(r, d) /\ Goes(r, "idle") /\ (d = e \/ d = SetStatus(e, "WAITING_FOR_HUMAN"))
  BY DEF SpawnUnrecorded, Rests, Goes
<1>7. RunOK(d, "idle", x) /\ d.segs = run[r].segs
  <2>1. CASE d = e
    BY <1>1, <2>1
  <2>2. CASE d = SetStatus(e, "WAITING_FOR_HUMAN")
    <3>1. Kept(e, d) /\ d.status = "WAITING_FOR_HUMAN"
      BY <1>1, <2>2, StatusKept DEF Statuses
    <3> QED BY <1>1, <3>1, KeptOK DEF Asked, Parked, Kept
  <2> QED BY <1>6, <2>1, <2>2
<1>8. RunOK(d, "idle", Cut(r, "halt")')
  BY <1>5, <1>7, RunLater
<1>9. PICK c : c = [seg |-> Len(e.segs) + 1, grp |-> g, bid |-> e.groupBid[g], lost |-> faults.lost + 1]
  OBVIOUS
<1>10. live' = [live EXCEPT ![r] = @ \cup {c}] /\ live \in [Runs -> SUBSET Children]
  BY <1>2, <1>9 DEF Spawn, MoreInv, IInv, TypeOK
<1>11. live'[r] = live[r] \cup {c} /\ \A q \in Runs \ {r} : live'[q] = live[q]
  BY <1>10
<1>12. c.lost # 0 /\ c.seg = Len(run[r].segs) + 1
  BY <1>3, <1>9
<1>13. CountOK(d, live'[r], file'[r], faults'.lost)
  <2>1. CountOK(run[r], live[r], file[r], faults.lost)
    BY MoreFacts
  <2>2. CountOK(d, live[r] \cup {c}, file[r], faults.lost + 1)
    BY <1>1, <1>3, <1>7, <1>12, <2>1, CountSpawn
  <2> QED BY <1>4, <1>11, <2>2
<1>14. faults'.lost # 0
  BY <1>3, <1>4
<1> QED BY <1>4, <1>6, <1>8, <1>11, <1>13, <1>14, RunStep

LEMMA DispatchMore ==
    ASSUME MoreInv, IInv', NEW r \in Runs, NEW d, Drivable(d, Cut(r, "halt")), d.segs = run[r].segs, Kept(run[r], d),
           Len(d.segs) < MaxSegments, Dispatch(r, d), UNCHANGED <<paused, file>>
    PROVE  MoreInv'
<1> DEFINE e == EnsureTargets(d)
<1>1. Drivable(e, Cut(r, "halt")) /\ e.segs = run[r].segs /\ In(e, "none") = {} /\ Len(e.segs) < MaxSegments
  BY TargetsOK
<1>2. \/ (\E b \in Blocked(d) : Rests(r, b)) /\ UNCHANGED <<live, faults>>
      \/ \E g \in Groups : NextGroup(e, g) /\
            \/ Spawn(r, e, g, 0) /\ Rests(r, Launched(e, g)) /\ UNCHANGED faults
            \/ SpawnUnrecorded(r, e, g)
      \/ Breaks(r, e) /\ UNCHANGED live
      \/ In(e, "pending") = {} /\ Finalize(r, e) /\ UNCHANGED <<live, faults>>
  BY Zenon DEF Dispatch, e
<1> HIDE DEF e
<1>3. CASE (\E b \in Blocked(d) : Rests(r, b)) /\ UNCHANGED <<live, faults>>
  <2>1. ~SegOpen(run[r]) /\ NoHalted(run[r], Cut(r, "halt")) /\ d \in Docs
    BY DEF Drivable, Kept, SegOpen, In, NoHalted
  <2> QED BY <1>3, <2>1, BlockedMore
<1>4. ASSUME NEW g \in Groups, NextGroup(e, g), Spawn(r, e, g, 0), Rests(r, Launched(e, g)), UNCHANGED faults
      PROVE  MoreInv'
  BY <1>1, <1>4, SpawnMore
<1>5. CASE Breaks(r, e) /\ UNCHANGED live
  BY <1>1, <1>5, BreaksDrivable
<1>6. ASSUME NEW g \in Groups, SpawnUnrecorded(r, e, g) PROVE MoreInv'
  BY <1>1, <1>6, LostMore
<1>7. CASE In(e, "pending") = {} /\ Finalize(r, e) /\ UNCHANGED <<live, faults>>
  BY <1>1, <1>7, FinalizeMore
<1> QED BY <1>2, <1>3, <1>4, <1>5, <1>6, <1>7, Zenon

LEMMA LaunchNextMore == ASSUME MoreInv, NEW r \in Runs, LaunchNext(r) PROVE MoreInv'
<1> DEFINE d == AutoResumed(run[r])
           x == Cut(r, "halt")
<1>1. /\ frame[r] = "idle" /\ ~SegOpen(run[r]) /\ UNCHANGED <<paused, file>>
      /\ run[r].status \in {"QUEUED", "RUNNING"} \/ CooledDown(run[r])
  BY DEF LaunchNext, CanLaunch, Stepped
<1>2. /\ IInv' /\ run[r] \in Docs /\ Kept(run[r], run[r])
      /\ DocOK(d, Cut(r, "assess")) /\ d \in Docs /\ d.segs = run[r].segs /\ d.noted = run[r].noted
  BY LaunchNextInv, MoreFacts, AutoResumedOK DEF DocOK, Kept
<1>3. Kept(run[r], d) /\ d.status \in {"QUEUED", "RUNNING"}
  BY <1>1, <1>2, AutoResumedKept
<1>4. NoHalted(run[r], x)
  BY <1>1, MoreFacts DEF Parked, CooledDown
<1>5. \/ Rests(r, OpenGate(d, "segment_budget")) /\ UNCHANGED <<live, faults>>
      \/ Rests(r, OpenGate(d, "knowledge_changed")) /\ UNCHANGED <<live, faults>>
      \/ (Throws(r, run[r]) \/ Breaks(r, d)) /\ UNCHANGED live
      \/ /\ CommanderEnabled /\ ~d.noted
         /\ Save(r, d) /\ Goto(r, "start") /\ UNCHANGED <<live, faults>>
      \/ /\ ~OutOfBudget(d) /\ Dispatch(r, d)
  BY Zenon DEF LaunchNext
<1> HIDE DEF d
<1>6. Drivable(d, Cut(r, "halt"))
  BY <1>1, <1>2, <1>3, <1>4, KeptDrivable DEF Asked
<1>7. CASE Rests(r, OpenGate(d, "segment_budget")) /\ UNCHANGED <<live, faults>>
  BY <1>1, <1>2, <1>3, <1>7, GateMore DEF GateKinds
<1>8. CASE Rests(r, OpenGate(d, "knowledge_changed")) /\ UNCHANGED <<live, faults>>
  BY <1>1, <1>2, <1>3, <1>8, GateMore DEF GateKinds
<1>9. CASE Throws(r, run[r]) /\ UNCHANGED live
  BY <1>1, <1>2, <1>9, ThrowsMore
<1>10. CASE Breaks(r, d) /\ UNCHANGED live
  BY <1>1, <1>2, <1>6, <1>10, BreaksDrivable
<1>11. CASE Save(r, d) /\ Goto(r, "start") /\ UNCHANGED <<live, faults>>
  <2>1. RunOK(d, "start", x) /\ Goes(r, "start")
    BY <1>6, <1>11 DEF Drivable, RunOK, AwaitInv, Goes
  <2>2. Grows /\ (x => Cut(r, "halt")')
    BY <1>11, Unfaulted DEF MoreInv, Cut
  <2> HIDE DEF x
  <2> QED BY <1>1, <1>2, <1>11, <2>1, <2>2, EndStep
<1>12. CASE ~OutOfBudget(d) /\ Dispatch(r, d)
  <2>1. Len(d.segs) < MaxSegments
    BY <1>2, <1>12, ConstantsAssumption DEF OutOfBudget, DocOK, Docs
  <2> QED BY <1>1, <1>2, <1>3, <1>6, <1>12, <2>1, DispatchMore
<1> QED BY <1>5, <1>7, <1>8, <1>9, <1>10, <1>11, <1>12

LEMMA StartReturnsMore == ASSUME MoreInv, NEW r \in Runs, StartReturns(r) PROVE MoreInv'
<1> DEFINE d == [run[r] EXCEPT !.noted = TRUE]
<1>1. /\ IInv' /\ run[r] \in Docs /\ run[r].segs = <<>> /\ UNCHANGED <<paused, file>>
      /\ ~SegOpen(run[r]) /\ NoHalted(run[r], Cut(r, "halt")) /\ run[r].status # "READY_FOR_REVIEW" /\ Asked(run[r])
  BY StartReturnsInv, DocFacts, MoreFacts DEF StartReturns
<1>2. /\ d \in Docs /\ d.status = run[r].status /\ d.segs = run[r].segs /\ d.gates = run[r].gates
      /\ d.pauseRequested = run[r].pauseRequested /\ d.stopRequested = run[r].stopRequested /\ d.group = run[r].group
  BY <1>1 DEF Docs
<1>3. \/ (\E b \in Blocked(run[r]) : Rests(r, b)) /\ UNCHANGED <<live, faults>>
      \/ Rests(r, OpenGate(d, "engine_waiting")) /\ UNCHANGED <<live, faults>>
      \/ (Throws(r, run[r]) \/ Breaks(r, d)) /\ UNCHANGED live
      \/ Dispatch(r, d)
  BY Zenon DEF StartReturns
<1> HIDE DEF d
<1>4. Kept(run[r], d) /\ Kept(run[r], run[r]) /\ Drivable(d, Cut(r, "halt"))
  BY <1>1, <1>2, KeptDrivable DEF Kept, Asked
<1>5. CASE (\E b \in Blocked(run[r]) : Rests(r, b)) /\ UNCHANGED <<live, faults>>
  BY <1>1, <1>4, <1>5, BlockedMore
<1>6. CASE Rests(r, OpenGate(d, "engine_waiting")) /\ UNCHANGED <<live, faults>>
  BY <1>1, <1>2, <1>4, <1>6, GateMore DEF GateKinds
<1>7. CASE Throws(r, run[r]) /\ UNCHANGED live
  BY <1>1, <1>4, <1>7, ThrowsMore
<1>8. CASE Breaks(r, d) /\ UNCHANGED live
  BY <1>1, <1>2, <1>4, <1>8, BreaksDrivable
<1>9. CASE Dispatch(r, d)
  <2>1. Len(d.segs) < MaxSegments
    BY <1>1, <1>2, ConstantsAssumption
  <2> QED BY <1>1, <1>2, <1>4, <1>9, <2>1, DispatchMore
<1> QED BY <1>3, <1>5, <1>6, <1>7, <1>8, <1>9

LEMMA AssessReturnsMore == ASSUME MoreInv, NEW r \in Runs, AssessReturns(r) PROVE MoreInv'
<1> DEFINE x == Cut(r, "halt")
<1>1. /\ IInv' /\ run[r] \in Docs /\ UNCHANGED <<paused, live, file>> /\ frame[r] # "idle"
      /\ ~SegOpen(run[r]) /\ NoHalted(run[r], x) /\ Kept(run[r], run[r])
      /\ RunOK(run[r], frame[r], x) /\ RunOK(run[r], "idle", x)
  BY AssessReturnsInv, MoreFacts DEF AssessReturns, Kept
<1>2. ASSUME NEW d \in {run[r]} \cup Blocked(run[r]) PROVE d \in Docs /\ Kept(run[r], d) /\ RunOK(d, "idle", x)
  <2>1. CASE d = run[r]
    BY <1>1, <2>1
  <2>2. CASE d \in Blocked(run[r])
    <3>1. d \in Docs /\ Kept(run[r], d) /\ d.status \in {"PAUSED_RUNTIME_EXHAUSTED", "WAITING_FOR_HUMAN"}
      BY <1>1, <2>2, BlockedDoc, BlockedKept
    <3> HIDE DEF x
    <3> QED BY <1>1, <3>1, KeptOK DEF Asked
  <2> QED BY <2>1, <2>2
<1>3. \/ /\ \E d \in {run[r]} \cup Blocked(run[r]) :
               Rests(r, IF frame[r] = "assess" THEN ReadyForReview(d) ELSE SetStatus(d, "WAITING_FOR_HUMAN"))
         /\ UNCHANGED faults
      \/ \E d \in {run[r]} \cup Blocked(run[r]) : Throws(r, d)
      \/ \E d \in Blocked(run[r]), gaps \in SUBSET Gaps : Dies(r, d, gaps)
  <2>1. {"assess"} \in SUBSET Gaps /\ {} \in SUBSET Gaps
    BY DEF Gaps
  <2> QED BY <2>1 DEF AssessReturns
<1>4. ASSUME NEW d \in {run[r]} \cup Blocked(run[r]), UNCHANGED faults,
             Rests(r, IF frame[r] = "assess" THEN ReadyForReview(d) ELSE SetStatus(d, "WAITING_FOR_HUMAN"))
      PROVE  MoreInv'
  <2>1. d \in Docs /\ Kept(run[r], d) /\ RunOK(d, "idle", x)
    BY <1>2
  <2>2. CASE frame[r] = "assess"
    <3>1. PICK e : e = ReadyForReview(d)
      OBVIOUS
    <3>2. Save(r, e) /\ Goes(r, "idle") /\ In(run[r], "pending") = {}
      BY <1>1, <1>4, <2>2, <3>1 DEF RunOK, AwaitInv, Rests, Goes
    <3>3. RunOK(e, "idle", x) /\ e.segs = run[r].segs
      <4>1. ~SegOpen(d) /\ NoHalted(d, x) /\ In(d, "pending") = {}
        BY <1>1, <2>1, <3>2 DEF Kept, SegOpen, In, NoHalted
      <4>2. e.segs = d.segs
        BY <2>1, <3>1 DEF ReadyForReview, Docs
      <4> HIDE DEF x
      <4> QED BY <2>1, <3>1, <4>1, <4>2, ReviewOK DEF Kept
    <3>4. Grows /\ (x => Cut(r, "halt")')
      BY <1>4, Unfaulted DEF MoreInv, Cut
    <3> HIDE DEF x
    <3> QED BY <1>1, <3>2, <3>3, <3>4, EndStep
  <2>3. CASE frame[r] # "assess"
    <3>1. PICK e : e = SetStatus(d, "WAITING_FOR_HUMAN")
      OBVIOUS
    <3>2. Rests(r, e) /\ Kept(run[r], e) /\ e.status = "WAITING_FOR_HUMAN"
      BY <1>4, <2>1, <2>3, <3>1, StatusKept, KeptTransitive DEF Statuses
    <3> QED BY <1>1, <1>4, <3>2, RestsMore
  <2> QED BY <2>2, <2>3
<1>5. ASSUME NEW d \in {run[r]} \cup Blocked(run[r]), Throws(r, d) PROVE MoreInv'
  BY <1>1, <1>2, <1>5, ThrowsMore
<1>6. ASSUME NEW d \in Blocked(run[r]), NEW gaps \in SUBSET Gaps, Dies(r, d, gaps) PROVE MoreInv'
  <2>1. Save(r, d) /\ Goes(r, "idle") /\ Grows /\ (x => Cut(r, "halt")')
    BY <1>6, DiesGrows
  <2>2. RunOK(d, "idle", x) /\ d.segs = run[r].segs
    BY <1>2 DEF Kept
  <2> HIDE DEF x
  <2> QED BY <1>1, <2>1, <2>2, EndStep
<1> QED BY <1>3, <1>4, <1>5, <1>6

-----------------------------------------------------------------------------
(* A segment is watched and closed *)

LEMMA LearnedKept ==
    ASSUME MoreInv, NEW r \in Runs, SegOpen(run[r])
    PROVE  /\ Learned(r) \in Docs /\ SegOpen(Learned(r)) /\ LastFile(r) \in Files
           /\ Kept(run[r], Learned(r)) /\ Learned(r).status = run[r].status
           /\ Learned(r).gates = run[r].gates
           /\ Learned(r).pauseRequested = run[r].pauseRequested
           /\ Learned(r).stopRequested = run[r].stopRequested
           /\ LearnsBid(r) => Learned(r).boundedRunId = LastFile(r).bid
<1>1. Learned(r) \in Docs /\ SegOpen(Learned(r)) /\ LastFile(r) \in Files /\ run[r] \in Docs
  BY LearnedOK, MoreFacts DEF DocOK
<1>2. CASE LearnsBid(r)
  <2>1. Learned(r) = Attributed(run[r], LastFile(r).bid) /\ LastFile(r).bid \in Bid
    BY <1>1, <1>2 DEF Learned, Files
  <2>2. Attributed(run[r], LastFile(r).bid).gates = run[r].gates
    BY <1>1 DEF Attributed, Docs
  <2> QED BY <1>1, <2>1, <2>2, AttributedKept
<1>3. CASE ~LearnsBid(r)
  BY <1>1, <1>3 DEF Learned, Kept
<1> QED BY <1>2, <1>3

LEMMA WatchedFacts ==
    ASSUME MoreInv, NEW r \in Runs, Watched(r)
    PROVE  /\ SegOpen(run[r]) /\ frame[r] = "idle" /\ NoHalted(run[r], Cut(r, "halt"))
           /\ run[r].status \in Active \cup {"PAUSED_RUNTIME_EXHAUSTED"}
BY MoreFacts DEF Watched, Stepped

\* the pause flag of the bounded run the document names is set when it is learned,
\* or (x) was to be set when the service died
LEMMA LearnedSupervised ==
    ASSUME MoreInv, NEW r \in Runs, SegOpen(run[r]), faults.lost = 0, faults.errors = 0, NEW x, Cut(r, "learn") => x,
           PausedOnLearning(r) \/ (UNCHANGED paused /\ (PausesLearned(r) => x))
    PROVE  SupervisedOK(Learned(r), live[r], paused'[r], x)
<1>1. SupervisedOK(run[r], live[r], paused[r], Cut(r, "learn")) /\ Asked(run[r]) /\ run[r] \in Docs /\ IInv
  BY MoreFacts
<1>2. /\ Learned(r).status = run[r].status /\ LastFile(r) \in Files
      /\ LearnsBid(r) => Learned(r).boundedRunId = LastFile(r).bid
  BY LearnedKept
<1>3. ASSUME PausedOnLearning(r)
      PROVE  \A b \in Groups : paused'[r][b] = IF PausesLearned(r) /\ b = LastFile(r).bid THEN "on" ELSE paused[r][b]
  <2>1. PICK bids : SetFlags(r, bids, "on") /\ bids = IF PausesLearned(r) THEN {LastFile(r).bid} ELSE {}
    BY <1>3 DEF PausedOnLearning
  <2>2. \A b \in Groups : paused'[r][b] = IF b \in bids THEN "on" ELSE paused[r][b]
    BY <1>1, <2>1, PausedType DEF Flags
  <2> QED BY <2>1, <2>2
<1>4. CASE LearnsBid(r)
  <2>1. LastFile(r).bid \in Groups
    BY <1>2, <1>4 DEF LearnsBid, Files, Bid, Groups
  <2>2. run[r].status \in {"PAUSING", "STOPPING"} => PausesLearned(r)
    BY <1>1, <1>4 DEF PausesLearned, Asked
  <2> QED BY <1>1, <1>2, <1>3, <1>4, <2>1, <2>2 DEF SupervisedOK
<1>5. CASE ~LearnsBid(r)
  <2>1. Learned(r) = run[r] /\ ~PausesLearned(r)
    BY <1>5 DEF Learned, PausesLearned
  <2>2. run[r].boundedRunId # 0 => run[r].boundedRunId \in Groups
    BY <1>1 DEF Docs, Bid, Groups
  <2> QED BY <1>1, <1>3, <2>1, <2>2 DEF SupervisedOK
<1> QED BY <1>4, <1>5

\* the pause flags of the other runs
LEMMA LearningOthers ==
    ASSUME MoreInv, NEW r \in Runs, PausedOnLearning(r)
    PROVE  \A q \in Runs \ {r} : paused'[q] = paused[q]
BY PausedType DEF PausedOnLearning, Flags, MoreInv

LEMMA WatchLiveMore == ASSUME MoreInv, NEW r \in Runs, WatchLive(r) PROVE MoreInv'
<1>1. PICK d : d = Learned(r)
  OBVIOUS
<1>2. /\ IInv' /\ Save(r, d) /\ PausedOnLearning(r) /\ UNCHANGED <<live, file, frame, faults>>
      /\ SegOpen(run[r]) /\ NoHalted(run[r], Cut(r, "halt")) /\ Asked(run[r])
      /\ run[r].status \in Active \cup {"PAUSED_RUNTIME_EXHAUSTED"}
  BY <1>1, WatchLiveInv, WatchedFacts, MoreFacts DEF WatchLive, MoreInv
<1>3. /\ Kept(run[r], d) /\ d.status = run[r].status /\ d.pauseRequested = run[r].pauseRequested
      /\ d.stopRequested = run[r].stopRequested
  BY <1>1, <1>2, LearnedKept
<1>4. Asked(d) /\ d.status # "READY_FOR_REVIEW"
  BY <1>2, <1>3 DEF Asked, Active
<1>5. \A q \in Runs \ {r} : paused'[q] = paused[q]
  BY <1>2, LearningOthers
<1>6. faults.lost = 0 /\ faults.errors = 0 => SupervisedOK(d, live'[r], paused'[r], Cut(r, "learn"))
  BY <1>1, <1>2, LearnedSupervised
<1> QED BY <1>2, <1>3, <1>4, <1>5, <1>6, RequestStep

LEMMA GroupsType == ASSUME NEW d, NEW s PROVE IsFiniteSet(In(d, s)) /\ Cardinality(In(d, s)) \in Nat
<1>1. IsFiniteSet(Groups) /\ In(d, s) \subseteq Groups
  BY FS_Interval, ConstantsAssumption DEF Groups, In
<1> QED BY <1>1, FS_Subset, FS_CardinalityType

\* a segment that completed is one more to pay for a group with
LEMMA ClosedPays ==
    ASSUME NEW d \in Docs, SegOpen(d), NEW f \in Files, NEW code \in SegStates \ {"open"}, NEW c, c = Closed(d, f, code)
    PROVE  /\ c.group = d.group /\ c.gates = d.gates
           /\ c.status = d.status /\ c.pauseRequested = d.pauseRequested /\ c.stopRequested = d.stopRequested
           /\ c.segs # <<>> /\ Len(c.segs) = Len(d.segs) /\ c.segs[Len(c.segs)] = code /\ ~SegOpen(c)
           /\ Cardinality(Paid(c)) = Cardinality(Paid(d)) + (IF code = "completed" THEN 1 ELSE 0)
<1>1. PICK n \in Nat : n = Len(d.segs)
  BY DEF Docs
<1>2. PICK e : e = [d EXCEPT !.segs[n] = code]
  OBVIOUS
<1>3. d.segs \in Seq(SegStates) /\ d.segs # <<>> /\ n \in 1 .. n /\ d.segs[n] = "open"
  BY <1>1 DEF Docs, SegOpen
<1>4. [d.segs EXCEPT ![n] = code] \in Seq(SegStates) /\ Len([d.segs EXCEPT ![n] = code]) = n
  BY <1>1, <1>3
<1>5. /\ e \in Docs /\ e.segs = [d.segs EXCEPT ![n] = code] /\ e.group = d.group /\ e.gates = d.gates
      /\ e.status = d.status /\ e.pauseRequested = d.pauseRequested /\ e.stopRequested = d.stopRequested
  BY <1>2, <1>4 DEF Docs
<1>6. PICK b \in Bid : b = BidOf(d, f)
  BY DEF BidOf, Docs, Files
<1>8. c = Attributed(e, b)
  BY <1>1, <1>2, <1>6 DEF Closed
<1>9. /\ c.segs = e.segs /\ c.group = e.group /\ c.gates = e.gates /\ c.status = e.status
      /\ c.pauseRequested = e.pauseRequested /\ c.stopRequested = e.stopRequested
  <2>1. Attributed(e, b).gates = e.gates
    BY <1>5 DEF Attributed, Docs
  <2> QED BY <1>5, <1>8, <2>1, AttributedKept DEF Kept
<1>10. c.segs # <<>> /\ Len(c.segs) = n /\ c.segs[n] = code /\ \A i \in 1 .. n : i # n => c.segs[i] = d.segs[i]
  BY <1>1, <1>3, <1>4, <1>5, <1>9
<1>11. Paid(c) = IF code = "completed" THEN Paid(d) \cup {n} ELSE Paid(d)
  BY <1>1, <1>3, <1>10 DEF Paid
<1>12. n \notin Paid(d) /\ IsFiniteSet(Paid(d)) /\ Cardinality(Paid(d)) \in Nat
  BY <1>3, PaidType DEF Paid
<1>13. Cardinality(Paid(c)) = Cardinality(Paid(d)) + (IF code = "completed" THEN 1 ELSE 0)
  <2>1. Cardinality(Paid(d) \cup {n}) = Cardinality(Paid(d)) + 1
    BY <1>12, FS_AddElement
  <2> QED BY <1>11, <1>12, <2>1
<1> QED BY <1>1, <1>5, <1>9, <1>10, <1>13 DEF SegOpen

\* the segment is closed, and the children that remain are strays or outlive their record
LEMMA ClosesMore ==
    ASSUME MoreInv, IInv', NEW r \in Runs, Watched(r), NEW code \in SegStates \ {"open"}, Closes(r, code),
           UNCHANGED faults, live'[r] \subseteq live[r],
           live'[r] \subseteq Strays(run[r], live[r]) \/ LastFile(r).exit # "absent",
           \A q \in Runs \ {r} : live'[q] = live[q] /\ file'[q] = file[q],
           \A i \in Index : i # Len(run[r].segs) => file'[r][i] = file[r][i]
    PROVE  MoreInv'
<1> DEFINE x == Cut(r, "halt")
<1>1. PICK d : d = Learned(r)
  OBVIOUS
<1>2. PICK c : c = Closed(d, LastFile(r), code)
  OBVIOUS
<1>3. /\ SegOpen(run[r]) /\ NoHalted(run[r], x) /\ Asked(run[r]) /\ run[r] \in Docs
      /\ run[r].status # "READY_FOR_REVIEW" /\ RunOK(run[r], "idle", x)
  BY WatchedFacts, MoreFacts DEF Active
<1>4. d \in Docs /\ SegOpen(d) /\ LastFile(r) \in Files /\ Kept(run[r], d) /\ d.status = run[r].status
      /\ d.pauseRequested = run[r].pauseRequested /\ d.stopRequested = run[r].stopRequested
  BY <1>1, <1>3, LearnedKept
<1>5. Asked(d)
  BY <1>3, <1>4 DEF Asked
<1>6. RunOK(d, "idle", x) /\ NoHalted(d, x)
  <2>1. NoHalted(d, x)
    BY <1>3, <1>4 DEF Kept, In, NoHalted
  <2> HIDE DEF x
  <2> QED BY <1>3, <1>4, <1>5, <2>1, KeptOK
<1>7. /\ c.group = d.group /\ c.gates = d.gates
      /\ c.status = d.status /\ c.pauseRequested = d.pauseRequested /\ c.stopRequested = d.stopRequested
      /\ c.segs # <<>> /\ Len(c.segs) = Len(d.segs) /\ c.segs[Len(c.segs)] = code /\ ~SegOpen(c)
      /\ Cardinality(Paid(c)) = Cardinality(Paid(d)) + (IF code = "completed" THEN 1 ELSE 0)
  BY <1>2, <1>4, ClosedPays
<1>8. (\A s : In(c, s) = In(d, s)) /\ NoHalted(c, x)
  BY <1>6, <1>7 DEF In, NoHalted
<1>9. Cardinality(Paid(d)) \in Nat /\ Cardinality(In(d, "done")) \in Nat /\ Cardinality(In(d, "done")) <= Cardinality(Paid(d))
  BY <1>4, <1>6, PaidType, GroupsType DEF RunOK
<1>10. Cardinality(In(c, "done")) <= Cardinality(Paid(c)) /\ (code = "completed" => Cardinality(In(c, "done")) < Cardinality(Paid(c)))
  BY <1>7, <1>8, <1>9
<1> HIDE DEF x
<1>11. OrderInv(c)
  BY <1>6, <1>7 DEF RunOK, OrderInv
<1>12. StatusInv(c, x)
  BY <1>3, <1>4, <1>6, <1>7, <1>8 DEF RunOK, StatusInv
<1>13. AwaitInv(c, "snapshot", x)
  BY <1>3, <1>4, <1>6, <1>7, <1>8, <1>10 DEF AwaitInv
<1>14. RunOK(c, "snapshot", x)
  BY <1>10, <1>11, <1>12, <1>13 DEF RunOK
<1>15. Save(r, c) /\ Goes(r, "snapshot") /\ \A q \in Runs \ {r} : paused'[q] = paused[q]
  BY <1>1, <1>2, LearningOthers DEF Closes, Goes
<1>16. c \in Docs /\ Len(c.segs) = Len(run[r].segs)
  BY <1>2, <1>4, <1>7, <1>15 DEF Kept, Save, IInv, TypeOK, MoreInv
<1>17. faults.lost \in Nat /\ Grows /\ (x => Cut(r, "halt")') /\ Cut(r, "halt")' = x
  BY Unfaulted DEF MoreInv, Cut, x
<1>18. CountOK(c, live'[r], file'[r], faults.lost)
  <2>1. Len(run[r].segs) \in Index
    BY <1>3, DocFacts, ConstantsAssumption DEF MoreInv, Docs, SegOpen, Index
  <2>2. CountOK(run[r], live[r], file[r], faults.lost) /\ live[r] \in SUBSET Children
    BY MoreFacts
  <2>3. live'[r] \subseteq Strays(run[r], live[r]) \/ file[r][Len(run[r].segs)].exit # "absent"
    BY DEF LastFile
  <2>4. /\ SegOpen(run[r]) /\ ~SegOpen(c) /\ run[r] \in Docs /\ c \in Docs /\ Len(c.segs) = Len(run[r].segs)
        /\ live'[r] \subseteq live[r] /\ faults.lost \in Nat
        /\ \A i \in Index : i # Len(run[r].segs) => file'[r][i] = file[r][i]
    BY <1>3, <1>7, <1>16, <1>17
  <2>5. PICK e, all, b, files, logs, n :
           /\ e = run[r] /\ all = live[r] /\ b = live'[r] /\ files = file[r] /\ logs = file'[r] /\ n = faults.lost
    OBVIOUS
  <2>6. /\ e \in Docs /\ SegOpen(e) /\ c \in Docs /\ ~SegOpen(c) /\ Len(c.segs) = Len(e.segs) /\ Len(e.segs) \in Index
        /\ all \in SUBSET Children /\ b \subseteq all /\ n \in Nat /\ CountOK(e, all, files, n)
        /\ b \subseteq Strays(e, all) \/ files[Len(e.segs)].exit # "absent"
        /\ \A i \in Index : i # Len(e.segs) => logs[i] = files[i]
    BY <2>1, <2>2, <2>3, <2>4, <2>5
  <2>7. CountOK(c, b, logs, n)
    BY <2>6, CountClose
  <2> QED BY <2>5, <2>7
<1>19. faults'.lost = 0 => live'[r] = {}
  <2>1. SUFFICES ASSUME faults.lost = 0 PROVE live'[r] = {}
    OBVIOUS
  <2>2. live'[r] \in SUBSET Children
    BY MoreFacts
  <2>3. CountOK(c, live'[r], file'[r], 0)
    BY <1>18, <2>1
  <2> QED BY <1>7, <1>16, <2>2, <2>3, CountNone DEF ChildrenOK, OnRecord
<1> QED BY <1>14, <1>15, <1>17, <1>18, <1>19, RunStep DEF SupervisedOK

\* the child on record is not among the strays
LEMMA StraysApart ==
    ASSUME NEW r \in Runs
    PROVE  /\ ~ChildAlive(r) => live[r] = Strays(run[r], live[r])
           /\ live[r] \ SegChild(r) \subseteq Strays(run[r], live[r])
BY DEF ChildAlive, SegChild, Strays, OnRecord

LEMMA WatchEndedMore == ASSUME MoreInv, NEW r \in Runs, WatchEnded(r) PROVE MoreInv'
<1>1. Watched(r) /\ SegOpen(run[r]) /\ LastFile(r) \in Files /\ IInv' /\ UNCHANGED <<live, file, faults>>
  BY WatchEndedInv, WatchedFacts, LearnedKept DEF WatchEnded, MoreInv
<1>2. PICK code \in SegStates \ {"open"} :
        /\ Closes(r, code)
        /\ LastFile(r).exit # "absent" \/ ~ChildAlive(r)
  <2>1. LastFile(r).exit \in Recorded \cup {"absent"}
    BY <1>1 DEF Files
  <2> QED BY <2>1 DEF WatchEnded, SegStates, Recorded
<1>3. live'[r] \subseteq live[r] /\ (live'[r] \subseteq Strays(run[r], live[r]) \/ LastFile(r).exit # "absent")
  BY <1>1, <1>2, StraysApart
<1> QED BY <1>1, <1>2, <1>3, ClosesMore

LEMMA WatchMissesRecordMore == ASSUME MoreInv, NEW r \in Runs, WatchMissesRecord(r) PROVE MoreInv'
<1>1. /\ Watched(r) /\ SegOpen(run[r]) /\ IInv' /\ Closes(r, "none") /\ UNCHANGED faults
      /\ live' = [live EXCEPT ![r] = @ \ SegChild(r)]
  BY WatchMissesRecordInv, WatchedFacts DEF WatchMissesRecord, MoreInv
<1>2. PICK code \in Recorded : file' = [file EXCEPT ![r][Len(run[r].segs)].exit = code]
  BY DEF WatchMissesRecord
<1>3. file \in [Runs -> [Index -> Files]] /\ live \in [Runs -> SUBSET Children]
  BY DEF MoreInv, IInv, TypeOK
<1>4. /\ \A q \in Runs \ {r} : live'[q] = live[q] /\ file'[q] = file[q]
      /\ \A i \in Index : i # Len(run[r].segs) => file'[r][i] = file[r][i]
  BY <1>1, <1>2, <1>3
<1>5. live'[r] \subseteq live[r] /\ live'[r] \subseteq Strays(run[r], live[r])
  BY <1>1, <1>3, StraysApart
<1>6. "none" \in SegStates \ {"open"}
  BY DEF SegStates
<1> QED BY <1>1, <1>4, <1>5, <1>6, ClosesMore

LEMMA WatchBreaksMore == ASSUME MoreInv, NEW r \in Runs, WatchBreaks(r) PROVE MoreInv'
<1> DEFINE d == Learned(r)
<1>1. /\ IInv' /\ UNCHANGED <<live, file>> /\ SegOpen(run[r]) /\ NoHalted(run[r], Cut(r, "halt")) /\ Asked(run[r])
      /\ run[r].status \in Active \cup {"PAUSED_RUNTIME_EXHAUSTED"} /\ run[r] \in Docs /\ Kept(run[r], run[r])
  BY WatchBreaksInv, WatchedFacts, MoreFacts DEF WatchBreaks, MoreInv, Kept
<1>2. /\ Kept(run[r], d) /\ d.status = run[r].status /\ d.pauseRequested = run[r].pauseRequested
      /\ d.stopRequested = run[r].stopRequested /\ d \in Docs
  BY <1>1, LearnedKept
<1>3. Asked(d) /\ d.status # "READY_FOR_REVIEW"
  BY <1>1, <1>2 DEF Asked, Active
<1>4. UNCHANGED paused \/ PausedOnLearning(r)
  BY DEF WatchBreaks
<1>5. \A q \in Runs \ {r} : paused'[q] = paused[q]
  BY <1>4, LearningOthers
<1>6. CASE Throws(r, run[r]) \/ Throws(r, d)
  BY <1>1, <1>2, <1>5, <1>6, ThrowsMore
<1>7. ASSUME NEW gaps \in SUBSET Gaps, Dies(r, d, gaps),
             PausedOnLearning(r) \/ (UNCHANGED paused /\ (PausesLearned(r) => "learn" \in gaps))
      PROVE  MoreInv'
  <2>1. /\ Save(r, d) /\ Goes(r, "idle") /\ Grows /\ (Cut(r, "halt") => Cut(r, "halt")')
        /\ (Cut(r, "learn") => Cut(r, "learn")') /\ ("learn" \in gaps => Cut(r, "learn")')
    BY <1>7, DiesGrows
  <2>2. NoHalted(run[r], Cut(r, "halt")')
    BY <1>1, <2>1 DEF NoHalted
  <2>3. faults'.lost = 0 /\ faults'.errors = 0 => faults.lost = 0 /\ faults.errors = 0
    BY <1>1, <2>1, Unfaulted DEF Grows, MoreInv
  <2>4. faults'.lost = 0 /\ faults'.errors = 0 => SupervisedOK(d, live'[r], paused'[r], Cut(r, "learn")')
    BY <1>1, <1>7, <2>1, <2>3, LearnedSupervised
  <2> HIDE DEF d
  <2> QED BY <1>1, <1>2, <1>3, <1>5, <2>1, <2>2, <2>4, CalmStep
<1>8. CASE Dies(r, d, IF PausesLearned(r) THEN {"learn"} ELSE {}) /\ UNCHANGED paused
  <2>1. (IF PausesLearned(r) THEN {"learn"} ELSE {}) \in SUBSET Gaps
    BY DEF Gaps
  <2>2. PICK gaps \in SUBSET Gaps : Dies(r, d, gaps) /\ (PausesLearned(r) => "learn" \in gaps)
    BY <1>8, <2>1
  <2> QED BY <1>7, <1>8, <2>2
<1>9. CASE Dies(r, d, {}) /\ PausedOnLearning(r)
  BY <1>7, <1>9, NoGaps
<1> QED BY <1>6, <1>8, <1>9 DEF WatchBreaks, Breaks

-----------------------------------------------------------------------------
(* A segment is settled *)

\* the first running group, and no other, changes its state
LEMMA MarkGroups ==
    ASSUME NEW d \in Docs, NEW t \in {"done", "waiting", "halted"}, NEW m, m = MarkFirst(d, "running", t), OrderInv(d)
    PROVE  /\ m \in Docs /\ m.segs = d.segs /\ m.gates = d.gates /\ m.status = d.status
           /\ m.pauseRequested = d.pauseRequested /\ m.stopRequested = d.stopRequested
           /\ OrderInv(m)
           /\ \A s \in GroupStates \ {"running", t} : In(m, s) = In(d, s)
           /\ In(m, t) = In(d, t) \/ \E g \in Groups : In(m, t) = In(d, t) \cup {g}
<1> DEFINE groups == [g \in Groups |-> IF IsFirst(d, "running", g) THEN t ELSE d.group[g]]
<1>1. m = [d EXCEPT !.group = groups]
  BY DEF MarkFirst
<1>2. groups \in [Groups -> GroupStates]
  BY DEF Docs, GroupStates
<1>3. \A g \in Groups : groups[g] = IF IsFirst(d, "running", g) THEN t ELSE d.group[g]
  OBVIOUS
<1> HIDE DEF groups
<1>4. /\ m \in Docs /\ m.segs = d.segs /\ m.gates = d.gates /\ m.status = d.status /\ m.group = groups
      /\ m.pauseRequested = d.pauseRequested /\ m.stopRequested = d.stopRequested
  BY <1>1, <1>2 DEF Docs
<1>5. \A g, h \in Groups : IsFirst(d, "running", g) /\ IsFirst(d, "running", h) => g = h
  BY ConstantsAssumption DEF IsFirst, In, Groups
<1>6. \A g \in Groups : IsFirst(d, "running", g) => d.group[g] = "running"
  BY DEF IsFirst, In
<1>7. \A s \in GroupStates \ {"running", t} : In(m, s) = In(d, s)
  BY <1>3, <1>4, <1>6 DEF In
<1>8. In(m, t) = In(d, t) \/ \E g \in Groups : In(m, t) = In(d, t) \cup {g}
  <2>1. CASE \E g \in Groups : IsFirst(d, "running", g)
    <3>1. PICK g \in Groups : IsFirst(d, "running", g)
      BY <2>1
    <3>2. In(m, t) = In(d, t) \cup {g}
      BY <1>3, <1>4, <1>5, <3>1 DEF In
    <3> QED BY <3>2
  <2>2. CASE ~ \E g \in Groups : IsFirst(d, "running", g)
    BY <1>3, <1>4, <2>2 DEF In
  <2> QED BY <2>1, <2>2
<1>9. OrderInv(m)
  <2>1. \A g \in Groups : (m.group[g] = "none" <=> d.group[g] = "none") /\ (m.group[g] = "pending" <=> d.group[g] = "pending")
    BY <1>3, <1>4, <1>6
  <2> QED BY <2>1 DEF OrderInv
<1> QED BY <1>4, <1>7, <1>8, <1>9

\* what the snapshot's await left in place
LEMMA FinishFacts ==
    ASSUME MoreInv, NEW r \in Runs, frame[r] = "snapshot"
    PROVE  /\ run[r] \in Docs /\ RunOK(run[r], "idle", Cut(r, "halt")) /\ ~SegOpen(run[r])
           /\ NoHalted(run[r], Cut(r, "halt"))
           /\ run[r].status # "READY_FOR_REVIEW" /\ Asked(run[r]) /\ Kept(run[r], run[r])
           /\ Ended(r) = "completed" => Cardinality(In(run[r], "done")) < Cardinality(Paid(run[r]))
<1>1. RunOK(run[r], "snapshot", Cut(r, "halt"))
  BY MoreFacts
<1> QED BY <1>1, MoreFacts DEF RunOK, AwaitInv, Ended, Kept

LEMMA SettledMore ==
    ASSUME MoreInv, IInv', NEW r \in Runs, frame[r] = "snapshot", FinishSettled(r), UNCHANGED <<paused, live, file>>
    PROVE  MoreInv'
<1> DEFINE d == run[r]
           x == Cut(r, "halt")
           m(t) == MarkFirst(d, "running", t)
           w == [m("waiting") EXCEPT !.gates = @ \cup {"engine_waiting"}]
<1>1. /\ d \in Docs /\ RunOK(d, "idle", x) /\ ~SegOpen(d) /\ NoHalted(d, x) /\ d.status # "READY_FOR_REVIEW"
      /\ Asked(d)
      /\ Ended(r) = "completed" => Cardinality(In(d, "done")) < Cardinality(Paid(d))
  BY FinishFacts
<1>2. PICK e : /\ e = IF Ended(r) = "completed" THEN m("done") ELSE w
               /\ \/ Rests(r, SetStatus(e, "QUEUED")) /\ UNCHANGED faults
                  \/ In(e, "pending") = {} /\ Finalize(r, e) /\ UNCHANGED faults
                  \/ Breaks(r, e)
  BY DEF FinishSettled, GroupSettled
<1> HIDE DEF m, w, x
<1>3. Drivable(e, x) /\ e.segs = d.segs
  <2>1. CASE Ended(r) = "completed"
    <3>1. e = MarkFirst(d, "running", "done")
      BY <1>2, <2>1 DEF m
    <3>2. /\ e \in Docs /\ e.segs = d.segs /\ e.gates = d.gates /\ e.status = d.status /\ OrderInv(e)
          /\ e.pauseRequested = d.pauseRequested /\ e.stopRequested = d.stopRequested
          /\ \A s \in GroupStates \ {"running", "done"} : In(e, s) = In(d, s)
          /\ In(e, "done") = In(d, "done") \/ \E g \in Groups : In(e, "done") = In(d, "done") \cup {g}
      BY <1>1, <3>1, MarkGroups DEF RunOK
    <3>3. SegOpen(e) = SegOpen(d) /\ Paid(e) = Paid(d)
      BY <3>2 DEF SegOpen, Paid
    <3>4. Cardinality(In(e, "done")) <= Cardinality(Paid(e))
      <4>1. /\ IsFiniteSet(In(d, "done")) /\ Cardinality(In(d, "done")) \in Nat
            /\ Cardinality(In(e, "done")) \in Nat /\ Cardinality(Paid(d)) \in Nat
        BY <1>1, GroupsType, PaidType
      <4>2. Cardinality(In(e, "done")) <= Cardinality(In(d, "done")) + 1
        <5>1. CASE In(e, "done") = In(d, "done")
          BY <4>1, <5>1
        <5>2. ASSUME NEW g \in Groups, In(e, "done") = In(d, "done") \cup {g}
              PROVE  Cardinality(In(e, "done")) <= Cardinality(In(d, "done")) + 1
          <6>1. \/ Cardinality(In(d, "done") \cup {g}) = Cardinality(In(d, "done"))
                \/ Cardinality(In(d, "done") \cup {g}) = Cardinality(In(d, "done")) + 1
            BY <4>1, FS_AddElement
          <6>2. Cardinality(In(e, "done")) = Cardinality(In(d, "done") \cup {g})
            BY <5>2, Zenon
          <6> QED BY <4>1, <6>1, <6>2
        <5> QED BY <3>2, <5>1, <5>2
      <4>3. Cardinality(Paid(e)) = Cardinality(Paid(d))
        BY <3>3, Zenon
      <4> QED BY <1>1, <2>1, <4>1, <4>2, <4>3
    <3>5. NoHalted(e, x)
      BY <1>1, <3>2 DEF NoHalted, GroupStates
    <3>6. StatusInv(e, x)
      BY <1>1, <3>2, <3>3, <3>5 DEF RunOK, StatusInv, GroupStates
    <3> QED BY <1>1, <3>2, <3>3, <3>4, <3>5, <3>6 DEF Drivable, RunOK, AwaitInv, GroupStates
  <2>2. CASE Ended(r) # "completed"
    <3>1. PICK n : n = MarkFirst(d, "running", "waiting")
      OBVIOUS
    <3>2. /\ n \in Docs /\ n.segs = d.segs /\ n.gates = d.gates /\ n.status = d.status /\ OrderInv(n)
          /\ n.pauseRequested = d.pauseRequested /\ n.stopRequested = d.stopRequested
          /\ \A s \in GroupStates \ {"running", "waiting"} : In(n, s) = In(d, s)
      BY <1>1, <3>1, MarkGroups DEF RunOK
    <3>3. e = [n EXCEPT !.gates = @ \cup {"engine_waiting"}]
      BY <1>2, <2>2, <3>1 DEF m, w
    <3>4. /\ e \in Docs /\ e.segs = n.segs /\ e.gates = n.gates \cup {"engine_waiting"} /\ e.status = n.status
          /\ e.group = n.group /\ e.pauseRequested = n.pauseRequested /\ e.stopRequested = n.stopRequested
      BY <3>2, <3>3 DEF Docs, GateKinds
    <3>5. SegOpen(e) = SegOpen(d) /\ Paid(e) = Paid(d) /\ \A s : In(e, s) = In(n, s)
      BY <3>2, <3>4 DEF SegOpen, Paid, In
    <3>6. OrderInv(e)
      BY <3>2, <3>4 DEF OrderInv
    <3>7. NoHalted(e, x)
      BY <1>1, <3>2, <3>5 DEF NoHalted, GroupStates
    <3>8. StatusInv(e, x)
      BY <1>1, <3>2, <3>4, <3>5, <3>7 DEF RunOK, StatusInv, GroupStates
    <3>9. Cardinality(In(e, "done")) <= Cardinality(Paid(e))
      BY <1>1, <3>2, <3>5 DEF RunOK, GroupStates
    <3> QED BY <1>1, <3>2, <3>4, <3>5, <3>6, <3>7, <3>8, <3>9 DEF Drivable, RunOK, AwaitInv
  <2> QED BY <2>1, <2>2
<1>4. CASE Rests(r, SetStatus(e, "QUEUED")) /\ UNCHANGED faults
  <2>1. PICK q : q = SetStatus(e, "QUEUED")
    OBVIOUS
  <2>2. Kept(e, q) /\ q.status = "QUEUED"
    BY <1>3, <2>1, StatusKept DEF Drivable, Statuses
  <2>3. RunOK(q, "idle", x) /\ q.segs = d.segs
    BY <1>3, <2>2, KeptOK DEF Drivable, Asked, Kept
  <2>4. Save(r, q) /\ Goes(r, "idle") /\ Grows /\ (x => Cut(r, "halt")')
    BY <1>4, <2>1, Unfaulted DEF Rests, Goes, MoreInv, Cut, x
  <2> QED BY <1>1, <2>3, <2>4, EndStep
<1>5. CASE In(e, "pending") = {} /\ Finalize(r, e) /\ UNCHANGED faults
  BY <1>3, <1>5, FinalizeMore DEF x
<1>6. CASE Breaks(r, e)
  BY <1>3, <1>6, BreaksDrivable DEF x
<1> QED BY <1>2, <1>4, <1>5, <1>6

LEMMA HaltedMore ==
    ASSUME MoreInv, IInv', NEW r \in Runs, frame[r] = "snapshot", FinishHalted(r), UNCHANGED <<paused, live, file>>
    PROVE  MoreInv'
<1> DEFINE d == run[r]
<1>1. d \in Docs /\ RunOK(d, "idle", Cut(r, "halt")) /\ ~SegOpen(d) /\ d.status # "READY_FOR_REVIEW" /\ Asked(d)
  BY FinishFacts
<1>2. PICK m : m = MarkFirst(d, "running", "halted")
  OBVIOUS
<1>3. \/ /\ \E e \in {OpenGate(m, "engine_halted"), OpenGate(m, "engine_refused"), SetStatus(m, "FAILED")} : Rests(r, e)
         /\ UNCHANGED faults
      \/ Throws(r, m)
      \/ Dies(r, m, {"halt"})
  BY <1>2 DEF FinishHalted, GroupHalted
<1>4. /\ m \in Docs /\ m.segs = d.segs /\ m.gates = d.gates /\ m.status = d.status /\ OrderInv(m)
      /\ m.pauseRequested = d.pauseRequested /\ m.stopRequested = d.stopRequested
      /\ \A s \in GroupStates \ {"running", "halted"} : In(m, s) = In(d, s)
  BY <1>1, <1>2, MarkGroups DEF RunOK
<1>5. ASSUME NEW e, NEW x, Kept(m, e), e.status \in {"WAITING_FOR_HUMAN", "FAILED"} \/ (x /\ e = m)
      PROVE  RunOK(e, "idle", x) /\ e.segs = d.segs
  <2>1. SegOpen(e) = SegOpen(d) /\ Paid(e) = Paid(d) /\ \A s : In(e, s) = In(m, s)
    BY <1>4, <1>5 DEF Kept, SegOpen, Paid, In
  <2>2. OrderInv(e)
    BY <1>4, <1>5 DEF Kept, OrderInv
  <2>3. StatusInv(e, x)
    BY <1>1, <1>4, <1>5, <2>1 DEF RunOK, StatusInv, Kept, GroupStates, Parked, NoHalted, Asked
  <2>4. Cardinality(In(e, "done")) <= Cardinality(Paid(e))
    BY <1>1, <1>4, <2>1 DEF RunOK, GroupStates
  <2> QED BY <1>4, <1>5, <2>2, <2>3, <2>4 DEF RunOK, AwaitInv, Kept
<1>6. ASSUME NEW e \in {OpenGate(m, "engine_halted"), OpenGate(m, "engine_refused"), SetStatus(m, "FAILED")},
             Rests(r, e), UNCHANGED faults
      PROVE  MoreInv'
  <2>1. Kept(m, e) /\ e.status \in {"WAITING_FOR_HUMAN", "FAILED"}
    BY <1>4, GateKept, StatusKept DEF GateKinds, Statuses
  <2>2. RunOK(e, "idle", FALSE) /\ e.segs = d.segs
    BY <1>5, <2>1
  <2>3. Save(r, e) /\ Goes(r, "idle") /\ Grows
    BY <1>6, Unfaulted DEF Rests, Goes, MoreInv
  <2> QED BY <1>1, <2>2, <2>3, EndStep
<1>7. CASE Throws(r, m)
  <2>1. PICK e : e = SetStatus(m, "WAITING_FOR_HUMAN")
    OBVIOUS
  <2>2. Kept(m, e) /\ e.status = "WAITING_FOR_HUMAN"
    BY <1>4, <2>1, StatusKept DEF Statuses
  <2>3. RunOK(e, "idle", FALSE) /\ e.segs = d.segs
    BY <1>5, <2>2
  <2>4. Save(r, e) /\ Goes(r, "idle") /\ Grows
    BY <1>7, <2>1, Unfaulted DEF Throws, Rests, Goes, MoreInv
  <2> QED BY <1>1, <2>3, <2>4, EndStep
<1>8. CASE Dies(r, m, {"halt"})
  <2>1. {"halt"} \in SUBSET Gaps
    BY DEF Gaps
  <2>2. Save(r, m) /\ Goes(r, "idle") /\ Grows /\ Cut(r, "halt")'
    BY <1>8, <2>1, DiesGrows
  <2>3. RunOK(m, "idle", TRUE) /\ m.segs = d.segs
    BY <1>5 DEF Kept
  <2> QED BY <1>1, <2>2, <2>3, EndStep
<1> QED BY <1>3, <1>6, <1>7, <1>8

LEMMA FinishMore == ASSUME MoreInv, NEW r \in Runs, Finish(r) PROVE MoreInv'
<1> DEFINE d == run[r]
<1>1. /\ IInv' /\ frame[r] = "snapshot" /\ UNCHANGED <<paused, live, file>>
      /\ d \in Docs /\ ~SegOpen(d) /\ NoHalted(d, Cut(r, "halt")) /\ Kept(d, d)
  BY FinishInv, FinishFacts DEF Finish, MoreInv
<1>2. ASSUME FinishRequested(r) PROVE MoreInv'
  <2>1. PICK e \in {[d EXCEPT !.status = "STOPPED", !.stopRequested = FALSE],
                    [d EXCEPT !.status = "PAUSED", !.pauseRequested = FALSE]} : Rests(r, e) /\ UNCHANGED faults
    BY <1>2 DEF FinishRequested
  <2>2. Kept(d, e) /\ e.status \in {"STOPPED", "PAUSED"}
    BY <1>1, <2>1 DEF Kept, Docs
  <2> QED BY <1>1, <2>1, <2>2, RestsMore
<1>3. ASSUME NEW q \in {"QUEUED"}, Rests(r, SetStatus(d, q)), UNCHANGED faults PROVE MoreInv'
  <2>1. PICK e : e = SetStatus(d, q)
    OBVIOUS
  <2>2. Kept(d, e) /\ e.status = "QUEUED"
    BY <1>1, <2>1, StatusKept DEF Statuses
  <2> QED BY <1>1, <1>3, <2>1, <2>2, RestsMore
<1>4. ASSUME FinishUnavailable(r) PROVE MoreInv'
  <2>1. PICK e \in Blocked(d) \cup {SetStatus(d, "QUEUED")} : Rests(r, e) /\ UNCHANGED faults
    BY <1>4 DEF FinishUnavailable
  <2> QED BY <1>1, <1>3, <2>1, BlockedMore
<1>5. ASSUME FinishInterrupted(r) PROVE MoreInv'
  <2>1. (Rests(r, OpenGate(d, "interrupted")) \/ Rests(r, SetStatus(d, "QUEUED"))) /\ UNCHANGED faults
    BY <1>5 DEF FinishInterrupted
  <2> QED BY <1>1, <1>3, <2>1, GateMore DEF GateKinds
<1>6. CASE Throws(r, d)
  BY <1>1, <1>6, ThrowsMore
<1> QED BY <1>1, <1>2, <1>4, <1>5, <1>6, SettledMore, HaltedMore DEF Finish

-----------------------------------------------------------------------------
(* Children and the world *)

\* the document of a run is left as it is
LEMMA WorldStep ==
    ASSUME MoreInv, IInv', Grows, NEW r \in Runs, UNCHANGED run, NEW f \in {"idle", frame[r]}, Goes(r, f),
           CountOK(run[r], live'[r], file'[r], faults'.lost), live'[r] \subseteq live[r],
           \A b \in Groups : paused[r][b] # "off" => paused'[r][b] # "off",
           \A q \in Runs \ {r} : live'[q] = live[q] /\ file'[q] = file[q] /\ paused'[q] = paused[q]
    PROVE  MoreInv'
<1> DEFINE d == run[r]
<1>1. Save(r, d)
  BY DEF Save, MoreInv, IInv, TypeOK
<1>2. (Cut(r, "halt") => Cut(r, "halt")') /\ (Cut(r, "learn") => Cut(r, "learn")')
  BY DEF Grows, Cut
<1>3. RunOK(d, f, Cut(r, "halt")')
  BY <1>2, MoreFacts, RunLater
<1>4. faults'.lost = 0 /\ faults'.errors = 0 => SupervisedOK(d, live'[r], paused'[r], Cut(r, "learn")')
  <2>1. faults'.lost = 0 /\ faults'.errors = 0 => SupervisedOK(d, live[r], paused[r], Cut(r, "learn"))
    BY MoreFacts, Unfaulted DEF Grows, MoreInv
  <2>2. d.boundedRunId # 0 => d.boundedRunId \in Groups
    BY MoreFacts DEF Docs, Bid, Groups
  <2> QED BY <1>2, <2>1, <2>2 DEF SupervisedOK
<1> QED BY <1>1, <1>3, <1>4, RunStep

LEMMA ChildMore ==
    ASSUME MoreInv, NEW r \in Runs, NEW c \in live[r],
           ChildAnnounces(r, c) \/ ChildExits(r, c) \/ ChildDies(r, c) \/ ChildSavesOver(r, c)
    PROVE  MoreInv'
<1>1. IInv' /\ UNCHANGED <<run, frame, faults>>
  BY ChildInv DEF MoreInv, ChildAnnounces, ChildExits, ChildDies, ChildSavesOver
<1>2. /\ c \in Children /\ c.seg \in Index
      /\ live \in [Runs -> SUBSET Children] /\ file \in [Runs -> [Index -> Files]]
  BY DEF MoreInv, IInv, TypeOK, Children
<1>3. /\ \A q \in Runs \ {r} : live'[q] = live[q] /\ file'[q] = file[q]
      /\ \A i \in Index : i # c.seg => file'[r][i] = file[r][i]
      /\ \/ live'[r] = live[r] /\ file'[r][c.seg].exit = file[r][c.seg].exit
         \/ live'[r] = live[r] \ {c}
  <2>1. CASE ChildAnnounces(r, c)
    <3>1. PICK b : file' = [file EXCEPT ![r] = [file[r] EXCEPT ![c.seg] = [file[r][c.seg] EXCEPT !.bid = b]]]
      BY <2>1 DEF ChildAnnounces
    <3>2. file[r][c.seg] \in Files
      BY <1>2
    <3>3. PICK x : x = [file[r][c.seg] EXCEPT !.bid = b]
      OBVIOUS
    <3>4. x.exit = file[r][c.seg].exit
      BY <3>2, <3>3 DEF Files
    <3> QED BY <1>2, <2>1, <3>1, <3>3, <3>4 DEF ChildAnnounces
  <2>2. CASE ChildExits(r, c)
    <3>1. PICK code \in Recorded, u \in BOOLEAN :
             file' = [file EXCEPT ![r][c.seg].exit = code, ![r][c.seg].unavailable = @ \/ u]
      BY <2>2 DEF ChildExits
    <3> QED BY <1>2, <2>2, <3>1 DEF ChildExits
  <2>3. CASE ChildDies(r, c)
    <3>1. PICK u \in BOOLEAN : file' = [file EXCEPT ![r][c.seg].unavailable = @ \/ u]
      BY <2>3 DEF ChildDies
    <3> QED BY <1>2, <2>3, <3>1 DEF ChildDies
  <2>4. CASE ChildSavesOver(r, c)
    BY <2>4 DEF ChildSavesOver
  <2> QED BY <2>1, <2>2, <2>3, <2>4
<1>4. /\ \A q \in Runs \ {r} : paused'[q] = paused[q]
      /\ \A b \in Groups : paused[r][b] # "off" => paused'[r][b] # "off"
  <2>1. CASE UNCHANGED paused
    BY <2>1
  <2>2. CASE ChildSavesOver(r, c)
    <3>1. PICK b : SetFlags(r, {b}, "erased")
      BY <2>2 DEF ChildSavesOver
    <3> QED BY <3>1, PausedType DEF Flags, MoreInv
  <2> QED BY <2>1, <2>2 DEF ChildAnnounces, ChildExits, ChildDies
<1>5. Grows /\ Goes(r, frame[r]) /\ faults.lost \in Nat
  BY <1>1, Unfaulted DEF MoreInv, Goes, Goto, IInv, TypeOK
<1>6. CountOK(run[r], live'[r], file'[r], faults.lost)
  <2>1. CountOK(run[r], live[r], file[r], faults.lost) /\ run[r] \in Docs /\ live[r] \in SUBSET Children
    BY MoreFacts
  <2>2. CASE live'[r] = live[r] /\ file'[r][c.seg].exit = file[r][c.seg].exit
    <3>1. \A i \in Index : file'[r][i].exit = file[r][i].exit
      BY <1>3, <2>2
    <3> QED BY <1>5, <2>1, <2>2, <3>1, CountLess
  <2>3. CASE live'[r] = live[r] \ {c}
    <3>1. PICK children, files, logs, n : children = live[r] /\ files = file[r] /\ logs = file'[r] /\ n = faults.lost
      OBVIOUS
    <3>2. CountOK(run[r], children \ {c}, logs, n)
      BY <1>3, <1>5, <2>1, <3>1, CountExit
    <3> QED BY <2>3, <3>1, <3>2
  <2> QED BY <1>3, <2>2, <2>3
<1>7. live'[r] \subseteq live[r]
  BY <1>3
<1> QED BY <1>1, <1>3, <1>4, <1>5, <1>6, <1>7, WorldStep

\* nothing changes but the frames and the faults
LEMMA QuietMore ==
    ASSUME MoreInv, IInv', Grows, UNCHANGED <<run, paused, live, file>>, UNCHANGED frame \/ Restarts
    PROVE  MoreInv'
<1>1. 1 \in Runs
  BY ConstantsAssumption DEF Runs
<1>2. PICK f \in {"idle", frame[1]} : Goes(1, f)
  BY <1>1 DEF Goes, Goto, MoreInv, IInv, TypeOK
<1>3. CountOK(run[1], live'[1], file'[1], faults'.lost)
  BY <1>1, KeptCount
<1> QED BY <1>1, <1>2, <1>3, WorldStep

LEMMA CrashMore == ASSUME MoreInv, Crash PROVE MoreInv'
<1>1. IInv' /\ UNCHANGED <<run, paused, live, file>> /\ Restarts /\ Fault("crashes", MaxCrashes)
  BY CrashInv DEF MoreInv, Crash
<1>2. 1 \in Runs /\ TypeOK
  BY ConstantsAssumption DEF Runs, MoreInv, IInv
<1>3. Grows
  BY <1>1, <1>2, NoGaps, FaultType
<1> QED BY <1>1, <1>3, QuietMore

-----------------------------------------------------------------------------
(* The second invariant *)

LEMMA InitMore == Init => MoreInv
<1> SUFFICES ASSUME Init PROVE MoreInv
  OBVIOUS
<1>1. IInv
  BY InitInv
<1>2. /\ NewDoc.segs = <<>> /\ NewDoc.group = [g \in Groups |-> "none"] /\ NewDoc.status = "ABSENT"
  BY DEF NewDoc
<1>3. /\ ~SegOpen(NewDoc) /\ Paid(NewDoc) = {}
      /\ \A s \in {"pending", "done", "waiting", "halted"} : In(NewDoc, s) = {}
  BY <1>2 DEF SegOpen, Paid, In
<1>4. OrderInv(NewDoc)
  BY <1>2 DEF OrderInv
<1>5. RunOK(NewDoc, "idle", FALSE)
  <2>1. Cardinality(Paid(NewDoc)) = 0 /\ Cardinality(In(NewDoc, "done")) = 0
    BY <1>3, FS_EmptySet, Zenon
  <2> QED BY <1>2, <1>3, <1>4, <2>1 DEF RunOK, StatusInv, AwaitInv, NoHalted
<1>6. ASSUME NEW files, \A i \in Index : files[i].exit = "absent" PROVE CountOK(NewDoc, {}, files, 0)
  <2>1. IsFiniteSet({}) /\ Cardinality({}) = 0
    BY FS_EmptySet
  <2>2. Strays(NewDoc, {}) = {}
    BY DEF Strays
  <2>3. ~Stale(NewDoc, {}, files)
    BY <1>6 DEF Stale
  <2>4. Cardinality(Strays(NewDoc, {})) = 0
    BY <2>1, <2>2, Zenon
  <2> QED BY <1>6, <2>1, <2>3, <2>4 DEF CountOK
<1>7. \A r \in Runs : run[r] = NewDoc /\ frame[r] = "idle" /\ live[r] = {} /\ \A i \in Index : file[r][i].exit = "absent"
  BY DEF Init, NoFile
<1>8. faults.lost = 0
  BY DEF Init
<1>9. \A r \in Runs : RunOK(run[r], frame[r], Cut(r, "halt"))
  BY <1>5, <1>7, RunLater
<1>10. \A r \in Runs : CountOK(run[r], live[r], file[r], faults.lost)
  BY <1>6, <1>7, <1>8
<1> QED BY <1>1, <1>7, <1>9, <1>10 DEF MoreInv, GroupInv, CountInv, SupervisedInv, SupervisedOK

LEMMA NextMore == MoreInv /\ [Next]_vars => MoreInv'
<1> SUFFICES ASSUME MoreInv, [Next]_vars PROVE MoreInv'
  OBVIOUS
<1>1. CASE UNCHANGED vars
  <2>1. IInv'
    BY <1>1, NextInv DEF MoreInv
  <2>2. Grows
    BY <1>1, Unfaulted DEF MoreInv, vars
  <2> QED BY <1>1, <2>1, <2>2, QuietMore DEF vars
<1>2. CASE Crash
  BY <1>2, CrashMore
<1>3. ASSUME NEW r \in Runs, Person(r) PROVE MoreInv'
  BY <1>3, CreateMore, PauseMore, ResumeMore, StopMore, ApproveMore, SendBackMore, RequestFailsMore DEF Person
<1>4. ASSUME NEW r \in Runs, Core(r) PROVE MoreInv'
  BY <1>4, LaunchNextMore, StartReturnsMore, AssessReturnsMore, WatchLiveMore, WatchEndedMore,
     WatchMissesRecordMore, WatchBreaksMore, FinishMore, StepRequestedMore DEF Core
<1>5. ASSUME NEW r \in Runs, Child(r) PROVE MoreInv'
  BY <1>5, ChildMore DEF Child
<1>6. ASSUME NEW r \in Runs, CooldownLapses(r) PROVE MoreInv'
  BY <1>6, CooldownLapsesMore
<1> QED BY <1>1, <1>2, <1>3, <1>4, <1>5, <1>6 DEF Next

LEMMA MoreInductive == Spec => []MoreInv
BY InitMore, NextMore, PTL DEF Spec

\* A run has at most one child on record, and beside it at most one for every
\* step that failed between the spawn and the record: no launch, stop, exception,
\* restart, or exit record the wrong child wrote, leaves another behind.
THEOREM RecordedChildHolds == Spec => []RecordedChild
<1>1. ASSUME MoreInv, NEW r \in Runs
      PROVE  Cardinality(live[r] \ Orphans(r)) <= 1 /\ Cardinality(Orphans(r)) <= faults.lost
  <2>1. CountOK(run[r], live[r], file[r], faults.lost) /\ faults.lost \in Nat
    BY <1>1, MoreFacts, Unfaulted
  <2>2. Orphans(r) = Strays(run[r], live[r])
    BY DEF Orphans, Strays, SegChild, OnRecord
  <2>3. Cardinality(Orphans(r)) <= faults.lost
    <3>1. Cardinality(Strays(run[r], live[r])) \in Nat
      BY <2>1, StraysType DEF CountOK
    <3>2. Cardinality(Strays(run[r], live[r])) <= faults.lost
      BY <2>1, <3>1 DEF CountOK
    <3> QED BY <2>2, <3>2, Zenon
  <2>4. \A c, e \in live[r] \ Orphans(r) : c = e
    BY <2>1, <2>2 DEF Strays, OnRecord, CountOK
  <2>5. live[r] \ Orphans(r) = {} \/ \E c : live[r] \ Orphans(r) = {c}
    BY <2>4
  <2>6. Cardinality({}) = 0 /\ \A c : Cardinality({c}) = 1
    BY FS_EmptySet, FS_Singleton
  <2>7. Cardinality(live[r] \ Orphans(r)) \in {0, 1}
    BY <2>5, <2>6, Zenon
  <2> QED BY <2>3, <2>7
<1>2. MoreInv => RecordedChild
  BY <1>1 DEF RecordedChild
<1> QED BY <1>2, MoreInductive, PTL

\* Without exceptions and unrecorded children, a child only lives while its run
\* says RUNNING, PAUSING or STOPPING, for any interleaving of requests and awaits.
THEOREM ChildSupervisedHolds == Spec => []ChildSupervised
<1>1. MoreInv => ChildSupervised
  BY DEF MoreInv, SupervisedInv, SupervisedOK, ChildSupervised
<1> QED BY <1>1, MoreInductive, PTL

\* A pause or stop of a run whose child still works reaches the tasks of the
\* bounded run, whether the Core knew that run when asked or learned it later
\* from the log (watchSegment), and stays there unless the engine itself saves an
\* older task over it; a death of the service between learning the run and
\* pausing its tasks is the exception.
THEOREM PauseReachesEngineHolds == Spec => []PauseReachesEngine
<1>1. MoreInv => PauseReachesEngine
  BY DEF MoreInv, SupervisedInv, SupervisedOK, PauseReachesEngine, Cut
<1> QED BY <1>1, MoreInductive, PTL

\* Target groups leave "pending" in the order of the plan (launchNext).
THEOREM GroupsInOrderHolds == Spec => []GroupsInOrder
<1>1. MoreInv => GroupsInOrder
  BY DEF MoreInv, GroupInv, RunOK, OrderInv, GroupsInOrder
<1> QED BY <1>1, MoreInductive, PTL

\* What a run says of its groups is backed, with the group and the run's status
\* in two writes and a fault between them: a review stands behind its gate with
\* nothing open or pending, and nothing halted unless the service died between
\* halting a group and saying so; a group that waits has its gate unresolved, and
\* no more groups are done than segments completed (finalize, finishSegment).
THEOREM GroupsBackedHolds == Spec => []GroupsBacked
<1>1. MoreInv => GroupsBacked
  BY DEF MoreInv, GroupInv, RunOK, StatusInv, Paid, Parked, NoHalted, GroupsBacked, Cut
<1> QED BY <1>1, MoreInductive, PTL
-----------------------------------------------------------------------------
(* What a step keeps of a document *)

\* what is never taken back: a closed segment, a group that is done, the bounded run of a group
Keeps(d, e) ==
    /\ Len(d.segs) <= Len(e.segs)
    /\ \A i \in 1 .. Len(d.segs) : d.segs[i] # "open" => e.segs[i] = d.segs[i]
    /\ \A g \in Groups : d.group[g] = "done" => e.group[g] = "done"
    /\ \A g \in Groups : d.groupBid[g] # 0 => e.groupBid[g] = d.groupBid[g]

\* a document that says the same of its segments and groups
Alike(d, e) == e \in Docs /\ e.segs = d.segs /\ e.group = d.group /\ e.groupBid = d.groupBid

LEMMA AlikeKeeps == ASSUME NEW d \in Docs, NEW e, Alike(d, e) PROVE Keeps(d, e)
<1>1. Len(d.segs) \in Nat
  BY DEF Docs
<1> QED BY <1>1 DEF Alike, Keeps

LEMMA KeepsTransitive ==
    ASSUME NEW d \in Docs, NEW e \in Docs, NEW f \in Docs, Keeps(d, e), Keeps(e, f)
    PROVE  Keeps(d, f)
<1>1. Len(d.segs) \in Nat /\ Len(e.segs) \in Nat /\ Len(f.segs) \in Nat
  BY DEF Docs
<1>2. ASSUME NEW i \in 1 .. Len(d.segs), d.segs[i] # "open" PROVE f.segs[i] = d.segs[i]
  <2>1. e.segs[i] = d.segs[i] /\ i \in 1 .. Len(e.segs)
    BY <1>1, <1>2 DEF Keeps
  <2> QED BY <1>2, <2>1 DEF Keeps
<1>3. Len(d.segs) <= Len(f.segs)
  BY <1>1 DEF Keeps
<1>4. \A g \in Groups : d.group[g] = "done" => f.group[g] = "done"
  BY DEF Keeps
<1>5. \A g \in Groups : d.groupBid[g] # 0 => f.groupBid[g] = d.groupBid[g]
  BY DEF Keeps
<1> QED BY <1>2, <1>3, <1>4, <1>5 DEF Keeps

LEMMA StatusAlike == ASSUME NEW d \in Docs, NEW s \in Statuses PROVE Alike(d, SetStatus(d, s)) /\ SetStatus(d, s).status = s
BY DEF Alike, SetStatus, Docs

LEMMA GateAlike ==
    ASSUME NEW d \in Docs, NEW k \in GateKinds
    PROVE  Alike(d, OpenGate(d, k)) /\ OpenGate(d, k).status = "WAITING_FOR_HUMAN"
<1>1. OpenGate(d, k) \in Docs
  BY GateDoc
<1> QED BY <1>1 DEF Alike, OpenGate, Docs

LEMMA BlockedAlike ==
    ASSUME NEW d \in Docs, NEW b \in Blocked(d)
    PROVE  Alike(d, b) /\ b.status \in {"PAUSED_RUNTIME_EXHAUSTED", "WAITING_FOR_HUMAN"}
<1>1. b \in Docs /\ b.status \in {"PAUSED_RUNTIME_EXHAUSTED", "WAITING_FOR_HUMAN"}
  BY BlockedDoc
<1>2. CASE b = OpenGate(d, "security_runtime")
  BY <1>1, <1>2, GateAlike DEF GateKinds
<1>3. ASSUME NEW at, b = PauseExhausted(d, at) PROVE Alike(d, b)
  BY <1>1, <1>3 DEF PauseExhausted, Docs, Alike
<1> QED BY <1>1, <1>2, <1>3 DEF Blocked

LEMMA ReviewAlike ==
    ASSUME NEW d \in Docs PROVE Alike(d, ReadyForReview(d)) /\ ReadyForReview(d).status = "READY_FOR_REVIEW"
BY DEF Alike, ReadyForReview, Docs, Statuses, GateKinds

LEMMA AutoResumedAlike ==
    ASSUME NEW d \in Docs PROVE Alike(d, AutoResumed(d))
<1> DEFINE a == [d EXCEPT !.status = "QUEUED", !.autoResumeAt = "none"]
<1>1. Alike(d, a)
  BY DEF Docs, Statuses, Alike
<1> QED BY <1>1 DEF AutoResumed, Alike

LEMMA AlikeTransitive == ASSUME NEW d, NEW e, NEW f, Alike(d, e), Alike(e, f) PROVE Alike(d, f)
BY DEF Alike

LEMMA AttributedKeeps ==
    ASSUME NEW d \in Docs, NEW b \in Bid
    PROVE  /\ Keeps(d, Attributed(d, b)) /\ Attributed(d, b) \in Docs
           /\ Attributed(d, b).segs = d.segs /\ Attributed(d, b).status = d.status
           /\ Attributed(d, b).boundedRunId = b
<1> DEFINE bids == [g \in Groups |-> IF IsFirst(d, "running", g) /\ d.groupBid[g] = 0 THEN b ELSE d.groupBid[g]]
           a == Attributed(d, b)
<1>1. a = [d EXCEPT !.boundedRunId = b, !.groupBid = bids]
  BY DEF Attributed
<1>2. \A g \in Groups : d.groupBid[g] # 0 => bids[g] = d.groupBid[g]
  OBVIOUS
<1>3. a \in Docs /\ Len(d.segs) \in Nat
  BY AttributedDoc DEF Docs
<1> HIDE DEF bids
<1>4. a.segs = d.segs /\ a.group = d.group /\ a.groupBid = bids /\ a.status = d.status /\ a.boundedRunId = b
  BY <1>1 DEF Docs
<1> HIDE DEF a
<1>5. Keeps(d, a)
  BY <1>2, <1>3, <1>4 DEF Keeps
<1> QED BY <1>3, <1>4, <1>5 DEF a

LEMMA TargetsKeeps ==
    ASSUME NEW d \in Docs, OrderInv(d)
    PROVE  Keeps(d, EnsureTargets(d)) /\ EnsureTargets(d) \in Docs
<1> DEFINE e == [d EXCEPT !.group = [g \in Groups |-> "pending"]]
<1>1. CASE In(d, "none") = {}
  BY <1>1, AlikeKeeps DEF EnsureTargets, Alike
<1>2. CASE In(d, "none") # {}
  <2>1. EnsureTargets(d) = e /\ e \in Docs /\ \A g \in Groups : d.group[g] = "none"
    BY <1>2, TargetsDoc DEF EnsureTargets, OrderInv, In
  <2>2. e.segs = d.segs /\ e.groupBid = d.groupBid /\ Len(d.segs) \in Nat
    BY DEF Docs
  <2> HIDE DEF e
  <2> QED BY <2>1, <2>2 DEF Keeps
<1> QED BY <1>1, <1>2

LEMMA MarkKeeps ==
    ASSUME NEW d \in Docs, NEW t \in GroupStates, NEW m, m = MarkFirst(d, "running", t)
    PROVE  Keeps(d, m) /\ m \in Docs /\ m.segs = d.segs /\ m.status = d.status
<1> DEFINE groups == [g \in Groups |-> IF IsFirst(d, "running", g) THEN t ELSE d.group[g]]
<1>1. m = [d EXCEPT !.group = groups]
  BY DEF MarkFirst
<1>2. \A g \in Groups : d.group[g] = "done" => groups[g] = "done"
  BY DEF IsFirst, In
<1>3. m \in Docs /\ Len(d.segs) \in Nat
  <2>1. "running" \in GroupStates
    BY DEF GroupStates
  <2>2. m \in Docs
    BY <2>1, MarkDoc
  <2> QED BY <2>2 DEF Docs
<1> HIDE DEF groups
<1>4. m.segs = d.segs /\ m.group = groups /\ m.groupBid = d.groupBid /\ m.status = d.status
  BY <1>1 DEF Docs
<1> QED BY <1>2, <1>3, <1>4 DEF Keeps

LEMMA LaunchedKeeps ==
    ASSUME NEW x, NEW d, DocOK(d, x), Free(d, x), Len(d.segs) < MaxSegments, CommanderEnabled => d.noted,
           NEW g \in Groups, NextGroup(d, g), NEW l, l = Launched(d, g)
    PROVE  Keeps(d, l) /\ l \in Docs /\ Len(l.segs) = Len(d.segs) + 1 /\ l.status = "RUNNING"
<1> DEFINE groups == [d.group EXCEPT ![g] = "running"]
<1>0. /\ d \in Docs /\ d.segs \in Seq(SegStates) /\ d.group \in [Groups -> GroupStates] /\ Len(d.segs) \in Nat
      /\ l \in Docs
  BY LaunchedOK DEF DocOK, Docs
<1>1. l.group = groups /\ l.groupBid = d.groupBid /\ l.segs = Append(d.segs, "open") /\ l.status = "RUNNING"
  <2>1. l = [d EXCEPT !.group = groups, !.boundedRunId = d.groupBid[g], !.status = "RUNNING",
                      !.segs = Append(d.segs, "open")]
    BY <1>0 DEF Launched, Docs
  <2> HIDE DEF groups
  <2> QED BY <1>0, <2>1 DEF Docs
<1>2. \A h \in Groups : d.group[h] = "done" => l.group[h] = "done"
  BY <1>0, <1>1 DEF NextGroup, IsFirst, In
<1>3. Len(l.segs) = Len(d.segs) + 1 /\ \A i \in 1 .. Len(d.segs) : l.segs[i] = d.segs[i]
  BY <1>0, <1>1
<1> QED BY <1>0, <1>1, <1>2, <1>3 DEF Keeps

LEMMA ClosedKeeps ==
    ASSUME NEW d \in Docs, SegOpen(d), NEW f \in Files, NEW code \in SegStates \ {"open"}, NEW c, c = Closed(d, f, code)
    PROVE  Keeps(d, c) /\ c \in Docs /\ Len(c.segs) = Len(d.segs) /\ ~SegOpen(c) /\ c.status = d.status
<1>1. PICK n \in Nat : n = Len(d.segs)
  BY DEF Docs
<1>2. PICK e : e = [d EXCEPT !.segs[n] = code]
  OBVIOUS
<1>3. d.segs \in Seq(SegStates) /\ d.segs # <<>> /\ n \in 1 .. n /\ d.segs[n] = "open"
  BY <1>1 DEF Docs, SegOpen
<1>4. [d.segs EXCEPT ![n] = code] \in Seq(SegStates) /\ Len([d.segs EXCEPT ![n] = code]) = n
  BY <1>1, <1>3
<1>5. /\ e \in Docs /\ e.segs = [d.segs EXCEPT ![n] = code] /\ e.group = d.group /\ e.groupBid = d.groupBid
      /\ e.status = d.status
  BY <1>2, <1>4 DEF Docs
<1>6. Keeps(d, e)
  BY <1>1, <1>3, <1>4, <1>5 DEF Keeps
<1>7. PICK b \in Bid : b = BidOf(d, f)
  BY DEF BidOf, Docs, Files
<1>8. c = Attributed(e, b)
  BY <1>1, <1>2, <1>7 DEF Closed
<1>9. Keeps(d, c) /\ c \in Docs /\ c.segs = e.segs /\ c.status = d.status
  BY <1>5, <1>6, <1>8, AttributedKeeps, KeepsTransitive
<1> QED BY <1>1, <1>9, ClosedPays

-----------------------------------------------------------------------------
(* How long the Core can drive a run *)

Working(d, f) == d.status \in Active \/ f # "idle"

\* how far a step is from the end of the drive: a segment is watched and closed, the next is launched, the last is judged
Phase(d, f) ==
    IF f \in {"assess", "assess_waiting"} THEN 1
    ELSE IF f = "start" THEN 2
    ELSE IF f = "snapshot" THEN 4
    ELSE IF ~SegOpen(d) THEN 3
    ELSE IF d.boundedRunId # 0 THEN 5 ELSE 6

WorkOf(d, f) == IF Working(d, f) THEN 7 * (MaxSegments - Len(d.segs)) + Phase(d, f) ELSE 0
WorkLeft(r) == WorkOf(run[r], frame[r])

\* while a step awaits something its run has not ended, and a graceful stop has only met the snapshot;
\* an exhausted pool is met between two segments
Quiet(d, f) ==
    /\ f # "idle" => /\ d.status \notin {"ABSENT", "READY_FOR_REVIEW", "APPROVED", "FAILED"}
                     /\ d.status = "STOPPING" => f = "snapshot"
    /\ d.status = "PAUSED_RUNTIME_EXHAUSTED" => ~SegOpen(d)
AwaitQuiet == \A r \in Runs : Quiet(run[r], frame[r])

\* the drive ends, comes to a later point of the segment, or to the next segment
Shorter(d, f, e, h) ==
    \/ ~Working(e, h)
    \/ Len(e.segs) = Len(d.segs) /\ Phase(e, h) < Phase(d, f)
    \/ Len(e.segs) = Len(d.segs) + 1 /\ Len(e.segs) <= MaxSegments /\ Phase(d, f) \in {2, 3}

Failed == faults'.errors # faults.errors

Ends(r, e, h) ==
    /\ e \in Docs /\ h \in Frames
    /\ Keeps(run[r], e)
    /\ Shorter(run[r], frame[r], e, h)
    /\ h # "idle" => e.status \in {run[r].status, "QUEUED"}
    /\ h \notin {"idle", "snapshot"} => e.status # "STOPPING"
    /\ e.status = "PAUSED_RUNTIME_EXHAUSTED" => ~SegOpen(e)
    /\ run[r].status = "STOPPING" => e.status \in {"STOPPING", "STOPPED"} \/ Failed

Outcome(r) == \E e, h : Save(r, e) /\ Goto(r, h) /\ Ends(r, e, h)

\* the service dies in this step, or the step loses the child it started
Fell == faults'.crashes # faults.crashes \/ faults'.lost # faults.lost

Lost(r) ==
    /\ Fell /\ Goes(r, "idle")
    /\ \E e \in Docs : /\ Save(r, e) /\ Keeps(run[r], e) /\ Quiet(e, "idle")
                       /\ run[r].status = "STOPPING" => e.status = "STOPPING"

LEMMA PhaseTypes == \A d, f : Phase(d, f) \in 1 .. 6
BY DEF Phase

LEMMA WorkTypes ==
    ASSUME NEW d \in Docs, NEW f, Len(d.segs) <= MaxSegments
    PROVE  /\ WorkOf(d, f) \in 0 .. 7 * MaxSegments + 6
           /\ Working(d, f) <=> WorkOf(d, f) # 0
           /\ Working(d, f) => WorkOf(d, f) = 7 * (MaxSegments - Len(d.segs)) + Phase(d, f)
<1>1. Len(d.segs) \in Nat /\ MaxSegments \in Nat
  BY ConstantsAssumption DEF Docs
<1> DEFINE n == Len(d.segs)
           k == Phase(d, f)
<1>2. k \in 1 .. 6
  BY PhaseTypes
<1>3. WorkOf(d, f) = IF Working(d, f) THEN 7 * (MaxSegments - n) + k ELSE 0
  BY DEF WorkOf
<1>4. n \in Nat /\ n <= MaxSegments
  BY <1>1
<1> HIDE DEF n, k
<1>5. 7 * (MaxSegments - n) + k \in 1 .. 7 * MaxSegments + 6
  BY <1>1, <1>2, <1>4
<1> QED BY <1>1, <1>3, <1>5 DEF n, k

LEMMA ShorterLess ==
    ASSUME NEW d \in Docs, NEW e \in Docs, NEW f, NEW h, Len(d.segs) <= MaxSegments, Len(e.segs) <= MaxSegments,
           Working(d, f), Shorter(d, f, e, h)
    PROVE  WorkOf(e, h) < WorkOf(d, f)
<1>1. Len(d.segs) \in Nat /\ Len(e.segs) \in Nat /\ MaxSegments \in Nat
  BY ConstantsAssumption DEF Docs
<1> DEFINE n == Len(d.segs)
           m == Len(e.segs)
           k == Phase(d, f)
           l == Phase(e, h)
<1>2. k \in 1 .. 6 /\ l \in 1 .. 6
  BY PhaseTypes
<1>3. WorkOf(d, f) = 7 * (MaxSegments - n) + k
  BY DEF WorkOf
<1>4. WorkOf(e, h) = IF Working(e, h) THEN 7 * (MaxSegments - m) + l ELSE 0
  BY DEF WorkOf
<1>5. ~Working(e, h) \/ (m = n /\ l < k) \/ (m = n + 1 /\ k \in {2, 3})
  BY DEF Shorter
<1>6. n \in Nat /\ m \in Nat /\ n <= MaxSegments
  BY <1>1
<1> HIDE DEF n, m, k, l
<1> QED BY <1>1, <1>2, <1>3, <1>4, <1>5, <1>6

LEMMA RestEnds ==
    ASSUME NEW r \in Runs, NEW d \in Docs, Keeps(run[r], d), Rests(r, d), d.status \notin Active,
           run[r].status = "STOPPING" => d.status = "STOPPED" \/ Failed,
           d.status = "PAUSED_RUNTIME_EXHAUSTED" => ~SegOpen(d)
    PROVE  Outcome(r)
<1>1. Ends(r, d, "idle")
  BY DEF Ends, Shorter, Working, Frames
<1> QED BY <1>1 DEF Outcome, Rests

LEMMA AlikeRest ==
    ASSUME NEW r \in Runs, run[r] \in Docs, NEW d \in Docs, Keeps(run[r], d), NEW e, Alike(d, e),
           e.status \notin Active, Rests(r, e), run[r].status # "STOPPING",
           e.status # "PAUSED_RUNTIME_EXHAUSTED" \/ ~SegOpen(d)
    PROVE  Outcome(r)
<1>1. e \in Docs /\ Keeps(run[r], e)
  BY AlikeKeeps, KeepsTransitive DEF Alike
<1>2. SegOpen(e) = SegOpen(d)
  BY DEF Alike, SegOpen
<1> QED BY <1>1, <1>2, RestEnds

LEMMA ThrowsEnds ==
    ASSUME TypeOK, NEW r \in Runs, NEW d \in Docs, Keeps(run[r], d), Throws(r, d)
    PROVE  Outcome(r)
<1>1. PICK e : e = SetStatus(d, "WAITING_FOR_HUMAN")
  OBVIOUS
<1>2. Rests(r, e) /\ Fault("errors", MaxErrors)
  BY <1>1 DEF Throws
<1>3. Failed
  <2>1. faults'.errors = faults.errors + 1
    BY <1>2, NoGaps, FaultType
  <2>2. faults.errors \in Nat
    BY DEF TypeOK, FaultRecords
  <2> QED BY <2>1, <2>2 DEF Failed
<1>4. run[r] \in Docs
  BY DEF TypeOK
<1>5. e \in Docs /\ Keeps(run[r], e) /\ e.status = "WAITING_FOR_HUMAN"
  BY <1>1, <1>4, StatusAlike, AlikeKeeps, KeepsTransitive DEF Alike, Statuses
<1> QED BY <1>2, <1>3, <1>5, RestEnds DEF Active

LEMMA DiesEnds ==
    ASSUME TypeOK, NEW r \in Runs, NEW d \in Docs, Keeps(run[r], d), NEW gaps, Dies(r, d, gaps),
           d.status = "PAUSED_RUNTIME_EXHAUSTED" => ~SegOpen(d),
           run[r].status = "STOPPING" => d.status = "STOPPING"
    PROVE  Lost(r)
<1>1. faults' = [faults EXCEPT !.crashes = @ + 1, !.cut = @ \cup ({r} \X gaps)] /\ faults \in FaultRecords
  BY DEF Dies, TypeOK
<1>2. Fell
  BY <1>1, ConstantsAssumption DEF Fell, FaultRecords
<1>3. Quiet(d, "idle")
  BY DEF Quiet
<1> QED BY <1>2, <1>3 DEF Lost, Dies, Goes

\* an exception or a death over a document the step has written
LEMMA BreaksEnds ==
    ASSUME TypeOK, NEW r \in Runs, NEW d \in Docs, Keeps(run[r], d), Breaks(r, d),
           d.status = "PAUSED_RUNTIME_EXHAUSTED" => ~SegOpen(d),
           run[r].status = "STOPPING" => d.status = "STOPPING"
    PROVE  Outcome(r) \/ Lost(r)
BY ThrowsEnds, DiesEnds DEF Breaks

LEMMA GateEnds ==
    ASSUME NEW r \in Runs, run[r] \in Docs, NEW d \in Docs, Keeps(run[r], d), NEW k \in GateKinds,
           Rests(r, OpenGate(d, k)), run[r].status # "STOPPING"
    PROVE  Outcome(r)
<1>1. PICK e : e = OpenGate(d, k)
  OBVIOUS
<1> QED BY <1>1, GateAlike, AlikeRest DEF Active

LEMMA BlockedEnds ==
    ASSUME NEW r \in Runs, run[r] \in Docs, NEW d \in Docs, Keeps(run[r], d), NEW b \in Blocked(d),
           Rests(r, b), run[r].status # "STOPPING", ~SegOpen(d)
    PROVE  Outcome(r)
BY BlockedAlike, AlikeRest DEF Active

\* the step goes on to another await
LEMMA AwaitEnds ==
    ASSUME NEW r \in Runs, NEW d \in Docs, NEW f \in Frames, f # "idle", Keeps(run[r], d), Save(r, d), Goto(r, f), ~SegOpen(d),
           Len(d.segs) = Len(run[r].segs), Phase(d, f) < Phase(run[r], frame[r]),
           d.status \in {run[r].status, "QUEUED"}, run[r].status = "STOPPING" => f = "snapshot" /\ d.status = "STOPPING"
    PROVE  Outcome(r)
<1>1. Ends(r, d, f)
  BY DEF Ends, Shorter
<1> QED BY <1>1 DEF Outcome

LEMMA FinalizeEnds ==
    ASSUME NEW r \in Runs, run[r] \in Docs, NEW d \in Docs, Keeps(run[r], d), d.segs = run[r].segs, Finalize(r, d),
           d.status \in {run[r].status, "QUEUED"}, run[r].status # "STOPPING", Phase(run[r], frame[r]) > 1,
           ~SegOpen(run[r])
    PROVE  Outcome(r)
<1>0. ~SegOpen(d)
  BY DEF SegOpen
<1>1. CASE CommanderEnabled
  <2>1. PICK f \in {"assess_waiting", "assess"} : Goto(r, f)
    BY <1>1 DEF Finalize
  <2>2. Save(r, d) /\ Phase(d, f) = 1 /\ f \in Frames /\ f # "idle"
    BY <1>1 DEF Finalize, Phase, Frames
  <2> QED BY <1>0, <2>1, <2>2, AwaitEnds
<1>2. CASE ~CommanderEnabled
  <2>1. PICK e \in {SetStatus(d, "WAITING_FOR_HUMAN"), ReadyForReview(d)} : Rests(r, e)
    BY <1>2 DEF Finalize
  <2>2. Alike(d, e) /\ e.status \in {"WAITING_FOR_HUMAN", "READY_FOR_REVIEW"}
    BY <2>1, StatusAlike, ReviewAlike DEF Statuses
  <2> QED BY <2>1, <2>2, AlikeRest DEF Active
<1> QED BY <1>1, <1>2

LEMMA DispatchEnds ==
    ASSUME TypeOK, NEW r \in Runs, NEW x, NEW d, DocOK(d, x), Free(d, x), CommanderEnabled => d.noted, OrderInv(d),
           Alike(run[r], d), Len(d.segs) < MaxSegments, d.status \in {run[r].status, "QUEUED"},
           run[r].status # "STOPPING", Phase(run[r], frame[r]) \in {2, 3}, ~SegOpen(run[r]), Dispatch(r, d)
    PROVE  Outcome(r) \/ Lost(r)
<1> DEFINE e == EnsureTargets(d)
<1>0. run[r] \in Docs /\ d \in Docs /\ Keeps(run[r], d) /\ Len(d.segs) \in Nat /\ MaxSegments \in Nat
      /\ d.segs = run[r].segs /\ ~SegOpen(d)
  <2>1. run[r] \in Docs
    BY DEF TypeOK
  <2>2. d \in Docs /\ d.segs = run[r].segs /\ Keeps(run[r], d)
    BY <2>1, AlikeKeeps DEF Alike
  <2> QED BY <2>1, <2>2, ConstantsAssumption DEF Docs, SegOpen
<1>1. /\ DocOK(e, x) /\ Free(e, x) /\ e.segs = d.segs /\ e.noted = d.noted /\ e.status = d.status /\ e \in Docs
      /\ Keeps(run[r], e) /\ ~SegOpen(e)
  BY <1>0, TargetsDoc, TargetsKeeps, KeepsTransitive DEF DocOK, DocInv, SegOpen, Free
<1>2. \/ (\E b \in Blocked(d) : Rests(r, b)) /\ UNCHANGED <<live, faults>>
      \/ \E g \in Groups : NextGroup(e, g) /\
            \/ Spawn(r, e, g, 0) /\ Rests(r, Launched(e, g)) /\ UNCHANGED faults
            \/ SpawnUnrecorded(r, e, g)
      \/ Breaks(r, e) /\ UNCHANGED live
      \/ In(e, "pending") = {} /\ Finalize(r, e) /\ UNCHANGED <<live, faults>>
  BY Zenon DEF Dispatch, e
<1> HIDE DEF e
<1>3. CASE \E b \in Blocked(d) : Rests(r, b)
  BY <1>0, <1>3, BlockedEnds
<1>4. ASSUME NEW g \in Groups, NextGroup(e, g), Rests(r, Launched(e, g)) PROVE Outcome(r)
  <2>1. PICK l : l = Launched(e, g)
    OBVIOUS
  <2>2. Keeps(e, l) /\ l \in Docs /\ Len(l.segs) = Len(e.segs) + 1 /\ l.status = "RUNNING"
    BY <1>1, <1>4, <2>1, LaunchedKeeps
  <2>3. Keeps(run[r], l) /\ Len(run[r].segs) = Len(d.segs)
    BY <1>0, <1>1, <2>2, KeepsTransitive DEF Alike
  <2>4. Ends(r, l, "idle")
    BY <1>0, <1>1, <2>2, <2>3 DEF Ends, Shorter, Frames
  <2> QED BY <1>4, <2>1, <2>4 DEF Outcome, Rests
<1>5. CASE Breaks(r, e)
  BY <1>1, <1>5, BreaksEnds
<1>6. ASSUME NEW g \in Groups, SpawnUnrecorded(r, e, g) PROVE Lost(r)
  <2>1. Fell
    <3>1. Fault("lost", MaxLost)
      BY <1>6 DEF SpawnUnrecorded
    <3>2. faults'.lost = faults.lost + 1
      BY <3>1, NoGaps, FaultType
    <3>3. faults.lost \in Nat
      BY DEF TypeOK, FaultRecords
    <3> QED BY <3>2, <3>3 DEF Fell
  <2>2. ASSUME NEW a, a \in {e, SetStatus(e, "WAITING_FOR_HUMAN")}, Save(r, a), Goes(r, "idle") PROVE Lost(r)
    <3>1. Alike(e, a)
      BY <1>1, <2>2, StatusAlike DEF Alike, Statuses
    <3>2. a \in Docs /\ Keeps(run[r], a) /\ ~SegOpen(a)
      BY <1>0, <1>1, <3>1, AlikeKeeps, KeepsTransitive DEF Alike, SegOpen
    <3> QED BY <2>1, <2>2, <3>2 DEF Lost, Quiet
  <2> QED BY <1>6, <2>2 DEF SpawnUnrecorded, Rests, Goes
<1>7. CASE Finalize(r, e)
  <2>1. e.segs = run[r].segs /\ Phase(run[r], frame[r]) > 1
    BY <1>1 DEF Alike
  <2> QED BY <1>0, <1>1, <1>7, <2>1, FinalizeEnds
<1> QED BY <1>2, <1>3, <1>4, <1>5, <1>6, <1>7, Zenon

\* the loop takes up a run it may drive: an active one, an exhausted one whose time has come, or one at an await
LEMMA CoreWorks ==
    ASSUME NEW r \in Runs, Quiet(run[r], frame[r]), Core(r)
    PROVE  frame[r] # "idle" \/ run[r].status \in Active \/ (CooledDown(run[r]) /\ LaunchNext(r))
<1>1. CASE Watched(r)
  BY <1>1 DEF Watched, Stepped, Quiet
<1>2. CASE StepRequested(r)
  BY <1>2 DEF StepRequested, Active
<1>3. CASE LaunchNext(r)
  BY <1>3 DEF LaunchNext, CanLaunch, Active
<1>4. CASE StartReturns(r) \/ AssessReturns(r) \/ Finish(r)
  BY <1>4 DEF StartReturns, AssessReturns, Finish
<1>5. WatchLive(r) \/ WatchEnded(r) \/ WatchMissesRecord(r) \/ WatchBreaks(r) => Watched(r)
  BY DEF WatchLive, WatchEnded, WatchMissesRecord, WatchBreaks
<1> QED BY <1>1, <1>2, <1>3, <1>4, <1>5 DEF Core

\* the facts about one run each step of it starts from
LEMMA DriveFacts ==
    ASSUME MoreInv, AwaitQuiet, NEW r \in Runs
    PROVE  /\ TypeOK /\ run[r] \in Docs /\ DocOK(run[r], Cut(r, "assess")) /\ OrderInv(run[r]) /\ Alike(run[r], run[r])
           /\ Keeps(run[r], run[r]) /\ Len(run[r].segs) \in Nat /\ Quiet(run[r], frame[r])
           /\ frame[r] # "idle" => ~SegOpen(run[r])
<1>1. TypeOK /\ run[r] \in Docs /\ DocOK(run[r], Cut(r, "assess")) /\ OrderInv(run[r])
  BY MoreFacts DEF MoreInv, IInv, GroupInv, RunOK
<1>2. frame[r] # "idle" => ~SegOpen(run[r])
  BY MoreFacts
<1>3. Alike(run[r], run[r]) /\ Len(run[r].segs) \in Nat
  BY <1>1 DEF Alike, Docs
<1> QED BY <1>1, <1>2, <1>3, AlikeKeeps DEF AwaitQuiet

LEMMA LaunchNextEnds ==
    ASSUME MoreInv, AwaitQuiet, NEW r \in Runs, LaunchNext(r)
    PROVE  Outcome(r) \/ Lost(r)
<1> DEFINE d == AutoResumed(run[r])
<1>1. /\ frame[r] = "idle" /\ ~SegOpen(run[r])
      /\ run[r].status \in {"QUEUED", "RUNNING"} \/ CooledDown(run[r])
  BY DEF LaunchNext, CanLaunch, Stepped
<1> DEFINE x == Cut(r, "assess")
<1>2. /\ TypeOK /\ run[r] \in Docs /\ DocOK(run[r], x) /\ OrderInv(run[r]) /\ Phase(run[r], frame[r]) = 3
      /\ run[r].status # "STOPPING" /\ Keeps(run[r], run[r])
  BY <1>1, DriveFacts DEF Phase, CooledDown
<1> HIDE DEF x
<1>3. /\ d \in Docs /\ Alike(run[r], d) /\ Keeps(run[r], d) /\ DocOK(d, x) /\ Free(d, x)
      /\ d.segs = run[r].segs /\ d.group = run[r].group
  BY <1>1, <1>2, AutoResumedAlike, AutoResumedOK, AlikeKeeps DEF Alike
<1>4. d.status \in {run[r].status, "QUEUED"}
  BY <1>2 DEF AutoResumed, Docs
<1>5. \/ Rests(r, OpenGate(d, "segment_budget"))
      \/ Rests(r, OpenGate(d, "knowledge_changed"))
      \/ Throws(r, run[r]) \/ Breaks(r, d)
      \/ Save(r, d) /\ Goto(r, "start")
      \/ ~OutOfBudget(d) /\ (CommanderEnabled => d.noted) /\ Dispatch(r, d)
  BY Zenon DEF LaunchNext
<1> HIDE DEF d
<1>6. CASE Rests(r, OpenGate(d, "segment_budget")) \/ Rests(r, OpenGate(d, "knowledge_changed"))
  BY <1>2, <1>3, <1>6, GateEnds DEF GateKinds
<1>7. CASE Throws(r, run[r]) \/ Breaks(r, d)
  <2>1. ~SegOpen(d)
    BY <1>1, <1>3 DEF SegOpen
  <2> QED BY <1>2, <1>3, <1>7, <2>1, ThrowsEnds, BreaksEnds
<1>8. CASE Save(r, d) /\ Goto(r, "start")
  <2>1. Phase(d, "start") = 2 /\ "start" \in Frames /\ ~SegOpen(d)
    BY <1>1, <1>3 DEF Phase, Frames, SegOpen
  <2> QED BY <1>2, <1>3, <1>4, <1>8, <2>1, AwaitEnds
<1>9. CASE ~OutOfBudget(d) /\ (CommanderEnabled => d.noted) /\ Dispatch(r, d)
  <2>1. Len(d.segs) < MaxSegments
    BY <1>3, <1>9, ConstantsAssumption DEF OutOfBudget, Docs
  <2>2. OrderInv(d)
    BY <1>2, <1>3 DEF OrderInv
  <2> QED BY <1>1, <1>2, <1>3, <1>4, <1>9, <2>1, <2>2, DispatchEnds
<1> QED BY <1>5, <1>6, <1>7, <1>8, <1>9

LEMMA StartReturnsEnds ==
    ASSUME MoreInv, AwaitQuiet, NEW r \in Runs, StartReturns(r)
    PROVE  Outcome(r) \/ Lost(r)
<1> DEFINE d == [run[r] EXCEPT !.noted = TRUE]
<1> DEFINE x == Cut(r, "assess")
<1>1. /\ TypeOK /\ run[r] \in Docs /\ DocOK(run[r], x) /\ OrderInv(run[r]) /\ Phase(run[r], frame[r]) = 2
      /\ run[r].status # "STOPPING" /\ ~SegOpen(run[r]) /\ run[r].segs = <<>> /\ Keeps(run[r], run[r])
  BY DriveFacts DEF StartReturns, Phase, Quiet, MoreInv, IInv, FrameInv
<1>2. /\ d \in Docs /\ d.status = run[r].status /\ d.segs = run[r].segs /\ d.group = run[r].group /\ d.noted
      /\ d.groupBid = run[r].groupBid
      /\ d.pauseRequested = run[r].pauseRequested /\ d.stopRequested = run[r].stopRequested
  BY <1>1 DEF Docs
<1>3. \/ \E b \in Blocked(run[r]) : Rests(r, b)
      \/ Rests(r, OpenGate(d, "engine_waiting"))
      \/ Throws(r, run[r]) \/ Breaks(r, d)
      \/ Dispatch(r, d)
  BY Zenon DEF StartReturns
<1> HIDE DEF d, x
<1>4. Alike(run[r], d) /\ Keeps(run[r], d) /\ OrderInv(d)
  BY <1>1, <1>2, AlikeKeeps DEF Alike, OrderInv
<1>5. CASE \E b \in Blocked(run[r]) : Rests(r, b)
  BY <1>1, <1>5, BlockedEnds
<1>6. CASE Rests(r, OpenGate(d, "engine_waiting"))
  BY <1>1, <1>2, <1>4, <1>6, GateEnds DEF GateKinds
<1>7. CASE Throws(r, run[r]) \/ Breaks(r, d)
  <2>1. ~SegOpen(d)
    BY <1>1, <1>2 DEF SegOpen
  <2> QED BY <1>1, <1>2, <1>4, <1>7, <2>1, ThrowsEnds, BreaksEnds
<1>8. CASE Dispatch(r, d)
  <2>1. Len(d.segs) < MaxSegments /\ DocOK(d, x) /\ Free(d, x)
    BY <1>1, <1>2, ConstantsAssumption DEF DocOK, DocInv, Free, NoRequest
  <2> QED BY <1>1, <1>2, <1>4, <1>8, <2>1, DispatchEnds
<1> QED BY <1>3, <1>5, <1>6, <1>7, <1>8

LEMMA AssessReturnsEnds ==
    ASSUME MoreInv, AwaitQuiet, NEW r \in Runs, AssessReturns(r)
    PROVE  Outcome(r) \/ Lost(r)
<1>1. /\ TypeOK /\ run[r] \in Docs /\ ~SegOpen(run[r]) /\ Keeps(run[r], run[r]) /\ Alike(run[r], run[r])
      /\ run[r].status # "STOPPING"
  BY DriveFacts DEF AssessReturns, Quiet
<1>2. ASSUME NEW d \in {run[r]} \cup Blocked(run[r]) PROVE d \in Docs /\ Alike(run[r], d) /\ Keeps(run[r], d) /\ ~SegOpen(d)
  <2>1. Alike(run[r], d)
    BY <1>1, BlockedAlike
  <2> QED BY <1>1, <2>1, AlikeKeeps DEF Alike, SegOpen
<1>4. ASSUME NEW d \in {run[r]} \cup Blocked(run[r]), Throws(r, d) PROVE Outcome(r)
  BY <1>1, <1>2, <1>4, ThrowsEnds
<1>5. ASSUME NEW d \in Blocked(run[r]), NEW gaps, Dies(r, d, gaps) PROVE Lost(r)
  BY <1>1, <1>2, <1>5, DiesEnds
<1>3. ASSUME NEW d \in {run[r]} \cup Blocked(run[r]), NEW e \in {ReadyForReview(d), SetStatus(d, "WAITING_FOR_HUMAN")},
             Rests(r, e)
      PROVE  Outcome(r)
  <2>1. d \in Docs /\ Alike(run[r], d)
    BY <1>1, BlockedAlike DEF Alike
  <2>2. Alike(d, e) /\ e.status \in {"READY_FOR_REVIEW", "WAITING_FOR_HUMAN"}
    BY <2>1, ReviewAlike, StatusAlike DEF Statuses
  <2>3. Alike(run[r], e)
    BY <2>1, <2>2, AlikeTransitive
  <2> QED BY <1>1, <1>3, <2>2, <2>3, AlikeRest DEF Active
<1>6. \/ \E d \in {run[r]} \cup Blocked(run[r]) : \E e \in {ReadyForReview(d), SetStatus(d, "WAITING_FOR_HUMAN")} : Rests(r, e)
      \/ \E d \in {run[r]} \cup Blocked(run[r]) : Throws(r, d)
      \/ \E d \in Blocked(run[r]) : \E gaps : Dies(r, d, gaps)
  BY DEF AssessReturns
<1> QED BY <1>3, <1>4, <1>5, <1>6

\* a document that learned its bounded run
LEMMA LearnedKeeps ==
    ASSUME MoreInv, NEW r \in Runs, SegOpen(run[r])
    PROVE  /\ Learned(r) \in Docs /\ Keeps(run[r], Learned(r)) /\ Learned(r).segs = run[r].segs
           /\ Learned(r).status = run[r].status /\ LastFile(r) \in Files /\ SegOpen(Learned(r))
           /\ LearnsBid(r) => Learned(r).boundedRunId # 0
<1>1. /\ run[r] \in Docs /\ LastFile(r) \in Files /\ Learned(r) \in Docs /\ Learned(r).status = run[r].status
      /\ SegOpen(Learned(r)) /\ (LearnsBid(r) => Learned(r).boundedRunId = LastFile(r).bid)
  BY LearnedKept, MoreFacts
<1>2. CASE LearnsBid(r)
  <2>1. Learned(r) = Attributed(run[r], LastFile(r).bid) /\ LastFile(r).bid \in Bid
    BY <1>1, <1>2 DEF Learned, Files
  <2>2. Keeps(run[r], Learned(r)) /\ Learned(r).segs = run[r].segs
    BY <1>1, <2>1, AttributedKeeps
  <2> QED BY <1>1, <1>2, <2>2 DEF LearnsBid
<1>3. CASE ~LearnsBid(r)
  <2>1. Learned(r) = run[r] /\ Alike(run[r], run[r])
    BY <1>1, <1>3 DEF Learned, Alike
  <2> QED BY <1>1, <1>3, <2>1, AlikeKeeps
<1> QED BY <1>2, <1>3

LEMMA WatchLiveEnds ==
    ASSUME MoreInv, AwaitQuiet, NEW r \in Runs, WatchLive(r)
    PROVE  Outcome(r)
<1>1. PICK d : d = Learned(r)
  OBVIOUS
<1>2. /\ SegOpen(run[r]) /\ frame[r] = "idle" /\ LearnsBid(r) /\ Save(r, d) /\ UNCHANGED frame
      /\ TypeOK /\ run[r] \in Docs /\ Len(run[r].segs) \in Nat /\ run[r].status # "PAUSED_RUNTIME_EXHAUSTED"
  BY <1>1, DriveFacts DEF WatchLive, Watched, Stepped, Quiet
<1>3. d \in Docs /\ Keeps(run[r], d) /\ d.segs = run[r].segs /\ d.status = run[r].status /\ d.boundedRunId # 0 /\ SegOpen(d)
  BY <1>1, <1>2, LearnedKeeps
<1>4. Goto(r, "idle")
  BY <1>2 DEF Goto, TypeOK
<1>5. Phase(run[r], "idle") = 6 /\ Phase(d, "idle") = 5
  BY <1>2, <1>3 DEF Phase, LearnsBid
<1>6. Shorter(run[r], frame[r], d, "idle")
  BY <1>2, <1>3, <1>5 DEF Shorter
<1>7. Ends(r, d, "idle")
  BY <1>2, <1>3, <1>6 DEF Ends, Frames
<1> QED BY <1>2, <1>4, <1>7 DEF Outcome

LEMMA ClosesEnds ==
    ASSUME MoreInv, AwaitQuiet, NEW r \in Runs, Watched(r), NEW code \in SegStates \ {"open"}, Closes(r, code)
    PROVE  Outcome(r)
<1>1. PICK d : d = Learned(r)
  OBVIOUS
<1>2. PICK c : c = Closed(d, LastFile(r), code)
  OBVIOUS
<1>3. SegOpen(run[r]) /\ frame[r] = "idle" /\ Save(r, c) /\ Goto(r, "snapshot") /\ run[r] \in Docs
  BY <1>1, <1>2, DriveFacts DEF Watched, Stepped, Closes
<1>4. d \in Docs /\ Keeps(run[r], d) /\ d.segs = run[r].segs /\ d.status = run[r].status /\ LastFile(r) \in Files /\ SegOpen(d)
  BY <1>1, <1>3, LearnedKeeps
<1>5. Keeps(d, c) /\ c \in Docs /\ Len(c.segs) = Len(d.segs) /\ ~SegOpen(c) /\ c.status = d.status
  BY <1>2, <1>4, ClosedKeeps
<1>6. Keeps(run[r], c)
  BY <1>3, <1>4, <1>5, KeepsTransitive
<1>7. Phase(c, "snapshot") = 4 /\ Phase(run[r], frame[r]) \in {5, 6} /\ "snapshot" \in Frames
  BY <1>3 DEF Phase, Frames
<1> QED BY <1>3, <1>4, <1>5, <1>6, <1>7, AwaitEnds

LEMMA WatchEndedEnds ==
    ASSUME MoreInv, AwaitQuiet, NEW r \in Runs, WatchEnded(r)
    PROVE  Outcome(r)
<1>1. Watched(r) /\ LastFile(r) \in Files
  BY LearnedKeeps DEF WatchEnded, Watched
<1>2. PICK code \in SegStates \ {"open"} : Closes(r, code)
  BY <1>1 DEF WatchEnded, SegStates, Recorded, Files
<1> QED BY <1>1, <1>2, ClosesEnds

LEMMA WatchMissesRecordEnds ==
    ASSUME MoreInv, AwaitQuiet, NEW r \in Runs, WatchMissesRecord(r)
    PROVE  Outcome(r)
<1>1. Watched(r) /\ Closes(r, "none") /\ "none" \in SegStates \ {"open"}
  BY DEF WatchMissesRecord, SegStates
<1> QED BY <1>1, ClosesEnds

LEMMA WatchBreaksEnds ==
    ASSUME MoreInv, AwaitQuiet, NEW r \in Runs, WatchBreaks(r)
    PROVE  Outcome(r) \/ Lost(r)
<1>1. /\ SegOpen(run[r]) /\ TypeOK /\ run[r] \in Docs /\ Keeps(run[r], run[r])
      /\ run[r].status # "PAUSED_RUNTIME_EXHAUSTED"
  BY DriveFacts DEF WatchBreaks, Watched, Quiet
<1>2. PICK d \in {run[r], Learned(r)} : Throws(r, d) \/ \E gaps : Dies(r, d, gaps)
  BY DEF WatchBreaks, Breaks
<1>3. d \in Docs /\ Keeps(run[r], d) /\ d.status = run[r].status
  BY <1>1, LearnedKeeps
<1> QED BY <1>1, <1>2, <1>3, ThrowsEnds, DiesEnds

LEMMA StepRequestedEnds ==
    ASSUME MoreInv, AwaitQuiet, NEW r \in Runs, StepRequested(r)
    PROVE  Outcome(r)
<1>1. TypeOK /\ run[r] \in Docs /\ frame[r] = "idle" /\ UNCHANGED frame /\ ~SegOpen(run[r])
  BY DriveFacts DEF StepRequested, Stepped
<1>2. Goto(r, "idle")
  BY <1>1 DEF Goto, TypeOK
<1>3. ASSUME NEW s \in {"STOPPED", "PAUSED"}, Save(r, SetStatus(run[r], s)), run[r].status = "STOPPING" => s = "STOPPED"
      PROVE  Outcome(r)
  <2>1. PICK d : d = SetStatus(run[r], s)
    OBVIOUS
  <2>2. Alike(run[r], d) /\ d.status = s
    BY <1>1, <2>1, StatusAlike DEF Statuses
  <2>3. d \in Docs /\ Keeps(run[r], d)
    BY <1>1, <2>2, AlikeKeeps DEF Alike
  <2> QED BY <1>2, <1>3, <2>1, <2>2, <2>3, RestEnds DEF Rests, Active
<1> QED BY <1>3 DEF StepRequested

\* a judged segment leaves the run queued for the next one
LEMMA QueuedEnds ==
    ASSUME NEW r \in Runs, run[r] \in Docs, NEW d \in Docs, Keeps(run[r], d), d.segs = run[r].segs, ~SegOpen(run[r]),
           frame[r] = "snapshot", run[r].status # "STOPPING", Rests(r, SetStatus(d, "QUEUED"))
    PROVE  Outcome(r)
<1>1. PICK e : e = SetStatus(d, "QUEUED")
  OBVIOUS
<1>2. Alike(d, e) /\ e.status = "QUEUED" /\ e \in Docs /\ Keeps(run[r], e)
  BY <1>1, StatusAlike, AlikeKeeps, KeepsTransitive DEF Alike, Statuses
<1>3. e.segs = run[r].segs /\ ~SegOpen(e)
  BY <1>2 DEF Alike, SegOpen
<1>4. Phase(e, "idle") = 3 /\ Phase(run[r], frame[r]) = 4
  BY <1>3 DEF Phase
<1>5. Shorter(run[r], frame[r], e, "idle")
  BY <1>3, <1>4 DEF Shorter
<1>6. Ends(r, e, "idle")
  BY <1>2, <1>3, <1>5 DEF Ends, Frames
<1> QED BY <1>1, <1>6 DEF Outcome, Rests

LEMMA FinishEnds ==
    ASSUME MoreInv, AwaitQuiet, NEW r \in Runs, Finish(r)
    PROVE  Outcome(r) \/ Lost(r)
<1>1. /\ TypeOK /\ run[r] \in Docs /\ frame[r] = "snapshot" /\ ~SegOpen(run[r])
      /\ Keeps(run[r], run[r]) /\ Alike(run[r], run[r]) /\ Phase(run[r], frame[r]) = 4
  <2>1. frame[r] = "snapshot"
    BY DEF Finish
  <2> QED BY <2>1, DriveFacts DEF Phase
<1>2. CASE Throws(r, run[r])
  BY <1>1, <1>2, ThrowsEnds
<1>3. CASE FinishRequested(r)
  <2>1. PICK e \in {[run[r] EXCEPT !.status = "STOPPED", !.stopRequested = FALSE],
                    [run[r] EXCEPT !.status = "PAUSED", !.pauseRequested = FALSE]} :
          Rests(r, e) /\ (run[r].status = "STOPPING" => e = [run[r] EXCEPT !.status = "STOPPED", !.stopRequested = FALSE])
    BY <1>3 DEF FinishRequested, StopAsked
  <2>2. Alike(run[r], e) /\ e.status \in {"STOPPED", "PAUSED"} /\ (run[r].status = "STOPPING" => e.status = "STOPPED")
    BY <1>1, <2>1 DEF Alike, Docs, Statuses
  <2>3. e \in Docs /\ Keeps(run[r], e)
    BY <1>1, <2>2, AlikeKeeps DEF Alike
  <2> QED BY <2>1, <2>2, <2>3, RestEnds DEF Active
<1>4. CASE run[r].status # "STOPPING" /\ FinishUnavailable(r)
  <2>1. PICK e \in Blocked(run[r]) \cup {SetStatus(run[r], "QUEUED")} : Rests(r, e)
    BY <1>4 DEF FinishUnavailable
  <2> QED BY <1>1, <1>4, <2>1, BlockedEnds, QueuedEnds
<1>5. CASE run[r].status # "STOPPING" /\ FinishInterrupted(r)
  <2>1. Rests(r, OpenGate(run[r], "interrupted")) \/ Rests(r, SetStatus(run[r], "QUEUED"))
    BY <1>5 DEF FinishInterrupted
  <2> QED BY <1>1, <1>5, <2>1, GateEnds, QueuedEnds DEF GateKinds
<1>6. CASE run[r].status # "STOPPING" /\ FinishSettled(r)
  <2>1. PICK m \in {MarkFirst(run[r], "running", "done"),
                    [MarkFirst(run[r], "running", "waiting") EXCEPT !.gates = @ \cup {"engine_waiting"}]} :
          Rests(r, SetStatus(m, "QUEUED")) \/ Finalize(r, m) \/ Breaks(r, m)
    BY <1>6 DEF FinishSettled, GroupSettled
  <2>2. m \in Docs /\ Keeps(run[r], m) /\ m.segs = run[r].segs /\ m.status = run[r].status
    <3>1. CASE m = MarkFirst(run[r], "running", "done")
      BY <1>1, <3>1, MarkKeeps DEF GroupStates
    <3>2. CASE m = [MarkFirst(run[r], "running", "waiting") EXCEPT !.gates = @ \cup {"engine_waiting"}]
      <4>1. PICK n : n = MarkFirst(run[r], "running", "waiting")
        OBVIOUS
      <4>2. n \in Docs /\ Keeps(run[r], n) /\ n.segs = run[r].segs /\ n.status = run[r].status
        BY <1>1, <4>1, MarkKeeps DEF GroupStates
      <4>3. Alike(n, m) /\ m.status = n.status
        BY <3>2, <4>1, <4>2 DEF Alike, Docs, GateKinds
      <4> QED BY <1>1, <4>2, <4>3, AlikeKeeps, KeepsTransitive DEF Alike
    <3> QED BY <2>1, <3>1, <3>2
  <2>3. ~SegOpen(m)
    BY <1>1, <2>2 DEF SegOpen
  <2> QED BY <1>1, <1>6, <2>1, <2>2, <2>3, QueuedEnds, FinalizeEnds, BreaksEnds
<1>7. CASE run[r].status # "STOPPING" /\ FinishHalted(r)
  <2>1. PICK m : m = MarkFirst(run[r], "running", "halted")
    OBVIOUS
  <2>2. m \in Docs /\ Keeps(run[r], m) /\ m.segs = run[r].segs
    BY <1>1, <2>1, MarkKeeps DEF GroupStates
  <2>3. \/ \E e \in {OpenGate(m, "engine_halted"), OpenGate(m, "engine_refused"), SetStatus(m, "FAILED")} : Rests(r, e)
        \/ Throws(r, m) \/ Dies(r, m, {"halt"})
    BY <1>7, <2>1 DEF FinishHalted, GroupHalted
  <2>4. ASSUME NEW e \in {OpenGate(m, "engine_halted"), OpenGate(m, "engine_refused"), SetStatus(m, "FAILED")}, Rests(r, e)
        PROVE  Outcome(r)
    <3>1. Alike(m, e) /\ e.status \in {"WAITING_FOR_HUMAN", "FAILED"}
      BY <2>2, <2>4, GateAlike, StatusAlike DEF GateKinds, Statuses
    <3> QED BY <1>1, <1>7, <2>2, <2>4, <3>1, AlikeRest DEF Active
  <2>5. ~SegOpen(m)
    BY <1>1, <2>2 DEF SegOpen
  <2> QED BY <1>1, <1>7, <2>2, <2>3, <2>4, <2>5, ThrowsEnds, DiesEnds
<1> QED BY <1>2, <1>3, <1>4, <1>5, <1>6, <1>7 DEF Finish, StopAsked

LEMMA CoreEnds ==
    ASSUME MoreInv, AwaitQuiet, NEW r \in Runs, Core(r)
    PROVE  Outcome(r) \/ Lost(r)
BY LaunchNextEnds, StartReturnsEnds, AssessReturnsEnds, WatchLiveEnds, WatchEndedEnds, WatchMissesRecordEnds,
   WatchBreaksEnds, FinishEnds, StepRequestedEnds DEF Core

-----------------------------------------------------------------------------
(* What a request and a step keep *)

\* a request replaces one document, moves no step, and answers a graceful stop with a stop only
Requested(r) == \E e \in Docs :
    /\ Save(r, e) /\ Keeps(run[r], e) /\ Quiet(e, frame[r])
    /\ run[r].status = "STOPPING" => e.status \in {"STOPPING", "STOPPED"}

LEMMA AlikeRequested ==
    ASSUME NEW r \in Runs, run[r] \in Docs, NEW e, Alike(run[r], e), Save(r, e),
           e.status \notin {"ABSENT", "READY_FOR_REVIEW", "PAUSED_RUNTIME_EXHAUSTED"},
           e.status \in {"STOPPING", "APPROVED", "FAILED"} => frame[r] = "idle",
           run[r].status = "STOPPING" => e.status \in {"STOPPING", "STOPPED"}
    PROVE  Requested(r)
<1>1. e \in Docs /\ Keeps(run[r], e)
  BY AlikeKeeps DEF Alike
<1>2. Quiet(e, frame[r])
  BY DEF Quiet
<1> QED BY <1>1, <1>2 DEF Requested

LEMMA StopRequested ==
    ASSUME MoreInv, AwaitQuiet, NEW r \in Runs, Stop(r)
    PROVE  Requested(r)
<1>1. run[r] \in Docs /\ (frame[r] # "idle" => ~SegOpen(run[r]))
  BY DriveFacts
<1>2. CASE Save(r, StoppedNow(run[r]))
  <2>1. PICK e : e = StoppedNow(run[r])
    OBVIOUS
  <2>2. Alike(run[r], e) /\ e.status = "STOPPED"
    BY <1>1, <2>1 DEF StoppedNow, Alike, Docs, Statuses
  <2> QED BY <1>1, <1>2, <2>1, <2>2, AlikeRequested
<1>3. CASE SegOpen(run[r]) /\ Save(r, [run[r] EXCEPT !.status = "STOPPING", !.stopRequested = TRUE])
  <2>1. PICK e : e = [run[r] EXCEPT !.status = "STOPPING", !.stopRequested = TRUE]
    OBVIOUS
  <2>2. Alike(run[r], e) /\ e.status = "STOPPING"
    BY <1>1, <2>1 DEF Alike, Docs, Statuses
  <2> QED BY <1>1, <1>3, <2>1, <2>2, AlikeRequested
<1>4. Save(r, StoppedNow(run[r])) \/ (SegOpen(run[r]) /\ Save(r, [run[r] EXCEPT !.status = "STOPPING", !.stopRequested = TRUE]))
  BY DEF Stop, ChildAlive
<1> QED BY <1>2, <1>3, <1>4

LEMMA ResumeRequested ==
    ASSUME MoreInv, AwaitQuiet, NEW r \in Runs, Resume(r)
    PROVE  Requested(r)
<1> DEFINE groups == [g \in Groups |-> IF run[r].group[g] \in {"waiting", "halted"} THEN "running" ELSE run[r].group[g]]
<1>1. run[r] \in Docs /\ Len(run[r].segs) \in Nat /\ run[r].status # "STOPPING"
  BY DriveFacts DEF Resume
<1>2. PICK e : e = Resumed(run[r])
  OBVIOUS
<1>3. e = [run[r] EXCEPT !.group = groups, !.pauseRequested = FALSE, !.stopRequested = FALSE, !.autoResumeAt = "none",
                         !.gates = @ \cap {"review"}, !.status = "QUEUED"]
  BY <1>2 DEF Resumed
<1>4. groups \in [Groups -> GroupStates] /\ \A g \in Groups : run[r].group[g] = "done" => groups[g] = "done"
  <2>1. run[r].group \in [Groups -> GroupStates] /\ "running" \in GroupStates
    BY <1>1 DEF Docs, GroupStates
  <2> QED BY <2>1
<1> HIDE DEF groups
<1>5. e \in Docs /\ e.segs = run[r].segs /\ e.group = groups /\ e.groupBid = run[r].groupBid /\ e.status = "QUEUED"
  BY <1>1, <1>3, <1>4 DEF Docs, Statuses
<1>6. Keeps(run[r], e)
  BY <1>1, <1>4, <1>5 DEF Keeps
<1>7. Quiet(e, frame[r])
  BY <1>5 DEF Quiet
<1>8. Save(r, e)
  BY <1>2 DEF Resume
<1> QED BY <1>1, <1>5, <1>6, <1>7, <1>8 DEF Requested

LEMMA CreateRequested ==
    ASSUME NEW r \in Runs, run[r] \in Docs, Create(r)
    PROVE  Requested(r)
<1>1. PICK e : e = SetStatus(run[r], "QUEUED")
  OBVIOUS
<1>2. Alike(run[r], e) /\ e.status = "QUEUED"
  BY <1>1, StatusAlike DEF Statuses
<1>3. Save(r, e) /\ run[r].status = "ABSENT"
  BY <1>1 DEF Create
<1> QED BY <1>2, <1>3, AlikeRequested

LEMMA PauseRequested ==
    ASSUME NEW r \in Runs, run[r] \in Docs, Pause(r)
    PROVE  Requested(r)
<1>1. PICK e \in {[run[r] EXCEPT !.status = "PAUSED", !.pauseRequested = FALSE, !.autoResumeAt = "none"],
                  [run[r] EXCEPT !.status = "PAUSING", !.pauseRequested = TRUE]} : Save(r, e)
  BY DEF Pause
<1>2. Alike(run[r], e) /\ e.status \in {"PAUSED", "PAUSING"}
  BY <1>1 DEF Alike, Docs, Statuses
<1>3. run[r].status # "STOPPING"
  BY DEF Pause
<1> QED BY <1>1, <1>2, <1>3, AlikeRequested

LEMMA ApproveRequested ==
    ASSUME MoreInv, NEW r \in Runs, Approve(r)
    PROVE  Requested(r)
<1>0. run[r] \in Docs /\ (frame[r] # "idle" => run[r].status # "READY_FOR_REVIEW")
  BY MoreFacts
<1>1. PICK e : e = [run[r] EXCEPT !.status = "APPROVED", !.gates = @ \ {"review"}]
  OBVIOUS
<1>2. Alike(run[r], e) /\ e.status = "APPROVED"
  BY <1>0, <1>1 DEF Alike, Docs, Statuses
<1>3. Save(r, e) /\ run[r].status = "READY_FOR_REVIEW"
  BY <1>1 DEF Approve
<1>4. frame[r] = "idle"
  BY <1>0, <1>3
<1> QED BY <1>0, <1>2, <1>3, <1>4, AlikeRequested

LEMMA SendBackRequested ==
    ASSUME NEW r \in Runs, run[r] \in Docs, SendBack(r)
    PROVE  Requested(r)
<1>1. PICK e : e = OpenGate(run[r], "review")
  OBVIOUS
<1>2. Alike(run[r], e) /\ e.status = "WAITING_FOR_HUMAN"
  BY <1>1, GateAlike DEF GateKinds
<1>3. Save(r, e) /\ run[r].status = "READY_FOR_REVIEW"
  BY <1>1 DEF SendBack
<1> QED BY <1>2, <1>3, AlikeRequested

LEMMA CrashFell == ASSUME TypeOK, Fault("crashes", MaxCrashes) PROVE Fell
<1>1. faults' = [faults EXCEPT !.crashes = @ + 1] /\ faults \in FaultRecords
  BY DEF Fault, TypeOK
<1> QED BY <1>1, ConstantsAssumption DEF Fell, FaultRecords

LEMMA RequestFailsRequested ==
    ASSUME MoreInv, AwaitQuiet, NEW r \in Runs, RequestFails(r)
    PROVE  \/ Requested(r) /\ UNCHANGED frame
           \/ UNCHANGED run /\ Restarts /\ Fell
<1>1. UNCHANGED run /\ run \in [Runs -> Docs]
  BY DEF RequestFails, MoreInv, IInv, TypeOK
<1>2. Save(r, run[r])
  BY <1>1 DEF Save
<1>3. run[r] \in Docs /\ Keeps(run[r], run[r]) /\ Quiet(run[r], frame[r])
  BY DriveFacts
<1>4. CASE UNCHANGED frame
  BY <1>2, <1>3, <1>4 DEF Requested
<1>5. CASE Fault("crashes", MaxCrashes) /\ Restarts
  BY <1>1, <1>5, CrashFell DEF MoreInv, IInv
<1> QED BY <1>4, <1>5 DEF RequestFails

LEMMA PersonRequested ==
    ASSUME MoreInv, AwaitQuiet, NEW r \in Runs, Person(r)
    PROVE  \/ Requested(r) /\ UNCHANGED frame
           \/ UNCHANGED run /\ Restarts /\ Fell
<1>1. run[r] \in Docs
  BY DriveFacts
<1>2. CASE RequestFails(r)
  BY <1>2, RequestFailsRequested
<1>3. CASE ~RequestFails(r)
  <2>1. UNCHANGED frame
    BY <1>3 DEF Person, Create, Pause, Resume, Stop, Approve, SendBack
  <2>2. Requested(r)
    BY <1>1, <1>3, CreateRequested, PauseRequested, ApproveRequested, SendBackRequested, ResumeRequested,
       StopRequested DEF Person
  <2> QED BY <2>1, <2>2
<1> QED BY <1>2, <1>3

LEMMA CooldownRequested ==
    ASSUME MoreInv, AwaitQuiet, NEW r \in Runs, CooldownLapses(r)
    PROVE  /\ Requested(r) /\ UNCHANGED frame
           /\ \E e : Save(r, e) /\ e.segs = run[r].segs /\ e.status = run[r].status /\ e.boundedRunId = run[r].boundedRunId
<1>1. PICK e : e = [run[r] EXCEPT !.autoResumeAt = "due"]
  OBVIOUS
<1>2. run[r] \in Docs /\ Quiet(run[r], frame[r]) /\ Save(r, e) /\ UNCHANGED frame
  BY <1>1, DriveFacts DEF CooldownLapses
<1>3. Alike(run[r], e) /\ e.status = run[r].status /\ e.boundedRunId = run[r].boundedRunId
  BY <1>1, <1>2 DEF Alike, Docs
<1>4. e \in Docs /\ Keeps(run[r], e) /\ e.segs = run[r].segs
  BY <1>2, <1>3, AlikeKeeps DEF Alike
<1>5. Quiet(e, frame[r])
  BY <1>2, <1>3, <1>4 DEF Quiet, SegOpen
<1> QED BY <1>2, <1>3, <1>4, <1>5 DEF Requested

\* what one step of the system is to one run: nothing, the end of the step it was in, a request, or a step of its own
LEMMA Moves ==
    ASSUME MoreInv, AwaitQuiet, Next, NEW q \in Runs
    PROVE  \/ run'[q] = run[q] /\ frame'[q] = frame[q]
           \/ run'[q] = run[q] /\ frame'[q] = "idle" /\ Fell
           \/ Person(q) /\ Requested(q) /\ UNCHANGED frame
           \/ CooldownLapses(q) /\ Requested(q) /\ UNCHANGED frame
           \/ Core(q) /\ (Outcome(q) \/ Lost(q))
<1>1. run \in [Runs -> Docs] /\ frame \in [Runs -> Frames]
  BY DEF MoreInv, IInv, TypeOK
<1>2. CASE Crash
  <2>1. Fell
    BY <1>2, CrashFell DEF Crash, MoreInv, IInv
  <2> QED BY <1>2, <2>1 DEF Crash, Restarts
<1>3. ASSUME NEW r \in Runs, r # q, Requested(r), UNCHANGED frame PROVE run'[q] = run[q] /\ frame'[q] = frame[q]
  BY <1>1, <1>3 DEF Requested, Save
<1>4. ASSUME NEW r \in Runs, r # q, Outcome(r) PROVE run'[q] = run[q] /\ frame'[q] = frame[q]
  BY <1>1, <1>4 DEF Outcome, Save, Goto
<1>5. ASSUME NEW r \in Runs, r # q, Lost(r) PROVE run'[q] = run[q] /\ frame'[q] \in {frame[q], "idle"} /\ Fell
  <2>1. run'[q] = run[q]
    BY <1>1, <1>5 DEF Lost, Save
  <2>2. frame'[q] \in {frame[q], "idle"}
    BY <1>1, <1>5 DEF Lost, Goes, Goto, Restarts
  <2> QED BY <1>5, <2>1, <2>2 DEF Lost
<1>6. ASSUME NEW r \in Runs, Child(r) PROVE run'[q] = run[q] /\ frame'[q] = frame[q]
  BY <1>6 DEF Child, ChildAnnounces, ChildExits, ChildDies, ChildSavesOver
<1>7. ASSUME NEW r \in Runs, Person(r)
      PROVE  \/ Requested(r) /\ UNCHANGED frame
             \/ run'[q] = run[q] /\ frame'[q] = "idle" /\ Fell
  BY <1>7, PersonRequested DEF Restarts
<1>8. ASSUME NEW r \in Runs, CooldownLapses(r) PROVE Requested(r) /\ UNCHANGED frame
  BY <1>8, CooldownRequested
<1>9. ASSUME NEW r \in Runs, Core(r) PROVE Outcome(r) \/ Lost(r)
  BY <1>9, CoreEnds
<1>10. Crash \/ \E r \in Runs : Person(r) \/ Core(r) \/ Child(r) \/ CooldownLapses(r)
  BY DEF Next
<1> QED BY <1>2, <1>3, <1>4, <1>5, <1>6, <1>7, <1>8, <1>9, <1>10, Zenon

\* the same step, told by the document and the await it leaves
LEMMA OutcomeOf ==
    ASSUME MoreInv, NEW q \in Runs, Outcome(q) PROVE Ends(q, run'[q], frame'[q])
BY DEF Outcome, Save, Goto, MoreInv, IInv, TypeOK

LEMMA LostOf ==
    ASSUME MoreInv, NEW q \in Runs, Lost(q)
    PROVE  /\ Fell /\ frame'[q] = "idle" /\ Keeps(run[q], run'[q]) /\ Quiet(run'[q], "idle")
           /\ run[q].status = "STOPPING" => run'[q].status = "STOPPING"
<1>1. frame'[q] = "idle"
  BY DEF Lost, Goes, Goto, Restarts, MoreInv, IInv, TypeOK
<1> QED BY <1>1 DEF Lost, Save, MoreInv, IInv, TypeOK

LEMMA RequestedOf ==
    ASSUME MoreInv, NEW q \in Runs, Requested(q), UNCHANGED frame
    PROVE  /\ Keeps(run[q], run'[q]) /\ Quiet(run'[q], frame'[q])
           /\ run[q].status = "STOPPING" => run'[q].status \in {"STOPPING", "STOPPED"}
BY DEF Requested, Save, MoreInv, IInv, TypeOK

LEMMA QuietStep == ASSUME MoreInv, AwaitQuiet, Next PROVE AwaitQuiet'
<1>1. ASSUME NEW q \in Runs PROVE Quiet(run'[q], frame'[q])
  <2>1. Quiet(run[q], frame[q])
    BY DEF AwaitQuiet
  <2>2. CASE run'[q] = run[q] /\ frame'[q] = frame[q]
    BY <2>1, <2>2
  <2>3. CASE run'[q] = run[q] /\ frame'[q] = "idle"
    BY <2>1, <2>3 DEF Quiet
  <2>4. CASE Requested(q) /\ UNCHANGED frame
    BY <2>4, RequestedOf
  <2>5. CASE Core(q) /\ Outcome(q)
    <3>1. Ends(q, run'[q], frame'[q])
      BY <2>5, OutcomeOf
    <3>2. frame[q] # "idle" \/ run[q].status \in Active \/ CooledDown(run[q])
      BY <2>1, <2>5, CoreWorks
    <3>3. run[q].status \notin {"ABSENT", "READY_FOR_REVIEW", "APPROVED", "FAILED"}
      BY <2>1, <3>2 DEF Quiet, Active, CooledDown
    <3> QED BY <3>1, <3>3 DEF Ends, Quiet
  <2>6. CASE Lost(q)
    <3>1. frame'[q] = "idle" /\ Quiet(run'[q], "idle")
      BY <2>6, LostOf
    <3> QED BY <3>1
  <2> QED BY <2>2, <2>3, <2>4, <2>5, <2>6, Moves
<1> QED BY <1>1 DEF AwaitQuiet, Quiet, SegOpen

DriveInv == MoreInv /\ AwaitQuiet

LEMMA DriveInductive == Spec => []DriveInv
<1>1. Init => AwaitQuiet
  BY DEF Init, NewDoc, AwaitQuiet, Quiet
<1>2. MoreInv /\ AwaitQuiet /\ [Next]_vars => AwaitQuiet'
  <2> SUFFICES ASSUME MoreInv, AwaitQuiet, [Next]_vars PROVE AwaitQuiet'
    OBVIOUS
  <2>1. CASE UNCHANGED vars
    BY <2>1 DEF vars, AwaitQuiet, Quiet, SegOpen
  <2>2. CASE Next
    BY <2>2, QuietStep
  <2> QED BY <2>1, <2>2
<1> QED BY <1>1, <1>2, MoreInductive, PTL DEF Spec, DriveInv

\* What a run has on record stays on record: a closed segment keeps its exit, a
\* group that is done stays done, and a group keeps the bounded run it was given,
\* through resumes, races of requests with awaits, exceptions and restarts
\* (finishSegment, resume, attributeBoundedRun over workRunStore's save).
THEOREM HistoryKept == Spec => [][\A r \in Runs : Keeps(run[r], run'[r])]_vars
<1>1. DriveInv /\ [Next]_vars => [\A r \in Runs : Keeps(run[r], run'[r])]_vars
  <2> SUFFICES ASSUME MoreInv, AwaitQuiet, Next, NEW q \in Runs PROVE Keeps(run[q], run'[q])
    BY DEF DriveInv
  <2>1. Keeps(run[q], run[q])
    BY DriveFacts
  <2>2. CASE Outcome(q)
    BY <2>2, OutcomeOf DEF Ends
  <2> QED BY <2>1, <2>2, Moves, RequestedOf, LostOf
<1> QED BY <1>1, DriveInductive, PTL DEF Spec

\* A graceful stop is only ever answered by the stop: no other request, launch,
\* restart of the service or end of the child takes a run out of STOPPING, save
\* an exception inside the step that carries it out (stop, finishSegment, step).
THEOREM StopIsKept ==
    Spec => [][\A r \in Runs : run[r].status = "STOPPING" =>
                  run'[r].status \in {"STOPPING", "STOPPED"} \/ faults'.errors # faults.errors]_vars
<1>1. DriveInv /\ [Next]_vars =>
        [\A r \in Runs : run[r].status = "STOPPING" =>
            run'[r].status \in {"STOPPING", "STOPPED"} \/ faults'.errors # faults.errors]_vars
  <2> SUFFICES ASSUME MoreInv, AwaitQuiet, Next, NEW q \in Runs, run[q].status = "STOPPING"
               PROVE  run'[q].status \in {"STOPPING", "STOPPED"} \/ Failed
    BY DEF DriveInv, Failed
  <2>1. CASE Outcome(q)
    BY <2>1, OutcomeOf DEF Ends
  <2> QED BY <2>1, Moves, RequestedOf, LostOf
<1> QED BY <1>1, DriveInductive, PTL DEF Spec

\* The loop leaves a settled run alone, but for one way in: it touches a STOPPED
\* run, and only to finish a step that was awaiting something when a person
\* stopped it.  A run in review, approved or failed is never touched (tick, step).
THEOREM SettledMovedByAwaited ==
    Spec => [][\A r \in Runs : run[r].status \in Settled /\ Core(r) => run[r].status = "STOPPED" /\ frame[r] # "idle"]_vars
<1>1. DriveInv /\ [Next]_vars =>
        [\A r \in Runs : run[r].status \in Settled /\ Core(r) => run[r].status = "STOPPED" /\ frame[r] # "idle"]_vars
  <2> SUFFICES ASSUME AwaitQuiet, NEW q \in Runs, run[q].status \in Settled, Core(q)
               PROVE  run[q].status = "STOPPED" /\ frame[q] # "idle"
    BY DEF DriveInv
  <2>1. Quiet(run[q], frame[q])
    BY DEF AwaitQuiet
  <2>2. frame[q] # "idle" \/ run[q].status \in Active \/ CooledDown(run[q])
    BY <2>1, CoreWorks
  <2>3. frame[q] # "idle"
    BY <2>2 DEF Settled, Active, CooledDown
  <2> QED BY <2>1, <2>3 DEF Settled, Quiet
<1> QED BY <1>1, DriveInductive, PTL DEF Spec

\* the work left of one run: each step of the loop lessens it, and only a request or a lapsed cooldown adds to it
WorkShrinks(r) ==
    /\ Core(r) /\ Working(run[r], frame[r]) => WorkLeft(r)' < WorkLeft(r)
    /\ Person(r) \/ (CooledDown(run[r]) /\ LaunchNext(r)) \/ WorkLeft(r)' <= WorkLeft(r)

LEMMA WorkStep ==
    ASSUME MoreInv, MoreInv', AwaitQuiet, Next, ~Fell, NEW q \in Runs
    PROVE  WorkShrinks(q)
<1> DEFINE before == WorkOf(run[q], frame[q])
           after == WorkOf(run'[q], frame'[q])
<1>1. /\ run[q] \in Docs /\ Len(run[q].segs) <= MaxSegments /\ run'[q] \in Docs /\ Len(run'[q].segs) <= MaxSegments
      /\ Quiet(run[q], frame[q])
  BY DEF MoreInv, IInv, TypeOK, AwaitQuiet
<1>2. WorkLeft(q) = before /\ WorkLeft(q)' = after
  BY DEF WorkLeft
<1>3. before \in Nat /\ after \in Nat /\ (Working(run[q], frame[q]) <=> before # 0)
  BY <1>1, WorkTypes, ConstantsAssumption
<1>4. ASSUME Core(q) PROVE Working(run[q], frame[q]) => after < before
  <2>1. Outcome(q)
    BY <1>4, CoreEnds, LostOf
  <2>2. Shorter(run[q], frame[q], run'[q], frame'[q])
    BY <2>1, OutcomeOf DEF Ends
  <2> QED BY <1>1, <2>2, ShorterLess
<1>5. Person(q) \/ (CooledDown(run[q]) /\ LaunchNext(q)) \/ after <= before
  <2>1. CASE run'[q] = run[q] /\ frame'[q] = frame[q]
    BY <1>3, <2>1
  <2>2. CASE CooldownLapses(q)
    <3>1. PICK e : Save(q, e) /\ e.segs = run[q].segs /\ e.status = run[q].status /\ e.boundedRunId = run[q].boundedRunId
      BY <2>2, CooldownRequested
    <3>2. run'[q] = e /\ UNCHANGED frame
      BY <2>2, <3>1 DEF Save, MoreInv, IInv, TypeOK, CooldownLapses
    <3>3. WorkOf(e, frame[q]) = before
      BY <3>1 DEF WorkOf, Working, Phase, SegOpen
    <3> QED BY <1>3, <3>2, <3>3
  <2>3. CASE Core(q)
    <3>1. Working(run[q], frame[q]) \/ (CooledDown(run[q]) /\ LaunchNext(q))
      BY <1>1, <2>3, CoreWorks DEF Working
    <3> QED BY <1>3, <1>4, <2>3, <3>1
  <2> QED BY <2>1, <2>2, <2>3, Moves
<1> HIDE DEF before, after
<1> QED BY <1>2, <1>4, <1>5 DEF WorkShrinks

\* The Core never drives for ever: what it can still do for a run is bounded by
\* the segment budget, is nothing only once the run rests, and grows less with
\* every step of the loop, whatever the child or the Commander answered; only a
\* person, a lapsed cooldown or a restart of the service gives a run more (tick,
\* launchNext, watchSegment, finishSegment, finalize).
THEOREM DriveShortens ==
    Spec => /\ [](\A r \in Runs : /\ WorkLeft(r) \in 0 .. 7 * MaxSegments + 6
                                  /\ WorkLeft(r) = 0 <=> run[r].status \notin Active /\ frame[r] = "idle")
            /\ [][faults'.crashes = faults.crashes /\ faults'.lost = faults.lost => \A r \in Runs : WorkShrinks(r)]_vars
<1>1. DriveInv => \A r \in Runs : /\ WorkLeft(r) \in 0 .. 7 * MaxSegments + 6
                                  /\ WorkLeft(r) = 0 <=> run[r].status \notin Active /\ frame[r] = "idle"
  <2> SUFFICES ASSUME MoreInv, NEW r \in Runs
               PROVE  /\ WorkLeft(r) \in 0 .. 7 * MaxSegments + 6
                      /\ WorkLeft(r) = 0 <=> run[r].status \notin Active /\ frame[r] = "idle"
    BY DEF DriveInv
  <2>1. run[r] \in Docs /\ Len(run[r].segs) <= MaxSegments
    BY DEF MoreInv, IInv, TypeOK
  <2> QED BY <2>1, WorkTypes DEF WorkLeft, Working
<1>2. DriveInv /\ DriveInv' /\ [Next]_vars =>
        [faults'.crashes = faults.crashes /\ faults'.lost = faults.lost => \A r \in Runs : WorkShrinks(r)]_vars
  BY WorkStep DEF DriveInv, Fell
<1> QED BY <1>1, <1>2, DriveInductive, PTL DEF Spec

\* what a person does to a run that stops moves neither its segments nor its child
LEMMA StopRepeated ==
    ASSUME MoreInv, ~Fell, NEW q \in Runs, run[q].status = "STOPPING", Person(q)
    PROVE  /\ run'[q].segs = run[q].segs /\ run'[q].boundedRunId = run[q].boundedRunId
           /\ run'[q].status \in {"STOPPING", "STOPPED"} /\ UNCHANGED frame
<1>1. run \in [Runs -> Docs] /\ run[q] \in Docs
  BY DEF MoreInv, IInv, TypeOK
<1>2. \A e : Save(q, e) => run'[q] = e
  BY <1>1 DEF Save
<1>3. CASE RequestFails(q)
  <2>1. UNCHANGED frame
    BY <1>3, CrashFell DEF RequestFails, MoreInv, IInv
  <2> QED BY <1>3, <2>1 DEF RequestFails
<1>4. CASE Stop(q)
  <2>1. PICK e : Save(q, e) /\ e.segs = run[q].segs /\ e.boundedRunId = run[q].boundedRunId
                 /\ e.status \in {"STOPPING", "STOPPED"}
    <3>1. /\ [run[q] EXCEPT !.status = "STOPPING", !.stopRequested = TRUE].segs = run[q].segs
          /\ [run[q] EXCEPT !.status = "STOPPING", !.stopRequested = TRUE].boundedRunId = run[q].boundedRunId
          /\ [run[q] EXCEPT !.status = "STOPPING", !.stopRequested = TRUE].status = "STOPPING"
      BY <1>1 DEF Docs
    <3>2. /\ StoppedNow(run[q]).segs = run[q].segs /\ StoppedNow(run[q]).boundedRunId = run[q].boundedRunId
          /\ StoppedNow(run[q]).status = "STOPPED"
      BY <1>1 DEF Docs, StoppedNow
    <3>3. \/ Save(q, [run[q] EXCEPT !.status = "STOPPING", !.stopRequested = TRUE])
          \/ Save(q, StoppedNow(run[q]))
      BY <1>4 DEF Stop
    <3>4. CASE Save(q, [run[q] EXCEPT !.status = "STOPPING", !.stopRequested = TRUE])
      <4>. WITNESS [run[q] EXCEPT !.status = "STOPPING", !.stopRequested = TRUE]
      <4>. QED BY <3>1, <3>4
    <3>5. CASE Save(q, StoppedNow(run[q]))
      <4>. WITNESS StoppedNow(run[q])
      <4>. QED BY <3>2, <3>5
    <3>. QED BY <3>3, <3>4, <3>5
  <2>2. UNCHANGED frame
    BY <1>4 DEF Stop
  <2> QED BY <1>2, <2>1, <2>2
<1> QED BY <1>3, <1>4 DEF Person, Create, Pause, Resume, Approve, SendBack

\* A graceful stop comes nearer with every step of the loop and nobody can put it
\* off: while it is under way the work left of its run falls with each step and is
\* not raised by any request, by the child, or by what befalls other runs; only
\* a restart of the service begins the watch of the child anew (stop, watchSegment,
\* finishSegment).
THEOREM StopShortens ==
    Spec => [][faults'.crashes = faults.crashes /\ faults'.lost = faults.lost =>
                  \A r \in Runs : run[r].status = "STOPPING" =>
                      /\ WorkLeft(r) > 0 /\ WorkLeft(r)' <= WorkLeft(r)
                      /\ Core(r) => WorkLeft(r)' < WorkLeft(r)]_vars
<1>1. DriveInv /\ DriveInv' /\ [Next]_vars =>
        [faults'.crashes = faults.crashes /\ faults'.lost = faults.lost =>
            \A r \in Runs : run[r].status = "STOPPING" =>
                /\ WorkLeft(r) > 0 /\ WorkLeft(r)' <= WorkLeft(r)
                /\ Core(r) => WorkLeft(r)' < WorkLeft(r)]_vars
  <2> SUFFICES ASSUME DriveInv, DriveInv', Next, ~Fell, NEW q \in Runs, run[q].status = "STOPPING"
               PROVE  /\ WorkLeft(q) > 0 /\ WorkLeft(q)' <= WorkLeft(q)
                      /\ Core(q) => WorkLeft(q)' < WorkLeft(q)
    BY DEF Fell
  <2>1. WorkShrinks(q)
    BY WorkStep DEF DriveInv
  <2>2. Working(run[q], frame[q]) /\ ~CooledDown(run[q])
    BY DEF Working, Active, CooledDown
  <2>3. /\ run[q] \in Docs /\ Len(run[q].segs) <= MaxSegments
        /\ run'[q] \in Docs /\ Len(run'[q].segs) <= MaxSegments
    BY DEF DriveInv, MoreInv, IInv, TypeOK
  <2>4. WorkLeft(q) \in Nat /\ WorkLeft(q) # 0 /\ WorkLeft(q)' \in Nat
    BY <2>2, <2>3, WorkTypes, ConstantsAssumption DEF WorkLeft
  <2>5. ASSUME Person(q) PROVE WorkLeft(q)' <= WorkLeft(q)
    <3>1. /\ run'[q].segs = run[q].segs /\ run'[q].boundedRunId = run[q].boundedRunId
          /\ frame'[q] = frame[q]
      BY <2>5, StopRepeated DEF DriveInv
    <3>2. WorkLeft(q)' = IF Working(run'[q], frame'[q]) THEN WorkLeft(q) ELSE 0
      BY <2>2, <3>1 DEF WorkLeft, WorkOf, Phase, SegOpen
    <3> QED BY <2>4, <3>2
  <2> QED BY <2>1, <2>2, <2>4, <2>5 DEF WorkShrinks
<1> QED BY <1>1, DriveInductive, PTL DEF Spec

=============================================================================
