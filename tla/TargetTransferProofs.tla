------------------------ MODULE TargetTransferProofs ------------------------
(***************************************************************************)
(* Type correctness of TargetTransfer for every number of commands at the  *)
(* same time; that its registries implement Ownership and that tombstones  *)
(* are unused, as long as no registry is written while another command     *)
(* relies on what it has read; and that no transfer is abandoned or closed *)
(* half done, if there is also one transfer at a time on a Target.  The    *)
(* inductive invariants say that what a command has read, once it relies   *)
(* on it, still is what the files say, what its scans have established and *)
(* what it has found or made.                                              *)
(***************************************************************************)
EXTENDS TargetTransfer, TLAPS

USE DEF Files

-----------------------------------------------------------------------------
(* Types *)

Procs == [step: Steps, job: Jobs \cup {None}, seen: [Roots -> Registry],
          next: Nat, status: RecordStatuses \cup {None}]

\* a process at work has a job and a place in the order of the roots
Sound == {q \in Procs : q.step # "idle" => q.job \in Jobs /\ q.next \in 1 .. Len(RootOrder)}

TypeInv == TypeOK /\ \A p \in Processes : proc[p] \in Sound

LEMMA IdleSound == Idle \in Sound
BY DEF Idle, Sound, Procs, Steps, Registry, Unread, Entries

LEMMA JobTyped ==
    ASSUME NEW t \in Records, NEW op \in Commands
    PROVE  JobOf(op, t) \in Jobs
BY TransferAssumption DEF JobOf, Jobs

LEMMA RootsInOrder ==
    /\ RootOrder \in Seq(Roots) /\ Len(RootOrder) \in Nat
    /\ \A i \in 1 .. Len(RootOrder) : RootOrder[i] \in Roots
    /\ \A a \in Roots : \E i \in 1 .. Len(RootOrder) : RootOrder[i] = a
    /\ Roots # {} => 1 \in 1 .. Len(RootOrder)
<1>1. RootOrder \in Seq(Roots) /\ Len(RootOrder) \in Nat /\ DOMAIN RootOrder = 1 .. Len(RootOrder)
  BY TransferAssumption
<1>2. \A i \in 1 .. Len(RootOrder) : RootOrder[i] \in Roots
  BY <1>1
<1>3. \A a \in Roots : \E i \in 1 .. Len(RootOrder) : RootOrder[i] = a
  BY <1>1, TransferAssumption
<1>4. ASSUME Roots # {} PROVE 1 \in 1 .. Len(RootOrder)
  <2>1. PICK a \in Roots : TRUE
    BY <1>4
  <2>2. PICK i \in 1 .. Len(RootOrder) : RootOrder[i] = a
    BY <1>3
  <2>. QED BY <2>2, <1>1
<1>. QED BY <1>1, <1>2, <1>3, <1>4

LEMMA JobHasRoots ==
    ASSUME NEW j \in Jobs
    PROVE  j.root \in Roots /\ j.repo \in Repos /\ Roots # {} /\ (j.rec # None => j.rec \in Records)
BY DEF Jobs

\* a command that starts
LEMMA StartSound ==
    ASSUME NEW j \in Jobs, NEW step \in Steps
    PROVE  /\ [Idle EXCEPT !.step = step, !.job = j] \in Sound
           /\ \A st \in RecordStatuses : [Idle EXCEPT !.step = step, !.job = j, !.status = st] \in Sound
<1>1. 1 \in 1 .. Len(RootOrder)
  BY JobHasRoots, RootsInOrder
<1>2. \A q \in Procs : q.next = 1 =>
          /\ [q EXCEPT !.step = step, !.job = j] \in Sound
          /\ \A st \in RecordStatuses : [q EXCEPT !.step = step, !.job = j, !.status = st] \in Sound
  BY <1>1 DEF Sound, Procs
<1>3. Idle \in Procs /\ Idle.next = 1
  BY IdleSound DEF Idle, Sound
<1>. QED BY <1>2, <1>3

\* a process keeps its soundness under every change the actions make
LEMMA StepSound ==
    ASSUME NEW q \in Sound, q.step # "idle", NEW step \in Steps
    PROVE  /\ [q EXCEPT !.step = step, !.next = 1] \in Sound
           /\ [q EXCEPT !.step = step] \in Sound
<1>1. q.job \in Jobs
  BY DEF Sound, Procs
<1>2. 1 \in 1 .. Len(RootOrder)
  BY <1>1, JobHasRoots, RootsInOrder
<1>. QED BY <1>2 DEF Sound, Procs

LEMMA OnwardSound ==
    ASSUME NEW q \in Sound, q.step # "idle", NEW step \in Steps
    PROVE  Onward(q, step) \in Sound
<1>1. ASSUME q.next < Len(RootOrder) PROVE [q EXCEPT !.next = q.next + 1] \in Sound
  <2>1. q.next + 1 \in Nat /\ q.next + 1 \in 1 .. Len(RootOrder)
    BY <1>1, RootsInOrder DEF Sound, Procs
  <2>2. \A n \in 1 .. Len(RootOrder) : n \in Nat => [q EXCEPT !.next = n] \in Sound
    BY DEF Sound, Procs
  <2>. QED BY <2>1, <2>2
<1>2. [q EXCEPT !.step = step, !.next = 1] \in Sound
  BY StepSound
<1>. QED BY <1>1, <1>2 DEF Onward

LEMMA KeepSound ==
    ASSUME TypeOK, NEW q \in Sound, NEW a \in Roots
    PROVE  Keep(q, a) \in Sound /\ Keep(q, a).step = q.step
<1>. DEFINE read == [q.seen EXCEPT ![a] = registry[a]]
<1>1. read \in [Roots -> Registry]
  BY DEF Sound, Procs, TypeOK
<1>2. Keep(q, a) = [q EXCEPT !.seen = read]
  BY DEF Keep, Sound, Procs
<1>. HIDE DEF read
<1>3. [q EXCEPT !.seen = read] \in Sound /\ [q EXCEPT !.seen = read].step = q.step
  BY <1>1 DEF Sound, Procs
<1>. QED BY <1>2, <1>3

LEMMA BecomesSound ==
    ASSUME TypeInv, NEW p \in Processes, NEW q \in Sound, Becomes(p, q)
    PROVE  proc' \in [Processes -> Procs] /\ \A r \in Processes : proc'[r] \in Sound
BY DEF TypeInv, TypeOK, Becomes, Procs, Sound

LEMMA RefuseSound ==
    ASSUME TypeInv, NEW p \in Processes, Refuse(p)
    PROVE  proc' \in [Processes -> Procs] /\ \A r \in Processes : proc'[r] \in Sound
BY BecomesSound, IdleSound DEF Refuse

LEMMA ChooseSound ==
    ASSUME TypeInv, NEW p \in Processes, proc[p].step # "idle", NEW step \in Steps, Goto(p, step) \/ Refuse(p)
    PROVE  proc' \in [Processes -> Procs] /\ \A r \in Processes : proc'[r] \in Sound
<1>1. [proc[p] EXCEPT !.step = step, !.next = 1] \in Sound
  BY StepSound DEF TypeInv
<1>. QED BY <1>1, BecomesSound, RefuseSound DEF Goto

\* the job of a process at work
LEMMA AtWork ==
    ASSUME TypeInv, NEW p \in Processes, proc[p].step # "idle"
    PROVE  /\ proc[p] \in Sound /\ Job(p) \in Jobs /\ Job(p).root \in Roots /\ Job(p).repo \in Repos
           /\ Home(p) \in Roots /\ Reading(p) \in Roots
<1>1. proc[p] \in Sound /\ Job(p) \in Jobs /\ proc[p].next \in 1 .. Len(RootOrder)
  BY DEF TypeInv, Sound, Procs, Job
<1>2. Job(p).root \in Roots /\ Job(p).repo \in Repos /\ (Job(p).rec # None => Job(p).rec \in Records)
  BY <1>1, JobHasRoots
<1>3. Home(p) \in Roots
  BY <1>2, TransferAssumption DEF Home
<1>4. Reading(p) \in Roots
  BY <1>1, RootsInOrder DEF Reading
<1>. QED BY <1>1, <1>2, <1>3, <1>4

-----------------------------------------------------------------------------
(* Every action keeps the types *)

LEMMA TypeInit == Init => TypeInv
<1>. SUFFICES ASSUME Init PROVE TypeInv
  OBVIOUS
<1>1. registry \in [Roots -> Registry]
  BY DEF Init, Registry, Entries
<1>2. proc \in [Processes -> Procs] /\ \A p \in Processes : proc[p] \in Sound
  BY IdleSound DEF Init, Sound
<1>. QED BY <1>1, <1>2 DEF Init, TypeInv, TypeOK, Procs, RecordStatuses

LEMMA TypeStep == TypeInv /\ [Next]_vars => TypeInv'
<1>. SUFFICES ASSUME TypeInv, [Next]_vars PROVE TypeInv'
  OBVIOUS
<1>. DEFINE ProcTyped == proc' \in [Processes -> Procs] /\ \A r \in Processes : proc'[r] \in Sound
<1>0. ASSUME UNCHANGED Files, ProcTyped
      PROVE  TypeInv'
  BY <1>0 DEF TypeInv, TypeOK, Procs
<1>1. ASSUME NEW p \in Processes, NEW t \in Records, NEW op \in Commands, OpenRecord(p, op, t)
      PROVE  TypeInv'
  <2>1. [Idle EXCEPT !.step = "source", !.job = JobOf(op, t), !.status = record[t]] \in Sound
    BY JobTyped, StartSound DEF TypeInv, TypeOK, Steps
  <2>. QED BY <2>1, <1>1, <1>0, BecomesSound DEF OpenRecord
<1>2. ASSUME NEW p \in Processes, NEW a \in Roots, NEW x \in Repos, Configure(p, a, x)
      PROVE  TypeInv'
  <2>. DEFINE j == [op |-> "configure", rec |-> None, root |-> a, repo |-> x]
  <2>1. j \in Jobs
    BY DEF Jobs
  <2>2. [Idle EXCEPT !.step = "snapshot", !.job = j] \in Sound
    BY <2>1, StartSound DEF Steps
  <2>. QED BY <2>2, <1>2, <1>0, BecomesSound DEF Configure
<1>3. ASSUME NEW p \in Processes, ReadSource(p)
      PROVE  TypeInv'
  <2>1. proc[p] \in Sound /\ Home(p) \in Roots /\ proc[p].step # "idle"
    BY <1>3, AtWork DEF ReadSource, At
  <2>2. Keep(proc[p], Home(p)) \in Sound /\ Keep(proc[p], Home(p)).step # "idle"
    BY <2>1, KeepSound DEF TypeInv
  <2>3. AfterSource(Job(p).op) \in Steps
    BY DEF AfterSource, Steps
  <2>4. [Keep(proc[p], Home(p)) EXCEPT !.step = AfterSource(Job(p).op)] \in Sound
    BY <2>2, <2>3, StepSound
  <2>5. ProcTyped
    BY <1>3, <2>4, BecomesSound, RefuseSound DEF ReadSource
  <2>. QED BY <2>5, <1>3, <1>0 DEF ReadSource
<1>4. ASSUME NEW p \in Processes, CheckUses(p) \/ ReadDestination(p) \/ Decide(p) \/ Reread(p) \/ Judge(p)
      PROVE  TypeInv'
  <2>1. proc[p].step # "idle" /\ UNCHANGED Files
    BY <1>4 DEF CheckUses, ReadDestination, Decide, Reread, Judge, At
  <2>2. \E step \in Steps : Goto(p, step) \/ Refuse(p)
    <3>1. CASE CheckUses(p)
      BY <3>1 DEF CheckUses, Choose, Steps
    <3>2. CASE ReadDestination(p)
      BY <3>2 DEF ReadDestination, Choose, Steps
    <3>3. CASE Decide(p)
      BY <3>3 DEF Decide, Choose, Steps
    <3>4. CASE Reread(p)
      BY <3>4 DEF Reread, Choose, Steps
    <3>5. CASE Judge(p)
      BY <3>5 DEF Judge, Choose, Steps
    <3>. QED BY <1>4, <3>1, <3>2, <3>3, <3>4, <3>5
  <2>3. ProcTyped
    BY <2>1, <2>2, ChooseSound
  <2>. QED BY <2>1, <2>3, <1>0
<1>5. ASSUME NEW p \in Processes, Snapshot(p) \/ Audit(p)
      PROVE  TypeInv'
  <2>1. proc[p].step # "idle" /\ UNCHANGED Files
    BY <1>5 DEF Snapshot, Audit, At
  <2>2. proc[p] \in Sound /\ Reading(p) \in Roots
    BY <2>1, AtWork
  <2>3. Keep(proc[p], Reading(p)) \in Sound /\ Keep(proc[p], Reading(p)).step # "idle"
    BY <2>1, <2>2, KeepSound DEF TypeInv
  <2>4. \A step \in Steps : Onward(Keep(proc[p], Reading(p)), step) \in Sound
    BY <2>3, OnwardSound
  <2>5. ProcTyped
    BY <1>5, <2>4, BecomesSound DEF Snapshot, Audit, Steps
  <2>. QED BY <2>1, <2>5, <1>0
<1>6. ASSUME NEW p \in Processes, Fresh(p) \/ ScanOwners(p)
      PROVE  TypeInv'
  <2>1. proc[p].step # "idle" /\ UNCHANGED Files
    BY <1>6 DEF Fresh, ScanOwners, At
  <2>2. \A step \in Steps : Onward(proc[p], step) \in Sound
    BY <2>1, AtWork, OnwardSound
  <2>3. ProcTyped
    BY <1>6, <2>2, BecomesSound, RefuseSound DEF Fresh, ScanOwners, Steps
  <2>. QED BY <2>1, <2>3, <1>0
<1>7. ASSUME NEW p \in Processes, WriteRegistry(p)
      PROVE  TypeInv'
  <2>. DEFINE a == Job(p).root
              x == Job(p).repo
              new == [proc[p].seen[a] EXCEPT ![x] = Entry(Job(p).op)]
  <2>1. proc[p].step # "idle"
    BY <1>7 DEF WriteRegistry, At
  <2>2. proc[p] \in Procs /\ a \in Roots /\ x \in Repos
    BY <2>1, AtWork DEF Sound
  <2>3. new \in Registry
    <3>1. Entry(Job(p).op) \in Entries
      BY DEF Entry, Entries
    <3>2. proc[p].seen[a] \in Registry
      BY <2>2 DEF Procs
    <3>. QED BY <3>1, <3>2 DEF Registry
  <2>4. registry' \in [Roots -> Registry]
    BY <1>7, <2>2, <2>3 DEF WriteRegistry, TypeInv, TypeOK
  <2>5. ProcTyped
    BY <1>7, <2>1, ChooseSound, RefuseSound DEF WriteRegistry, Choose, Steps
  <2>. QED BY <1>7, <2>4, <2>5 DEF WriteRegistry, TypeInv, TypeOK, Procs
<1>8. ASSUME NEW p \in Processes, SaveRecord(p)
      PROVE  TypeInv'
  <2>1. record' \in [Records -> RecordStatuses]
    BY <1>8 DEF SaveRecord, TypeInv, TypeOK, Outcome, RecordStatuses
  <2>2. ProcTyped
    BY <1>8, RefuseSound DEF SaveRecord
  <2>. QED BY <1>8, <2>1, <2>2 DEF SaveRecord, TypeInv, TypeOK, Procs
<1>9. ASSUME NEW p \in Processes, Die(p)
      PROVE  TypeInv'
  BY <1>9, <1>0, RefuseSound DEF Die
<1>10. ASSUME NEW a \in Roots, NEW x \in Repos, Use(a, x) \/ EndUse(a, x)
       PROVE  TypeInv'
  <2>1. UNCHANGED <<registry, record, proc>>
    BY <1>10 DEF Use, EndUse
  <2>2. \E s, l \in SUBSET Repos : inUse' = [inUse EXCEPT ![a] = s] /\ late' \in {late, [late EXCEPT ![a] = l]}
    <3>1. /\ inUse[a] \cup {x} \in SUBSET Repos /\ inUse[a] \ {x} \in SUBSET Repos
          /\ late[a] \cup {x} \in SUBSET Repos /\ late[a] \ {x} \in SUBSET Repos
      BY DEF TypeInv, TypeOK
    <3>2. CASE Use(a, x)
      BY <3>1, <3>2 DEF Use
    <3>3. CASE EndUse(a, x)
      BY <3>1, <3>3 DEF EndUse
    <3>. QED BY <1>10, <3>2, <3>3
  <2>3. inUse' \in [Roots -> SUBSET Repos] /\ late' \in [Roots -> SUBSET Repos]
    BY <2>2 DEF TypeInv, TypeOK
  <2>. QED BY <2>1, <2>3 DEF TypeInv, TypeOK
<1>11. ASSUME UNCHANGED vars
       PROVE  TypeInv'
  BY <1>11 DEF vars, TypeInv, TypeOK
<1>12. CASE Next
  BY <1>12, <1>1, <1>2, <1>3, <1>4, <1>5, <1>6, <1>7, <1>8, <1>9, <1>10 DEF Next, Command
<1>. QED BY <1>11, <1>12

\* Every reachable state has the types of the files and of the commands
\* (the schemas of targets.yaml and of the transfer record).
THEOREM TypeCorrect == Spec => []TypeOK
<1>1. TypeInv => TypeOK
  BY DEF TypeInv
<1>. QED BY <1>1, TypeInit, TypeStep, PTL DEF Spec

-----------------------------------------------------------------------------
(* Commands that overlap *)

\* a command has begun the reads its write rests on: the fresh read of the
\* registries before a registration, the scan for owners of a rollback, and
\* for every command the last step before the write
Relies(q) ==
    \/ q.step = "write"
    \/ q.step \in {"fresh", "owners"} /\ q.next > 1
    \/ q.step = "reread" /\ q.job.op = "rollback"

\* no registry changes while another command relies on what it has read
Apart == \A p \in Processes : WriteRegistry(p) /\ registry' # registry =>
             \A r \in Processes : r # p => ~Relies(proc[r])

\* the steps a command goes through, and the root a release or rollback writes
Phases(op) ==
    CASE op = "release"   -> {"source", "uses", "reread", "write", "save"}
      [] op = "rollback"  -> {"source", "owners", "reread", "write", "save"}
      [] op = "verify"    -> {"source", "destination", "audit", "judge", "save"}
      [] op = "register"  -> {"source", "destination", "snapshot", "decide", "fresh", "write"}
      [] op = "configure" -> {"snapshot", "decide", "fresh", "write"}
      [] OTHER            -> {}
Shape(q) == q.step # "idle" =>
    /\ q.step \in Phases(q.job.op) /\ (q.step = "source" => q.next = 1)
    /\ q.job.op \in {"release", "rollback"} => q.job.rec \in Records /\ q.job.root = Source[q.job.rec]

\* what a command at work knows of the registries
HasRead(q, reg) == q.job.op \in {"release", "rollback"} /\ q.step = "write" => q.seen[q.job.root] = reg[q.job.root]
MayRelease(q) == q.job.op = "release" /\ q.step \in {"uses", "reread", "write"} =>
    q.job.root \in Owners(q.seen, q.job.repo)
NoOwnerSoFar(q, reg) ==
    /\ q.step = "owners" => \A i \in 1 .. q.next - 1 : RootOrder[i] \notin Owners(reg, q.job.repo)
    /\ q.job.op = "rollback" /\ q.step \in {"reread", "write"} => Owners(reg, q.job.repo) = {}
SnapshotHolds(q, reg) ==
    /\ q.step = "fresh" => \A i \in 1 .. q.next - 1 : q.seen[RootOrder[i]] = reg[RootOrder[i]]
    /\ q.job.op \in {"register", "configure"} /\ q.step = "write" => q.seen = reg
    /\ q.job.op \in {"register", "configure"} /\ q.step \in {"fresh", "write"} =>
            Owners(q.seen, q.job.repo) \subseteq {q.job.root}
Knows(q, reg) == HasRead(q, reg) /\ MayRelease(q) /\ NoOwnerSoFar(q, reg) /\ SnapshotHolds(q, reg)

OneOwner == \A x \in Repos : \A a, b \in Owners(registry, x) : a = b

KnowInv == TypeInv /\ OneOwner /\ \A p \in Processes : Shape(proc[p]) /\ Knows(proc[p], registry)

\* a command that has ended, or has only its record to write, needs to know nothing
LEMMA KnowsNothing ==
    ASSUME NEW q, NEW reg, q.step \in {"idle", "source", "destination", "audit", "judge", "save", "snapshot", "decide"}
    PROVE  Knows(q, reg)
BY DEF Knows, HasRead, MayRelease, NoOwnerSoFar, SnapshotHolds

\* what a command knows before it relies on anything is no business of the others
LEMMA NotRelying ==
    ASSUME NEW q \in Sound, NEW reg, NEW to, Knows(q, reg), ~Relies(q)
    PROVE  Knows(q, to)
<1>1. q.step \in {"fresh", "owners"} => 1 .. q.next - 1 = {}
  <2>1. q.step \in {"fresh", "owners"} => q.next \in 1 .. Len(RootOrder) /\ ~(q.next > 1)
    BY DEF Sound, Relies
  <2>2. \A n \in 1 .. Len(RootOrder) : ~(n > 1) => 1 .. n - 1 = {}
    BY RootsInOrder
  <2>. QED BY <2>1, <2>2
<1>2. q.step # "write" /\ ~(q.step = "reread" /\ q.job.op = "rollback")
  BY DEF Relies
<1>3. HasRead(q, to) /\ MayRelease(q)
  BY <1>2 DEF Knows, HasRead
<1>4. NoOwnerSoFar(q, to)
  BY <1>1, <1>2 DEF NoOwnerSoFar
<1>5. SnapshotHolds(q, to)
  BY <1>1, <1>2 DEF Knows, SnapshotHolds
<1>. QED BY <1>3, <1>4, <1>5 DEF Knows

LEMMA IdleFine == \A reg : Shape(Idle) /\ Knows(Idle, reg)
<1>1. Idle.step = "idle"
  BY DEF Idle
<1>. QED BY <1>1, KnowsNothing DEF Shape

\* a step moves its own process only
LEMMA OthersStay ==
    ASSUME TypeInv, NEW p \in Processes, NEW q, Becomes(p, q)
    PROVE  proc'[p] = q /\ \A r \in Processes : r # p => proc'[r] = proc[r]
BY DEF TypeInv, TypeOK, Becomes

\* a step that writes no registry
LEMMA QuietStep ==
    ASSUME KnowInv, TypeInv', UNCHANGED registry, NEW p \in Processes, NEW q, Becomes(p, q),
           Shape(q), Knows(q, registry)
    PROVE  KnowInv' /\ UNCHANGED TheOwners
<1>1. \A r \in Processes : Shape(proc'[r]) /\ Knows(proc'[r], registry')
  BY OthersStay DEF KnowInv
<1>2. OneOwner' /\ UNCHANGED TheOwners
  BY DEF KnowInv, OneOwner, Owners, TheOwners
<1>. QED BY <1>1, <1>2 DEF KnowInv

\* which commands are at which step
LEMMA OpAt ==
    ASSUME NEW q, Shape(q), q.step # "idle"
    PROVE  /\ q.step = "uses" => q.job.op = "release"
           /\ q.step = "owners" => q.job.op = "rollback"
           /\ q.step = "reread" => q.job.op \in {"release", "rollback"}
           /\ q.step \in {"audit", "judge"} => q.job.op = "verify"
           /\ q.step = "source" => q.job.op \in Commands
           /\ q.step = "destination" => q.job.op \in {"register", "verify"}
           /\ q.step \in {"snapshot", "decide", "fresh"} => q.job.op \in {"register", "configure"}
           /\ q.step = "write" => q.job.op \in {"release", "rollback", "register", "configure"}
<1>1. q.job.op \in Commands \cup {"configure"} /\ q.step \in Phases(q.job.op)
  BY DEF Shape, Phases, Commands
<1>. QED BY <1>1 DEF Phases, Commands

LEMMA GotoFields ==
    ASSUME NEW q \in Procs, NEW step
    PROVE  /\ [q EXCEPT !.step = step, !.next = 1].step = step
           /\ [q EXCEPT !.step = step, !.next = 1].next = 1
           /\ [q EXCEPT !.step = step, !.next = 1].job = q.job
           /\ [q EXCEPT !.step = step, !.next = 1].seen = q.seen
BY DEF Procs

LEMMA StepFields ==
    ASSUME NEW q \in Procs, NEW step
    PROVE  /\ [q EXCEPT !.step = step].step = step
           /\ [q EXCEPT !.step = step].next = q.next
           /\ [q EXCEPT !.step = step].job = q.job
           /\ [q EXCEPT !.step = step].seen = q.seen
BY DEF Procs

LEMMA OnwardFields ==
    ASSUME NEW q \in Procs, NEW step
    PROVE  /\ Onward(q, step).job = q.job /\ Onward(q, step).seen = q.seen
           /\ q.next < Len(RootOrder) => Onward(q, step).step = q.step /\ Onward(q, step).next = q.next + 1
           /\ ~(q.next < Len(RootOrder)) => Onward(q, step).step = step /\ Onward(q, step).next = 1
BY DEF Procs, Onward

LEMMA KeepFields ==
    ASSUME NEW q \in Procs, NEW a \in Roots
    PROVE  /\ Keep(q, a).step = q.step /\ Keep(q, a).next = q.next /\ Keep(q, a).job = q.job
           /\ Keep(q, a).seen[a] = registry[a]
           /\ \A b \in Roots : b # a => Keep(q, a).seen[b] = q.seen[b]
BY DEF Procs, Keep

\* a root of the order was read once the cursor is past it
LEMMA Covered ==
    ASSUME NEW n \in 1 .. Len(RootOrder), ~(n < Len(RootOrder)), NEW a \in Roots
    PROVE  \E i \in 1 .. n : RootOrder[i] = a
<1>1. PICK i \in 1 .. Len(RootOrder) : RootOrder[i] = a
  BY RootsInOrder
<1>. QED BY <1>1, RootsInOrder

-----------------------------------------------------------------------------
(* The steps of a command that write no registry *)

LEMMA RefuseStep ==
    ASSUME KnowInv, TypeInv', UNCHANGED registry, NEW p \in Processes, Refuse(p)
    PROVE  KnowInv' /\ UNCHANGED TheOwners
BY QuietStep, IdleFine DEF Refuse

LEMMA OpenStep ==
    ASSUME KnowInv, TypeInv', NEW p \in Processes, NEW t \in Records, NEW op \in Commands, OpenRecord(p, op, t)
    PROVE  KnowInv' /\ UNCHANGED TheOwners
<1>. DEFINE q == [Idle EXCEPT !.step = "source", !.job = JobOf(op, t), !.status = record[t]]
<1>1. q.step = "source" /\ q.next = 1 /\ q.job = JobOf(op, t)
  BY DEF Idle
<1>. HIDE DEF q
<1>2. Shape(q)
  <2>1. q.job.op = op /\ q.job.rec = t /\ (op \in {"release", "rollback"} => q.job.root = Source[t])
    BY <1>1 DEF JobOf
  <2>2. "source" \in Phases(op)
    BY DEF Phases, Commands
  <2>. QED BY <1>1, <2>1, <2>2 DEF Shape
<1>3. Knows(q, registry)
  BY <1>1, KnowsNothing
<1>4. Becomes(p, q) /\ UNCHANGED registry
  BY DEF OpenRecord, q
<1>. QED BY <1>2, <1>3, <1>4, QuietStep

LEMMA ConfigureStep ==
    ASSUME KnowInv, TypeInv', NEW p \in Processes, NEW a \in Roots, NEW x \in Repos, Configure(p, a, x)
    PROVE  KnowInv' /\ UNCHANGED TheOwners
<1>. DEFINE j == [op |-> "configure", rec |-> None, root |-> a, repo |-> x]
            q == [Idle EXCEPT !.step = "snapshot", !.job = j]
<1>1. q.step = "snapshot" /\ q.job.op = "configure" /\ q.next = 1
  BY DEF Idle
<1>. HIDE DEF q
<1>2. Shape(q) /\ Knows(q, registry)
  <2>1. "snapshot" \in Phases("configure")
    BY DEF Phases
  <2>2. Shape(q)
    BY <1>1, <2>1 DEF Shape
  <2>3. Knows(q, registry)
    BY <1>1, KnowsNothing
  <2>. QED BY <2>2, <2>3
<1>3. Becomes(p, q) /\ UNCHANGED registry
  BY DEF Configure, q
<1>. QED BY <1>2, <1>3, QuietStep

\* reading the source: what a release or a rollback goes on with
LEMMA SourceStep ==
    ASSUME KnowInv, TypeInv', NEW p \in Processes, ReadSource(p)
    PROVE  KnowInv' /\ UNCHANGED TheOwners
<1>. DEFINE k == Keep(proc[p], Home(p))
            q == [k EXCEPT !.step = AfterSource(Job(p).op)]
<1>1. proc[p].step = "source" /\ UNCHANGED registry
  BY DEF ReadSource, At
<1>2. /\ proc[p] \in Sound /\ Job(p) \in Jobs /\ Home(p) \in Roots /\ Shape(proc[p])
      /\ k \in Sound /\ k \in Procs /\ Job(p).op \in Commands
  BY <1>1, AtWork, KeepSound, OpAt DEF KnowInv, TypeInv, Sound, Job
<1>3. q.step = AfterSource(Job(p).op) /\ q.job = Job(p) /\ q.seen[Home(p)] = registry[Home(p)] /\ q.next = proc[p].next
  <2>1. k.job = Job(p) /\ k.seen[Home(p)] = registry[Home(p)] /\ k.next = proc[p].next
    BY <1>2, KeepFields DEF Job, Sound
  <2>. HIDE DEF k
  <2>. QED BY <2>1, <1>2, StepFields
<1>4. CASE Refuse(p)
  BY <1>1, <1>4, RefuseStep
<1>5. CASE SourceOk(Job(p).op, registry[Home(p)][Job(p).repo]) /\ Becomes(p, q)
  <2>. HIDE DEF q, k
  <2>1. Shape(q)
    BY <1>1, <1>2, <1>3 DEF Shape, Phases, AfterSource, Commands, Job
  <2>2. Job(p).op \in {"release", "rollback"} => Home(p) = Job(p).root
    BY <1>1, <1>2, TransferAssumption DEF Home, Shape, Job
  <2>3. Knows(q, registry)
    <3>1. q.next = 1 /\ q.step \notin {"reread", "write", "snapshot", "decide", "fresh"}
      BY <1>1, <1>2, <1>3 DEF Shape, AfterSource
    <3>2. MayRelease(q)
      BY <1>2, <1>3, <1>5, <2>2 DEF MayRelease, SourceOk, Owners
    <3>3. HasRead(q, registry) /\ NoOwnerSoFar(q, registry) /\ SnapshotHolds(q, registry)
      BY <3>1 DEF HasRead, NoOwnerSoFar, SnapshotHolds
    <3>. QED BY <3>2, <3>3 DEF Knows
  <2>. QED BY <1>1, <1>5, <2>1, <2>3, QuietStep
<1>. QED BY <1>4, <1>5 DEF ReadSource

\* the checks that go on or refuse
LEMMA ChooseStep ==
    ASSUME KnowInv, TypeInv', NEW p \in Processes,
           CheckUses(p) \/ ReadDestination(p) \/ Decide(p) \/ Reread(p) \/ Judge(p)
    PROVE  KnowInv' /\ UNCHANGED TheOwners
<1>. DEFINE q(step) == [proc[p] EXCEPT !.step = step, !.next = 1]
<1>1. proc[p].step # "idle" /\ UNCHANGED registry
  BY DEF CheckUses, ReadDestination, Decide, Reread, Judge, At
<1>2. proc[p] \in Procs /\ Job(p) \in Jobs /\ Job(p).root \in Roots /\ Shape(proc[p]) /\ Knows(proc[p], registry)
  BY <1>1, AtWork DEF KnowInv, Sound
<1>3. \A step : q(step).step = step /\ q(step).next = 1 /\ q(step).job = Job(p) /\ q(step).seen = proc[p].seen
  BY <1>2, GotoFields DEF Job
<1>4. CASE Refuse(p)
  BY <1>1, <1>4, RefuseStep
<1>5. ASSUME NEW step, Goto(p, step), Shape(q(step)), Knows(q(step), registry)
      PROVE  KnowInv' /\ UNCHANGED TheOwners
  BY <1>1, <1>5, QuietStep DEF Goto
<1>. HIDE DEF q
<1>6. CASE CheckUses(p) /\ Goto(p, "reread")
  <2>1. proc[p].step = "uses" /\ Job(p).op = "release"
    BY <1>2, <1>6, OpAt DEF CheckUses, At, Job
  <2>2. Shape(q("reread"))
    BY <1>2, <1>3, <2>1 DEF Shape, Phases, Job
  <2>3. Knows(q("reread"), registry)
    BY <1>2, <1>3, <2>1 DEF Knows, HasRead, MayRelease, NoOwnerSoFar, SnapshotHolds, Job
  <2>. QED BY <1>5, <1>6, <2>2, <2>3
<1>7. CASE ReadDestination(p) /\ ((Goto(p, "snapshot") /\ Op(p, {"register"})) \/ (Goto(p, "audit") /\ Op(p, {"verify"})))
  <2>1. proc[p].step = "destination" /\ Job(p).op \in {"register", "verify"}
    BY <1>2, <1>7, OpAt DEF ReadDestination, At, Job
  <2>2. CASE Goto(p, "snapshot") /\ Op(p, {"register"})
    <3>1. Shape(q("snapshot"))
      BY <1>2, <1>3, <2>1, <2>2 DEF Shape, Phases, Job, Op
    <3>2. Knows(q("snapshot"), registry)
      BY <1>3, KnowsNothing
    <3>. QED BY <1>5, <2>2, <3>1, <3>2
  <2>3. CASE Goto(p, "audit") /\ Op(p, {"verify"})
    <3>1. Shape(q("audit"))
      BY <1>2, <1>3, <2>1, <2>3 DEF Shape, Phases, Job, Op
    <3>2. Knows(q("audit"), registry)
      BY <1>3, KnowsNothing
    <3>. QED BY <1>5, <2>3, <3>1, <3>2
  <2>. QED BY <1>7, <2>2, <2>3
<1>8. CASE Decide(p) /\ Goto(p, "fresh") /\ Registrable(p)
  <2>1. proc[p].step = "decide" /\ Job(p).op \in {"register", "configure"}
    BY <1>2, <1>8, OpAt DEF Decide, At, Job
  <2>2. Shape(q("fresh"))
    BY <1>2, <1>3, <2>1 DEF Shape, Phases, Job
  <2>3. Owners(proc[p].seen, Job(p).repo) \subseteq {Job(p).root}
    BY <1>8 DEF Registrable, FreeFor
  <2>4. Knows(q("fresh"), registry)
    BY <1>3, <2>1, <2>3 DEF Knows, HasRead, MayRelease, NoOwnerSoFar, SnapshotHolds
  <2>. QED BY <1>5, <1>8, <2>2, <2>4
<1>9. CASE Reread(p) /\ Goto(p, "write") /\ registry[Home(p)] = proc[p].seen[Home(p)]
  <2>1. proc[p].step = "reread" /\ Job(p).op \in {"release", "rollback"}
    BY <1>2, <1>9, OpAt DEF Reread, At, Job
  <2>2. Shape(q("write"))
    BY <1>2, <1>3, <2>1 DEF Shape, Phases, Job
  <2>3. proc[p].seen[Job(p).root] = registry[Job(p).root]
    BY <1>1, <1>2, <1>9, <2>1, TransferAssumption DEF Home, Shape, Job
  <2>4. Knows(q("write"), registry)
    BY <1>2, <1>3, <2>1, <2>3 DEF Knows, HasRead, MayRelease, NoOwnerSoFar, SnapshotHolds, Job
  <2>. QED BY <1>5, <1>9, <2>2, <2>4
<1>10. CASE Judge(p) /\ Goto(p, "save")
  <2>1. proc[p].step = "judge" /\ Job(p).op = "verify"
    BY <1>2, <1>10, OpAt DEF Judge, At, Job
  <2>2. Shape(q("save"))
    BY <1>2, <1>3, <2>1 DEF Shape, Phases, Job
  <2>3. Knows(q("save"), registry)
    BY <1>3, KnowsNothing
  <2>. QED BY <1>5, <1>10, <2>2, <2>3
<1>11. ASSUME CheckUses(p) PROVE Goto(p, "reread") \/ Refuse(p)
  BY <1>11 DEF CheckUses, Choose
<1>12. ASSUME ReadDestination(p)
       PROVE  (Goto(p, "snapshot") /\ Op(p, {"register"})) \/ (Goto(p, "audit") /\ Op(p, {"verify"})) \/ Refuse(p)
  BY <1>12 DEF ReadDestination, Choose, Op, Paired
<1>13. ASSUME Decide(p) PROVE (Goto(p, "fresh") /\ Registrable(p)) \/ Refuse(p)
  BY <1>13 DEF Decide, Choose
<1>14. ASSUME Reread(p) PROVE (Goto(p, "write") /\ registry[Home(p)] = proc[p].seen[Home(p)]) \/ Refuse(p)
  BY <1>14 DEF Reread, Choose
<1>15. ASSUME Judge(p) PROVE Goto(p, "save") \/ Refuse(p)
  BY <1>15 DEF Judge, Choose
<1>. QED BY <1>4, <1>6, <1>7, <1>8, <1>9, <1>10, <1>11, <1>12, <1>13, <1>14, <1>15

\* the reads of a scan
LEMMA ScanStep ==
    ASSUME KnowInv, TypeInv', NEW p \in Processes, Snapshot(p) \/ Audit(p) \/ Fresh(p) \/ ScanOwners(p)
    PROVE  KnowInv' /\ UNCHANGED TheOwners
<1>. DEFINE k == Keep(proc[p], Reading(p))
            n == proc[p].next
<1>0. \A m \in Nat : \A i \in 1 .. m : i = m \/ i \in 1 .. m - 1
  OBVIOUS
<1>1. proc[p].step # "idle" /\ UNCHANGED registry
  BY DEF Snapshot, Audit, Fresh, ScanOwners, At
<1>2. /\ proc[p] \in Procs /\ Job(p) \in Jobs /\ Job(p).root \in Roots /\ Reading(p) \in Roots
      /\ Shape(proc[p]) /\ Knows(proc[p], registry) /\ n \in 1 .. Len(RootOrder)
      /\ k \in Procs
  BY <1>1, AtWork, KeepSound DEF KnowInv, Sound, TypeInv
<1>9. n \in Nat
  BY <1>2 DEF Procs
<1>3. k.step = proc[p].step /\ k.next = n /\ k.job = Job(p)
  BY <1>2, KeepFields DEF Job
<1>4. CASE Refuse(p)
  BY <1>1, <1>4, RefuseStep
<1>5. CASE Snapshot(p)
  <2>. DEFINE q == Onward(k, "decide")
  <2>1. proc[p].step = "snapshot" /\ Job(p).op \in {"register", "configure"}
    BY <1>2, <1>5, OpAt DEF Snapshot, At, Job
  <2>2. q.job = Job(p) /\ q.step \in {"snapshot", "decide"}
    BY <1>2, <1>3, <2>1, OnwardFields
  <2>. HIDE DEF q, k
  <2>3. Shape(q) /\ Knows(q, registry)
    BY <2>1, <2>2, KnowsNothing DEF Shape, Phases
  <2>. QED BY <1>1, <1>5, <2>3, QuietStep DEF Snapshot, q, k
<1>6. CASE Audit(p)
  <2>. DEFINE q == Onward(k, "judge")
  <2>1. proc[p].step = "audit" /\ Job(p).op = "verify"
    BY <1>2, <1>6, OpAt DEF Audit, At, Job
  <2>2. q.job = Job(p) /\ q.step \in {"audit", "judge"}
    BY <1>2, <1>3, <2>1, OnwardFields
  <2>. HIDE DEF q, k
  <2>3. Shape(q) /\ Knows(q, registry)
    BY <2>1, <2>2, KnowsNothing DEF Shape, Phases
  <2>. QED BY <1>1, <1>6, <2>3, QuietStep DEF Audit, q, k
<1>7. CASE Fresh(p) /\ ~Refuse(p)
  <2>. DEFINE q == Onward(proc[p], "write")
  <2>1. proc[p].step = "fresh" /\ Job(p).op \in {"register", "configure"}
    BY <1>2, <1>7, OpAt DEF Fresh, At, Job
  <2>2. q.job = Job(p) /\ q.seen = proc[p].seen /\ q.step \in {"fresh", "write"}
    BY <1>2, <2>1, OnwardFields DEF Job
  <2>3. Owners(proc[p].seen, Job(p).repo) \subseteq {Job(p).root}
    BY <1>2, <2>1 DEF Knows, SnapshotHolds, Job
  <2>4. \A i \in 1 .. n : proc[p].seen[RootOrder[i]] = registry[RootOrder[i]]
    <3>1. \A i \in 1 .. n - 1 : proc[p].seen[RootOrder[i]] = registry[RootOrder[i]]
      BY <1>2, <2>1 DEF Knows, SnapshotHolds
    <3>2. proc[p].seen[RootOrder[n]] = registry[RootOrder[n]]
      BY <1>7 DEF Fresh, Reading
    <3>3. \A i \in 1 .. n : i = n \/ i \in 1 .. n - 1
      BY <1>0, <1>9
    <3>. QED BY <3>1, <3>2, <3>3
  <2>5. CASE n < Len(RootOrder)
    <3>1. q.step = "fresh" /\ q.next = n + 1
      BY <1>2, <2>1, <2>5, OnwardFields
    <3>. HIDE DEF q
    <3>2. Shape(q)
      BY <1>2, <2>1, <2>2, <3>1 DEF Shape, Job
    <3>3. Knows(q, registry)
      <4>1. 1 .. q.next - 1 = 1 .. n
        BY <1>2, <3>1, RootsInOrder
      <4>. QED BY <2>1, <2>2, <2>3, <2>4, <3>1, <4>1 DEF Knows, HasRead, MayRelease, NoOwnerSoFar, SnapshotHolds
    <3>. QED BY <1>1, <1>7, <3>2, <3>3, QuietStep DEF Fresh, q
  <2>6. CASE ~(n < Len(RootOrder))
    <3>1. q.step = "write"
      BY <1>2, <2>6, OnwardFields
    <3>2. proc[p].seen = registry
      <4>1. \A a \in Roots : proc[p].seen[a] = registry[a]
        BY <1>2, <2>4, <2>6, Covered
      <4>2. registry \in [Roots -> Registry] /\ proc[p].seen \in [Roots -> Registry]
        BY <1>2 DEF KnowInv, TypeInv, TypeOK, Procs
      <4>. QED BY <4>1, <4>2
    <3>. HIDE DEF q
    <3>3. Shape(q)
      BY <2>1, <2>2, <3>1 DEF Shape, Phases
    <3>4. Knows(q, registry)
      BY <2>1, <2>2, <2>3, <3>1, <3>2 DEF Knows, HasRead, MayRelease, NoOwnerSoFar, SnapshotHolds
    <3>. QED BY <1>1, <1>7, <3>3, <3>4, QuietStep DEF Fresh, q
  <2>. QED BY <2>5, <2>6
<1>8. CASE ScanOwners(p) /\ ~Refuse(p)
  <2>. DEFINE q == Onward(proc[p], "reread")
              x == Job(p).repo
  <2>1. proc[p].step = "owners" /\ Job(p).op = "rollback" /\ registry[Reading(p)][x] \notin Owning
    BY <1>2, <1>8, OpAt DEF ScanOwners, At, Job
  <2>2. q.job = Job(p) /\ q.seen = proc[p].seen
    BY <1>2, OnwardFields DEF Job
  <2>3. \A i \in 1 .. n : RootOrder[i] \notin Owners(registry, x)
    <3>1. \A i \in 1 .. n - 1 : RootOrder[i] \notin Owners(registry, x)
      BY <1>2, <2>1 DEF Knows, NoOwnerSoFar, Job
    <3>2. RootOrder[n] \notin Owners(registry, x)
      BY <2>1 DEF Reading, Owners
    <3>3. \A i \in 1 .. n : i = n \/ i \in 1 .. n - 1
      BY <1>0, <1>9
    <3>. QED BY <3>1, <3>2, <3>3
  <2>4. CASE n < Len(RootOrder)
    <3>1. q.step = "owners" /\ q.next = n + 1
      BY <1>2, <2>1, <2>4, OnwardFields
    <3>. HIDE DEF q
    <3>2. Shape(q)
      BY <1>2, <2>1, <2>2, <3>1 DEF Shape, Job
    <3>3. Knows(q, registry)
      <4>1. 1 .. q.next - 1 = 1 .. n
        BY <1>2, <3>1, RootsInOrder
      <4>. QED BY <2>1, <2>2, <2>3, <3>1, <4>1 DEF Knows, HasRead, MayRelease, NoOwnerSoFar, SnapshotHolds
    <3>. QED BY <1>1, <1>8, <3>2, <3>3, QuietStep DEF ScanOwners, q
  <2>5. CASE ~(n < Len(RootOrder))
    <3>1. q.step = "reread"
      BY <1>2, <2>5, OnwardFields
    <3>2. Owners(registry, x) = {}
      <4>1. \A a \in Roots : a \notin Owners(registry, x)
        BY <1>2, <2>3, <2>5, Covered
      <4>. QED BY <4>1 DEF Owners
    <3>. HIDE DEF q
    <3>3. Shape(q)
      BY <1>2, <2>1, <2>2, <3>1 DEF Shape, Phases, Job
    <3>4. Knows(q, registry)
      BY <2>1, <2>2, <3>1, <3>2 DEF Knows, HasRead, MayRelease, NoOwnerSoFar, SnapshotHolds
    <3>. QED BY <1>1, <1>8, <3>3, <3>4, QuietStep DEF ScanOwners, q
  <2>. QED BY <2>4, <2>5
<1>. QED BY <1>4, <1>5, <1>6, <1>7, <1>8

-----------------------------------------------------------------------------
(* The write of a registry, and the whole *)

\* what the abstract ownership makes of a change of one entry
LEMMA OwnersAfter ==
    ASSUME TypeOK, NEW a \in Roots, NEW x \in Repos, NEW e \in Entries,
           registry' = [registry EXCEPT ![a] = [registry[a] EXCEPT ![x] = e]]
    PROVE  /\ \A y \in Repos \ {x} : Owners(registry', y) = Owners(registry, y)
           /\ Owners(registry', x) = IF e \in Owning THEN Owners(registry, x) \cup {a} ELSE Owners(registry, x) \ {a}
<1>1. \A b \in Roots, y \in Repos : registry'[b][y] = IF b = a /\ y = x THEN e ELSE registry[b][y]
  BY DEF TypeOK, Registry
<1>. QED BY <1>1 DEF Owners

LEMMA WriteStep ==
    ASSUME Apart, KnowInv, TypeInv', NEW p \in Processes, WriteRegistry(p)
    PROVE  KnowInv' /\ [O!Next]_TheOwners
<1>. DEFINE a == Job(p).root
            x == Job(p).repo
            e == Entry(Job(p).op)
            new == [proc[p].seen[a] EXCEPT ![x] = e]
<1>1. proc[p].step = "write"
  BY DEF WriteRegistry, At
<1>2. /\ proc[p] \in Procs /\ a \in Roots /\ x \in Repos /\ Shape(proc[p]) /\ Knows(proc[p], registry)
      /\ Job(p).op \in {"release", "rollback", "register", "configure"}
  BY <1>1, AtWork, OpAt DEF KnowInv, Sound, Job
<1>3. proc[p].seen[a] = registry[a]
  BY <1>1, <1>2 DEF Knows, HasRead, SnapshotHolds, Job
<1>4. CASE UNCHANGED registry /\ Refuse(p)
  <2>1. KnowInv' /\ UNCHANGED TheOwners
    BY <1>4, RefuseStep
  <2>. QED BY <2>1
<1>5. CASE registry' = [registry EXCEPT ![a] = new] /\ Choose(p, Op(p, {"release", "rollback"}), "save")
  <2>0. e \in Entries
    BY DEF Entry, Entries
  <2>1. /\ \A y \in Repos \ {x} : Owners(registry', y) = Owners(registry, y)
        /\ Owners(registry', x) = IF e \in Owning THEN Owners(registry, x) \cup {a} ELSE Owners(registry, x) \ {a}
    BY <1>2, <1>3, <1>5, <2>0, OwnersAfter DEF KnowInv, TypeInv
  <2>2. \/ Owners(registry, x) = {a} /\ Owners(registry', x) = {}
        \/ Owners(registry, x) = {} /\ Owners(registry', x) = {a}
        \/ Owners(registry, x) = {a} /\ Owners(registry', x) = {a}
    <3>1. CASE Job(p).op = "release"
      <4>1. a \in Owners(registry, x) /\ e = "tombstone"
        BY <1>1, <1>2, <1>3, <3>1 DEF Knows, MayRelease, Owners, Job, Entry
      <4>2. Owners(registry, x) = {a}
        BY <1>2, <4>1 DEF KnowInv, OneOwner
      <4>. QED BY <2>1, <4>1, <4>2 DEF Owning
    <3>2. CASE Job(p).op = "rollback"
      <4>1. Owners(registry, x) = {} /\ e = "retired"
        BY <1>1, <1>2, <3>2 DEF Knows, NoOwnerSoFar, Job, Entry
      <4>. QED BY <2>1, <4>1 DEF Owning
    <3>3. CASE Job(p).op \in {"register", "configure"}
      <4>1. Owners(registry, x) \subseteq {a} /\ e = "active"
        BY <1>1, <1>2, <3>3 DEF Knows, SnapshotHolds, Job, Entry
      <4>. QED BY <2>1, <4>1 DEF Owning
    <3>. QED BY <1>2, <3>1, <3>2, <3>3
  <2>3. OneOwner'
    BY <2>1, <2>2 DEF KnowInv, OneOwner
  <2>4. \A r \in Processes : Shape(proc'[r]) /\ Knows(proc'[r], registry')
    <3>. DEFINE q == [proc[p] EXCEPT !.step = "save", !.next = 1]
    <3>1. \/ proc'[p] = Idle
          \/ proc'[p] = q /\ Op(p, {"release", "rollback"})
      BY <1>5, OthersStay DEF Choose, Goto, Refuse, KnowInv
    <3>2. \A r \in Processes : r # p => proc'[r] = proc[r]
      BY <1>5, OthersStay DEF Choose, Goto, Refuse, KnowInv
    <3>3. q.step = "save" /\ q.job = Job(p)
      BY <1>2, GotoFields DEF Job
    <3>. HIDE DEF q
    <3>4. Shape(proc'[p]) /\ Knows(proc'[p], registry')
      <4>1. Op(p, {"release", "rollback"}) => Shape(q) /\ Knows(q, registry')
        BY <1>1, <1>2, <3>3, KnowsNothing DEF Shape, Phases, Job, Op
      <4>. QED BY <3>1, <4>1, IdleFine
    <3>5. ASSUME NEW r \in Processes, r # p PROVE Shape(proc[r]) /\ Knows(proc[r], registry')
      <4>1. proc[r] \in Sound /\ Shape(proc[r]) /\ Knows(proc[r], registry)
        BY DEF KnowInv, TypeInv
      <4>2. registry' = registry \/ ~Relies(proc[r])
        BY <3>5 DEF Apart
      <4>. QED BY <4>1, <4>2, NotRelying
    <3>. QED BY <3>2, <3>4, <3>5
  <2>5. [O!Next]_TheOwners
    <3>1. TheOwners \in [Repos -> SUBSET Roots] /\ TheOwners' \in [Repos -> SUBSET Roots]
      BY DEF TheOwners, Owners
    <3>2. /\ \A y \in Repos : TheOwners[y] = Owners(registry, y) /\ TheOwners'[y] = Owners(registry', y)
      BY DEF TheOwners
    <3>3. TheOwners' = [TheOwners EXCEPT ![x] = Owners(registry', x)]
      BY <1>2, <2>1, <3>1, <3>2
    <3>4. CASE Owners(registry, x) = {a} /\ Owners(registry', x) = {}
      <4>1. TheOwners[x] # {} /\ TheOwners' = [TheOwners EXCEPT ![x] = {}]
        BY <1>2, <3>2, <3>3, <3>4
      <4>2. O!GiveUp(x)
        BY <4>1 DEF O!GiveUp
      <4>. QED BY <1>2, <4>2 DEF O!Next
    <3>5. CASE Owners(registry, x) = {} /\ Owners(registry', x) = {a}
      <4>1. TheOwners[x] = {} /\ TheOwners' = [TheOwners EXCEPT ![x] = {a}]
        BY <1>2, <3>2, <3>3, <3>5
      <4>2. O!Take(x, a)
        BY <4>1 DEF O!Take
      <4>. QED BY <1>2, <4>2 DEF O!Next
    <3>6. CASE Owners(registry, x) = {a} /\ Owners(registry', x) = {a}
      BY <3>1, <3>2, <3>3, <3>6
    <3>. QED BY <2>2, <3>4, <3>5, <3>6
  <2>. QED BY <2>3, <2>4, <2>5 DEF KnowInv
<1>. QED BY <1>4, <1>5 DEF WriteRegistry

LEMMA KnowInit == Init => KnowInv /\ O!Init
<1>. SUFFICES ASSUME Init PROVE KnowInv /\ O!Init
  OBVIOUS
<1>1. OneOwner
  BY DEF Init, OneOwner
<1>2. \A p \in Processes : Shape(proc[p]) /\ Knows(proc[p], registry)
  BY IdleFine DEF Init
<1>3. TheOwners \in [Repos -> SUBSET Roots] /\ \A x \in Repos : TheOwners[x] = Owners(registry, x)
  BY DEF TheOwners, Owners
<1>4. O!Init
  BY <1>1, <1>3 DEF O!Init, OneOwner
<1>. QED BY <1>1, <1>2, <1>4, TypeInit DEF KnowInv

LEMMA KnowStep ==
    KnowInv /\ [Next]_vars /\ [Apart]_vars => KnowInv' /\ [O!Next]_TheOwners
<1>. SUFFICES ASSUME KnowInv, [Next]_vars, Apart PROVE KnowInv' /\ [O!Next]_TheOwners
  BY DEF vars, Apart
<1>0. TypeInv'
  BY TypeStep DEF KnowInv
<1>1. ASSUME NEW p \in Processes, Command(p)
      PROVE  KnowInv' /\ [O!Next]_TheOwners
  <2>1. CASE SaveRecord(p) \/ Die(p)
    BY <1>0, <2>1, RefuseStep DEF SaveRecord, Die
  <2>. QED BY <1>0, <1>1, <2>1, OpenStep, ConfigureStep, SourceStep, ChooseStep, ScanStep, WriteStep DEF Command
<1>2. ASSUME UNCHANGED <<registry, proc>>
      PROVE  KnowInv' /\ [O!Next]_TheOwners
  BY <1>0, <1>2 DEF KnowInv, OneOwner, Owners, TheOwners
<1>. QED BY <1>1, <1>2 DEF Next, Use, EndUse, vars

\* However many commands overlap, and whatever dies wherever, a repository
\* has at most one owning root and moves only through a state in which nobody
\* owns it, if no registry is written between the last reads of another command
\* and its write: what a lock held from these reads to the write would give, and the
\* fresh read of targetRegistration.ts:215 alone does not (the release before the
\* register; the scans that register and rollback make before they write).
THEOREM RefinesOwnership == Spec /\ [][Apart]_vars => ImplementsOwnership
<1>1. Init => KnowInv /\ O!Init
  BY KnowInit
<1>2. KnowInv /\ [Next]_vars /\ [Apart]_vars => KnowInv' /\ [O!Next]_TheOwners
  BY KnowStep
<1>. QED BY <1>1, <1>2, PTL DEF Spec, ImplementsOwnership, O!Spec

-----------------------------------------------------------------------------
(* Tombstones and uses *)

\* the uses that did not begin behind a release's back
Steady == [a \in Roots |-> inUse[a] \ late[a]]

\* a release past its check has a Target with no such use
Cleared(q, use) == q.step \in {"reread", "write"} /\ q.job.op = "release" => q.job.repo \notin use[q.job.root]

ClearInv == KnowInv /\ TombstoneUnused /\ \A p \in Processes : Cleared(proc[p], Steady)

\* what a step makes of its own process: released Targets are past the check
LEMMA ClearSteps ==
    ASSUME ClearInv, NEW p \in Processes, Command(p)
    PROVE  Cleared(proc'[p], Steady) /\ (\A r \in Processes : r # p => proc'[r] = proc[r]) /\ UNCHANGED Steady
<1>. DEFINE at(step) == [proc[p] EXCEPT !.step = step, !.next = 1]
            k(a) == Keep(proc[p], a)
<1>1. TypeInv
  BY DEF ClearInv, KnowInv
<1>2. UNCHANGED Steady
  BY DEF Steady, Command, OpenRecord, Configure, ReadSource, CheckUses, ReadDestination, Snapshot, Decide, Fresh,
         ScanOwners, Reread, Audit, Judge, WriteRegistry, SaveRecord, Die
<1>3. ASSUME NEW q, Becomes(p, q), Cleared(q, Steady)
      PROVE  Cleared(proc'[p], Steady) /\ (\A r \in Processes : r # p => proc'[r] = proc[r])
  BY <1>1, <1>3, OthersStay
<1>4. \A q : q.step \notin {"reread", "write"} \/ q.job.op # "release" => Cleared(q, Steady)
  BY DEF Cleared
<1>5. CASE Refuse(p)
  <2>1. Idle.step = "idle"
    BY DEF Idle
  <2>. QED BY <1>2, <1>3, <1>4, <1>5, <2>1 DEF Refuse
<1>6. CASE proc[p].step = "idle"
  <2>1. PICK q : Becomes(p, q) /\ q.step \in {"source", "snapshot"}
    <3>1. ASSUME NEW step \in {"source", "snapshot"}, NEW j, NEW st
          PROVE  [Idle EXCEPT !.step = step, !.job = j].step = step
                 /\ [Idle EXCEPT !.step = step, !.job = j, !.status = st].step = step
      BY DEF Idle
    <3>2. \/ \E t \in Records, op \in Commands : OpenRecord(p, op, t)
          \/ \E a \in Roots, x \in Repos : Configure(p, a, x)
      BY <1>6 DEF Command, ReadSource, CheckUses, ReadDestination, Snapshot, Decide, Fresh, ScanOwners, Reread,
                  Audit, Judge, WriteRegistry, SaveRecord, Die, At
    <3>3. ASSUME NEW t \in Records, NEW op \in Commands, OpenRecord(p, op, t)
          PROVE  \E q : Becomes(p, q) /\ q.step \in {"source", "snapshot"}
      <4>. WITNESS [Idle EXCEPT !.step = "source", !.job = JobOf(op, t), !.status = record[t]]
      <4>. QED BY <3>1, <3>3 DEF OpenRecord
    <3>4. ASSUME NEW a \in Roots, NEW x \in Repos, Configure(p, a, x)
          PROVE  \E q : Becomes(p, q) /\ q.step \in {"source", "snapshot"}
      <4>. WITNESS [Idle EXCEPT !.step = "snapshot",
                                !.job = [op |-> "configure", rec |-> None, root |-> a, repo |-> x]]
      <4>. QED BY <3>1, <3>4 DEF Configure
    <3>. QED BY <3>2, <3>3, <3>4
  <2>. QED BY <1>2, <1>3, <1>4, <2>1
<1>7. CASE proc[p].step # "idle"
  <2>1. /\ proc[p] \in Procs /\ proc[p] \in Sound /\ Shape(proc[p]) /\ Cleared(proc[p], Steady)
        /\ Home(p) \in Roots /\ Reading(p) \in Roots
    BY <1>1, <1>7, AtWork DEF ClearInv, KnowInv, Sound
  <2>2. \A a \in Roots : k(a) \in Procs /\ k(a).job = Job(p) /\ k(a).step = proc[p].step
    BY <1>1, <2>1, KeepSound, KeepFields DEF TypeInv, Sound, Job
  <2>3. \A step : at(step).step = step /\ at(step).job = Job(p)
    BY <2>1, GotoFields DEF Job
  <2>4. ASSUME NEW step, Goto(p, step), Cleared(at(step), Steady)
        PROVE  Cleared(proc'[p], Steady) /\ (\A r \in Processes : r # p => proc'[r] = proc[r])
    BY <1>3, <2>4 DEF Goto
  <2>5. \A r \in {proc[p]} \cup {k(a) : a \in Roots} : \A step :
            Onward(r, step).job = Job(p) /\ Onward(r, step).step \in {proc[p].step, step}
    BY <2>1, <2>2, OnwardFields DEF Job
  <2>. HIDE DEF at, k
  <2>6. CASE ReadSource(p) /\ ~Refuse(p)
    <3>. DEFINE q == [k(Home(p)) EXCEPT !.step = AfterSource(Job(p).op)]
    <3>1. q.step \notin {"reread", "write"}
      BY <2>1, <2>2, StepFields DEF AfterSource
    <3>2. Becomes(p, q)
      BY <2>6 DEF ReadSource, k
    <3>. HIDE DEF q
    <3>. QED BY <1>2, <1>3, <1>4, <3>1, <3>2
  <2>7. CASE CheckUses(p) /\ ~Refuse(p)
    <3>1. proc[p].step = "uses" /\ Goto(p, "reread") /\ Job(p).repo \notin inUse[Home(p)]
      BY <2>7 DEF CheckUses, Choose, At, Unbound
    <3>2. Job(p).root = Home(p)
      BY <1>7, <2>1, <3>1, OpAt, TransferAssumption DEF Shape, Home, Job
    <3>3. Cleared(at("reread"), Steady)
      BY <2>1, <2>3, <3>1, <3>2 DEF Cleared, Steady
    <3>. QED BY <1>2, <2>4, <3>1, <3>3
  <2>8. CASE (ReadDestination(p) \/ Decide(p) \/ Judge(p)) /\ ~Refuse(p)
    <3>1. PICK step \in {"snapshot", "audit", "fresh", "save"} : Goto(p, step)
      BY <2>8 DEF ReadDestination, Decide, Judge, Choose
    <3>. QED BY <1>2, <1>4, <2>3, <2>4, <3>1
  <2>9. CASE Reread(p) /\ ~Refuse(p)
    <3>1. proc[p].step = "reread" /\ Goto(p, "write")
      BY <2>9 DEF Reread, Choose, At
    <3>2. Cleared(at("write"), Steady)
      BY <2>1, <2>3, <3>1 DEF Cleared, Job
    <3>. QED BY <1>2, <2>4, <3>1, <3>2
  <2>10. CASE Snapshot(p) \/ Audit(p)
    <3>1. PICK step \in {"decide", "judge"} : Becomes(p, Onward(k(Reading(p)), step)) /\ proc[p].step \in {"snapshot", "audit"}
      BY <2>10 DEF Snapshot, Audit, At, k
    <3>2. Cleared(Onward(k(Reading(p)), step), Steady)
      BY <1>4, <2>1, <2>5, <3>1
    <3>. QED BY <1>2, <1>3, <3>1, <3>2
  <2>11. CASE (Fresh(p) \/ ScanOwners(p)) /\ ~Refuse(p)
    <3>1. PICK step \in {"write", "reread"} : Becomes(p, Onward(proc[p], step)) /\ proc[p].step \in {"fresh", "owners"}
      BY <2>11 DEF Fresh, ScanOwners, At
    <3>2. Job(p).op # "release"
      BY <1>7, <2>1, <3>1, OpAt DEF Job
    <3>3. Cleared(Onward(proc[p], step), Steady)
      BY <1>4, <2>5, <3>2
    <3>. QED BY <1>2, <1>3, <3>1, <3>3
  <2>12. CASE WriteRegistry(p) /\ ~Refuse(p)
    <3>1. Goto(p, "save")
      BY <2>12 DEF WriteRegistry, Choose
    <3>. QED BY <1>2, <1>4, <2>3, <2>4, <3>1
  <2>. QED BY <1>5, <1>6, <1>7, <2>6, <2>7, <2>8, <2>9, <2>10, <2>11, <2>12
           DEF Command, OpenRecord, Configure, SaveRecord, Die
<1>. QED BY <1>6, <1>7

\* what a write makes of the registries: one entry, and of what
LEMMA Written ==
    ASSUME KnowInv, NEW p \in Processes, WriteRegistry(p), registry' # registry
    PROVE  LET a == Job(p).root
               x == Job(p).repo
           IN  /\ proc[p].step = "write" /\ UNCHANGED record
               /\ proc[p] \in Procs /\ a \in Roots /\ x \in Repos /\ Shape(proc[p]) /\ Knows(proc[p], registry)
               /\ Job(p).op \in {"release", "rollback", "register", "configure"}
               /\ \A b \in Roots, y \in Repos :
                     registry'[b][y] = IF b = a /\ y = x THEN Entry(Job(p).op) ELSE registry[b][y]
               /\ \A y \in Repos : y # x => Owners(registry', y) = Owners(registry, y)
               /\ Job(p).op = "release" => Entry(Job(p).op) = "tombstone"
               /\ Job(p).op # "release" => Entry(Job(p).op) \in Owning /\ a \in Owners(registry', x)
               /\ Job(p).op \in {"register", "configure"} => Owners(registry, x) \subseteq {a}
               /\ Choose(p, Op(p, {"release", "rollback"}), "save")
<1>. DEFINE a == Job(p).root
            x == Job(p).repo
            e == Entry(Job(p).op)
            new == [proc[p].seen[a] EXCEPT ![x] = e]
<1>1. proc[p].step = "write" /\ UNCHANGED record
  BY DEF WriteRegistry, At
<1>2. /\ proc[p] \in Procs /\ a \in Roots /\ x \in Repos /\ Shape(proc[p]) /\ Knows(proc[p], registry)
      /\ Job(p).op \in {"release", "rollback", "register", "configure"}
  BY <1>1, AtWork, OpAt DEF KnowInv, Sound, Job
<1>3. proc[p].seen[a] = registry[a]
  BY <1>1, <1>2 DEF Knows, HasRead, SnapshotHolds, Job
<1>4. registry' = [registry EXCEPT ![a] = new] /\ Choose(p, Op(p, {"release", "rollback"}), "save")
  BY DEF WriteRegistry
<1>5. \A b \in Roots, y \in Repos : registry'[b][y] = IF b = a /\ y = x THEN e ELSE registry[b][y]
  BY <1>2, <1>3, <1>4 DEF KnowInv, TypeInv, TypeOK, Registry
<1>6. Job(p).op \in {"register", "configure"} => Owners(registry, x) \subseteq {a}
  BY <1>1, <1>2 DEF Knows, SnapshotHolds, Job
<1>. HIDE DEF a, x, e, new
<1>7. \A y \in Repos : y # x => Owners(registry', y) = Owners(registry, y)
  BY <1>5 DEF Owners
<1>8. /\ Job(p).op = "release" => e = "tombstone"
      /\ Job(p).op # "release" => e \in Owning /\ a \in Owners(registry', x)
  BY <1>2, <1>5 DEF Entry, Owning, Owners, e
<1>. QED BY <1>1, <1>2, <1>4, <1>5, <1>6, <1>7, <1>8 DEF a, x, e

LEMMA ClearCommand ==
    ASSUME ClearInv, KnowInv', NEW p \in Processes, Command(p)
    PROVE  ClearInv'
<1>1. Cleared(proc'[p], Steady) /\ (\A r \in Processes : r # p => proc'[r] = proc[r]) /\ UNCHANGED Steady
  BY ClearSteps
<1>2. \A r \in Processes : Cleared(proc'[r], Steady')
  BY <1>1 DEF ClearInv
<1>3. TombstoneUnused'
  <2>0. \A b \in Roots, y \in Repos :
            (y \in inUse[b] /\ y \notin late[b] <=> y \in Steady[b]) /\ (y \in inUse'[b] /\ y \notin late'[b] <=> y \in Steady'[b])
    BY DEF Steady
  <2>1. CASE registry' = registry
    BY <1>1, <2>0, <2>1 DEF ClearInv, TombstoneUnused
  <2>2. CASE registry' # registry
    <3>1. WriteRegistry(p)
      BY <2>2 DEF Command, OpenRecord, Configure, ReadSource, CheckUses, ReadDestination, Snapshot, Decide, Fresh,
                  ScanOwners, Reread, Audit, Judge, SaveRecord, Die
    <3>2. /\ proc[p].step = "write"
          /\ \A b \in Roots, y \in Repos :
                registry'[b][y] = IF b = Job(p).root /\ y = Job(p).repo THEN Entry(Job(p).op) ELSE registry[b][y]
          /\ Job(p).op # "release" => Entry(Job(p).op) \in Owning
      BY <2>2, <3>1, Written DEF ClearInv
    <3>3. Job(p).op = "release" => Job(p).repo \notin Steady[Job(p).root]
      BY <3>2 DEF ClearInv, Cleared, Job
    <3>. QED BY <1>1, <2>0, <3>2, <3>3 DEF ClearInv, TombstoneUnused, Owning
  <2>. QED BY <2>1, <2>2
<1>. QED BY <1>2, <1>3 DEF ClearInv

\* a use that begins is a late one, or its Target is active and no release has looked for it
LEMMA UseClear ==
    ASSUME ClearInv, KnowInv', NEW a \in Roots, NEW x \in Repos, Use(a, x) \/ EndUse(a, x)
    PROVE  ClearInv'
<1>1. UNCHANGED <<registry, record, proc>>
  BY DEF Use, EndUse
<1>2. inUse \in [Roots -> SUBSET Repos] /\ late \in [Roots -> SUBSET Repos]
  BY DEF ClearInv, KnowInv, TypeInv, TypeOK
<1>3. ASSUME NEW b \in Roots, NEW y \in Repos, y \in inUse'[b], y \notin late'[b]
      PROVE  /\ y \in Steady'[b]
             /\ \/ y \in inUse[b] /\ y \notin late[b] /\ y \in Steady[b]
                \/ b = a /\ y = x /\ registry[a][x] = "active" /\ ~Releasing(a, x)
  <2>1. y \in Steady'[b] /\ (y \in inUse[b] /\ y \notin late[b] => y \in Steady[b])
    BY <1>3 DEF Steady
  <2>2. CASE Use(a, x)
    <3>1. inUse'[b] \subseteq inUse[b] \cup {x} /\ (b # a => inUse'[b] = inUse[b]) /\ late[b] \subseteq late'[b]
      BY <1>2, <2>2 DEF Use
    <3>2. Releasing(a, x) => x \in late'[a]
      BY <1>2, <2>2 DEF Use
    <3>. QED BY <1>3, <2>1, <2>2, <3>1, <3>2 DEF Use
  <2>3. CASE EndUse(a, x)
    <3>1. inUse'[b] \subseteq inUse[b] /\ (b # a => late'[b] = late[b] /\ inUse'[b] = inUse[b])
      BY <1>2, <2>3 DEF EndUse
    <3>2. b = a => inUse'[b] = inUse[b] \ {x} /\ late'[b] = late[b] \ {x}
      BY <1>2, <2>3 DEF EndUse
    <3>. QED BY <1>3, <2>1, <3>1, <3>2
  <2>. QED BY <2>2, <2>3
<1>4. TombstoneUnused'
  BY <1>1, <1>3 DEF ClearInv, TombstoneUnused
<1>5. ASSUME NEW p \in Processes PROVE Cleared(proc[p], Steady')
  <2>. SUFFICES ASSUME proc[p].step \in {"reread", "write"}, Job(p).op = "release", Job(p).repo \in Steady'[Job(p).root]
                PROVE  FALSE
    BY DEF Cleared, Job
  <2>1. Job(p).root \in Roots /\ Job(p).repo \in Repos
    BY AtWork DEF ClearInv, KnowInv
  <2>2. Job(p).repo \notin Steady[Job(p).root]
    BY DEF ClearInv, Cleared, Job
  <2>3. Job(p).repo \in inUse'[Job(p).root] /\ Job(p).repo \notin late'[Job(p).root]
    BY <2>1 DEF Steady
  <2>4. Job(p).root = a /\ Job(p).repo = x /\ ~Releasing(a, x)
    BY <1>3, <2>1, <2>2, <2>3
  <2>. QED BY <2>4 DEF Releasing, Op, Job
<1>. QED BY <1>1, <1>4, <1>5 DEF ClearInv

LEMMA ClearInit == Init => ClearInv
<1>. SUFFICES ASSUME Init PROVE ClearInv
  OBVIOUS
<1>1. TombstoneUnused
  BY DEF Init, TombstoneUnused
<1>2. \A p \in Processes : proc[p] = Idle /\ Idle.step = "idle"
  BY DEF Init, Idle
<1>. QED BY <1>1, <1>2, KnowInit DEF ClearInv, Cleared

LEMMA ClearStep == ClearInv /\ [Next]_vars /\ [Apart]_vars => ClearInv'
<1>. SUFFICES ASSUME ClearInv, [Next]_vars, [Apart]_vars PROVE ClearInv'
  OBVIOUS
<1>1. KnowInv'
  BY KnowStep DEF ClearInv
<1>2. CASE UNCHANGED vars
  BY <1>1, <1>2 DEF vars, ClearInv, TombstoneUnused, Steady
<1>. QED BY <1>1, <1>2, ClearCommand, UseClear DEF Next

\* However many commands overlap, if no registry is written between the last reads of another and its write: a task
\* that binds, or a module that declares, a Target that was given away came after its release had looked for them and
\* before it wrote (targetTransfer.ts:428-456), the gap that nothing in the code closes.
THEOREM TombstoneUnusedHolds == Spec /\ [][Apart]_vars => []TombstoneUnused
<1>1. ClearInv => TombstoneUnused
  BY DEF ClearInv
<1>. QED BY <1>1, ClearInit, ClearStep, PTL DEF Spec

-----------------------------------------------------------------------------
(* Records *)

\* the job of a command on a record is that record's, and its status is one the command accepts
Filled(q) == q.step # "idle" /\ q.job.op # "configure" =>
    q.job.op \in Commands /\ q.job.rec \in Records /\ q.job = JobOf(q.job.op, q.job.rec)
Accepted(q, status) == q.step # "idle" /\ q.job.op # "configure" => status[q.job.rec] \in Accepts(q.job.op)

\* what the commands have found, or made: a verification that has seen an owner
\* in its destination has a tombstone behind it, for there is one owner only
SourceGone(q, reg) == q.job.op = "verify" =>
    /\ q.step = "destination" => reg[Source[q.job.rec]][q.job.repo] # "absent"
    /\ q.step \in {"audit", "judge", "save"} => reg[Source[q.job.rec]][q.job.repo] = "tombstone"
Arrived(q, reg)  == q.step \in {"audit", "judge", "save"} /\ q.job.op = "verify" =>
    reg[q.job.root][q.job.repo] \in Owning
Restored(q, reg) == q.step = "save" /\ q.job.op = "rollback" => reg[q.job.root][q.job.repo] \in Owning

Found(q, reg) == SourceGone(q, reg) /\ Arrived(q, reg) /\ Restored(q, reg)
OnRecord(q, status) == Filled(q) /\ Accepted(q, status)

\* a person has one transfer command at a time on a Target; configure may overlap
Transfers(q) == q.step # "idle" /\ q.job.op # "configure"
OnePerTarget == \A p, r \in Processes :
    p # r /\ Transfers(proc[p]) /\ Transfers(proc[r]) => proc[p].job.repo # proc[r].job.repo

RecordInv ==
    /\ ClearInv /\ NeverAbandoned
    /\ \A p \in Processes : OnRecord(proc[p], record) /\ Found(proc[p], registry)

LEMMA IdleFound == \A reg, status : OnRecord(Idle, status) /\ Found(Idle, reg)
<1>1. Idle.step = "idle"
  BY DEF Idle
<1>. QED BY <1>1 DEF OnRecord, Filled, Accepted, Found, SourceGone, Arrived, Restored

\* a step that writes no file
LEMMA FilesKept ==
    ASSUME RecordInv, ClearInv', UNCHANGED Files, NEW p \in Processes, NEW q, Becomes(p, q),
           OnRecord(q, record), Found(q, registry)
    PROVE  RecordInv'
<1>1. proc'[p] = q /\ \A r \in Processes : r # p => proc'[r] = proc[r]
  BY OthersStay DEF RecordInv, ClearInv, KnowInv
<1>2. \A r \in Processes : OnRecord(proc'[r], record') /\ Found(proc'[r], registry')
  BY <1>1 DEF RecordInv
<1>3. NeverAbandoned'
  BY DEF RecordInv, NeverAbandoned, Owners
<1>. QED BY <1>2, <1>3 DEF RecordInv

\* the command goes on with the job it has
LEMMA GoesOn ==
    ASSUME RecordInv, ClearInv', UNCHANGED Files, NEW p \in Processes, NEW q, Becomes(p, q),
           proc[p].step # "idle", q.job = Job(p), Found(q, registry)
    PROVE  RecordInv'
<1>1. OnRecord(q, record)
  BY DEF RecordInv, OnRecord, Filled, Accepted, Job
<1>. QED BY <1>1, FilesKept

LEMMA StopsFound ==
    ASSUME RecordInv, ClearInv', UNCHANGED Files, NEW p \in Processes, Refuse(p)
    PROVE  RecordInv'
BY FilesKept, IdleFound DEF Refuse

LEMMA StartsFound ==
    ASSUME RecordInv, ClearInv', NEW p \in Processes,
           \/ \E t \in Records, op \in Commands : OpenRecord(p, op, t)
           \/ \E a \in Roots, x \in Repos : Configure(p, a, x)
    PROVE  RecordInv'
<1>1. ASSUME NEW t \in Records, NEW op \in Commands, OpenRecord(p, op, t) PROVE RecordInv'
  <2>. DEFINE q == [Idle EXCEPT !.step = "source", !.job = JobOf(op, t), !.status = record[t]]
  <2>1. q.step = "source" /\ q.job = JobOf(op, t) /\ q.job.op = op /\ q.job.rec = t
    BY DEF Idle, JobOf
  <2>2. Becomes(p, q) /\ record[t] \in Accepts(op) /\ UNCHANGED Files
    BY <1>1 DEF OpenRecord
  <2>. HIDE DEF q
  <2>3. OnRecord(q, record)
    BY <2>1, <2>2 DEF OnRecord, Filled, Accepted
  <2>4. Found(q, registry)
    BY <2>1 DEF Found, SourceGone, Arrived, Restored
  <2>. QED BY <2>2, <2>3, <2>4, FilesKept
<1>2. ASSUME NEW a \in Roots, NEW x \in Repos, Configure(p, a, x) PROVE RecordInv'
  <2>. DEFINE j == [op |-> "configure", rec |-> None, root |-> a, repo |-> x]
              q == [Idle EXCEPT !.step = "snapshot", !.job = j]
  <2>1. q.step = "snapshot" /\ q.job.op = "configure"
    BY DEF Idle
  <2>2. Becomes(p, q) /\ UNCHANGED Files
    BY <1>2 DEF Configure
  <2>. HIDE DEF q
  <2>3. OnRecord(q, record) /\ Found(q, registry)
    BY <2>1 DEF OnRecord, Filled, Accepted, Found, SourceGone, Arrived, Restored
  <2>. QED BY <2>2, <2>3, FilesKept
<1>. QED BY <1>1, <1>2

\* a command that has begun, and what the root of its source is
LEMMA AtJob ==
    ASSUME RecordInv, NEW p \in Processes, proc[p].step # "idle"
    PROVE  /\ proc[p] \in Procs /\ Shape(proc[p]) /\ OnRecord(proc[p], record) /\ Found(proc[p], registry)
           /\ Job(p).root \in Roots /\ Job(p).repo \in Repos
           /\ Job(p).op \in Commands =>
                /\ Job(p).rec \in Records /\ Job(p).repo = Moves[Job(p).rec] /\ Home(p) = Source[Job(p).rec]
                /\ record[Job(p).rec] \in Accepts(Job(p).op)
                /\ Job(p).op \in {"release", "rollback"} => Job(p).root = Source[Job(p).rec]
                /\ Job(p).op = "verify" => Job(p).root = Destination[Job(p).rec]
<1>1. proc[p] \in Procs /\ Shape(proc[p]) /\ OnRecord(proc[p], record) /\ Found(proc[p], registry)
  BY DEF RecordInv, ClearInv, KnowInv, TypeInv, Sound
<1>2. Job(p).root \in Roots /\ Job(p).repo \in Repos
  BY AtWork DEF RecordInv, ClearInv, KnowInv
<1>3. ASSUME Job(p).op \in Commands
      PROVE  /\ Job(p).rec \in Records /\ Job(p) = JobOf(Job(p).op, Job(p).rec)
             /\ record[Job(p).rec] \in Accepts(Job(p).op)
  BY <1>1, <1>3 DEF OnRecord, Filled, Accepted, Job, Commands
<1>4. \A op \in Commands, t \in Records :
          /\ JobOf(op, t).repo = Moves[t]
          /\ op \in {"release", "rollback"} => JobOf(op, t).root = Source[t]
          /\ op = "verify" => JobOf(op, t).root = Destination[t]
  BY DEF JobOf
<1>5. Job(p).rec \in Records => Home(p) = Source[Job(p).rec]
  BY TransferAssumption DEF Home
<1>. QED BY <1>1, <1>2, <1>3, <1>4, <1>5

LEMMA SourceFound ==
    ASSUME RecordInv, ClearInv', NEW p \in Processes, ReadSource(p)
    PROVE  RecordInv'
<1>. DEFINE k == Keep(proc[p], Home(p))
            q == [k EXCEPT !.step = AfterSource(Job(p).op)]
<1>1. proc[p].step = "source" /\ UNCHANGED Files
  BY DEF ReadSource, At
<1>2. proc[p] \in Sound /\ Home(p) \in Roots /\ Job(p).op \in Commands /\ k \in Procs
  BY <1>1, AtWork, AtJob, OpAt, KeepSound DEF RecordInv, ClearInv, KnowInv, TypeInv, Sound, Job
<1>3. q.step = AfterSource(Job(p).op) /\ q.job = Job(p)
  <2>1. k.job = Job(p)
    BY <1>2, KeepFields DEF Job, Sound
  <2>. HIDE DEF k
  <2>. QED BY <2>1, <1>2, StepFields
<1>4. CASE Refuse(p)
  BY <1>1, <1>4, StopsFound
<1>5. CASE SourceOk(Job(p).op, registry[Home(p)][Job(p).repo]) /\ Becomes(p, q)
  <2>. HIDE DEF q, k
  <2>1. Home(p) = Source[Job(p).rec]
    BY <1>1, <1>2, AtJob
  <2>2. q.step \in {"uses", "owners", "destination"}
    BY <1>3 DEF AfterSource
  <2>3. SourceGone(q, registry)
    BY <1>3, <1>5, <2>1, <2>2 DEF SourceGone, SourceOk, AfterSource
  <2>4. Found(q, registry)
    BY <2>2, <2>3 DEF Found, Arrived, Restored
  <2>. QED BY <1>1, <1>3, <1>5, <2>4, GoesOn
<1>. QED BY <1>4, <1>5 DEF ReadSource

LEMMA CheckFound ==
    ASSUME RecordInv, ClearInv', NEW p \in Processes,
           CheckUses(p) \/ ReadDestination(p) \/ Decide(p) \/ Reread(p) \/ Judge(p)
    PROVE  RecordInv'
<1>. DEFINE q(step) == [proc[p] EXCEPT !.step = step, !.next = 1]
<1>1. proc[p].step # "idle" /\ UNCHANGED Files
  BY DEF CheckUses, ReadDestination, Decide, Reread, Judge, At
<1>2. proc[p] \in Procs /\ Shape(proc[p]) /\ Found(proc[p], registry)
  BY <1>1, AtJob
<1>3. \A step : q(step).step = step /\ q(step).job = Job(p)
  BY <1>2, GotoFields DEF Job
<1>4. CASE Refuse(p)
  BY <1>1, <1>4, StopsFound
<1>5. ASSUME NEW step, Goto(p, step), Found(q(step), registry)
      PROVE  RecordInv'
  BY <1>1, <1>3, <1>5, GoesOn DEF Goto
<1>. HIDE DEF q
<1>6. CASE CheckUses(p) /\ Goto(p, "reread")
  BY <1>3, <1>5, <1>6 DEF Found, SourceGone, Arrived, Restored
<1>7. CASE ReadDestination(p)
  <2>1. CASE Op(p, {"register"}) /\ Goto(p, "snapshot")
    BY <1>3, <1>5, <2>1 DEF Found, SourceGone, Arrived, Restored
  <2>2. CASE Op(p, {"verify"}) /\ Goto(p, "audit") /\ registry[Job(p).root][Job(p).repo] \in Owning
    <3>1. proc[p].step = "destination" /\ Job(p).op = "verify"
      BY <1>7, <2>2 DEF ReadDestination, At, Op, Job
    <3>2. /\ Job(p).root = Destination[Job(p).rec] /\ Job(p).rec \in Records /\ Job(p).repo \in Repos
          /\ Job(p).root \in Roots
      BY <1>1, <3>1, AtJob DEF Commands
    <3>3. Source[Job(p).rec] \in Roots /\ Source[Job(p).rec] # Job(p).root
      BY <3>2, TransferAssumption
    <3>4. registry[Source[Job(p).rec]][Job(p).repo] # "absent"
      BY <1>2, <3>1 DEF Found, SourceGone, Job
    <3>5. registry[Source[Job(p).rec]][Job(p).repo] \notin Owning
      BY <2>2, <3>2, <3>3 DEF RecordInv, ClearInv, KnowInv, OneOwner, Owners
    <3>6. registry[Source[Job(p).rec]][Job(p).repo] \in Entries
      BY <3>2, <3>3 DEF RecordInv, ClearInv, KnowInv, TypeInv, TypeOK, Registry
    <3>7. registry[Source[Job(p).rec]][Job(p).repo] = "tombstone"
      BY <3>4, <3>5, <3>6 DEF Entries, Owning
    <3>8. SourceGone(q("audit"), registry) /\ Arrived(q("audit"), registry) /\ Restored(q("audit"), registry)
      BY <1>3, <2>2, <3>7 DEF SourceGone, Arrived, Restored
    <3>. QED BY <1>5, <2>2, <3>8 DEF Found
  <2>. QED BY <1>4, <1>7, <2>1, <2>2 DEF ReadDestination, Choose, Paired
<1>8. CASE Decide(p) /\ Goto(p, "fresh")
  BY <1>3, <1>5, <1>8 DEF Found, SourceGone, Arrived, Restored
<1>9. CASE Reread(p) /\ Goto(p, "write")
  <2>1. proc[p].step = "reread"
    BY <1>9 DEF Reread, At
  <2>. QED BY <1>2, <1>3, <1>5, <1>9, <2>1 DEF Found, SourceGone, Arrived, Restored, Job
<1>10. CASE Judge(p) /\ Goto(p, "save")
  <2>1. proc[p].step = "judge" /\ Job(p).op = "verify"
    BY <1>2, <1>10, OpAt DEF Judge, At, Job
  <2>. QED BY <1>2, <1>3, <1>5, <1>10, <2>1 DEF Found, SourceGone, Arrived, Restored, Job
<1>11. CheckUses(p) => Goto(p, "reread") \/ Refuse(p)
  BY DEF CheckUses, Choose
<1>12. Decide(p) => Goto(p, "fresh") \/ Refuse(p)
  BY DEF Decide, Choose
<1>13. Reread(p) => Goto(p, "write") \/ Refuse(p)
  BY DEF Reread, Choose
<1>14. Judge(p) => Goto(p, "save") \/ Refuse(p)
  BY DEF Judge, Choose
<1>. QED BY <1>4, <1>6, <1>7, <1>8, <1>9, <1>10, <1>11, <1>12, <1>13, <1>14

LEMMA ScanFound ==
    ASSUME RecordInv, ClearInv', NEW p \in Processes,
           Snapshot(p) \/ Audit(p) \/ Fresh(p) \/ ScanOwners(p)
    PROVE  RecordInv'
<1>1. proc[p].step # "idle" /\ UNCHANGED Files
  BY DEF Snapshot, Audit, Fresh, ScanOwners, At
<1>2. /\ proc[p] \in Procs /\ Shape(proc[p]) /\ Found(proc[p], registry)
      /\ Reading(p) \in Roots /\ Keep(proc[p], Reading(p)) \in Procs
  BY <1>1, AtJob, AtWork, KeepSound DEF RecordInv, ClearInv, KnowInv, TypeInv, Sound
<1>3. \A r \in {proc[p], Keep(proc[p], Reading(p))} : \A step :
          Onward(r, step).job = Job(p) /\ Onward(r, step).step \in {proc[p].step, step}
  BY <1>2, OnwardFields, KeepFields DEF Job
<1>4. CASE Refuse(p)
  BY <1>1, <1>4, StopsFound
<1>5. ASSUME NEW r \in {proc[p], Keep(proc[p], Reading(p))}, NEW step,
             Becomes(p, Onward(r, step)), Found(Onward(r, step), registry)
      PROVE  RecordInv'
  BY <1>1, <1>3, <1>5, GoesOn
<1>6. CASE Snapshot(p)
  <2>. DEFINE q == Onward(Keep(proc[p], Reading(p)), "decide")
  <2>1. q.step \in {"snapshot", "decide"}
    BY <1>3, <1>6 DEF Snapshot, At
  <2>. HIDE DEF q
  <2>2. Found(q, registry)
    BY <2>1 DEF Found, SourceGone, Arrived, Restored
  <2>. QED BY <1>5, <1>6, <2>2 DEF Snapshot, q
<1>7. CASE Audit(p)
  <2>. DEFINE q == Onward(Keep(proc[p], Reading(p)), "judge")
  <2>1. q.step \in {"audit", "judge"} /\ q.job = Job(p) /\ proc[p].step = "audit"
    BY <1>3, <1>7 DEF Audit, At
  <2>. HIDE DEF q
  <2>2. Found(q, registry)
    BY <1>2, <2>1 DEF Found, SourceGone, Arrived, Restored, Job
  <2>. QED BY <1>5, <1>7, <2>2 DEF Audit, q
<1>8. CASE Fresh(p) /\ ~Refuse(p)
  <2>. DEFINE q == Onward(proc[p], "write")
  <2>1. q.step \in {"fresh", "write"} /\ q.job = Job(p)
    BY <1>3, <1>8 DEF Fresh, At
  <2>2. Job(p).op \in {"register", "configure"}
    BY <1>1, <1>2, <1>8, OpAt DEF Fresh, At, Job
  <2>. HIDE DEF q
  <2>3. Found(q, registry)
    BY <2>1, <2>2 DEF Found, SourceGone, Arrived, Restored
  <2>. QED BY <1>5, <1>8, <2>3 DEF Fresh, q
<1>9. CASE ScanOwners(p) /\ ~Refuse(p)
  <2>. DEFINE q == Onward(proc[p], "reread")
  <2>1. q.step \in {"owners", "reread"} /\ q.job = Job(p)
    BY <1>3, <1>9 DEF ScanOwners, At
  <2>2. Job(p).op = "rollback"
    BY <1>1, <1>2, <1>9, OpAt DEF ScanOwners, At, Job
  <2>. HIDE DEF q
  <2>3. Found(q, registry)
    BY <2>1, <2>2 DEF Found, SourceGone, Arrived, Restored
  <2>. QED BY <1>5, <1>9, <2>3 DEF ScanOwners, q
<1>. QED BY <1>4, <1>6, <1>7, <1>8, <1>9

\* a step of another command that lays no hand on what a command has found:
\* a transfer moves another Target, configure writes where the owner is
LEMMA OthersFound ==
    ASSUME RecordInv, OnePerTarget, NEW p \in Processes, NEW r \in Processes, r # p,
           WriteRegistry(p), registry' # registry
    PROVE  Found(proc[r], registry')
<1>. DEFINE a == Job(p).root
            x == Job(p).repo
            b == Job(r).root
            s == Source[Job(r).rec]
            y == Job(r).repo
<1>1. /\ proc[p].step = "write" /\ a \in Roots /\ x \in Repos
      /\ Job(p).op \in {"release", "rollback", "register", "configure"}
      /\ \A c \in Roots, z \in Repos :
            registry'[c][z] = IF c = a /\ z = x THEN Entry(Job(p).op) ELSE registry[c][z]
      /\ Job(p).op \in {"register", "configure"} => Owners(registry, x) \subseteq {a}
  BY Written DEF RecordInv, ClearInv
<1>2. Found(proc[r], registry)
  BY DEF RecordInv
<1>3. CASE proc[r].step = "idle" \/ Job(r).op \notin {"verify", "rollback"}
  BY <1>3 DEF Found, SourceGone, Arrived, Restored, Job
<1>4. CASE proc[r].step # "idle" /\ Job(r).op \in {"verify", "rollback"}
  <2>1. b \in Roots /\ y \in Repos /\ Job(r).rec \in Records /\ s \in Roots
    BY <1>4, AtJob, TransferAssumption DEF Commands
  <2>2. Job(r).op = "verify" => b = Destination[Job(r).rec] /\ b # s
    BY <1>4, AtJob, TransferAssumption DEF Commands
  <2>3. CASE Job(p).op # "configure"
    <3>1. x # y
      BY <1>1, <1>4, <2>3 DEF OnePerTarget, Transfers, Job
    <3>2. registry'[b][y] = registry[b][y] /\ registry'[s][y] = registry[s][y]
      BY <1>1, <2>1, <3>1
    <3>. QED BY <1>2, <3>2 DEF Found, SourceGone, Arrived, Restored, Job
  <2>4. CASE Job(p).op = "configure"
    <3>1. \A c \in Roots, z \in Repos : registry'[c][z] = IF c = a /\ z = x THEN "active" ELSE registry[c][z]
      BY <1>1, <2>4 DEF Entry
    <3>2. \A c \in Roots, z \in Repos :
              /\ registry[c][z] # "absent" => registry'[c][z] # "absent"
              /\ registry[c][z] \in Owning => registry'[c][z] \in Owning
      BY <3>1 DEF Owning
    <3>3. Arrived(proc[r], registry') /\ Restored(proc[r], registry')
      BY <1>2, <2>1, <3>2 DEF Found, Arrived, Restored, Job
    <3>4. proc[r].step = "destination" /\ Job(r).op = "verify" => registry'[s][y] # "absent"
      BY <1>2, <2>1, <3>2 DEF Found, SourceGone, Job
    <3>5. ASSUME proc[r].step \in {"audit", "judge", "save"}, Job(r).op = "verify"
          PROVE  registry'[s][y] = "tombstone"
      <4>1. registry[s][y] = "tombstone" /\ registry[b][y] \in Owning
        BY <1>2, <3>5 DEF Found, SourceGone, Arrived, Job
      <4>2. ~(s = a /\ y = x)
        <5>1. y = x => b = a
          BY <1>1, <2>1, <2>4, <4>1 DEF Owners
        <5>. QED BY <2>2, <3>5, <5>1
      <4>. QED BY <2>1, <3>1, <4>1, <4>2
    <3>6. SourceGone(proc[r], registry')
      BY <3>4, <3>5 DEF SourceGone, Job
    <3>. QED BY <3>3, <3>6 DEF Found
  <2>. QED BY <2>3, <2>4
<1>. QED BY <1>3, <1>4

\* the write of a registry: a tombstone is laid by a release, whose record is
\* pending; any other write gives an owner
LEMMA WriteFound ==
    ASSUME RecordInv, OnePerTarget, ClearInv', NEW p \in Processes, WriteRegistry(p)
    PROVE  RecordInv'
<1>. DEFINE a == Job(p).root
            x == Job(p).repo
            e == Entry(Job(p).op)
            t == Job(p).rec
<1>1. proc[p].step = "write" /\ UNCHANGED <<record, inUse, late>>
  BY DEF WriteRegistry, At
<1>2. /\ proc[p] \in Procs /\ a \in Roots /\ x \in Repos /\ Shape(proc[p])
      /\ OnRecord(proc[p], record)
      /\ Job(p).op \in {"release", "rollback", "register", "configure"}
  BY <1>1, AtJob, OpAt DEF Job
<1>3. CASE Refuse(p) /\ registry' = registry
  BY <1>1, <1>3, StopsFound
<1>4. CASE Goto(p, "save") /\ registry' = registry /\ Op(p, {"release", "rollback"})
  <2>. DEFINE q == [proc[p] EXCEPT !.step = "save", !.next = 1]
  <2>1. q.step = "save" /\ q.job = Job(p)
    BY <1>2, GotoFields DEF Job
  <2>2. Becomes(p, q)
    BY <1>4 DEF Goto
  <2>3. Job(p).op = "rollback" => registry[a][x] \in Owning
    <3>. SUFFICES ASSUME Job(p).op = "rollback" PROVE registry[a][x] \in Owning
      OBVIOUS
    <3>1. registry' = [registry EXCEPT ![a] = [proc[p].seen[a] EXCEPT ![x] = e]]
      <4>1. registry' = [registry EXCEPT ![a] = [proc[p].seen[a] EXCEPT ![x] = e]] \/ Refuse(p)
        BY DEF WriteRegistry
      <4>2. ~Refuse(p)
        <5>1. proc'[p] = q
          BY <2>2, OthersStay DEF RecordInv, ClearInv, KnowInv
        <5>2. q.step # Idle.step
          BY <2>1 DEF Idle
        <5>. QED BY <5>1, <5>2, OthersStay DEF Refuse, RecordInv, ClearInv, KnowInv
      <4>. QED BY <4>1, <4>2
    <3>2. proc[p].seen[a] \in Registry
      BY <1>2 DEF Procs
    <3>3. registry'[a][x] = e
      BY <1>2, <3>1, <3>2 DEF RecordInv, ClearInv, KnowInv, TypeInv, TypeOK, Registry
    <3>4. e \in Owning
      BY DEF Entry, Owning
    <3>. QED BY <1>4, <3>3, <3>4
  <2>. HIDE DEF q
  <2>4. Found(q, registry)
    BY <1>4, <2>1, <2>3 DEF Found, SourceGone, Arrived, Restored, Op, Job
  <2>. QED BY <1>1, <1>4, <2>1, <2>2, <2>4, GoesOn
<1>5. CASE registry' # registry
  <2>1. /\ \A b \in Roots, y \in Repos :
                registry'[b][y] = IF b = a /\ y = x THEN e ELSE registry[b][y]
        /\ \A y \in Repos : y # x => Owners(registry', y) = Owners(registry, y)
        /\ Job(p).op = "release" => e = "tombstone"
        /\ Job(p).op # "release" => e \in Owning /\ a \in Owners(registry', x)
        /\ Choose(p, Op(p, {"release", "rollback"}), "save")
    BY <1>5, Written DEF RecordInv, ClearInv
  <2>2. \A r \in Processes : r # p => Found(proc[r], registry')
    BY <1>5, OthersFound
  <2>. HIDE DEF a, x, e, t
  <2>3. Job(p).op = "release" => t \in Records /\ Moves[t] = x /\ Source[t] = a /\ record[t] = "pending"
    BY <1>1, <1>2, AtJob DEF Accepts, Commands, t, a, x
  <2>4. NeverAbandoned'
    <3>. SUFFICES ASSUME NEW y \in Repos, Owners(registry', y) = {}, \E b \in Roots : registry'[b][y] = "tombstone"
                  PROVE  \E u \in Records : /\ Moves[u] = y /\ record[u] \in {"pending", "released"}
                                            /\ registry'[Source[u]][y] = "tombstone"
      BY <1>1 DEF NeverAbandoned
    <3>1. CASE y = x
      <4>1. Job(p).op = "release"
        BY <2>1, <3>1
      <4>. QED BY <1>2, <2>1, <2>3, <3>1, <4>1 DEF a, x
    <3>2. CASE y # x
      <4>1. Owners(registry, y) = {} /\ \E b \in Roots : registry[b][y] = "tombstone"
        BY <2>1, <3>2
      <4>2. PICK u \in Records : /\ Moves[u] = y /\ record[u] \in {"pending", "released"}
                                 /\ registry[Source[u]][y] = "tombstone"
        BY <4>1 DEF RecordInv, NeverAbandoned
      <4>3. Source[u] \in Roots
        BY TransferAssumption
      <4>4. registry'[Source[u]][y] = registry[Source[u]][y]
        BY <2>1, <3>2, <4>3
      <4>. QED BY <4>2, <4>4
    <3>. QED BY <3>1, <3>2
  <2>5. OnRecord(proc'[p], record) /\ Found(proc'[p], registry') /\ \A r \in Processes : r # p => proc'[r] = proc[r]
    <3>1. CASE Refuse(p)
      <4>1. proc'[p] = Idle /\ \A r \in Processes : r # p => proc'[r] = proc[r]
        BY <3>1, OthersStay DEF Refuse, RecordInv, ClearInv, KnowInv
      <4>. QED BY <4>1, IdleFound
    <3>2. CASE Goto(p, "save") /\ Op(p, {"release", "rollback"})
      <4>. DEFINE q == [proc[p] EXCEPT !.step = "save", !.next = 1]
      <4>1. proc'[p] = q /\ \A r \in Processes : r # p => proc'[r] = proc[r]
        BY <3>2, OthersStay DEF Goto, RecordInv, ClearInv, KnowInv
      <4>2. q.step = "save" /\ q.job = Job(p)
        BY <1>2, GotoFields DEF Job
      <4>. HIDE DEF q
      <4>3. OnRecord(q, record)
        BY <1>1, <1>2, <4>2 DEF OnRecord, Filled, Accepted, Job
      <4>4. Restored(q, registry')
        BY <1>2, <2>1, <4>2 DEF Restored, a, x
      <4>5. Found(q, registry')
        BY <3>2, <4>2, <4>4 DEF Found, SourceGone, Arrived, Op, Job
      <4>. QED BY <4>1, <4>3, <4>5
    <3>. QED BY <2>1, <3>1, <3>2 DEF Choose
  <2>6. \A r \in Processes : OnRecord(proc'[r], record') /\ Found(proc'[r], registry')
    BY <1>1, <2>2, <2>5 DEF RecordInv
  <2>. QED BY <2>4, <2>6 DEF RecordInv
<1>. QED BY <1>3, <1>4, <1>5 DEF WriteRegistry, Choose

\* closing a record: the Target of the one that is closed has an owner, and no
\* other command is at work on the record
LEMMA SaveFound ==
    ASSUME RecordInv, OnePerTarget, ClearInv', NEW p \in Processes, SaveRecord(p)
    PROVE  RecordInv'
<1>. DEFINE t == Job(p).rec
<1>1. proc[p].step = "save" /\ UNCHANGED <<registry, inUse>> /\ Refuse(p)
      /\ record' = [record EXCEPT ![t] = Outcome(Job(p).op)]
  BY DEF SaveRecord, At
<1>2. /\ Shape(proc[p]) /\ Found(proc[p], registry) /\ Job(p).root \in Roots
      /\ Job(p).op \in {"release", "rollback", "verify"}
  BY <1>1, AtJob DEF Shape, Phases, Job
<1>3. t \in Records /\ Job(p).repo = Moves[t]
  BY <1>1, <1>2, AtJob DEF Commands
<1>4. Job(p).op \in {"rollback", "verify"} => Job(p).root \in Owners(registry, Moves[t])
  BY <1>1, <1>2, <1>3 DEF Found, Arrived, Restored, Owners, Job
<1>5. NeverAbandoned'
  <2>. SUFFICES ASSUME NEW y \in Repos, Owners(registry, y) = {}, \E b \in Roots : registry[b][y] = "tombstone"
                PROVE  \E u \in Records : /\ Moves[u] = y /\ record'[u] \in {"pending", "released"}
                                          /\ registry[Source[u]][y] = "tombstone"
    BY <1>1 DEF NeverAbandoned, Owners
  <2>1. PICK u \in Records : /\ Moves[u] = y /\ record[u] \in {"pending", "released"}
                             /\ registry[Source[u]][y] = "tombstone"
    BY DEF RecordInv, NeverAbandoned
  <2>2. record'[u] \in {"pending", "released"}
    <3>1. CASE u = t
      <4>1. Job(p).op = "release"
        BY <1>2, <1>4, <2>1, <3>1
      <4>. QED BY <1>1, <1>3, <3>1, <4>1 DEF Outcome, RecordInv, ClearInv, KnowInv, TypeInv, TypeOK
    <3>2. CASE u # t
      BY <1>1, <2>1, <3>2 DEF RecordInv, ClearInv, KnowInv, TypeInv, TypeOK
    <3>. QED BY <3>1, <3>2
  <2>. QED BY <2>1, <2>2
<1>6. proc'[p] = Idle /\ \A r \in Processes : r # p => proc'[r] = proc[r]
  BY <1>1, OthersStay DEF Refuse, RecordInv, ClearInv, KnowInv
<1>7. ASSUME NEW r \in Processes, r # p PROVE OnRecord(proc[r], record')
  <2>1. OnRecord(proc[r], record)
    BY DEF RecordInv
  <2>2. CASE Transfers(proc[r])
    <3>1. Job(r).repo # Moves[t]
      BY <1>1, <1>2, <1>3, <1>7, <2>2 DEF OnePerTarget, Transfers, Job
    <3>2. Job(r).op \in Commands /\ Job(r).rec \in Records /\ Job(r).repo = Moves[Job(r).rec]
      BY <2>1, <2>2, AtJob DEF OnRecord, Filled, Transfers, Job
    <3>3. record'[Job(r).rec] = record[Job(r).rec]
      BY <1>1, <3>1, <3>2 DEF RecordInv, ClearInv, KnowInv, TypeInv, TypeOK
    <3>. QED BY <2>1, <3>3 DEF OnRecord, Accepted, Job
  <2>3. CASE ~Transfers(proc[r])
    BY <2>3 DEF Transfers, OnRecord, Filled, Accepted
  <2>. QED BY <2>2, <2>3
<1>8. \A r \in Processes : OnRecord(proc'[r], record') /\ Found(proc'[r], registry')
  BY <1>1, <1>6, <1>7, IdleFound DEF RecordInv
<1>. QED BY <1>5, <1>8 DEF RecordInv

LEMMA RecordInit == Init => RecordInv
<1>. SUFFICES ASSUME Init PROVE RecordInv
  OBVIOUS
<1>1. NeverAbandoned
  BY DEF Init, NeverAbandoned
<1>2. \A p \in Processes : OnRecord(proc[p], record) /\ Found(proc[p], registry)
  BY IdleFound DEF Init
<1>. QED BY <1>1, <1>2, ClearInit DEF RecordInv

LEMMA RecordStep == RecordInv /\ OnePerTarget /\ [Next]_vars /\ [Apart]_vars => RecordInv'
<1>. SUFFICES ASSUME RecordInv, OnePerTarget, [Next]_vars, [Apart]_vars PROVE RecordInv'
  OBVIOUS
<1>0. ClearInv'
  BY ClearStep DEF RecordInv
<1>1. ASSUME NEW p \in Processes, Command(p) PROVE RecordInv'
  <2>1. CASE Die(p)
    BY <1>0, <2>1, StopsFound DEF Die
  <2>. QED BY <1>0, <1>1, <2>1, StartsFound, SourceFound, CheckFound, ScanFound, WriteFound, SaveFound DEF Command
<1>2. ASSUME UNCHANGED <<registry, record, proc>> PROVE RecordInv'
  BY <1>0, <1>2 DEF RecordInv, NeverAbandoned, Owners
<1>. QED BY <1>1, <1>2 DEF Next, Use, EndUse, vars

\* Under the same condition, and with one transfer command at a time on a
\* Target, no order of releases, registrations, rollbacks, verifications and
\* deaths, and no configure beside them, closes the last record of a Target that
\* nobody owns (targetTransfer.ts: the record is written after the registry).
THEOREM NeverAbandonedHolds == Spec /\ [][Apart]_vars /\ []OnePerTarget => []NeverAbandoned
<1>1. RecordInv => NeverAbandoned
  BY DEF RecordInv
<1>. QED BY <1>1, RecordInit, RecordStep, PTL DEF Spec

\* And a record is completed only over a source that is a tombstone and a
\* destination that owns the Target (verifyTargetTransfer): the verification
\* found the owner, the audit of all roots looked at the rest, and nothing moved
\* the two entries before the record was written.
THEOREM CompletedPairedHolds == Spec /\ [][Apart]_vars /\ []OnePerTarget => CompletedPaired
<1>. DEFINE Closes == \A t \in Records : record[t] # "completed" /\ record'[t] = "completed" =>
                /\ registry[Source[t]][Moves[t]] = "tombstone"
                /\ registry[Destination[t]][Moves[t]] \in Owning
<1>1. RecordInv /\ [Next]_vars => [Closes]_vars
  <2>. SUFFICES ASSUME RecordInv, Next, NEW t \in Records, record[t] # "completed", record'[t] = "completed"
                PROVE  /\ registry[Source[t]][Moves[t]] = "tombstone"
                       /\ registry[Destination[t]][Moves[t]] \in Owning
    OBVIOUS
  <2>1. PICK p \in Processes : SaveRecord(p)
    <3>1. ~UNCHANGED record
      OBVIOUS
    <3>. QED BY <3>1 DEF Next, Command, Use, EndUse, OpenRecord, Configure, ReadSource, CheckUses, ReadDestination,
               Snapshot, Decide, Fresh, ScanOwners, Reread, Audit, Judge, WriteRegistry, Die
  <2>2. proc[p].step = "save" /\ record' = [record EXCEPT ![Job(p).rec] = Outcome(Job(p).op)]
    BY <2>1 DEF SaveRecord, At
  <2>3. Job(p).rec = t /\ Outcome(Job(p).op) = "completed"
    BY <2>2 DEF RecordInv, ClearInv, KnowInv, TypeInv, TypeOK
  <2>4. Job(p).op = "verify" /\ Found(proc[p], registry)
    BY <2>2, <2>3, AtJob DEF Shape, Phases, Outcome, Job
  <2>5. Job(p).repo = Moves[t] /\ Job(p).root = Destination[t]
    BY <2>2, <2>3, <2>4, AtJob DEF Commands
  <2>. QED BY <2>2, <2>3, <2>4, <2>5 DEF Found, SourceGone, Arrived, Job
<1>. QED BY <1>1, RecordInit, RecordStep, PTL DEF Spec, CompletedPaired

Serial == \A p, r \in Processes : p = r

\* Commands that run one at a time meet both conditions: then the theorems
\* above hold of every behaviour, whatever a command reads and wherever it dies
\* (the way targetTransfer.ts is used: a person runs one command, then the next).

THEOREM SerialSuffices == ASSUME Serial PROVE [][Apart]_vars /\ []OnePerTarget
<1>1. Apart /\ OnePerTarget
  BY DEF Serial, Apart, OnePerTarget
<1>. QED BY <1>1, PTL

=============================================================================
