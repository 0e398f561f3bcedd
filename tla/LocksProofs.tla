----------------------------- MODULE LocksProofs -----------------------------
(***************************************************************************)
(* For every number of invocations, tasks and trees: a lock file stands    *)
(* under its live holder or went away in a known way, and none is left     *)
(* behind by invocations that ended by themselves.  The inductive          *)
(* invariant says what a process still knows, from its last read, of the   *)
(* file it is about to remove or overwrite, and who answers for a file.    *)
(***************************************************************************)
EXTENDS Locks, FiniteSetTheorems, TLAPS

Procs == [step: Steps, took: Nat, gave: Nat, saw: Verdicts, ino: Processes \cup {None}]

TypeInv ==
    /\ TypeOK
    /\ \A p \in Processes :
         /\ proc[p].took <= Len(TaskLocks[p]) /\ proc[p].gave <= proc[p].took
         /\ At(p, "remove") => proc[p].gave < proc[p].took
         /\ At(p, "start") => proc[p].took = 0
         /\ At(p, "rewrite") => proc[p].saw = "own" /\ proc[p].ino # None

\* the steps that act on a file read before, and that file
Acting == {"reclaim", "sweep", "truncate", "rewrite", "drop", "remove"}
Target(p) == IF At(p, "reclaim") THEN Wanted(p) ELSE IF At(p, "remove") THEN Returned(p) ELSE TreeLock[p]

Started(p) == proc[p].step # "start"
Gone(p, f) == proc[p].step \in {"done", "dead"} \/ Robbed(p, f)

\* who made a file that bears another's name is no longer there, or was robbed of it
Overwritten ==
    \A f \in Files : file[f].ino # None =>
        /\ Started(file[f].ino)
        /\ file[f].text.pid \notin {None, file[f].ino} => Gone(file[f].ino, f)

\* what a process knows of the file it has judged
Knows(p) ==
    /\ proc[p].saw # "held"
    /\ proc[p].saw = "missing" => proc[p].ino = None
    /\ proc[p].ino # None => Started(proc[p].ino)
    /\ proc[p].saw \in {"dead", "own"} /\ proc[p].ino \notin {p, None} => Gone(proc[p].ino, Target(p))
Recalled == \A p \in Processes : proc[p].step \in Acting => Knows(p)

\* the live process that will see to it that a file goes
Answers(p, f) ==
    /\ Holds(p, f)
    /\ \/ Names(f, p)
       \/ At(p, "fill") /\ file[f].ino = p /\ Wanted(p) = f
       \/ At(p, "rewrite") /\ file[f].ino = proc[p].ino /\ TreeLock[p] = f
Covered ==
    \A f \in Files : file[f] # NoFile =>
        (\E p \in Processes : At(p, "dead")) \/ \E p \in Processes : Answers(p, f)

LockInv == TypeInv /\ HeldOrLost /\ Overwritten /\ Recalled /\ Covered

-----------------------------------------------------------------------------
(* Constants and types *)

LEMMA TasksTyped ==
    ASSUME NEW p \in Processes
    PROVE  /\ Len(TaskLocks[p]) \in Nat
           /\ \A i \in 1 .. Len(TaskLocks[p]) : TaskLocks[p][i] \in Files
           /\ TreeLock[p] \in Files
           /\ \A i \in 1 .. Len(TaskLocks[p]), q \in Processes : TaskLocks[p][i] # TreeLock[q]
           /\ \A i, j \in 1 .. Len(TaskLocks[p]) : TaskLocks[p][i] = TaskLocks[p][j] => i = j
           /\ p # None
<1>1. TaskLocks[p] \in Seq(Files) /\ TreeLock[p] \in Files /\ p # None
  BY LocksAssumption
<1>2. DOMAIN TaskLocks[p] = 1 .. Len(TaskLocks[p]) /\ Len(TaskLocks[p]) \in Nat
  BY <1>1
<1>3. \A i \in 1 .. Len(TaskLocks[p]) : TaskLocks[p][i] \in Files
  BY <1>1, <1>2
<1>4. \A i \in DOMAIN TaskLocks[p] :
         /\ \A q \in Processes : TaskLocks[p][i] # TreeLock[q]
         /\ \A j \in DOMAIN TaskLocks[p] : TaskLocks[p][i] = TaskLocks[p][j] => i = j
  BY LocksAssumption
<1>. QED BY <1>1, <1>2, <1>3, <1>4

LEMMA WantedTyped ==
    ASSUME TypeInv, NEW p \in Processes
    PROVE  /\ Wanted(p) \in Files
           /\ proc[p].gave < proc[p].took => Returned(p) \in Files
           /\ proc[p] \in Procs
<1>1. proc[p] \in Procs /\ proc[p].took <= Len(TaskLocks[p]) /\ proc[p].gave <= proc[p].took
  BY DEF TypeInv, TypeOK, Procs
<1>2. proc[p].took \in Nat /\ proc[p].gave \in Nat
  BY <1>1 DEF Procs
<1>3. ~Tasked(p) => proc[p].took + 1 \in 1 .. Len(TaskLocks[p])
  BY <1>1, <1>2, TasksTyped DEF Tasked
<1>4. proc[p].gave < proc[p].took => proc[p].gave + 1 \in 1 .. Len(TaskLocks[p])
  BY <1>1, <1>2, TasksTyped
<1>. QED BY <1>1, <1>3, <1>4, TasksTyped DEF Wanted, Returned

LEMMA JudgedTyped ==
    ASSUME NEW f \in Files PROVE Judged(f) \in Verdicts /\ Judged(f) # "own"
BY DEF Judged, Verdicts

-----------------------------------------------------------------------------
(* Type correctness *)

LEMMA NoFileTyped == NoFile \in LockFiles /\ NoFile.ino = None /\ NoFile.text = Blank /\ Blank.pid = None /\ Blank \in Texts
BY DEF NoFile, LockFiles, Blank, Texts

LEMMA InitTypes == Init => TypeInv
<1>. SUFFICES ASSUME Init PROVE TypeInv
  OBVIOUS
<1>1. TypeOK
  BY NoFileTyped DEF Init, TypeOK, Steps, Acquiring, Guarding, Session, Verdicts
<1>. QED BY <1>1, TasksTyped DEF Init, TypeInv, At

\* the file after each kind of system call
LEMMA FilesTyped ==
    ASSUME TypeInv, NEW p \in Processes, NEW f \in Files
    PROVE  /\ [file EXCEPT ![f] = NoFile] \in [Files -> LockFiles]
           /\ [file EXCEPT ![f] = [ino |-> p, text |-> Blank]] \in [Files -> LockFiles]
           /\ file[f] # NoFile => [file EXCEPT ![f].text = Blank] \in [Files -> LockFiles]
           /\ \A i : i \in Processes /\ Write(p, f, i) => file' \in [Files -> LockFiles]
           /\ Losing(p, f) \subseteq [of: Processes, file: Files, why: Causes]
<1>1. file \in [Files -> LockFiles] /\ file[f] \in LockFiles
  BY DEF TypeInv, TypeOK
<1>2. \A g \in LockFiles : [file EXCEPT ![f] = g] \in [Files -> LockFiles]
  BY <1>1
<1>3. [ino |-> p, text |-> Blank] \in LockFiles
  BY NoFileTyped DEF LockFiles
<1>4. file[f].ino \in Processes \cup {None} /\ (file[f] # NoFile => file[f].ino \in Processes)
  BY <1>1, NoFileTyped DEF LockFiles
<1>5. file[f] # NoFile => [file[f] EXCEPT !.text = Blank] \in LockFiles
  BY <1>1, NoFileTyped DEF LockFiles
<1>6. \A i : i \in Processes /\ file[f].ino = i => [file[f] EXCEPT !.text = [pid |-> p, age |-> "fresh"]] \in LockFiles
  <2>1. [pid |-> p, age |-> "fresh"] \in Texts
    BY DEF Texts
  <2>2. \A i : i \in Processes /\ file[f].ino = i => file[f] \in [ino: Processes, text: Texts]
    BY <1>1, NoFileTyped, LocksAssumption DEF LockFiles
  <2>. QED BY <2>1, <2>2 DEF LockFiles
<1>7. ASSUME NEW i, i \in Processes, Write(p, f, i) PROVE file' \in [Files -> LockFiles]
  <2>1. CASE file[f].ino = i
    <3>1. file' = [file EXCEPT ![f] = [file[f] EXCEPT !.text = [pid |-> p, age |-> "fresh"]]]
      BY <1>7, <2>1, <1>1 DEF Write
    <3>. QED BY <3>1, <1>2, <1>6, <1>7, <2>1
  <2>2. CASE file[f].ino # i
    BY <1>7, <2>2, <1>1 DEF Write
  <2>. QED BY <2>1, <2>2
<1>8. file[f] # NoFile => [file EXCEPT ![f].text = Blank] \in [Files -> LockFiles]
  <2>1. [file EXCEPT ![f].text = Blank] = [file EXCEPT ![f] = [file[f] EXCEPT !.text = Blank]]
    BY <1>1
  <2>. QED BY <2>1, <1>2, <1>5
<1>9. Losing(p, f) \subseteq [of: Processes, file: Files, why: Causes]
  BY <1>4 DEF Losing
<1>. QED BY <1>2, <1>3, NoFileTyped, <1>7, <1>8, <1>9

\* the moves of a process
Kept(q, p) ==
    /\ q \in Procs
    /\ q.took <= Len(TaskLocks[p]) /\ q.gave <= q.took
    /\ q.step = "remove" => q.gave < q.took
    /\ q.step = "start" => q.took = 0
    /\ q.step = "rewrite" => q.saw = "own" /\ q.ino # None

LEMMA MoveTypes ==
    ASSUME TypeInv, NEW p \in Processes, NEW q, Kept(q, p), proc' = [proc EXCEPT ![p] = q],
           file' \in [Files -> LockFiles], lost' \subseteq [of: Processes, file: Files, why: Causes]
    PROVE  TypeInv'
<1>1. proc \in [Processes -> Procs]
  BY DEF TypeInv, TypeOK, Procs
<1>2. proc' \in [Processes -> Procs]
  BY <1>1 DEF Kept
<1>3. TypeOK'
  BY <1>2 DEF TypeOK, Procs
<1>4. \A r \in Processes : proc'[r] = IF r = p THEN q ELSE proc[r]
  BY <1>1
<1>. QED BY <1>3, <1>4 DEF TypeInv, Kept, At

\* what Goto and Recall make of a process
LEMMA GotoMoves ==
    ASSUME TypeInv, NEW p \in Processes, NEW step \in Steps \ {"remove", "start", "rewrite"}, Goto(p, step)
    PROVE  \E q : /\ Kept(q, p) /\ proc' = [proc EXCEPT ![p] = q]
                  /\ q.step = step /\ q.took = proc[p].took /\ q.gave = proc[p].gave
<1>1. Kept(proc[p], p) /\ proc[p] \in Procs
  BY WantedTyped DEF TypeInv, Kept, At
<1>2. [proc[p] EXCEPT !.step = step] \in Procs
  BY <1>1 DEF Procs
<1>3. Kept([proc[p] EXCEPT !.step = step, !.saw = "missing", !.ino = None], p)
  BY <1>1 DEF Kept, Procs, Verdicts
<1>4. proc' = [proc EXCEPT ![p] = [proc[p] EXCEPT !.step = step, !.saw = "missing", !.ino = None]]
  BY <1>2 DEF Goto, Forget
<1> DEFINE q == [proc[p] EXCEPT !.step = step, !.saw = "missing", !.ino = None]
<1>5. q.step = step /\ q.took = proc[p].took /\ q.gave = proc[p].gave
  BY <1>1 DEF Procs
<1>6. Kept(q, p) /\ proc' = [proc EXCEPT ![p] = q]
  BY <1>3, <1>4
<1> HIDE DEF q
<1>. QED BY <1>5, <1>6

LEMMA RecallMoves ==
    ASSUME TypeInv, NEW p \in Processes, NEW f \in Files, NEW v \in Verdicts, NEW step \in Steps \ {"start"},
           step = "remove" => proc[p].gave < proc[p].took, step = "rewrite" => v = "own" /\ file[f].ino # None,
           Recall(p, f, v, step)
    PROVE  \E q : /\ Kept(q, p) /\ proc' = [proc EXCEPT ![p] = q]
                  /\ q.step = step /\ q.took = proc[p].took /\ q.gave = proc[p].gave
                  /\ q.saw = v /\ q.ino = file[f].ino
<1>1. Kept(proc[p], p) /\ proc[p] \in Procs /\ proc \in [Processes -> Procs]
  BY WantedTyped DEF TypeInv, TypeOK, Procs, Kept, At
<1>2. file[f].ino \in Processes \cup {None}
  BY NoFileTyped DEF TypeInv, TypeOK, LockFiles
<1>3. Kept([proc[p] EXCEPT !.step = step, !.saw = v, !.ino = file[f].ino], p)
  BY <1>1, <1>2 DEF Kept, Procs
<1>4. proc' = [proc EXCEPT ![p] = [proc[p] EXCEPT !.step = step, !.saw = v, !.ino = file[f].ino]]
  BY <1>1 DEF Recall
<1> DEFINE q == [proc[p] EXCEPT !.step = step, !.saw = v, !.ino = file[f].ino]
<1>5. /\ q.step = step /\ q.took = proc[p].took /\ q.gave = proc[p].gave
      /\ q.saw = v /\ q.ino = file[f].ino
  BY <1>1 DEF Procs
<1>6. Kept(q, p) /\ proc' = [proc EXCEPT ![p] = q]
  BY <1>3, <1>4
<1> HIDE DEF q
<1>. QED BY <1>5, <1>6

-----------------------------------------------------------------------------
(* What a step of one process leaves alone *)

LEMMA OthersKeep ==
    ASSUME TypeInv, NEW p \in Processes, NEW q, Kept(q, p), proc' = [proc EXCEPT ![p] = q], lost \subseteq lost'
    PROVE  /\ proc'[p] = q
           /\ \A r \in Processes \ {p} :
                /\ proc'[r] = proc[r]
                /\ Alive(r)' <=> Alive(r)
                /\ Started(r)' <=> Started(r)
                /\ Wanted(r)' = Wanted(r) /\ Target(r)' = Target(r)
                /\ \A f : Holds(r, f)' <=> Holds(r, f)
                /\ \A step : At(r, step)' <=> At(r, step)
           /\ \A r, f : Robbed(r, f) => Robbed(r, f)'
<1>1. proc \in [Processes -> Procs]
  BY DEF TypeInv, TypeOK, Procs
<1>2. proc'[p] = q /\ \A r \in Processes \ {p} : proc'[r] = proc[r]
  BY <1>1
<1>3. ASSUME NEW r \in Processes \ {p}
      PROVE  /\ Alive(r)' <=> Alive(r)
             /\ Started(r)' <=> Started(r)
             /\ Wanted(r)' = Wanted(r) /\ Target(r)' = Target(r)
             /\ \A step : At(r, step)' <=> At(r, step)
  BY <1>2 DEF Alive, Started, Wanted, Tasked, Target, Returned, At
<1>4. ASSUME NEW r \in Processes \ {p}, NEW f PROVE Holds(r, f)' <=> Holds(r, f)
  BY <1>2, <1>3 DEF Holds
<1>5. \A r, f : Robbed(r, f) => Robbed(r, f)'
  BY DEF Robbed
<1>. QED BY <1>2, <1>3, <1>4, <1>5

\* p starts at most once and never comes back from its end
Onward(q, p) ==
    /\ q.step # "start"
    /\ proc[p].step = "done" => q.step = "done"
    /\ proc[p].step = "dead" => q.step = "dead"

LEMMA GoneStays ==
    ASSUME TypeInv, NEW p \in Processes, NEW q, Kept(q, p), proc' = [proc EXCEPT ![p] = q], lost \subseteq lost',
           Onward(q, p)
    PROVE  /\ \A r \in Processes : Started(r) => Started(r)'
           /\ \A r \in Processes : \A f : Gone(r, f) => Gone(r, f)'
<1>1. proc'[p] = q /\ \A r \in Processes \ {p} : proc'[r] = proc[r]
  BY OthersKeep
<1>2. \A r, f : Robbed(r, f) => Robbed(r, f)'
  BY OthersKeep
<1>3. ASSUME NEW r \in Processes PROVE Started(r) => Started(r)'
  BY <1>1 DEF Started, Onward
<1>4. ASSUME NEW r \in Processes, NEW f PROVE Gone(r, f) => Gone(r, f)'
  <2>1. proc[r].step \in {"done", "dead"} => proc'[r].step \in {"done", "dead"}
    BY <1>1 DEF Onward
  <2>. QED BY <2>1, <1>2 DEF Gone
<1>. QED BY <1>3, <1>4

\* a process that acts on what it read before knows it still
LEMMA OthersKnow ==
    ASSUME LockInv, NEW p \in Processes, NEW q, Kept(q, p), proc' = [proc EXCEPT ![p] = q], lost \subseteq lost',
           Onward(q, p), q.step \in Acting => Knows(p)'
    PROVE  Recalled'
<1>0. TypeInv /\ Recalled /\ proc \in [Processes -> Procs]
  BY DEF LockInv, TypeInv, TypeOK, Procs
<1>1. ASSUME NEW r \in Processes, r # p, proc'[r].step \in Acting PROVE Knows(r)'
  <2>1. proc'[r] = proc[r] /\ Target(r)' = Target(r)
    BY <1>0, <1>1, OthersKeep
  <2>2. Knows(r) /\ proc[r].ino \in Processes \cup {None}
    BY <1>0, <1>1, <2>1 DEF Recalled, Procs
  <2>3. proc[r].ino # None => Started(proc[r].ino)'
    BY <1>0, <2>1, <2>2, GoneStays DEF Knows, Started
  <2>4. proc[r].saw \in {"dead", "own"} /\ proc[r].ino \notin {r, None} => Gone(proc[r].ino, Target(r))'
    BY <1>0, <2>1, <2>2, GoneStays DEF Knows
  <2>. QED BY <2>1, <2>2, <2>3, <2>4 DEF Knows
<1>2. proc'[p] = q
  BY <1>0, OthersKeep
<1>. QED BY <1>1, <1>2 DEF Recalled

-----------------------------------------------------------------------------
(* A step that reads, or does nothing to the files *)

LEMMA Quiet ==
    ASSUME LockInv, NEW p \in Processes, NEW q, Kept(q, p), proc' = [proc EXCEPT ![p] = q],
           UNCHANGED <<file, lost>>, Onward(q, p), q.step \in Acting => Knows(p)',
           \A f \in Files : Holds(p, f)' => Holds(p, f),
           \A f \in Files : Answers(p, f) => q.step = "dead" \/ Answers(p, f)'
    PROVE  LockInv'
<1>0. TypeInv /\ lost \subseteq lost' /\ file \in [Files -> LockFiles] /\ proc'[p] = q
  BY OthersKeep DEF LockInv, TypeInv, TypeOK
<1>1. TypeInv'
  BY <1>0, MoveTypes DEF TypeInv, TypeOK
<1>2. HeldOrLost'
  <2>1. \A r \in Processes, f \in Files : Holds(r, f)' => Holds(r, f)
    BY <1>0, OthersKeep
  <2>. QED BY <2>1, <1>0, OthersKeep DEF LockInv, HeldOrLost
<1>3. Overwritten'
  <2>1. ASSUME NEW f \in Files, file[f].ino # None PROVE file[f].ino \in Processes
    BY <1>0, <2>1, NoFileTyped DEF LockFiles
  <2>. QED BY <2>1, <1>0, GoneStays DEF LockInv, Overwritten
<1>4. Recalled'
  BY <1>0, OthersKnow
<1>5. Covered'
  <2> SUFFICES ASSUME NEW f \in Files, file[f] # NoFile
               PROVE  (\E r \in Processes : At(r, "dead")') \/ \E r \in Processes : Answers(r, f)'
    BY <1>0 DEF Covered
  <2>1. CASE \E r \in Processes : At(r, "dead")
    <3>1. PICK r \in Processes : At(r, "dead")
      BY <2>1
    <3>2. CASE r = p
      BY <3>1, <3>2, <1>0 DEF At, Onward
    <3>3. CASE r # p
      BY <3>1, <3>3, <1>0, OthersKeep
    <3>. QED BY <3>2, <3>3
  <2>2. CASE \E r \in Processes : Answers(r, f)
    <3>1. PICK r \in Processes : Answers(r, f)
      BY <2>2
    <3>2. CASE r = p
      BY <3>1, <3>2, <1>0 DEF At
    <3>3. CASE r # p
      <4>1. Names(f, r)' <=> Names(f, r)
        BY DEF Names, Filled
      <4>2. proc'[r] = proc[r] /\ (Holds(r, f)' <=> Holds(r, f)) /\ Wanted(r)' = Wanted(r)
        BY <3>3, <1>0, OthersKeep
      <4>. QED BY <3>1, <4>1, <4>2 DEF Answers, At
    <3>. QED BY <3>2, <3>3
  <2>. QED BY <2>1, <2>2 DEF LockInv, Covered
<1>. QED BY <1>1, <1>2, <1>3, <1>4, <1>5 DEF LockInv

-----------------------------------------------------------------------------
(* A step that removes or overwrites a file *)

\* a live maker whose file goes is on record as robbed, unless it was before
LEMMA LosingTells ==
    ASSUME LockInv, NEW p \in Processes, proc[p].step \in Acting, NEW f \in Files, f = Target(p),
           lost' = lost \cup Losing(p, f), NEW r \in Processes, r # p, file[f].ino = r, Alive(r)
    PROVE  Robbed(r, f)'
<1>0. Knows(p) /\ proc[p] \in Procs
  BY DEF LockInv, TypeInv, TypeOK, Procs, Recalled
<1>1. r # None
  BY LocksAssumption
<1>2. CASE proc[p].ino # r
  <2>1. [of |-> r, file |-> f, why |-> "swapped"] \in Losing(p, f)
    BY <1>1, <1>2 DEF Losing, Causes
  <2>. QED BY <2>1 DEF Robbed
<1>3. CASE proc[p].ino = r /\ proc[p].saw \in {"unreadable", "old"}
  <2>1. [of |-> r, file |-> f, why |-> proc[p].saw] \in Losing(p, f)
    BY <1>1, <1>3 DEF Losing, Causes
  <2>. QED BY <2>1 DEF Robbed
<1>4. CASE proc[p].ino = r /\ proc[p].saw \in {"dead", "own"}
  <2>1. Gone(r, f)
    BY <1>0, <1>1, <1>4 DEF Knows
  <2>2. Robbed(r, f)
    BY <2>1 DEF Gone, Alive
  <2>. QED BY <2>2 DEF Robbed
<1>5. proc[p].ino = r => proc[p].saw \notin {"held", "missing"}
  BY <1>0, <1>1 DEF Knows
<1>. QED BY <1>0, <1>2, <1>3, <1>4, <1>5 DEF Procs, Verdicts

LEMMA Removing ==
    ASSUME LockInv, NEW p \in Processes, NEW q, Kept(q, p), proc' = [proc EXCEPT ![p] = q],
           proc[p].step \in Acting, NEW f \in Files, f = Target(p), Remove(p, f),
           q.step \notin Acting \cup {"start", "dead"},
           \A g \in Files : Holds(p, g)' => Holds(p, g) /\ g # f,
           \A g \in Files : Answers(p, g) => g = f \/ (Names(g, p) /\ Holds(p, g)')
    PROVE  LockInv'
<1>0. TypeInv /\ lost \subseteq lost' /\ proc'[p] = q /\ file \in [Files -> LockFiles]
      /\ file' = [file EXCEPT ![f] = NoFile] /\ lost' = lost \cup Losing(p, f)
  BY OthersKeep DEF LockInv, TypeInv, TypeOK, Remove
<1>a. Onward(q, p)
  BY DEF Onward, Acting
<1>1. TypeInv'
  <2>1. file' \in [Files -> LockFiles] /\ lost' \subseteq [of: Processes, file: Files, why: Causes]
    BY <1>0, FilesTyped DEF TypeInv, TypeOK
  <2>. QED BY <2>1, <1>0, MoveTypes
<1>b. \A g \in Files : file'[g] = IF g = f THEN NoFile ELSE file[g]
  BY <1>0
<1>2. HeldOrLost'
  <2> SUFFICES ASSUME NEW r \in Processes, NEW g \in Files, Holds(r, g)'
               PROVE  (file'[g].ino = r /\ file'[g].text.pid \in {r, None}) \/ Robbed(r, g)'
    BY DEF HeldOrLost
  <2>1. Holds(r, g)
    BY <1>0, OthersKeep
  <2>2. (file[g].ino = r /\ file[g].text.pid \in {r, None}) \/ Robbed(r, g)'
    BY <2>1, <1>0, OthersKeep DEF LockInv, HeldOrLost
  <2>3. CASE g # f
    BY <2>2, <2>3, <1>b
  <2>4. CASE g = f
    <3>0. r # p
      BY <2>4
    <3>1. r # p /\ Alive(r)
      BY <2>1, <3>0 DEF Holds
    <3>2. file[g].ino = r => Robbed(r, g)'
      BY <3>1, <2>4, <1>0, LosingTells
    <3>. QED BY <3>2, <2>2
  <2>. QED BY <2>3, <2>4
<1>3. Overwritten'
  <2> SUFFICES ASSUME NEW g \in Files, file'[g].ino # None
               PROVE  (Started(file[g].ino) /\ (file[g].text.pid \notin {None, file[g].ino} => Gone(file[g].ino, g)))'
    BY DEF Overwritten
  <2>1. g # f /\ file'[g] = file[g]
    BY <1>b, NoFileTyped
  <2>2. file[g].ino \in Processes
    BY <2>1, <1>0, NoFileTyped DEF LockFiles
  <2>3. Started(file[g].ino) /\ (file[g].text.pid \notin {None, file[g].ino} => Gone(file[g].ino, g))
    BY <2>1 DEF LockInv, Overwritten
  <2>4. \A r \in Processes : (Started(r) => Started(r)') /\ (Gone(r, g) => Gone(r, g)')
    BY <1>0, <1>a, GoneStays
  <2>5. PICK r \in Processes : r = file[g].ino
    BY <2>2
  <2>6. Started(r)' /\ (file[g].text.pid \notin {None, r} => Gone(r, g)')
    BY <2>3, <2>4, <2>5
  <2>. QED BY <2>1, <2>5, <2>6 DEF Started, Gone, Robbed
<1>4. Recalled'
  BY <1>0, <1>a, OthersKnow
<1>5. Covered'
  <2> SUFFICES ASSUME NEW g \in Files, file'[g] # NoFile
               PROVE  (\E r \in Processes : At(r, "dead")') \/ \E r \in Processes : Answers(r, g)'
    BY DEF Covered
  <2>1. g # f /\ file'[g] = file[g]
    BY <1>b
  <2>2. CASE \E r \in Processes : At(r, "dead")
    <3>1. PICK r \in Processes : At(r, "dead")
      BY <2>2
    <3>2. r # p
      BY <3>1 DEF At, Acting
    <3>. QED BY <3>1, <3>2, <1>0, OthersKeep
  <2>3. CASE \E r \in Processes : Answers(r, g)
    <3>1. PICK r \in Processes : Answers(r, g)
      BY <2>3
    <3>3. Names(g, r)' <=> Names(g, r)
      BY <2>1 DEF Names, Filled
    <3>4. CASE r = p
      <4>1. Names(g, p)' /\ Holds(p, g)'
        BY <3>1, <3>3, <3>4, <2>1
      <4>. QED BY <4>1 DEF Answers
    <3>5. CASE r # p
      <4>1. proc'[r] = proc[r] /\ (Holds(r, g)' <=> Holds(r, g)) /\ Wanted(r)' = Wanted(r)
        BY <3>5, <1>0, OthersKeep
      <4>2. Answers(r, g)'
        BY <3>1, <3>3, <4>1, <2>1 DEF Answers, At
      <4>. QED BY <4>2
    <3>. QED BY <3>4, <3>5
  <2>. QED BY <2>1, <2>2, <2>3 DEF LockInv, Covered
<1>. QED BY <1>1, <1>2, <1>3, <1>4, <1>5 DEF LockInv

\* a step that changes one file f: Create, Fill, Truncate, Rewrite
LEMMA Changing ==
    ASSUME LockInv, NEW p \in Processes, NEW q, Kept(q, p), proc' = [proc EXCEPT ![p] = q],
           NEW f \in Files, file' \in [Files -> LockFiles], \A g \in Files \ {f} : file'[g] = file[g],
           lost' \subseteq [of: Processes, file: Files, why: Causes], lost \subseteq lost',
           q.step \notin {"start", "dead"}, Onward(q, p), proc[p].step # "dead", q.step \in Acting => Knows(p)',
           file'[f].text.pid \in {p, None},
           \A r \in Processes \ {p} : file'[f].ino = r =>
               file[f].ino = r /\ ((file[f].text.pid \in {r, None} /\ file'[f].text.pid = file[f].text.pid) \/ Gone(r, f)'),
           \A r \in Processes \ {p} : file[f].ino = r /\ file'[f].ino # r => Gone(r, f)',
           \A g \in Files : Holds(p, g)' => Holds(p, g) \/ g = f,
           Holds(p, f)' => file'[f].ino = p \/ Robbed(p, f)',
           \A g \in Files \ {f} : Answers(p, g) => Names(g, p) /\ Holds(p, g)',
           \E r \in Processes : Answers(r, f)'
    PROVE  LockInv'
<1>0. TypeInv /\ proc'[p] = q /\ file \in [Files -> LockFiles]
  BY OthersKeep DEF LockInv, TypeInv, TypeOK
<1>1. TypeInv'
  BY <1>0, MoveTypes
<1>2. HeldOrLost'
  <2> SUFFICES ASSUME NEW r \in Processes, NEW g \in Files, Holds(r, g)'
               PROVE  (file'[g].ino = r /\ file'[g].text.pid \in {r, None}) \/ Robbed(r, g)'
    BY DEF HeldOrLost
  <2>1. CASE g # f
    <3>1. Holds(r, g)
      BY <1>0, <2>1, OthersKeep
    <3>2. (file[g].ino = r /\ file[g].text.pid \in {r, None}) \/ Robbed(r, g)
      BY <3>1 DEF LockInv, HeldOrLost
    <3>3. Robbed(r, g) => Robbed(r, g)'
      BY <1>0, OthersKeep
    <3>4. file'[g] = file[g]
      BY <2>1
    <3>. QED BY <3>2, <3>3, <3>4
  <2>2. CASE g = f /\ r = p
    BY <2>2
  <2>3. CASE g = f /\ r # p
    <3>0. Alive(r)'
      BY DEF Holds
    <3>1. Holds(r, f) /\ Alive(r)'
      BY <1>0, <2>3, <3>0, OthersKeep
    <3>2. (file[f].ino = r /\ file[f].text.pid \in {r, None}) \/ Robbed(r, f)'
      BY <3>1, <1>0, OthersKeep DEF LockInv, HeldOrLost
    <3>3. Gone(r, f)' => Robbed(r, f)'
      BY <3>1 DEF Gone, Alive
    <3>4. CASE file'[f].ino = r
      <4>1. (file[f].text.pid \in {r, None} /\ file'[f].text.pid = file[f].text.pid) \/ Gone(r, f)'
        BY <2>3, <3>4
      <4>. QED BY <2>3, <3>3, <3>4, <4>1
    <3>5. CASE file'[f].ino # r
      <4>1. file[f].ino = r => Gone(r, f)'
        BY <2>3, <3>5
      <4>. QED BY <2>3, <3>2, <3>3, <4>1
    <3>. QED BY <3>4, <3>5
  <2>. QED BY <2>1, <2>2, <2>3
<1>3. Overwritten'
  <2> SUFFICES ASSUME NEW g \in Files, file'[g].ino # None
               PROVE  (Started(file[g].ino) /\ (file[g].text.pid \notin {None, file[g].ino} => Gone(file[g].ino, g)))'
    BY DEF Overwritten
  <2>1. file'[g].ino \in Processes
    BY NoFileTyped DEF LockFiles
  <2>2. PICK r \in Processes : r = file'[g].ino
    BY <2>1
  <2>3. r # p => file[g].ino = r
    BY <2>2
  <2>4. r # p => Started(r)'
    <3>1. r # p => Started(r)
      BY <2>3, LocksAssumption DEF LockInv, Overwritten
    <3>. QED BY <3>1, <1>0, GoneStays
  <2>5. Started(r)'
    BY <2>4, <1>0 DEF Started
  <2>6. file'[g].text.pid \notin {None, r} => Gone(r, g)'
    <3>1. CASE g = f
      <4>1. CASE r = p
        BY <3>1, <4>1
      <4>2. CASE r # p
        <5>1. (file[f].text.pid \in {r, None} /\ file'[f].text.pid = file[f].text.pid) \/ Gone(r, f)'
          BY <3>1, <4>2, <2>2
        <5>. QED BY <5>1, <3>1
      <4>. QED BY <4>1, <4>2
    <3>2. CASE g # f
      <4>1. file'[g] = file[g] /\ file[g].ino = r
        BY <3>2, <2>2
      <4>2. file[g].text.pid \notin {None, r} => Gone(r, g)
        BY <4>1, LocksAssumption DEF LockInv, Overwritten
      <4>. QED BY <4>1, <4>2, <1>0, GoneStays
    <3>. QED BY <3>1, <3>2
  <2>. QED BY <2>2, <2>5, <2>6 DEF Started, Gone, Robbed
<1>4. Recalled'
  BY <1>0, OthersKnow
<1>5. Covered'
  <2> SUFFICES ASSUME NEW g \in Files, file'[g] # NoFile
               PROVE  (\E r \in Processes : At(r, "dead")') \/ \E r \in Processes : Answers(r, g)'
    BY DEF Covered
  <2>1. CASE g = f
    BY <2>1
  <2>2. CASE g # f /\ \E r \in Processes : At(r, "dead")
    <3>1. PICK r \in Processes : At(r, "dead")
      BY <2>2
    <3>2. r # p
      BY <3>1 DEF At
    <3>. QED BY <3>1, <3>2, <1>0, OthersKeep
  <2>3. CASE g # f /\ \E r \in Processes : Answers(r, g)
    <3>1. PICK r \in Processes : Answers(r, g)
      BY <2>3
    <3>2. file'[g] = file[g]
      BY <2>3
    <3>3. Names(g, r)' <=> Names(g, r)
      BY <3>2 DEF Names, Filled
    <3>4. CASE r = p
      <4>1. Names(g, p)' /\ Holds(p, g)'
        BY <3>1, <3>3, <3>4, <2>3
      <4>. QED BY <4>1 DEF Answers
    <3>5. CASE r # p
      <4>1. proc'[r] = proc[r] /\ (Holds(r, g)' <=> Holds(r, g)) /\ Wanted(r)' = Wanted(r)
        BY <3>5, <1>0, OthersKeep
      <4>2. Answers(r, g)'
        BY <3>1, <3>2, <3>3, <4>1 DEF Answers, At
      <4>. QED BY <4>2
    <3>. QED BY <3>4, <3>5
  <2>. QED BY <2>1, <2>2, <2>3 DEF LockInv, Covered
<1>. QED BY <1>1, <1>2, <1>3, <1>4, <1>5 DEF LockInv

-----------------------------------------------------------------------------
(* The steps that read *)

LEMMA QuietGoto ==
    ASSUME LockInv, NEW p \in Processes, NEW step \in Steps \ (Acting \cup {"start", "fill"}), Goto(p, step),
           UNCHANGED <<file, lost>>, proc[p].step \notin {"done", "dead"},
           step \in Session => proc[p].step \in Session,
           proc[p].step \in {"fill", "rewrite"} => step = "dead",
           proc[p].step \in Session /\ step \notin Session \cup {"dead"} => ~Names(TreeLock[p], p),
           step = "done" => proc[p].gave = proc[p].took /\ proc[p].step \notin Session
    PROVE  LockInv'
<1>0. TypeInv /\ proc[p] \in Procs
  BY WantedTyped DEF LockInv
<1>1. PICK q : /\ Kept(q, p) /\ proc' = [proc EXCEPT ![p] = q]
               /\ q.step = step /\ q.took = proc[p].took /\ q.gave = proc[p].gave
  BY <1>0, GotoMoves DEF Acting
<1>2. q.step = step /\ q.took = proc[p].took /\ q.gave = proc[p].gave
  BY <1>0, <1>1 DEF Procs
<1>3. proc'[p] = q
  BY <1>0, <1>1, OthersKeep
<1>4. Onward(q, p) /\ q.step \notin Acting
  BY <1>2 DEF Onward
<1>5. ASSUME NEW f \in Files, Holds(p, f)' PROVE Holds(p, f)
  <2>2. CASE proc[p].step # "start"
    BY <1>2, <1>3, <1>5, <2>2 DEF Holds, Alive, At
  <2>3. CASE proc[p].step = "start"
    <3>1. \E i \in proc[p].gave + 1 .. proc[p].took : TaskLocks[p][i] = f
      BY <1>2, <1>3, <1>5, <2>3 DEF Holds, Alive, At, Session
    <3>2. proc[p].took = 0 /\ proc[p].gave \in Nat
      BY <1>0, <2>3 DEF TypeInv, At, Procs
    <3>. QED BY <3>1, <3>2
  <2>. QED BY <2>2, <2>3
<1>6. ASSUME NEW f \in Files, Answers(p, f), q.step # "dead" PROVE Answers(p, f)'
  <2>1. Names(f, p) /\ Holds(p, f)
    BY <1>2, <1>6 DEF Answers, At
  <2>2. Names(f, p)'
    BY <2>1 DEF Names, Filled
  <2>3. step # "done"
    <3>1. ASSUME step = "done" PROVE FALSE
      <4>1. proc[p].gave \in Nat /\ proc[p].took \in Nat
        BY <1>0 DEF Procs
      <4>2. proc[p].gave + 1 .. proc[p].took = {}
        BY <4>1, <3>1
      <4>. QED BY <2>1, <3>1, <4>2, <1>2, <1>6 DEF Holds, At
    <3>. QED BY <3>1
  <2>4. Holds(p, f)'
    BY <1>2, <1>3, <1>6, <2>1, <2>3 DEF Holds, Alive, At
  <2>. QED BY <2>2, <2>4 DEF Answers
<1>. QED BY <1>1, <1>4, <1>5, <1>6, Quiet

\* what is read now is known at the next step
LEMMA KnowsNow ==
    ASSUME LockInv, NEW p \in Processes, NEW q, Kept(q, p), proc' = [proc EXCEPT ![p] = q], lost \subseteq lost',
           Onward(q, p), NEW f \in Files, Target(p)' = f, q.ino = file[f].ino,
           \/ q.saw = Judged(f) /\ Judged(f) # "held"
           \/ q.saw = "own" /\ Names(f, p)
    PROVE  Knows(p)'
<1>0. TypeInv /\ Overwritten /\ proc'[p] = q /\ file[f] \in LockFiles
  BY OthersKeep DEF LockInv, TypeInv, TypeOK
<1>1. q.saw # "held"
  OBVIOUS
<1>2. q.saw = "missing" => q.ino = None
  BY NoFileTyped DEF Judged
<1>3. q.ino # None => q.ino \in Processes /\ Started(q.ino)
  BY <1>0, NoFileTyped DEF LockFiles, Overwritten
<1>4. ASSUME q.saw \in {"dead", "own"}, q.ino \notin {p, None} PROVE Gone(q.ino, f)
  <2>1. file[f] \in [ino: Processes, text: Texts] /\ file[f].text # Blank
    BY <1>0, <1>4, NoFileTyped DEF LockFiles, Judged, Names, Filled
  <2>2. file[f].text.pid \in Processes
    BY <2>1 DEF Texts
  <2>3. file[f].text.pid # None
    BY <2>2, LocksAssumption
  <2>4. CASE file[f].text.pid # file[f].ino
    BY <2>3, <2>4, <1>0, <1>4 DEF Overwritten
  <2>5. CASE file[f].text.pid = file[f].ino
    <3>1. ~Alive(q.ino)
      BY <2>1, <2>5, <1>4 DEF Judged, Names, Filled
    <3>. QED BY <3>1, <1>3, <1>4 DEF Alive, Started, Gone
  <2>. QED BY <2>4, <2>5
<1>5. ASSUME q.ino # None PROVE q.ino \in Processes /\ Started(q.ino)' /\ (Gone(q.ino, f) => Gone(q.ino, f)')
  <2>1. PICK r \in Processes : r = q.ino
    BY <1>3, <1>5
  <2>2. Started(r)' /\ (Gone(r, f) => Gone(r, f)')
    BY <2>1, <1>0, <1>3, <1>5, GoneStays
  <2>. QED BY <2>1, <2>2 DEF Started, Gone, Robbed
<1>. QED BY <1>0, <1>1, <1>2, <1>4, <1>5 DEF Knows, Started, Gone, Robbed

LEMMA QuietRecall ==
    ASSUME LockInv, NEW p \in Processes, NEW f \in Files, NEW v \in Verdicts, NEW step \in Acting \ {"rewrite"},
           Recall(p, f, v, step), UNCHANGED <<file, lost>>, proc[p].step \notin {"start", "fill", "rewrite", "done", "dead"},
           \/ v = Judged(f) /\ Judged(f) # "held"
           \/ v = "own" /\ Names(f, p),
           f = IF step = "reclaim" THEN Wanted(p) ELSE IF step = "remove" THEN Returned(p) ELSE TreeLock[p],
           step \in Session <=> proc[p].step \in Session,
           step = "remove" => proc[p].gave < proc[p].took
    PROVE  LockInv'
<1>0. TypeInv /\ proc[p] \in Procs /\ step \in Steps \ {"start", "done", "dead", "fill", "rewrite"}
  BY WantedTyped DEF LockInv, Acting, Steps, Acquiring, Guarding, Session
<1>1. PICK q : /\ Kept(q, p) /\ proc' = [proc EXCEPT ![p] = q]
               /\ q.step = step /\ q.took = proc[p].took /\ q.gave = proc[p].gave
               /\ q.saw = v /\ q.ino = file[f].ino
  <2>1. TypeInv /\ step \in Steps \ {"start"} /\ (step = "remove" => proc[p].gave < proc[p].took) /\ step # "rewrite"
    BY <1>0
  <2>2. Recall(p, f, v, step)
    OBVIOUS
  <2>. QED BY ONLY <2>1, <2>2, p \in Processes, f \in Files, v \in Verdicts, RecallMoves
<1>2. q.step = step /\ q.took = proc[p].took /\ q.gave = proc[p].gave /\ q.saw = v /\ q.ino = file[f].ino
  BY <1>0, <1>1 DEF Procs
<1>3. proc'[p] = q
  BY <1>0, <1>1, OthersKeep
<1>4. Onward(q, p)
  BY <1>0, <1>2 DEF Onward
<1>5. Target(p)' = f
  BY <1>2, <1>3 DEF Target, At, Wanted, Tasked, Returned
<1>6. Knows(p)'
  <2>1. lost \subseteq lost'
    OBVIOUS
  <2>2. \/ q.saw = Judged(f) /\ Judged(f) # "held"
        \/ q.saw = "own" /\ Names(f, p)
    BY <1>2
  <2>3. Kept(q, p) /\ proc' = [proc EXCEPT ![p] = q] /\ q.ino = file[f].ino
    BY <1>1, <1>2
  <2>. QED BY ONLY <2>1, <2>2, <2>3, <1>4, <1>5, LockInv, p \in Processes, f \in Files, KnowsNow
<1>7. ASSUME NEW g \in Files PROVE Holds(p, g)' <=> Holds(p, g)
  BY <1>0, <1>2, <1>3 DEF Holds, Alive, At
<1>8. ASSUME NEW g \in Files, Answers(p, g) PROVE Answers(p, g)'
  <2>1. Names(g, p) /\ Holds(p, g)
    BY <1>8 DEF Answers, At
  <2>2. Names(g, p)'
    BY <2>1 DEF Names, Filled
  <2>. QED BY <2>1, <2>2, <1>7 DEF Answers
<1>. QED BY <1>1, <1>4, <1>6, <1>7, <1>8, Quiet

LEMMA ReadingSteps ==
    ASSUME LockInv, NEW p \in Processes,
           \/ Start(p) \/ Look(p) \/ Check(p) \/ OpenSession(p) \/ Begin(p) \/ EndAttempt(p) \/ Close(p)
           \/ Finish(p) \/ Die(p)
    PROVE  LockInv'
<1>0. TypeInv /\ proc[p] \in Procs /\ Wanted(p) \in Files /\ TreeLock[p] \in Files
  BY WantedTyped, TasksTyped DEF LockInv
<1>1. CASE Start(p)
  BY <1>1, QuietGoto DEF Start, At, Steps, Acting, Acquiring, Session
<1>2. CASE Look(p)
  <2>1. CASE Judged(Wanted(p)) = "held"
    BY <1>2, <2>1, QuietGoto DEF Look, At, Steps, Acting, Acquiring, Session
  <2>2. CASE Judged(Wanted(p)) # "held"
    BY <1>0, <1>2, <2>2, QuietRecall, JudgedTyped DEF Look, At, Acting, Session
  <2>. QED BY <2>1, <2>2
<1>3. CASE Check(p)
  <2>1. CASE Judged(TreeLock[p]) \in {"held", "missing", "unreadable"}
    BY <1>3, <2>1, QuietGoto DEF Check, At, Steps, Acting, Session
  <2>2. CASE Judged(TreeLock[p]) \notin {"held", "missing", "unreadable"}
    BY <1>0, <1>3, <2>2, QuietRecall, JudgedTyped DEF Check, At, Acting, Session
  <2>. QED BY <2>1, <2>2
<1>4. CASE OpenSession(p)
  BY <1>4, QuietGoto DEF OpenSession, At, Steps, Acting, Acquiring, Session
<1>5. CASE Begin(p)
  BY <1>0, <1>5, QuietRecall DEF Begin, At, Acting, Session, Verdicts
<1>6. CASE EndAttempt(p)
  BY <1>6, QuietGoto DEF EndAttempt, At, Steps, Acting, Session
<1>7. CASE Close(p)
  <2>1. CASE At(p, "open") /\ Goto(p, "close")
    BY <1>7, <2>1, QuietGoto DEF Close, At, Steps, Acting, Session
  <2>2. CASE At(p, "close") /\ ~Names(TreeLock[p], p) /\ Goto(p, "leave")
    BY <1>7, <2>2, QuietGoto DEF Close, At, Steps, Acting, Session
  <2>3. CASE At(p, "close") /\ Names(TreeLock[p], p) /\ Recall(p, TreeLock[p], "own", "drop")
    BY <1>0, <1>7, <2>3, QuietRecall DEF Close, At, Acting, Session, Verdicts
  <2>. QED BY <1>7, <2>1, <2>2, <2>3 DEF Close
<1>8. CASE Finish(p)
  BY <1>8, QuietGoto DEF Finish, At, Steps, Acting, Session
<1>9. CASE Die(p)
  BY <1>9, QuietGoto DEF Die, Alive, Steps, Acting, Session
<1>. QED BY <1>1, <1>2, <1>3, <1>4, <1>5, <1>6, <1>7, <1>8, <1>9

\* the steps of releaseTaskLock that read
LEMMA LeavingStep ==
    ASSUME LockInv, NEW p \in Processes, Leave(p) PROVE LockInv'
<1>0. TypeInv /\ proc[p] \in Procs /\ At(p, "leave") /\ UNCHANGED <<file, lost>> /\ proc[p].gave <= proc[p].took
  BY WantedTyped DEF LockInv, Leave, TypeInv
<1>1. CASE proc[p].gave = proc[p].took
  BY <1>0, <1>1, QuietGoto DEF Leave, At, Steps, Acting, Session
<1>2. CASE proc[p].gave # proc[p].took
  <2>0. /\ proc[p].gave \in Nat /\ proc[p].took \in Nat /\ proc[p].gave < proc[p].took
        /\ Returned(p) \in Files
    BY <1>0, <1>2, WantedTyped DEF Procs
  <2>1. CASE ~Filled(Returned(p)) \/ Names(Returned(p), p)
    <3> DEFINE v == IF Filled(Returned(p)) THEN "own" ELSE Judged(Returned(p))
    <3>1. Recall(p, Returned(p), v, "remove")
      BY <1>2, <2>1 DEF Leave, Names
    <3>2. v \in Verdicts
      BY <2>0, JudgedTyped DEF Verdicts
    <3>3. \/ v = Judged(Returned(p)) /\ Judged(Returned(p)) # "held"
          \/ v = "own" /\ Names(Returned(p), p)
      <4>1. CASE Filled(Returned(p))
        BY <2>1, <4>1
      <4>2. CASE ~Filled(Returned(p))
        BY <4>2 DEF Judged
      <4>. QED BY <4>1, <4>2
    <3> HIDE DEF v
    <3>. QED BY <1>0, <2>0, <3>1, <3>2, <3>3, QuietRecall DEF At, Acting, Session
  <2>2. CASE Filled(Returned(p)) /\ ~Names(Returned(p), p)
    <3> DEFINE q == [proc[p] EXCEPT !.gave = @ + 1]
    <3>1. proc' = [proc EXCEPT ![p] = q]
      BY <1>2, <2>2 DEF Leave
    <3>2. q.step = "leave" /\ q.took = proc[p].took /\ q.gave = proc[p].gave + 1 /\ q \in Procs
      BY <1>0, <2>0 DEF Procs, At
    <3> HIDE DEF q
    <3>3. Kept(q, p)
      BY <1>0, <2>0, <3>2 DEF Kept, TypeInv
    <3>4. proc'[p] = q
      BY <1>0, <3>1, <3>3, OthersKeep
    <3>5. Onward(q, p) /\ q.step \notin Acting
      BY <1>0, <3>2 DEF Onward, Acting, At
    <3>6. ASSUME NEW f \in Files, Holds(p, f)' PROVE Holds(p, f)
      BY <1>0, <2>0, <3>2, <3>4, <3>6 DEF Holds, Alive, At, Session
    <3>7. ASSUME NEW f \in Files, Answers(p, f) PROVE Answers(p, f)'
      <4>1. Names(f, p) /\ Holds(p, f)
        BY <1>0, <3>7 DEF Answers, At
      <4>2. f # TaskLocks[p][proc[p].gave + 1]
        BY <2>2, <4>1 DEF Returned
      <4>3. PICK i \in proc[p].gave + 1 .. proc[p].took : TaskLocks[p][i] = f
        BY <4>1, <1>0 DEF Holds, At, Session
      <4>4. i \in q.gave + 1 .. q.took
        BY <2>0, <3>2, <4>2, <4>3
      <4>5. Holds(p, f)'
        BY <3>2, <3>4, <4>3, <4>4 DEF Holds, Alive
      <4>6. Names(f, p)'
        BY <1>0, <4>1 DEF Names, Filled
      <4>. QED BY <4>5, <4>6 DEF Answers
    <3>. QED BY <1>0, <3>1, <3>3, <3>5, <3>6, <3>7, Quiet
  <2>. QED BY <2>1, <2>2
<1>. QED BY <1>1, <1>2

-----------------------------------------------------------------------------
(* The steps that remove *)

\* what a process removes is not one of the task locks it keeps
LEMMA RemovingGoto ==
    ASSUME LockInv, NEW p \in Processes, NEW f \in Files, f = Target(p), Remove(p, f),
           NEW step \in {"create", "step", "leave"}, Goto(p, step),
           \/ At(p, "reclaim") \/ At(p, "sweep")
           \/ At(p, "drop") /\ f = TreeLock[p]
    PROVE  LockInv'
<1>0. TypeInv /\ proc[p] \in Procs /\ step \in Steps \ {"remove", "start", "rewrite"}
  BY WantedTyped DEF LockInv, Steps, Acquiring
<1>1. PICK q : /\ Kept(q, p) /\ proc' = [proc EXCEPT ![p] = q]
               /\ q.step = step /\ q.took = proc[p].took /\ q.gave = proc[p].gave
  BY <1>0, GotoMoves
<1>2. proc'[p] = q
  <2>1. lost \subseteq lost'
    BY DEF Remove
  <2>. QED BY <2>1, <1>0, <1>1, OthersKeep
<1>3. f \notin {TaskLocks[p][i] : i \in proc[p].gave + 1 .. proc[p].took}
  <2>1. /\ proc[p].gave \in Nat /\ proc[p].took \in Nat /\ proc[p].took <= Len(TaskLocks[p])
        /\ Len(TaskLocks[p]) \in Nat
    BY <1>0, TasksTyped DEF Procs, TypeInv
  <2>2. CASE f = TreeLock[p]
    BY <2>1, <2>2, TasksTyped
  <2>3. CASE f # TreeLock[p]
    <3>1. ~Tasked(p) /\ f = TaskLocks[p][proc[p].took + 1]
      BY <2>3 DEF Target, Wanted, At
    <3>2. proc[p].took + 1 \in 1 .. Len(TaskLocks[p])
      BY <2>1, <3>1 DEF Tasked
    <3>3. \A i \in proc[p].gave + 1 .. proc[p].took : i \in 1 .. Len(TaskLocks[p]) /\ i # proc[p].took + 1
      BY <2>1
    <3>. QED BY <3>1, <3>2, <3>3, TasksTyped
  <2>. QED BY <2>2, <2>3
<1>4. ASSUME NEW g \in Files, Holds(p, g)' PROVE Holds(p, g) /\ g # f
  <2>1. \E i \in proc[p].gave + 1 .. proc[p].took : TaskLocks[p][i] = g
    BY <1>1, <1>2, <1>4 DEF Holds, At, Session
  <2>. QED BY <2>1, <1>3 DEF Holds, Alive, At
<1>5. ASSUME NEW g \in Files, Answers(p, g), g # f PROVE Names(g, p) /\ Holds(p, g)'
  <2>1. Names(g, p) /\ Holds(p, g)
    BY <1>5 DEF Answers, At
  <2>2. \E i \in proc[p].gave + 1 .. proc[p].took : TaskLocks[p][i] = g
    BY <2>1, <1>5 DEF Holds, At, Session
  <2>. QED BY <2>1, <2>2, <1>1, <1>2 DEF Holds, Alive
<1>6. proc[p].step \in Acting /\ q.step \notin Acting \cup {"start", "dead"}
  BY <1>1 DEF At, Acting
<1>. QED BY <1>1, <1>4, <1>5, <1>6, Removing

LEMMA ReturnStep ==
    ASSUME LockInv, NEW p \in Processes, Return(p) PROVE LockInv'
<1> DEFINE f == Returned(p)
<1> DEFINE r == [proc[p] EXCEPT !.gave = @ + 1, !.step = "leave"]
<1> DEFINE q == [r EXCEPT !.saw = "missing", !.ino = None]
<1>0. /\ TypeInv /\ proc[p] \in Procs /\ At(p, "remove") /\ Remove(p, f)
      /\ proc[p].gave < proc[p].took /\ proc[p].took <= Len(TaskLocks[p]) /\ Len(TaskLocks[p]) \in Nat
      /\ proc[p].gave \in Nat /\ proc[p].took \in Nat /\ f \in Files
  <2>1. TypeInv /\ proc[p] \in Procs /\ At(p, "remove") /\ Remove(p, f)
    BY WantedTyped DEF LockInv, Return
  <2>. QED BY <2>1, WantedTyped, TasksTyped DEF TypeInv, Procs
<1>1. proc' = [proc EXCEPT ![p] = q]
  BY <1>0 DEF Return, Forget
<1>a. r.step = "leave" /\ r.took = proc[p].took /\ r.gave = proc[p].gave + 1 /\ r \in Procs
  <2>1. \A x \in Procs, n \in Nat :
          /\ [x EXCEPT !.gave = n, !.step = "leave"] \in Procs
          /\ [x EXCEPT !.gave = n, !.step = "leave"].step = "leave"
          /\ [x EXCEPT !.gave = n, !.step = "leave"].took = x.took
          /\ [x EXCEPT !.gave = n, !.step = "leave"].gave = n
    BY DEF Procs, Steps
  <2>2. proc[p] \in Procs /\ proc[p].gave + 1 \in Nat
    BY <1>0
  <2>. QED BY ONLY <2>1, <2>2
<1> HIDE DEF r
<1>2. q.step = "leave" /\ q.took = proc[p].took /\ q.gave = proc[p].gave + 1 /\ q \in Procs
  BY <1>a DEF Procs, Verdicts
<1>3. f = Target(p) /\ f = TaskLocks[p][proc[p].gave + 1]
  BY <1>0 DEF Target, At, Returned
<1> HIDE DEF f, q
<1>4. Kept(q, p)
  BY <1>0, <1>2 DEF Kept
<1>5. proc'[p] = q
  <2>1. lost \subseteq lost'
    BY <1>0 DEF Remove
  <2>. QED BY <2>1, <1>0, <1>1, <1>4, OthersKeep
<1>6. ASSUME NEW g \in Files, Holds(p, g)' PROVE Holds(p, g) /\ g # f
  <2>1. PICK i \in q.gave + 1 .. q.took : TaskLocks[p][i] = g
    BY <1>2, <1>5, <1>6 DEF Holds, At, Session
  <2>2. i \in proc[p].gave + 1 .. proc[p].took /\ i # proc[p].gave + 1 /\ i \in 1 .. Len(TaskLocks[p])
        /\ proc[p].gave + 1 \in 1 .. Len(TaskLocks[p])
    BY <1>0, <1>2, <2>1
  <2>3. g # f
    BY <1>3, <2>1, <2>2, TasksTyped
  <2>. QED BY <1>0, <2>1, <2>2, <2>3 DEF Holds, Alive, At
<1>7. ASSUME NEW g \in Files, Answers(p, g), g # f PROVE Names(g, p) /\ Holds(p, g)'
  <2>1. Names(g, p) /\ Holds(p, g)
    BY <1>0, <1>7 DEF Answers, At
  <2>2. PICK i \in proc[p].gave + 1 .. proc[p].took : TaskLocks[p][i] = g
    BY <2>1, <1>0 DEF Holds, At, Session
  <2>3. i \in q.gave + 1 .. q.took
    BY <1>0, <1>2, <1>3, <1>7, <2>2
  <2>. QED BY <2>1, <2>2, <2>3, <1>2, <1>5 DEF Holds, Alive
<1>8. proc[p].step \in Acting /\ q.step \notin Acting \cup {"start", "dead"}
  BY <1>0, <1>2 DEF At, Acting
<1>. QED BY <1>0, <1>1, <1>3, <1>4, <1>6, <1>7, <1>8, Removing

LEMMA RemovingSteps ==
    ASSUME LockInv, NEW p \in Processes, Reclaim(p) \/ Sweep(p) \/ Drop(p) \/ Return(p) PROVE LockInv'
<1>0. Wanted(p) \in Files /\ TreeLock[p] \in Files
  BY WantedTyped, TasksTyped DEF LockInv
<1>1. CASE Reclaim(p)
  BY <1>0, <1>1, RemovingGoto DEF Reclaim, Target, At
<1>2. CASE Sweep(p)
  BY <1>0, <1>2, RemovingGoto DEF Sweep, Target, At
<1>3. CASE Drop(p)
  BY <1>0, <1>3, RemovingGoto DEF Drop, Target, At
<1>. QED BY <1>1, <1>2, <1>3, ReturnStep

-----------------------------------------------------------------------------
(* The steps that make or write a file *)

LEMMA CreateStep ==
    ASSUME LockInv, NEW p \in Processes, Create(p) PROVE LockInv'
<1> SUFFICES ASSUME NEW f \in Files, f = Wanted(p) PROVE LockInv'
  BY WantedTyped DEF LockInv
<1>0. TypeInv /\ proc[p] \in Procs /\ At(p, "create") /\ f \in Files /\ UNCHANGED lost
      /\ lost \subseteq [of: Processes, file: Files, why: Causes] /\ file \in [Files -> LockFiles]
  BY WantedTyped DEF LockInv, Create, TypeInv, TypeOK
<1>1. CASE file[f] # NoFile
  BY <1>0, <1>1, QuietGoto DEF Create, At, Steps, Acting, Acquiring, Session
<1>2. CASE file[f] = NoFile
  <2>0. file' = [file EXCEPT ![f] = [ino |-> p, text |-> Blank]] /\ Goto(p, "fill")
    BY <1>2 DEF Create
  <2>1. PICK q : /\ Kept(q, p) /\ proc' = [proc EXCEPT ![p] = q]
                 /\ q.step = "fill" /\ q.took = proc[p].took /\ q.gave = proc[p].gave
    BY <1>0, <2>0, GotoMoves DEF Steps, Acquiring
  <2>2. proc'[p] = q
    BY <1>0, <2>1, OthersKeep
  <2>3. Wanted(p)' = f
    BY <2>1, <2>2 DEF Wanted, Tasked
  <2>5. /\ file' \in [Files -> LockFiles] /\ file'[f].ino = p /\ file'[f].text = Blank
        /\ \A g \in Files \ {f} : file'[g] = file[g]
    <3>1. [file EXCEPT ![f] = [ino |-> p, text |-> Blank]] \in [Files -> LockFiles]
      BY <1>0, FilesTyped
    <3>2. file'[f] = [ino |-> p, text |-> Blank]
      BY <1>0, <2>0
    <3>. QED BY <1>0, <2>0, <3>1, <3>2
  <2>6. file[f].ino = None /\ p # None /\ \A r \in Processes : r # None
    BY <1>2, NoFileTyped, LocksAssumption
  <2>7. ASSUME NEW g \in Files, Holds(p, g)' PROVE Holds(p, g) \/ g = f
    BY <1>0, <2>1, <2>2, <2>3, <2>7 DEF Holds, Alive, At, Session
  <2>8. ASSUME NEW g \in Files \ {f}, Answers(p, g) PROVE Names(g, p) /\ Holds(p, g)'
    <3>1. Names(g, p) /\ Holds(p, g)
      BY <1>0, <2>8 DEF Answers, At
    <3>. QED BY <1>0, <2>1, <2>2, <3>1 DEF Holds, Alive, At, Session
  <2>9. Answers(p, f)'
    BY <2>1, <2>2, <2>3, <2>5 DEF Answers, Holds, Alive, At
  <2>10. Onward(q, p) /\ q.step \notin Acting \cup {"start", "dead"} /\ proc[p].step # "dead"
    BY <1>0, <2>1 DEF Onward, Acting, At
  <2>11. file'[f].text.pid \in {p, None}
    BY <2>5, NoFileTyped
  <2>12. \A r \in Processes \ {p} : file'[f].ino # r /\ file[f].ino # r
    BY <2>5, <2>6
  <2>. QED BY ONLY <1>0, <2>1, <2>5, <2>7, <2>8, <2>9, <2>10, <2>11, <2>12, LockInv, p \in Processes,
              f \in Files, Changing
<1>. QED BY <1>1, <1>2

LEMMA Written ==
    ASSUME TypeInv, NEW p \in Processes, NEW f \in Files, NEW i \in Processes, Write(p, f, i)
    PROVE  /\ file[f].ino # i => file' = file
           /\ file[f].ino = i =>
                /\ file' \in [Files -> LockFiles] /\ file'[f].ino = i /\ Names(f, p)' /\ file'[f].text.pid = p
                /\ \A g \in Files \ {f} : file'[g] = file[g]
<1>0. file \in [Files -> LockFiles] /\ file[f] \in LockFiles
  BY DEF TypeInv, TypeOK
<1>1. CASE file[f].ino # i
  BY <1>1 DEF Write
<1>2. CASE file[f].ino = i
  <2>1. file' \in [Files -> LockFiles]
    BY FilesTyped
  <2>2. file' = [file EXCEPT ![f].text = [pid |-> p, age |-> "fresh"]]
    BY <1>2 DEF Write
  <2>3. file[f] \in [ino: Processes, text: Texts]
    BY <1>0, <1>2, NoFileTyped, LocksAssumption DEF LockFiles
  <2>4. file'[f].ino = i /\ file'[f].text = [pid |-> p, age |-> "fresh"] /\ \A g \in Files \ {f} : file'[g] = file[g]
    BY <1>0, <1>2, <2>2, <2>3
  <2>5. file'[f].text.pid = p /\ file'[f].text # Blank
    BY <2>4 DEF Blank
  <2>. QED BY <1>2, <2>1, <2>4, <2>5 DEF Names, Filled
<1>. QED BY <1>1, <1>2

LEMMA FillStep ==
    ASSUME LockInv, NEW p \in Processes, Fill(p) PROVE LockInv'
<1> SUFFICES ASSUME NEW f \in Files, f = Wanted(p) PROVE LockInv'
  BY WantedTyped DEF LockInv
<1>0. TypeInv /\ proc[p] \in Procs /\ At(p, "fill") /\ Write(p, f, p) /\ UNCHANGED lost
      /\ lost \subseteq [of: Processes, file: Files, why: Causes] /\ file \in [Files -> LockFiles]
      /\ proc[p].took <= Len(TaskLocks[p]) /\ proc[p].gave <= proc[p].took
  BY WantedTyped DEF LockInv, Fill, TypeInv, TypeOK
<1>n. proc[p].took \in Nat /\ proc[p].gave \in Nat /\ Len(TaskLocks[p]) \in Nat
  BY <1>0, TasksTyped DEF Procs
<1>1. \E q : /\ Kept(q, p) /\ proc' = [proc EXCEPT ![p] = q]
             /\ q.gave = proc[p].gave
             /\ \/ /\ q.step \in {"open", "close"} /\ q.took = proc[p].took /\ f = TreeLock[p]
                \/ /\ q.step \in {"create", "check", "step"} /\ q.took = proc[p].took + 1
                   /\ f = TaskLocks[p][proc[p].took + 1]
  <2>1. CASE Tasked(p)
    <3>1. PICK step \in {"open", "close"} : Goto(p, step)
      BY <2>1 DEF Fill
    <3>2. step \in Steps \ {"remove", "start", "rewrite"}
      BY DEF Steps, Session
    <3>3. PICK q : /\ Kept(q, p) /\ proc' = [proc EXCEPT ![p] = q]
                   /\ q.step = step /\ q.took = proc[p].took /\ q.gave = proc[p].gave
      BY <1>0, <3>1, <3>2, GotoMoves
    <3>. QED BY <2>1, <3>3 DEF Wanted
  <2>2. CASE ~Tasked(p)
    <3>1. PICK step \in {"create", "check", "step"} :
            proc' = [proc EXCEPT ![p] = [proc[p] EXCEPT !.took = @ + 1, !.step = step]]
      <4>1. proc \in [Processes -> Procs]
        BY <1>0 DEF TypeInv, TypeOK, Procs
      <4>. QED BY <2>2, <4>1 DEF Fill
    <3>2. \A x \in Procs, n \in Nat :
            /\ [x EXCEPT !.took = n, !.step = step] \in Procs
            /\ [x EXCEPT !.took = n, !.step = step].step = step
            /\ [x EXCEPT !.took = n, !.step = step].gave = x.gave
            /\ [x EXCEPT !.took = n, !.step = step].took = n
      BY DEF Procs, Steps, Acquiring, Guarding
    <3> DEFINE q == [proc[p] EXCEPT !.took = @ + 1, !.step = step]
    <3>3. q \in Procs /\ q.step = step /\ q.gave = proc[p].gave /\ q.took = proc[p].took + 1
      <4>1. proc[p] \in Procs /\ proc[p].took + 1 \in Nat
        BY <1>0, <1>n
      <4>. QED BY ONLY <3>2, <4>1
    <3>4. proc' = [proc EXCEPT ![p] = q]
      BY <3>1
    <3> HIDE DEF q
    <3>5. Kept(q, p)
      BY <1>0, <1>n, <2>2, <3>3 DEF Kept, Tasked
    <3>. QED BY <2>2, <3>3, <3>4, <3>5 DEF Wanted
  <2>. QED BY <2>1, <2>2
<1>2. PICK q : /\ Kept(q, p) /\ proc' = [proc EXCEPT ![p] = q]
               /\ q.gave = proc[p].gave
               /\ \/ /\ q.step \in {"open", "close"} /\ q.took = proc[p].took /\ f = TreeLock[p]
                  \/ /\ q.step \in {"create", "check", "step"} /\ q.took = proc[p].took + 1
                     /\ f = TaskLocks[p][proc[p].took + 1]
  BY <1>1
<1>3. proc'[p] = q
  BY <1>0, <1>2, OthersKeep
<1>4. Holds(p, f) /\ Holds(p, f)'
  <2>1. Holds(p, f)
    BY <1>0 DEF Holds, Alive, At
  <2>2. CASE q.step \in {"open", "close"} /\ q.took = proc[p].took /\ f = TreeLock[p]
    BY <2>1, <2>2, <1>3 DEF Holds, Alive, Session
  <2>3. CASE q.step \in {"create", "check", "step"} /\ q.took = proc[p].took + 1 /\ f = TaskLocks[p][proc[p].took + 1]
    <3>1. proc[p].took + 1 \in q.gave + 1 .. q.took
      BY <1>0, <1>n, <1>2, <2>3
    <3>. QED BY <2>1, <2>3, <3>1, <1>3 DEF Holds, Alive
  <2>. QED BY <1>2, <2>2, <2>3
<1>5. ASSUME NEW g \in Files, Holds(p, g)' PROVE Holds(p, g)
  <2>1. CASE g = f
    BY <1>4, <2>1
  <2>2. CASE g # f
    <3>1. PICK i \in q.gave + 1 .. q.took : TaskLocks[p][i] = g
      BY <1>2, <1>3, <1>5, <2>2 DEF Holds, At, Session
    <3>2. i \in proc[p].gave + 1 .. proc[p].took
      BY <1>0, <1>n, <1>2, <2>2, <3>1
    <3>. QED BY <1>0, <3>1, <3>2 DEF Holds, Alive, At
  <2>. QED BY <2>1, <2>2
<1>6. ASSUME NEW g \in Files, Holds(p, g) PROVE Holds(p, g)'
  <2>1. CASE g = f
    BY <1>4, <2>1
  <2>2. CASE g # f
    <3>1. PICK i \in proc[p].gave + 1 .. proc[p].took : TaskLocks[p][i] = g
      BY <1>0, <1>6, <2>2 DEF Holds, At, Session
    <3>2. i \in q.gave + 1 .. q.took
      BY <1>0, <1>n, <1>2, <3>1
    <3>3. q.step \notin {"start", "done", "dead"}
      BY <1>2
    <3>. QED BY <1>3, <3>1, <3>2, <3>3 DEF Holds, Alive
  <2>. QED BY <2>1, <2>2
<1>7. Onward(q, p) /\ q.step \notin Acting \cup {"start", "dead"} /\ proc[p].step # "dead"
  BY <1>0, <1>2 DEF Onward, Acting, At
<1>8. CASE file[f].ino # p
  <2>1. file' = file
    BY <1>0, <1>8, Written
  <2>2. ASSUME NEW g \in Files, Answers(p, g) PROVE Answers(p, g)'
    <3>1. Names(g, p) /\ Holds(p, g)
      BY <1>0, <1>8, <2>2 DEF Answers, At
    <3>2. Names(g, p)'
      BY <2>1, <3>1 DEF Names, Filled
    <3>. QED BY <3>1, <3>2, <1>6 DEF Answers
  <2>. QED BY <1>0, <1>2, <1>5, <1>7, <2>1, <2>2, Quiet
<1>9. CASE file[f].ino = p
  <2>1. /\ file' \in [Files -> LockFiles] /\ file'[f].ino = p /\ Names(f, p)' /\ file'[f].text.pid = p
        /\ \A g \in Files \ {f} : file'[g] = file[g]
    BY <1>0, <1>9, Written
  <2>2. ASSUME NEW g \in Files \ {f}, Answers(p, g) PROVE Names(g, p) /\ Holds(p, g)'
    <3>1. Names(g, p) /\ Holds(p, g)
      BY <1>0, <2>2 DEF Answers, At
    <3>. QED BY <3>1, <1>6
  <2>3. Answers(p, f)'
    BY <2>1, <1>4 DEF Answers
  <2>4. \A r \in Processes \ {p} : file'[f].ino # r /\ file[f].ino # r
    BY <1>9, <2>1
  <2>5. Kept(q, p) /\ proc' = [proc EXCEPT ![p] = q]
    BY <1>2
  <2>. QED BY ONLY <1>0, <2>5, <1>5, <1>7, <2>1, <2>2, <2>3, <2>4, LockInv, p \in Processes, f \in Files, Changing
<1>. QED BY <1>8, <1>9

\* another process that made the file p overwrites is gone, or on record as robbed
LEMMA OverwritingTells ==
    ASSUME LockInv, NEW p \in Processes, proc[p].step \in Acting, NEW f \in Files, f = Target(p),
           lost' = lost \cup Losing(p, f), NEW q, Kept(q, p), proc' = [proc EXCEPT ![p] = q], Onward(q, p),
           NEW r \in Processes, r # p, file[f].ino = r
    PROVE  Started(r)' /\ Gone(r, f)'
<1>0. TypeInv /\ lost \subseteq lost' /\ r # None
  BY LocksAssumption DEF LockInv
<1>1. Started(r)
  BY <1>0 DEF LockInv, Overwritten
<1>a. /\ \A x \in Processes : Started(x) => Started(x)'
      /\ \A x \in Processes : \A g : Gone(x, g) => Gone(x, g)'
  BY <1>0, GoneStays
<1>2. Started(r)'
  BY <1>1, <1>a
<1>3. CASE Alive(r)
  BY <1>2, <1>3, LosingTells DEF Gone
<1>4. CASE ~Alive(r)
  <2>1. Gone(r, f)
    BY <1>1, <1>4 DEF Alive, Started, Gone
  <2>. QED BY <1>2, <1>a, <2>1
<1>. QED BY <1>3, <1>4

LEMMA TruncateStep ==
    ASSUME LockInv, NEW p \in Processes, Truncate(p) PROVE LockInv'
<1> SUFFICES ASSUME NEW f \in Files, f = TreeLock[p] PROVE LockInv'
  BY TasksTyped
<1>0. /\ TypeInv /\ proc[p] \in Procs /\ At(p, "truncate") /\ file \in [Files -> LockFiles]
      /\ proc[p].step \in Acting /\ f = Target(p)
  BY WantedTyped DEF LockInv, Truncate, TypeInv, TypeOK, At, Acting, Target
<1>1. CASE file[f] = NoFile
  <2>1. ~Names(TreeLock[p], p) /\ Goto(p, "open") /\ UNCHANGED <<file, lost>>
    BY <1>1, NoFileTyped DEF Truncate, Names, Filled
  <2>. QED BY <1>0, <2>1, QuietGoto DEF At, Steps, Acting, Session
<1>2. CASE file[f] # NoFile
  <2>0. /\ file' = [file EXCEPT ![f].text = Blank] /\ lost' = lost \cup Losing(p, f)
        /\ Recall(p, f, "own", "rewrite") /\ lost \subseteq lost'
        /\ lost' \subseteq [of: Processes, file: Files, why: Causes]
    <3>1. /\ file' = [file EXCEPT ![f].text = Blank] /\ lost' = lost \cup Losing(p, f)
          /\ Recall(p, f, "own", "rewrite")
      BY <1>2 DEF Truncate
    <3>. QED BY <3>1, <1>0, FilesTyped DEF TypeInv, TypeOK
  <2>1. file[f] \in [ino: Processes, text: Texts] /\ file[f].ino \in Processes /\ file[f].ino # None
    BY <1>0, <1>2, LocksAssumption DEF LockFiles
  <2>2. /\ file' \in [Files -> LockFiles] /\ file'[f].ino = file[f].ino /\ file'[f].text = Blank
        /\ file'[f].text.pid = None /\ \A g \in Files \ {f} : file'[g] = file[g]
    <3>1. file' \in [Files -> LockFiles]
      BY <1>0, <1>2, <2>0, FilesTyped
    <3>. QED BY <1>0, <2>0, <2>1, <3>1, NoFileTyped
  <2>3. PICK q : /\ Kept(q, p) /\ proc' = [proc EXCEPT ![p] = q]
                 /\ q.step = "rewrite" /\ q.took = proc[p].took /\ q.gave = proc[p].gave
                 /\ q.saw = "own" /\ q.ino = file[f].ino
    <3>1. "rewrite" \in Steps \ {"start"} /\ "own" \in Verdicts
      BY DEF Steps, Session, Verdicts
    <3>. QED BY <1>0, <2>0, <2>1, <3>1, RecallMoves
  <2>4. proc'[p] = q
    BY <1>0, <2>0, <2>3, OthersKeep
  <2>5. Onward(q, p) /\ q.step \notin {"start", "dead"} /\ proc[p].step # "dead"
    BY <1>0, <2>3 DEF Onward, At
  <2>6. \A r \in Processes \ {p} : file[f].ino = r => Started(r)' /\ Gone(r, f)'
    BY <1>0, <2>0, <2>3, <2>5, OverwritingTells
  <2>7. Knows(p)'
    <3>1. Target(p)' = f
      BY <2>3, <2>4 DEF Target, At
    <3>2. proc'[p].saw = "own" /\ proc'[p].ino = file[f].ino
      BY <2>3, <2>4
    <3>3. PICK r \in Processes : r = file[f].ino
      BY <2>1
    <3>4. r # p => Started(r)' /\ Gone(r, f)'
      BY <2>6, <3>3
    <3>5. Started(p)'
      BY <2>3, <2>4 DEF Started
    <3>6. Started(r)'
      BY <3>4, <3>5
    <3>. QED BY <3>1, <3>2, <3>3, <3>4, <3>6 DEF Knows, Started, Gone, Robbed
  <2>8. ASSUME NEW g \in Files PROVE Holds(p, g)' <=> Holds(p, g)
    BY <1>0, <2>3, <2>4 DEF Holds, Alive, At, Session
  <2>9. ASSUME NEW g \in Files \ {f}, Answers(p, g) PROVE Names(g, p) /\ Holds(p, g)'
    BY <1>0, <2>8, <2>9 DEF Answers, At
  <2>10. Answers(p, f)'
    <3>1. Holds(p, f)'
      BY <2>3, <2>4 DEF Holds, Alive, Session
    <3>. QED BY <2>2, <2>3, <2>4, <3>1 DEF Answers, At
  <2>11. Holds(p, f)' => file'[f].ino = p \/ Robbed(p, f)'
    <3>1. Holds(p, f) => file[f].ino = p \/ Robbed(p, f)
      BY DEF LockInv, HeldOrLost
    <3>. QED BY <1>0, <2>0, <2>2, <2>3, <2>8, <3>1, OthersKeep
  <2>12. \A r \in Processes \ {p} :
           /\ file'[f].ino = r => file[f].ino = r /\ Gone(r, f)'
           /\ file[f].ino = r => file'[f].ino = r
    BY <2>2, <2>6
  <2>. QED BY ONLY <1>0, <2>0, <2>2, <2>3, <2>5, <2>7, <2>8, <2>9, <2>10, <2>11, <2>12, LockInv, p \in Processes,
              f \in Files, Changing
<1>. QED BY <1>1, <1>2

LEMMA RewriteStep ==
    ASSUME LockInv, NEW p \in Processes, Rewrite(p) PROVE LockInv'
<1> SUFFICES ASSUME NEW f \in Files, f = TreeLock[p], NEW i \in Processes, i = proc[p].ino PROVE LockInv'
  <2>1. proc[p].ino \in Processes
    BY WantedTyped DEF LockInv, TypeInv, Rewrite, Procs
  <2>. QED BY <2>1, TasksTyped
<1>0. /\ TypeInv /\ proc[p] \in Procs /\ At(p, "rewrite") /\ Write(p, f, i) /\ UNCHANGED lost
      /\ lost \subseteq [of: Processes, file: Files, why: Causes] /\ file \in [Files -> LockFiles]
      /\ Goto(p, "write") /\ proc[p].saw = "own" /\ i # None /\ f = Target(p)
  BY WantedTyped, LocksAssumption DEF LockInv, Rewrite, TypeInv, TypeOK, Target, At
<1>1. PICK q : /\ Kept(q, p) /\ proc' = [proc EXCEPT ![p] = q]
               /\ q.step = "write" /\ q.took = proc[p].took /\ q.gave = proc[p].gave
  BY <1>0, GotoMoves DEF Steps, Session
<1>2. proc'[p] = q
  BY <1>0, <1>1, OthersKeep
<1>3. Onward(q, p) /\ q.step \notin Acting \cup {"start", "dead"} /\ proc[p].step # "dead"
  BY <1>0, <1>1 DEF Onward, Acting, At
<1>4. ASSUME NEW g \in Files PROVE Holds(p, g)' <=> Holds(p, g)
  BY <1>0, <1>1, <1>2 DEF Holds, Alive, At, Session
<1>5. i # p => Gone(i, f)'
  <2>1. Knows(p)
    BY <1>0 DEF LockInv, Recalled, At, Acting
  <2>2. i # p => Gone(i, f)
    BY <1>0, <2>1 DEF Knows
  <2>. QED BY <1>0, <1>1, <1>3, <2>2, GoneStays
<1>6. CASE file[f].ino # i
  <2>1. file' = file
    BY <1>0, <1>6, Written
  <2>2. ASSUME NEW g \in Files, Answers(p, g) PROVE Answers(p, g)'
    <3>1. Names(g, p) /\ Holds(p, g)
      BY <1>0, <1>6, <2>2 DEF Answers, At
    <3>2. Names(g, p)'
      BY <2>1, <3>1 DEF Names, Filled
    <3>. QED BY <3>1, <3>2, <1>4 DEF Answers
  <2>. QED BY <1>0, <1>1, <1>3, <1>4, <2>1, <2>2, Quiet
<1>7. CASE file[f].ino = i
  <2>1. /\ file' \in [Files -> LockFiles] /\ file'[f].ino = i /\ Names(f, p)' /\ file'[f].text.pid = p
        /\ \A g \in Files \ {f} : file'[g] = file[g]
    BY <1>0, <1>7, Written
  <2>2. ASSUME NEW g \in Files \ {f}, Answers(p, g) PROVE Names(g, p) /\ Holds(p, g)'
    BY <1>0, <1>4, <2>2 DEF Answers, At
  <2>3. Answers(p, f)'
    <3>1. Holds(p, f)'
      BY <1>1, <1>2 DEF Holds, Alive, Session
    <3>. QED BY <2>1, <3>1 DEF Answers
  <2>4. \A r \in Processes \ {p} :
          /\ file'[f].ino = r => file[f].ino = r /\ Gone(r, f)'
          /\ file[f].ino = r => file'[f].ino = r
    BY <1>5, <1>7, <2>1
  <2>5. Holds(p, f)' => file'[f].ino = p \/ Robbed(p, f)'
    <3>1. Holds(p, f) => file[f].ino = p \/ Robbed(p, f)
      BY DEF LockInv, HeldOrLost
    <3>. QED BY <1>0, <1>1, <1>4, <1>7, <2>1, <3>1, OthersKeep
  <2>. QED BY ONLY <1>0, <1>1, <1>3, <1>4, <2>1, <2>2, <2>3, <2>4, <2>5, LockInv, p \in Processes, f \in Files,
              Changing
<1>. QED BY <1>6, <1>7

-----------------------------------------------------------------------------
(* Time, and the invariant *)

LEMMA GrowOldStep ==
    ASSUME LockInv, NEW f \in Files, GrowOld(f) PROVE LockInv'
<1>0. /\ file \in [Files -> LockFiles] /\ file[f] \in LockFiles /\ Filled(f) /\ UNCHANGED <<proc, lost>>
      /\ file' = [file EXCEPT ![f].text.age = "old"]
  BY DEF LockInv, TypeInv, TypeOK, GrowOld
<1>1. file[f].ino \in Processes /\ file[f].text \in [pid: Processes, age: {"fresh", "old"}]
  BY <1>0, NoFileTyped DEF Filled, LockFiles, Texts
<1>2. file' = [file EXCEPT ![f] = [ino |-> file[f].ino, text |-> [pid |-> file[f].text.pid, age |-> "old"]]]
  <2>1. file[f] \in [ino: Processes, text: Texts]
    BY <1>0, NoFileTyped DEF Filled, LockFiles
  <2>2. [file[f] EXCEPT !.text.age = "old"] = [ino |-> file[f].ino, text |-> [pid |-> file[f].text.pid, age |-> "old"]]
    BY <1>1, <2>1
  <2>. QED BY <1>0, <2>2
<1>3. /\ file' \in [Files -> LockFiles]
      /\ \A g \in Files : /\ file'[g].ino = file[g].ino /\ file'[g].text.pid = file[g].text.pid
                          /\ Filled(g)' <=> Filled(g)
                          /\ file'[g] = NoFile <=> file[g] = NoFile
  <2>1. [ino |-> file[f].ino, text |-> [pid |-> file[f].text.pid, age |-> "old"]] \in LockFiles
    BY <1>1 DEF LockFiles, Texts
  <2>2. file'[f].ino = file[f].ino /\ file'[f].text = [pid |-> file[f].text.pid, age |-> "old"]
    BY <1>0, <1>2
  <2>3. file'[f].text # Blank /\ file'[f] # NoFile /\ file[f] # NoFile
    <3>1. file'[f].text.age = "old" /\ file[f].text # Blank
      BY <1>0, <2>2 DEF Filled
    <3>2. Blank.age = "none" /\ NoFile.text = Blank
      BY DEF Blank, NoFile
    <3>. QED BY <3>1, <3>2
  <2>4. \A g \in Files \ {f} : file'[g] = file[g]
    BY <1>0, <1>2
  <2>5. file' \in [Files -> LockFiles]
    BY <1>0, <1>2, <2>1
  <2>6. ASSUME NEW g \in Files
        PROVE  /\ file'[g].ino = file[g].ino /\ file'[g].text.pid = file[g].text.pid
               /\ Filled(g)' <=> Filled(g)
               /\ file'[g] = NoFile <=> file[g] = NoFile
    <3>1. CASE g = f
      BY <1>0, <3>1, <2>2, <2>3 DEF Filled
    <3>2. CASE g # f
      BY <3>2, <2>4 DEF Filled
    <3>. QED BY <3>1, <3>2
  <2>. QED BY <2>5, <2>6
<1>4. TypeInv'
  BY <1>0, <1>3 DEF LockInv, TypeInv, TypeOK, At
<1>5. HeldOrLost'
  BY <1>0, <1>3 DEF LockInv, HeldOrLost, Holds, Alive, Robbed, At, Wanted, Tasked
<1>6. Overwritten'
  BY <1>0, <1>3 DEF LockInv, Overwritten, Started, Gone, Robbed
<1>7. Recalled'
  BY <1>0 DEF LockInv, Recalled, Knows, Started, Gone, Robbed, Target, At, Wanted, Tasked, Returned
<1>8. Covered'
  <2>1. \A p \in Processes, g \in Files : Answers(p, g) => Answers(p, g)'
    BY <1>0, <1>3 DEF Answers, Holds, Alive, At, Wanted, Tasked, Names
  <2>. QED BY <1>0, <1>3, <2>1 DEF LockInv, Covered, At
<1>. QED BY <1>4, <1>5, <1>6, <1>7, <1>8 DEF LockInv

LEMMA LockInvInit == Init => LockInv
<1>. SUFFICES ASSUME Init PROVE LockInv
  OBVIOUS
<1>1. \A f \in Files : file[f] = NoFile
  BY DEF Init
<1>2. \A p \in Processes : proc[p].step = "start"
  BY DEF Init
<1>. QED BY <1>1, <1>2, InitTypes, NoFileTyped
         DEF LockInv, HeldOrLost, Holds, Alive, Overwritten, Recalled, Acting, Covered

LEMMA LockInvStep == LockInv /\ [Next]_vars => LockInv'
<1>. SUFFICES ASSUME LockInv, [Next]_vars PROVE LockInv'
  OBVIOUS
<1>1. ASSUME NEW p \in Processes, Acquire(p) PROVE LockInv'
  BY <1>1, CreateStep, FillStep, ReadingSteps, RemovingSteps DEF Acquire
<1>2. ASSUME NEW p \in Processes, Guard(p) PROVE LockInv'
  BY <1>2, ReadingSteps, RemovingSteps DEF Guard
<1>3. ASSUME NEW p \in Processes, Attempt(p) PROVE LockInv'
  BY <1>3, ReadingSteps, TruncateStep, RewriteStep DEF Attempt
<1>4. ASSUME NEW p \in Processes, Release(p) PROVE LockInv'
  BY <1>4, ReadingSteps, LeavingStep, RemovingSteps DEF Release
<1>5. ASSUME NEW p \in Processes, Start(p) \/ OpenSession(p) \/ Die(p) PROVE LockInv'
  BY <1>5, ReadingSteps
<1>6. ASSUME NEW f \in Files, GrowOld(f) PROVE LockInv'
  BY <1>6, GrowOldStep
<1>7. CASE UNCHANGED vars
  BY <1>7 DEF vars, LockInv, TypeInv, TypeOK, HeldOrLost, Overwritten, Recalled, Covered, Answers, Holds, Alive,
              Robbed, At, Wanted, Tasked, Started, Gone, Knows, Target, Returned, Names, Filled
<1>. QED BY <1>1, <1>2, <1>3, <1>4, <1>5, <1>6, <1>7 DEF Next

LEMMA LockInvAlways == Spec => []LockInv
BY LockInvInit, LockInvStep, PTL DEF Spec

-----------------------------------------------------------------------------
(* Theorems *)

\* Every variable keeps its type.
THEOREM TypeCorrect == Spec => []TypeOK
<1>1. LockInv => TypeOK
  BY DEF LockInv, TypeInv
<1>. QED BY <1>1, LockInvAlways, PTL

\* The lock file of a live holder stands, or it went away in one of the three ways its readers are known to err in
\* (acquireTaskLock, acquireWorkspaceRunLock, refreshWorkspaceRunLock, removeIfOwned, releaseTaskLock).
THEOREM LiveLocksStand == Spec => []HeldOrLost
<1>1. LockInv => HeldOrLost
  BY DEF LockInv
<1>. QED BY <1>1, LockInvAlways, PTL

\* Two live processes share a lock only after one was robbed of it: a file has one maker (open with "wx").
THEOREM SharedOnlyAfterLoss == Spec => []OverlapExplained
<1>1. HeldOrLost => OverlapExplained
  BY DEF HeldOrLost, OverlapExplained
<1>. QED BY <1>1, LiveLocksStand, PTL

\* Invocations that all ended by themselves leave no lock file, whatever they took from each other on the way.
THEOREM EndLeavesNoLock == Spec => []NothingLeft
<1>1. LockInv => NothingLeft
  <2> SUFFICES ASSUME LockInv, \A p \in Processes : At(p, "done"), NEW f \in Files PROVE file[f] = NoFile
    BY DEF NothingLeft
  <2>1. \A p \in Processes : ~At(p, "dead") /\ ~Answers(p, f)
    BY DEF At, Answers, Holds, Alive
  <2>. QED BY <2>1 DEF LockInv, Covered
<1>. QED BY <1>1, LockInvAlways, PTL

\* On its way out, or when it refreshes, a process takes a live process's lock only if it was robbed of its own
\* (releaseTaskLock, removeIfOwned, refreshWorkspaceRunLock).
THEOREM LeavingTakesNoMore == Spec => LeavingIsClean
<1>1. LockInv /\ [Next]_vars => [ \A p \in Processes :
            Return(p) \/ Drop(p) \/ Truncate(p) => lost' = lost \/ \E l \in lost : l.of = p ]_vars
  <2> SUFFICES ASSUME LockInv, NEW p \in Processes, Return(p) \/ Drop(p) \/ Truncate(p), ~\E l \in lost : l.of = p
               PROVE  lost' = lost
    OBVIOUS
  <2>1. PICK f \in Files : f = Target(p)
    BY WantedTyped, TasksTyped DEF Target, LockInv, TypeInv, Return, Drop, Truncate, At
  <2>2. Holds(p, f) /\ ~Robbed(p, f)
    <3>1. CASE Return(p)
      <4>1. /\ proc[p].gave \in Nat /\ proc[p].took \in Nat /\ proc[p].gave < proc[p].took
            /\ At(p, "remove") /\ f = TaskLocks[p][proc[p].gave + 1]
        BY <2>1, <3>1, WantedTyped DEF LockInv, TypeInv, Procs, Return, Target, Returned, At
      <4>2. proc[p].gave + 1 \in proc[p].gave + 1 .. proc[p].took
        BY <4>1
      <4>. QED BY <4>1, <4>2 DEF Holds, Alive, At, Robbed
    <3>2. CASE Drop(p) \/ Truncate(p)
      BY <2>1, <3>2 DEF Drop, Truncate, Target, Holds, Alive, At, Session, Robbed
    <3>. QED BY <3>1, <3>2
  <2>3. file[f].ino = p
    BY <2>2 DEF LockInv, HeldOrLost
  <2>4. Losing(p, f) = {}
    BY <2>3 DEF Losing
  <2>5. lost' = lost \/ lost' = lost \cup Losing(p, f)
    BY <2>1 DEF Return, Drop, Truncate, Remove, Target, At
  <2>. QED BY <2>4, <2>5
<1>. QED BY <1>1, LockInvAlways, PTL DEF Spec, LeavingIsClean

-----------------------------------------------------------------------------
(* How often the acquire loop can go round *)

\* the lock files a process may still create: one for each of its tasks, and one for its tree
Closing == Session \cup {"leave", "remove", "done", "dead"}
ToCreate(q) ==
    IF proc[q].step \in Closing THEN {}
    ELSE (proc[q].took + IF At(q, "fill") THEN 2 ELSE 1) .. Len(TaskLocks[q]) + 1
Pending == UNION {{q} \X ToCreate(q) : q \in Processes}

\* where in the loop a process is
Phase(p) ==
    IF At(p, "fill") THEN 5
    ELSE IF At(p, "create") THEN IF file[Wanted(p)] = NoFile THEN 1 ELSE 4
    ELSE IF At(p, "look") THEN 3
    ELSE IF At(p, "reclaim") THEN 2 ELSE 0

\* what is left of the loop of p: a round for every file that anybody may still create, and the rest of this one
LoopLeft(p) == 6 * Cardinality(Pending) + Phase(p)

\* a process creates a file
Makes(q) == At(q, "create") /\ proc'[q].step = "fill" /\ proc'[q].took = proc[q].took

\* a step of a process, as its own row shows it: it closes, goes on without a new file, creates one, or has filled it
Advances(q) ==
    LET old == proc[q]
        new == proc'[q]
    IN  \/ new.step \in Closing
        \/ old.step \notin Closing \cup {"fill"} /\ new.step \notin Closing \cup {"fill"} /\ new.took = old.took
        \/ Makes(q)
        \/ old.step = "fill" /\ new.step \in {"create", "check", "step"} /\ new.took = old.took + 1

\* what Goto and Recall do to every process
LEMMA StepLands ==
    ASSUME TypeInv, NEW p \in Processes, NEW step
    PROVE  /\ Goto(p, step) => /\ proc'[p].step = step /\ proc'[p].took = proc[p].took
                               /\ \A q \in Processes \ {p} : proc'[q] = proc[q]
           /\ \A f, v : Recall(p, f, v, step) =>
                               /\ proc'[p].step = step /\ proc'[p].took = proc[p].took
                               /\ \A q \in Processes \ {p} : proc'[q] = proc[q]
<1>1. proc \in [Processes -> Procs] /\ proc[p] \in Procs
  BY DEF TypeInv, TypeOK, Procs
<1>2. ASSUME Goto(p, step)
      PROVE  /\ proc'[p].step = step /\ proc'[p].took = proc[p].took
             /\ \A q \in Processes \ {p} : proc'[q] = proc[q]
  BY <1>1, <1>2 DEF Goto, Forget, Procs
<1>3. ASSUME NEW f, NEW v, Recall(p, f, v, step)
      PROVE  /\ proc'[p].step = step /\ proc'[p].took = proc[p].took
             /\ \A q \in Processes \ {p} : proc'[q] = proc[q]
  BY <1>1, <1>3 DEF Recall, Procs
<1>. QED BY <1>2, <1>3

\* the steps of a process that still has files to create, but for the one it is filling
Opening == {"start", "create", "look", "reclaim", "check", "sweep", "step"}
Move(p, to) == Goto(p, to) \/ \E f, v : Recall(p, f, v, to)

LEMMA MoveAdvances ==
    ASSUME TypeInv, NEW p \in Processes, NEW to, Move(p, to),
           to \in Closing \/ (proc[p].step \in Opening /\ to \in Opening)
    PROVE  Advances(p) /\ \A q \in Processes \ {p} : proc'[q] = proc[q]
<1>1. /\ proc'[p].step = to /\ proc'[p].took = proc[p].took
      /\ \A q \in Processes \ {p} : proc'[q] = proc[q]
  BY StepLands DEF Move
<1>2. \A step \in Opening : step \notin Closing \cup {"fill"}
  BY DEF Opening, Closing, Session
<1>. QED BY <1>1, <1>2 DEF Advances

\* what a step of p is for p itself, and that it moves nobody else
LEMMA ActorAdvances ==
    ASSUME TypeInv, NEW p \in Processes,
           Start(p) \/ Acquire(p) \/ Guard(p) \/ OpenSession(p) \/ Attempt(p) \/ Release(p) \/ Die(p)
    PROVE  Advances(p) /\ \A q \in Processes \ {p} : proc'[q] = proc[q]
<1>0. proc \in [Processes -> Procs] /\ proc[p] \in Procs
  BY DEF TypeInv, TypeOK, Procs
<1>1. CASE Start(p) \/ OpenSession(p)
  <2>1. proc[p].step \in {"start", "step"} /\ Move(p, "create")
    BY <1>1 DEF Start, OpenSession, Move, At
  <2>. QED BY <2>1, MoveAdvances DEF Opening
<1>2. CASE Create(p)
  <2>1. CASE Goto(p, "fill")
    BY <1>2, <2>1, StepLands DEF Create, Advances, Makes
  <2>2. CASE Goto(p, "look")
    <3>1. proc[p].step = "create" /\ Move(p, "look")
      BY <1>2, <2>2 DEF Create, Move, At
    <3>. QED BY <3>1, MoveAdvances DEF Opening
  <2>. QED BY <1>2, <2>1, <2>2 DEF Create
<1>3. CASE Fill(p)
  <2>1. CASE \E step \in {"open", "close"} : Goto(p, step)
    <3>1. \E to \in Closing : Move(p, to)
      BY <2>1 DEF Move, Closing, Session
    <3>. QED BY <3>1, MoveAdvances
  <2>2. CASE ~Tasked(p)
    <3> DEFINE next == IF ~(proc[p].took + 1 = Len(TaskLocks[p])) THEN "create" ELSE IF p \in Manual THEN "check" ELSE "step"
    <3>1. proc' = [proc EXCEPT ![p] = [proc[p] EXCEPT !.took = @ + 1, !.step = next]] /\ At(p, "fill")
      BY <1>0, <1>3, <2>2 DEF Fill
    <3>2. next \in {"create", "check", "step"}
      OBVIOUS
    <3> HIDE DEF next
    <3>3. /\ proc'[p].step = next /\ proc'[p].took = proc[p].took + 1
          /\ \A q \in Processes \ {p} : proc'[q] = proc[q]
      BY <1>0, <3>1 DEF Procs
    <3>. QED BY <3>1, <3>2, <3>3 DEF Advances, At
  <2>. QED BY <1>3, <2>1, <2>2 DEF Fill
<1>4. CASE Look(p)
  <2>1. proc[p].step = "look" /\ \E to \in {"step", "leave", "reclaim"} : Move(p, to)
    BY <1>4 DEF Look, Move, At
  <2>. QED BY <2>1, MoveAdvances DEF Opening, Closing
<1>5. CASE Reclaim(p)
  <2>1. proc[p].step = "reclaim" /\ Move(p, "create")
    BY <1>5 DEF Reclaim, Move, At
  <2>. QED BY <2>1, MoveAdvances DEF Opening
<1>6. CASE Check(p) \/ Sweep(p)
  <2>1. proc[p].step \in {"check", "sweep"} /\ \E to \in {"leave", "step", "sweep"} : Move(p, to)
    BY <1>6 DEF Check, Sweep, Move, At
  <2>. QED BY <2>1, MoveAdvances DEF Opening, Closing
<1>7. CASE Attempt(p)
  <2>1. \E to \in Session : Move(p, to)
    BY <1>7 DEF Attempt, Begin, Truncate, Rewrite, EndAttempt, Move, Session
  <2>. QED BY <2>1, MoveAdvances DEF Closing
<1>8. CASE Close(p) \/ Drop(p) \/ Finish(p)
  <2>1. \E to \in {"close", "leave", "drop"} : Move(p, to)
    BY <1>8 DEF Close, Drop, Finish, Move
  <2>. QED BY <2>1, MoveAdvances DEF Closing, Session
<1>9. CASE Leave(p)
  <2>1. CASE \E to \in {"done", "remove"} : Move(p, to)
    BY <2>1, MoveAdvances DEF Closing
  <2>2. CASE proc' = [proc EXCEPT ![p].gave = @ + 1]
    <3>1. proc'[p].step = "leave" /\ \A q \in Processes \ {p} : proc'[q] = proc[q]
      BY <1>0, <1>9, <2>2 DEF Leave, At, Procs
    <3>. QED BY <3>1 DEF Advances, Closing
  <2>. QED BY <1>9, <2>1, <2>2 DEF Leave, Move
<1>10. CASE Return(p)
  <2>1. proc'[p].step = "leave" /\ \A q \in Processes \ {p} : proc'[q] = proc[q]
    BY <1>0, <1>10 DEF Return, Forget, Procs
  <2>. QED BY <2>1 DEF Advances, Closing
<1>11. CASE Die(p)
  BY <1>11, MoveAdvances DEF Die, Move, Closing
<1>. QED BY <1>1, <1>2, <1>3, <1>4, <1>5, <1>6, <1>7, <1>8, <1>9, <1>10, <1>11 DEF Acquire, Guard, Release

LEMMA AllAdvance ==
    ASSUME TypeInv, [Next]_vars, NEW q \in Processes
    PROVE  proc'[q] = proc[q] \/ Advances(q)
<1>1. CASE UNCHANGED proc
  BY <1>1
<1>2. ASSUME NEW p \in Processes,
             Start(p) \/ Acquire(p) \/ Guard(p) \/ OpenSession(p) \/ Attempt(p) \/ Release(p) \/ Die(p)
      PROVE  proc'[q] = proc[q] \/ Advances(q)
  BY <1>2, ActorAdvances
<1>. QED BY <1>1, <1>2 DEF Next, vars, GrowOld

\* nobody gets a file to create that was not to come before, and a file that is made is not to come again
LEMMA PendingShrinks ==
    ASSUME TypeInv, [Next]_vars, NEW q \in Processes
    PROVE  /\ ToCreate(q)' \subseteq ToCreate(q)
           /\ Makes(q) => ToCreate(q)' # ToCreate(q)
<1> DEFINE len == Len(TaskLocks[q])
<1>1. proc[q].took \in Nat /\ proc[q].took <= len /\ len \in Nat
  BY TasksTyped DEF TypeInv, TypeOK
<1>2. ToCreate(q) = IF proc[q].step \in Closing THEN {}
                    ELSE (proc[q].took + IF proc[q].step = "fill" THEN 2 ELSE 1) .. len + 1
  BY DEF ToCreate, At
<1>3. ToCreate(q)' = IF proc'[q].step \in Closing THEN {}
                     ELSE (proc'[q].took + IF proc'[q].step = "fill" THEN 2 ELSE 1) .. len + 1
  BY DEF ToCreate, At
<1>4. "fill" \notin Closing /\ "create" \notin Closing /\ "check" \notin Closing /\ "step" \notin Closing
  BY DEF Closing, Session
<1> HIDE DEF len
<1>5. Makes(q) => ToCreate(q)' \subseteq ToCreate(q) /\ ToCreate(q)' # ToCreate(q)
  <2> SUFFICES ASSUME Makes(q) PROVE ToCreate(q)' \subseteq ToCreate(q) /\ ToCreate(q)' # ToCreate(q)
    OBVIOUS
  <2>1. ToCreate(q) = proc[q].took + 1 .. len + 1 /\ ToCreate(q)' = proc[q].took + 2 .. len + 1
    BY <1>2, <1>3, <1>4 DEF Makes, At
  <2>2. proc[q].took + 1 \in ToCreate(q) /\ proc[q].took + 1 \notin ToCreate(q)'
    BY <1>1, <2>1
  <2>3. ToCreate(q)' \subseteq ToCreate(q)
    BY <1>1, <2>1
  <2>. QED BY <2>2, <2>3
<1>6. proc'[q] = proc[q] => ToCreate(q)' = ToCreate(q)
  BY <1>2, <1>3
<1>7. ASSUME Advances(q), ~Makes(q) PROVE ToCreate(q)' \subseteq ToCreate(q)
  <2>1. CASE proc'[q].step \in Closing
    BY <1>3, <2>1
  <2>2. CASE /\ proc[q].step \notin Closing \cup {"fill"} /\ proc'[q].step \notin Closing \cup {"fill"}
             /\ proc'[q].took = proc[q].took
    BY <1>2, <1>3, <2>2
  <2>3. CASE proc[q].step = "fill" /\ proc'[q].step \in {"create", "check", "step"} /\ proc'[q].took = proc[q].took + 1
    <3>1. ToCreate(q) = proc[q].took + 2 .. len + 1 /\ ToCreate(q)' = proc[q].took + 1 + 1 .. len + 1
      BY <1>2, <1>3, <1>4, <2>3
    <3>. QED BY <1>1, <3>1
  <2>. QED BY <1>7, <2>1, <2>2, <2>3 DEF Advances
<1>. QED BY <1>5, <1>6, <1>7, AllAdvance

LEMMA PendingFinite ==
    ASSUME TypeInv, IsFiniteSet(Processes)
    PROVE  IsFiniteSet(Pending) /\ Cardinality(Pending) \in Nat
<1> DEFINE Part(q) == {q} \X ToCreate(q)
           Parts == {Part(q) : q \in Processes}
           PartOf == [q \in Processes |-> Part(q)]
<1>1. ASSUME NEW q \in Processes PROVE IsFiniteSet(Part(q))
  <2>1. proc[q].took \in Nat /\ Len(TaskLocks[q]) \in Nat
    BY TasksTyped DEF TypeInv, TypeOK
  <2>2. ToCreate(q) = {} \/ \E a, b \in Int : ToCreate(q) = a .. b
    <3>1. proc[q].took + 1 \in Int /\ proc[q].took + 2 \in Int /\ Len(TaskLocks[q]) + 1 \in Int
      BY <2>1
    <3>. QED BY <3>1 DEF ToCreate
  <2>3. IsFiniteSet(ToCreate(q))
    BY <2>2, FS_EmptySet, FS_Interval
  <2>4. IsFiniteSet({q})
    BY FS_Singleton
  <2>. QED BY <2>3, <2>4, FS_Product
<1> HIDE DEF Part
<1>2. IsFiniteSet(Parts)
  <2>1. PartOf \in Surjection(Processes, Parts)
    BY DEF Surjection
  <2>. QED BY <2>1, FS_Surjection
<1>3. \A P \in Parts : IsFiniteSet(P)
  BY <1>1
<1>4. Pending = UNION Parts
  BY DEF Pending, Part
<1> HIDE DEF Parts
<1>5. IsFiniteSet(Pending)
  BY <1>2, <1>3, <1>4, FS_UNION
<1>. QED BY <1>5, FS_CardinalityType

LEMMA PendingLess ==
    ASSUME TypeInv, [Next]_vars, IsFiniteSet(Processes)
    PROVE  /\ Cardinality(Pending)' \in Nat /\ Cardinality(Pending)' <= Cardinality(Pending)
           /\ (\E q \in Processes : Makes(q)) => Cardinality(Pending)' < Cardinality(Pending)
<1> DEFINE New == UNION {{q} \X ToCreate(q)' : q \in Processes}
<1>0. Pending' = New /\ Cardinality(Pending)' = Cardinality(New)
  BY DEF Pending
<1>1. IsFiniteSet(Pending) /\ Cardinality(Pending) \in Nat
  BY PendingFinite
<1>2. New \subseteq Pending
  <2> SUFFICES ASSUME NEW q \in Processes PROVE {q} \X ToCreate(q)' \subseteq Pending
    OBVIOUS
  <2>1. ToCreate(q)' \subseteq ToCreate(q)
    BY PendingShrinks
  <2>2. {q} \X ToCreate(q) \subseteq Pending
    BY DEF Pending
  <2>. QED BY <2>1, <2>2
<1>3. ASSUME NEW q \in Processes, Makes(q) PROVE New # Pending
  <2>1. PICK i : i \in ToCreate(q) /\ i \notin ToCreate(q)'
    BY <1>3, PendingShrinks
  <2>2. <<q, i>> \in Pending
    BY <2>1 DEF Pending
  <2>3. <<q, i>> \notin New
    BY <2>1
  <2>. QED BY <2>2, <2>3
<1> HIDE DEF New
<1>4. IsFiniteSet(New) /\ Cardinality(New) <= Cardinality(Pending) /\ (New # Pending => Cardinality(New) # Cardinality(Pending))
  BY <1>1, <1>2, FS_Subset
<1>5. Cardinality(New) \in Nat
  BY <1>4, FS_CardinalityType
<1>. QED BY <1>0, <1>1, <1>3, <1>4, <1>5

\* a path that is free stays free unless somebody creates a file
LEMMA FreeStays ==
    ASSUME TypeInv, [Next]_vars, \A q \in Processes : ~Makes(q), NEW f \in Files, file[f] = NoFile
    PROVE  file'[f] = NoFile
<1>0. file \in [Files -> LockFiles] /\ proc \in [Processes -> Procs]
  BY DEF TypeInv, TypeOK, Procs
<1>1. ASSUME NEW p \in Processes, Create(p) PROVE file'[f] = NoFile
  <2>1. ~(file[Wanted(p)] = NoFile /\ Goto(p, "fill"))
    BY <1>1, StepLands DEF Create, Makes
  <2>. QED BY <1>1, <2>1 DEF Create
<1>2. ASSUME NEW p \in Processes, NEW g, NEW i \in Processes, Write(p, g, i) PROVE file'[f] = NoFile
  <2>1. CASE file[g].ino = i
    <3>1. g # f
      BY <2>1, NoFileTyped, LocksAssumption
    <3>. QED BY <1>0, <1>2, <2>1, <3>1 DEF Write
  <2>2. CASE file[g].ino # i
    BY <1>2, <2>2 DEF Write
  <2>. QED BY <2>1, <2>2
<1>3. ASSUME NEW p \in Processes, NEW g, Remove(p, g) PROVE file'[f] = NoFile
  BY <1>0, <1>3 DEF Remove
<1>4. ASSUME NEW p \in Processes, Truncate(p) PROVE file'[f] = NoFile
  BY <1>0, <1>4 DEF Truncate
<1>5. ASSUME NEW p \in Processes, Rewrite(p) PROVE file'[f] = NoFile
  <2>1. proc[p].ino \in Processes
    BY <1>0, <1>5 DEF Rewrite, TypeInv, Procs
  <2>. QED BY <1>2, <1>5, <2>1 DEF Rewrite
<1>6. ASSUME NEW g \in Files, GrowOld(g) PROVE file'[f] = NoFile
  <2>1. g # f
    BY <1>6, NoFileTyped DEF GrowOld, Filled
  <2>. QED BY <1>0, <1>6, <2>1 DEF GrowOld
<1>7. CASE UNCHANGED file
  BY <1>7
<1>8. ASSUME NEW p \in Processes, Acquire(p) PROVE file'[f] = NoFile
  BY <1>1, <1>2, <1>3, <1>7, <1>8 DEF Acquire, Fill, Look, Reclaim
<1>9. ASSUME NEW p \in Processes, Guard(p) \/ Attempt(p) PROVE file'[f] = NoFile
  BY <1>3, <1>4, <1>5, <1>7, <1>9 DEF Guard, Check, Sweep, Attempt, Begin, EndAttempt
<1>10. ASSUME NEW p \in Processes, Release(p) PROVE file'[f] = NoFile
  BY <1>3, <1>7, <1>10 DEF Release, Close, Drop, Finish, Leave, Return
<1>. QED BY <1>6, <1>7, <1>8, <1>9, <1>10 DEF Next, vars, Start, OpenSession, Die

\* without a new file the loop of p only goes on, and its own step takes it further
LEMMA PhaseFalls ==
    ASSUME TypeInv, [Next]_vars, \A q \in Processes : ~Makes(q), NEW p \in Processes, proc[p].step \in Acquiring
    PROVE  /\ Phase(p)' <= Phase(p)
           /\ Acquire(p) => Phase(p)' < Phase(p)
<1>0. Wanted(p) \in Files
  BY WantedTyped
<1>1. \A f \in Files : file[f] = NoFile => file'[f] = NoFile
  BY FreeStays
<1>2. CASE proc'[p] = proc[p] /\ ~Acquire(p)
  <2>1. Wanted(p)' = Wanted(p) /\ \A step : At(p, step)' <=> At(p, step)
    BY <1>2 DEF Wanted, Tasked, At
  <2>. QED BY <1>0, <1>1, <1>2, <2>1 DEF Phase
<1>3. CASE Create(p)
  <2>1. ~(file[Wanted(p)] = NoFile /\ Goto(p, "fill"))
    BY <1>3, StepLands DEF Create, Makes
  <2>2. At(p, "create") /\ file[Wanted(p)] # NoFile /\ At(p, "look")'
    BY <1>3, <2>1, StepLands DEF Create, At
  <2>3. Phase(p) = 4 /\ Phase(p)' = 3
    BY <2>2 DEF Phase, At
  <2>. QED BY <2>3
<1>4. CASE Fill(p)
  <2>1. At(p, "fill") /\ ~At(p, "fill")'
    <3>1. At(p, "fill") /\ Advances(p)
      BY <1>4, ActorAdvances DEF Fill, Acquire
    <3>. QED BY <3>1 DEF Advances, Makes, At, Closing, Session
  <2>2. Phase(p) = 5 /\ Phase(p)' \in {0, 1, 2, 3, 4}
    BY <2>1 DEF Phase
  <2>. QED BY <2>2
<1>5. CASE Look(p)
  <2>1. At(p, "look") /\ \E step \in {"step", "leave", "reclaim"} : At(p, step)'
    BY <1>5, StepLands DEF Look, At
  <2>2. Phase(p) = 3 /\ Phase(p)' \in {0, 2}
    BY <2>1 DEF Phase, At
  <2>. QED BY <2>2
<1>6. CASE Reclaim(p)
  <2>1. At(p, "reclaim") /\ At(p, "create")' /\ proc'[p].took = proc[p].took
    BY <1>6, StepLands DEF Reclaim, At
  <2>2. Wanted(p)' = Wanted(p)
    BY <2>1 DEF Wanted, Tasked
  <2>3. file'[Wanted(p)] = NoFile
    BY <1>0, <1>6 DEF Reclaim, Remove, TypeInv, TypeOK
  <2>4. Phase(p) = 2 /\ Phase(p)' = 1
    BY <2>1, <2>2, <2>3 DEF Phase, At
  <2>. QED BY <2>4
<1>7. CASE Die(p)
  <2>1. At(p, "dead")'
    BY <1>7, StepLands DEF Die, At
  <2>2. Phase(p)' = 0 /\ Phase(p) \in {1, 2, 3, 4, 5}
    BY <2>1 DEF Phase, At, Acquiring
  <2>3. Phase(p)' < Phase(p)
    BY <2>2
  <2>. QED BY <2>2, <2>3
<1>8. ASSUME NEW q \in Processes, q # p,
             Start(q) \/ Acquire(q) \/ Guard(q) \/ OpenSession(q) \/ Attempt(q) \/ Release(q) \/ Die(q)
      PROVE  proc'[p] = proc[p]
  BY <1>8, ActorAdvances
<1>9. ~(Start(p) \/ Guard(p) \/ OpenSession(p) \/ Attempt(p) \/ Release(p))
  BY DEF Start, Guard, Check, Sweep, OpenSession, Attempt, Begin, Truncate, Rewrite, EndAttempt,
         Release, Close, Drop, Finish, Leave, Return, At, Acquiring
<1>10. CASE UNCHANGED proc
  BY <1>2, <1>3, <1>4, <1>5, <1>6, <1>10 DEF Acquire
<1>. QED BY <1>2, <1>3, <1>4, <1>5, <1>6, <1>7, <1>8, <1>9, <1>10 DEF Next, vars, GrowOld, Acquire

\* The acquire loop cannot go round for ever (for (;;) in acquireTaskLock and acquireWorkspaceRunLock): every step of
\* a process in the loop takes away from what is left of it, and no step of any other process gives it back, not
\* even one that takes the path just freed - a process creates each of its lock files once, so that this comes to
\* an end as well.
THEOREM AcquireShortens ==
    ASSUME IsFiniteSet(Processes)
    PROVE  Spec => [][ \A p \in Processes :
                         proc[p].step \in Acquiring =>
                             /\ LoopLeft(p) \in Nat /\ LoopLeft(p)' <= LoopLeft(p)
                             /\ Acquire(p) => LoopLeft(p)' < LoopLeft(p) ]_vars
<1>1. LockInv /\ [Next]_vars => [ \A p \in Processes :
                         proc[p].step \in Acquiring =>
                             /\ LoopLeft(p) \in Nat /\ LoopLeft(p)' <= LoopLeft(p)
                             /\ Acquire(p) => LoopLeft(p)' < LoopLeft(p) ]_vars
  <2> SUFFICES ASSUME TypeInv, [Next]_vars, NEW p \in Processes, proc[p].step \in Acquiring
               PROVE  /\ LoopLeft(p) \in Nat /\ LoopLeft(p)' <= LoopLeft(p)
                      /\ Acquire(p) => LoopLeft(p)' < LoopLeft(p)
    BY DEF LockInv
  <2> DEFINE n == Cardinality(Pending)
             m == Cardinality(Pending)'
  <2>1. n \in Nat /\ m \in Nat /\ m <= n /\ ((\E q \in Processes : Makes(q)) => m < n)
    BY PendingFinite, PendingLess
  <2>2. Phase(p) \in 1 .. 5 /\ Phase(p)' \in 0 .. 5
    BY DEF Phase, At, Acquiring
  <2>3. LoopLeft(p) = 6 * n + Phase(p) /\ LoopLeft(p)' = 6 * m + Phase(p)'
    BY DEF LoopLeft
  <2> HIDE DEF n, m
  <2>4. CASE \E q \in Processes : Makes(q)
    BY <2>1, <2>2, <2>3, <2>4
  <2>5. CASE \A q \in Processes : ~Makes(q)
    BY <2>1, <2>2, <2>3, <2>5, PhaseFalls
  <2>. QED BY <2>4, <2>5
<1>. QED BY <1>1, LockInvAlways, PTL DEF Spec

=============================================================================
