-------------------------------- MODULE Locks --------------------------------
(***************************************************************************)
(* The lock files that keep two command-line invocations apart:            *)
(* concurrency/taskLock.ts, one file per task, and                         *)
(* concurrency/workspaceRunLock.ts, one per working tree.  `sta run` locks *)
(* its task and then only looks at the lock of its tree (cli.ts); `sta     *)
(* bounded-run` locks every task of its run in order, then its tree when   *)
(* the first attempt opens the guarded session, and refreshes that one     *)
(* before every attempt (boundedRun.ts, git/guardedRun.ts).                *)
(*                                                                         *)
(* There is no lock under the locks: a file is made, filled, read and      *)
(* removed by separate system calls, each an action here, and whatever     *)
(* other processes do may come in between.  Any process may die, any lock  *)
(* may grow older than the hour after which it is no longer trusted.       *)
(***************************************************************************)
EXTENDS Naturals, Sequences

CONSTANTS
    Manual, Bounded,  \* invocations of `sta run` and of `sta bounded-run`, one process each
    Files,            \* lock files, by path
    TaskLocks,        \* of an invocation: the locks of its tasks, in the order of its run
    TreeLock,         \* of an invocation: the path at which it takes or looks for its tree's lock
    None

Processes == Manual \cup Bounded

ASSUME LocksAssumption ==
    /\ Manual \cap Bounded = {} /\ None \notin Processes
    /\ TaskLocks \in [Processes -> Seq(Files)] /\ TreeLock \in [Processes -> Files]
    /\ \A p \in Processes : \A i \in DOMAIN TaskLocks[p] :
           /\ \A q \in Processes : TaskLocks[p][i] # TreeLock[q]
           /\ \A j \in DOMAIN TaskLocks[p] : TaskLocks[p][i] = TaskLocks[p][j] => i = j

VARIABLES
    file,  \* what is at each path
    proc,  \* per process: its step, the task locks it took and gave back, what it read last
    lost   \* history: lock files that went away under a live holder, and how

vars == <<file, proc, lost>>

\* a file is the one some process created (ino); its text names a process and when, or is not there yet
Blank == [pid |-> None, age |-> "none"]
Texts == [pid: Processes, age: {"fresh", "old"}] \cup {Blank}
NoFile == [ino |-> None, text |-> Blank]
LockFiles == [ino: Processes, text: Texts] \cup {NoFile}

Acquiring == {"create", "fill", "look", "reclaim"}
Guarding  == {"check", "sweep"}
Session   == {"open", "refresh", "truncate", "rewrite", "write", "close", "drop"}
Steps == Acquiring \cup Guarding \cup Session \cup {"start", "step", "leave", "remove", "done", "dead"}

\* how a reader judges a lock file
Verdicts == {"held", "missing", "unreadable", "dead", "old", "own"}
Causes   == {"unreadable", "old", "swapped"}

TypeOK ==
    /\ file \in [Files -> LockFiles]
    /\ proc \in [Processes -> [step: Steps, took: Nat, gave: Nat, saw: Verdicts, ino: Processes \cup {None}]]
    /\ lost \subseteq [of: Processes, file: Files, why: Causes]

-----------------------------------------------------------------------------
(* Helpers *)

At(p, step) == proc[p].step = step
Alive(p) == proc[p].step \notin {"start", "done", "dead"}

Forget(p, q) == proc' = [proc EXCEPT ![p] = [q EXCEPT !.saw = "missing", !.ino = None]]
Goto(p, step) == Forget(p, [proc[p] EXCEPT !.step = step])

\* the lock p is after: the next of its tasks, then, in a bounded run, its tree's
Tasked(p) == proc[p].took = Len(TaskLocks[p])
Wanted(p) == IF Tasked(p) THEN TreeLock[p] ELSE TaskLocks[p][proc[p].took + 1]

\* the lock p gives back next
Returned(p) == TaskLocks[p][proc[p].gave + 1]

Filled(f) == file[f].text # Blank
Names(f, p) == Filled(f) /\ file[f].text.pid = p

\* held() and isAlive(): a file that cannot be read tells nothing, nor is one an hour old or of a dead process held
JudgedGone(f) ==   \* mutant: whoever the file names is taken for dead
    IF file[f] = NoFile THEN "missing"
    ELSE IF ~Filled(f) THEN "unreadable"
    ELSE IF file[f].text.age = "old" THEN "old" ELSE "dead"
Judged(f) ==
    IF file[f] = NoFile THEN "missing"
    ELSE IF ~Filled(f) THEN "unreadable"
    ELSE IF file[f].text.age = "old" THEN "old"
    ELSE IF Alive(file[f].text.pid) THEN "held" ELSE "dead"

\* p has read f and goes on to a step that acts on what it read
Recall(p, f, verdict, step) ==
    proc' = [proc EXCEPT ![p].saw = verdict, ![p].ino = file[f].ino, ![p].step = step]

\* what is lost when p removes or overwrites what is at f now, having judged what was there then
Losing(p, f) ==
    LET why == IF file[f].ino = proc[p].ino THEN proc[p].saw ELSE "swapped"
    IN  {l \in [of: {file[f].ino} \ {p, None}, file: {f}, why: {why} \cap Causes] : Alive(l.of)}

Remove(p, f) ==
    /\ file' = [file EXCEPT ![f] = NoFile]
    /\ lost' = lost \cup Losing(p, f)

\* a write through an open descriptor: nobody sees it once the file has been removed
WriteUndated(p, f, ino) ==   \* mutant: the payload without its time
    file' = IF file[f].ino = ino THEN [file EXCEPT ![f].text = [pid |-> p, age |-> "none"]] ELSE file
Write(p, f, ino) ==
    file' = IF file[f].ino = ino THEN [file EXCEPT ![f].text = [pid |-> p, age |-> "fresh"]] ELSE file

-----------------------------------------------------------------------------
(* acquireTaskLock and acquireWorkspaceRunLock: one loop *)

Start(p) ==
    /\ At(p, "start")
    /\ Goto(p, "create")
    /\ UNCHANGED <<file, lost>>

\* open with "wx": creates the file or finds one
Create(p) ==
    /\ At(p, "create")
    /\ LET f == Wanted(p) IN
         \/ /\ file[f] = NoFile
            /\ file' = [file EXCEPT ![f] = [ino |-> p, text |-> Blank]]
            /\ Goto(p, "fill")
         \/ /\ file[f] # NoFile
            /\ Goto(p, "look")
            /\ UNCHANGED file
    /\ UNCHANGED lost

\* p has the lock; a session whose repository is not as frozen gives it back at once
Fill(p) ==
    /\ At(p, "fill")
    /\ Write(p, Wanted(p), p)
    /\ \/ /\ Tasked(p)
          /\ \E step \in {"open", "close"} : Goto(p, step)
       \/ /\ ~Tasked(p)
          /\ LET all == proc[p].took + 1 = Len(TaskLocks[p]) IN
             proc' = [proc EXCEPT ![p].took = @ + 1,
                                  ![p].step = IF ~all THEN "create" ELSE IF p \in Manual THEN "check" ELSE "step"]
    /\ UNCHANGED lost

\* a held lock refuses: a task's ends the invocation, the tree's only the attempt
LookReturning(p) ==   \* mutant: a run that is refused returns without giving back what it has
    /\ At(p, "look")
    /\ LET f == Wanted(p) IN
         \/ /\ Judged(f) = "held"
            /\ Goto(p, IF Tasked(p) THEN "step" ELSE "done")
         \/ /\ Judged(f) # "held"
            /\ Recall(p, f, Judged(f), "reclaim")
    /\ UNCHANGED <<file, lost>>
Look(p) ==
    /\ At(p, "look")
    /\ LET f == Wanted(p) IN
         \/ /\ Judged(f) = "held"
            /\ Goto(p, IF Tasked(p) THEN "step" ELSE "leave")
         \/ /\ Judged(f) # "held"
            /\ Recall(p, f, Judged(f), "reclaim")
    /\ UNCHANGED <<file, lost>>

ReclaimKeeping(p) ==   \* mutant: tries again without removing what it has judged
    /\ At(p, "reclaim")
    /\ Goto(p, "create")
    /\ UNCHANGED <<file, lost>>
Reclaim(p) ==
    /\ At(p, "reclaim")
    /\ Remove(p, Wanted(p))
    /\ Goto(p, "create")

-----------------------------------------------------------------------------
(* `sta run`: assertNoWorkspaceRunLock, then the task's stages *)

Check(p) ==
    /\ At(p, "check")
    /\ LET v == Judged(TreeLock[p]) IN
         \/ /\ v = "held"
            /\ Goto(p, "leave")
         \/ /\ v \in {"missing", "unreadable"}
            /\ Goto(p, "step")
         \/ /\ v \in {"old", "dead"}
            /\ Recall(p, TreeLock[p], v, "sweep")
    /\ UNCHANGED <<file, lost>>

Sweep(p) ==
    /\ At(p, "sweep")
    /\ Remove(p, TreeLock[p])
    /\ Goto(p, "step")

-----------------------------------------------------------------------------
(* `sta bounded-run`: GuardedRunSession.open, beginTask, close *)

OpenSession(p) ==
    /\ At(p, "step") /\ p \in Bounded
    /\ Goto(p, "create")
    /\ UNCHANGED <<file, lost>>

\* refreshWorkspaceRunLock refuses the attempt unless the lock is still its own ...
Begin(p) ==
    /\ At(p, "open")
    /\ Names(TreeLock[p], p)
    /\ Recall(p, TreeLock[p], "own", "truncate")
    /\ UNCHANGED <<file, lost>>

\* ... then opens whatever is there by now, empties it and writes itself in
Truncate(p) ==
    /\ At(p, "truncate")
    /\ LET f == TreeLock[p] IN
         \/ /\ file[f] = NoFile
            /\ Goto(p, "open")
            /\ UNCHANGED <<file, lost>>
         \/ /\ file[f] # NoFile
            /\ file' = [file EXCEPT ![f].text = Blank]
            /\ lost' = lost \cup Losing(p, f)
            /\ Recall(p, f, "own", "rewrite")

Rewrite(p) ==
    /\ At(p, "rewrite")
    /\ Write(p, TreeLock[p], proc[p].ino)
    /\ Goto(p, "write")
    /\ UNCHANGED lost

EndAttempt(p) ==
    /\ At(p, "write")
    /\ Goto(p, "open")
    /\ UNCHANGED <<file, lost>>

\* removeIfOwned
Close(p) ==
    /\ p \in Bounded
    /\ \/ At(p, "open") /\ Goto(p, "close")
       \/ At(p, "close") /\ ~Names(TreeLock[p], p) /\ Goto(p, "leave")
       \/ At(p, "close") /\ Names(TreeLock[p], p) /\ Recall(p, TreeLock[p], "own", "drop")
    /\ UNCHANGED <<file, lost>>

Drop(p) ==
    /\ At(p, "drop")
    /\ Remove(p, TreeLock[p])
    /\ Goto(p, "leave")

-----------------------------------------------------------------------------
(* releaseTaskLock, for every task lock taken *)

Finish(p) ==
    /\ At(p, "step")
    /\ Goto(p, "leave")
    /\ UNCHANGED <<file, lost>>

LeaveAll(p) ==   \* mutant: gives back every lock of the run, also those it did not get
    /\ At(p, "leave")
    /\ IF proc[p].gave = Len(TaskLocks[p]) THEN Goto(p, "done")
       ELSE LET f == Returned(p) IN
         \/ /\ Filled(f) /\ ~Names(f, p)
            /\ proc' = [proc EXCEPT ![p].gave = @ + 1]
         \/ /\ ~Filled(f) \/ Names(f, p)
            /\ Recall(p, f, IF Filled(f) THEN "own" ELSE Judged(f), "remove")
    /\ UNCHANGED <<file, lost>>
Leave(p) ==
    /\ At(p, "leave")
    /\ IF proc[p].gave = proc[p].took THEN Goto(p, "done")
       ELSE LET f == Returned(p) IN
         \/ /\ Filled(f) /\ ~Names(f, p)
            /\ proc' = [proc EXCEPT ![p].gave = @ + 1]
         \/ /\ ~Filled(f) \/ Names(f, p)
            /\ Recall(p, f, IF Filled(f) THEN "own" ELSE Judged(f), "remove")
    /\ UNCHANGED <<file, lost>>

Return(p) ==
    /\ At(p, "remove")
    /\ Remove(p, Returned(p))
    /\ Forget(p, [proc[p] EXCEPT !.gave = @ + 1, !.step = "leave"])

-----------------------------------------------------------------------------
(* The environment: a process may die at any step, a lock may grow old *)

Die(p) ==
    /\ Alive(p)
    /\ Goto(p, "dead")
    /\ UNCHANGED <<file, lost>>

GrowOld(f) ==
    /\ Filled(f) /\ file[f].text.age = "fresh"
    /\ file' = [file EXCEPT ![f].text.age = "old"]
    /\ UNCHANGED <<proc, lost>>

Init ==
    /\ file = [f \in Files |-> NoFile]
    /\ proc = [p \in Processes |-> [step |-> "start", took |-> 0, gave |-> 0, saw |-> "missing", ino |-> None]]
    /\ lost = {}

Acquire(p) == Create(p) \/ Fill(p) \/ Look(p) \/ Reclaim(p)
Guard(p)   == Check(p) \/ Sweep(p)
Attempt(p) == Begin(p) \/ Truncate(p) \/ Rewrite(p) \/ EndAttempt(p)
Release(p) == Close(p) \/ Drop(p) \/ Finish(p) \/ Leave(p) \/ Return(p)

Next ==
    \/ \E p \in Processes :
         Start(p) \/ Acquire(p) \/ Guard(p) \/ OpenSession(p) \/ Attempt(p) \/ Release(p) \/ Die(p)
    \/ \E f \in Files : GrowOld(f)

Spec == Init /\ [][Next]_vars

\* a process that runs makes progress in the loop; that it starts, dies or begins another attempt is up to nobody here
FairSpec == Spec /\ \A p \in Processes : WF_vars(Acquire(p))

-----------------------------------------------------------------------------
(* Properties *)

Holds(p, f) ==
    /\ Alive(p)
    /\ \/ \E i \in proc[p].gave + 1 .. proc[p].took : TaskLocks[p][i] = f
       \/ proc[p].step \in Session /\ TreeLock[p] = f
       \/ At(p, "fill") /\ Wanted(p) = f

Robbed(p, f) == \E l \in lost : l.of = p /\ l.file = f

\* A live holder's lock file stands until the holder removes it, or it went away in one of three known ways: it
\* was read while it was being written, it was over an hour old, or it had taken the place of another file that
\* was judged (acquire loop, refresh, release, assertNoWorkspaceRunLock).
HeldOrLost ==
    \A p \in Processes, f \in Files :
        Holds(p, f) => (file[f].ino = p /\ file[f].text.pid \in {p, None}) \/ Robbed(p, f)

\* Two live processes hold the same lock only after one of them was robbed of it.
OverlapExplained ==
    \A p, q \in Processes, f \in Files : p # q /\ Holds(p, f) /\ Holds(q, f) => Robbed(p, f) \/ Robbed(q, f)

\* Once every invocation has ended by itself no lock file is left behind, whoever robbed whom: nothing is there
\* for a later command to wait an hour for.
NothingLeft ==
    (\A p \in Processes : At(p, "done")) => \A f \in Files : file[f] = NoFile

\* What a process does on its way out, or when it refreshes, takes the lock of a live process only if it had lost
\* its own before: releaseTaskLock and removeIfOwned remove no more than was acquired.
LeavingIsClean ==
    [][ \A p \in Processes :
            Return(p) \/ Drop(p) \/ Truncate(p) => lost' = lost \/ \E l \in lost : l.of = p ]_vars

\* The acquire loop ends, however many reclaim at once (for (;;) in acquireTaskLock): granted, refused or dead.
AcquireEnds ==
    \A p \in Processes : proc[p].step \in Acquiring ~> proc[p].step \notin Acquiring

Stepping(p, f) == Alive(p) /\ Tasked(p) /\ \E i \in DOMAIN TaskLocks[p] : i > proc[p].gave /\ TaskLocks[p][i] = f

\* taskLock.ts:4: "so two `sta` processes never step the same task at once", what its comments set aside left out:
\* no process died, no lock grew old, none was read before it was written.
OneStepperPerTask ==
    \A p, q \in Processes, f \in Files :
        p # q /\ Stepping(p, f) /\ Stepping(q, f)
        => \/ \E r \in Processes : At(r, "dead")
           \/ \E l \in lost : l.why # "swapped"
=============================================================================
