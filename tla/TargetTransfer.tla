--------------------------- MODULE TargetTransfer ---------------------------
(***************************************************************************)
(* The transfer of a Target between Knowledge roots                        *)
(* (threeRepo/targetTransfer.ts) and the register flow it shares with the  *)
(* configure command (threeRepo/targetRegistration.ts).  Every root keeps  *)
(* its Targets in one file, targets.yaml; an approval record, another      *)
(* file, says how far a transfer has come.  The files are in different Git *)
(* repositories and no lock covers them: a command reads them one by one,  *)
(* reads again what it is about to replace, writes one registry and then   *)
(* the record, and may die between any two of these steps.  An action is   *)
(* one read or one write of a file.                                        *)
(***************************************************************************)
EXTENDS Naturals, Sequences

CONSTANTS
    Roots,      \* the knowledge_roots of the installation
    RootOrder,  \* their names in the order in which they are read
    Repos,      \* repositories, by canonical coordinate; a root names one at most once
    Records,    \* approval records, filled in by a person
    Source, Destination, Moves,   \* of a record: its two roots and its repository
    Processes,  \* commands that can run at the same time
    None

ASSUME TransferAssumption ==
    /\ RootOrder \in Seq(Roots) /\ \A a \in Roots : \E i \in DOMAIN RootOrder : RootOrder[i] = a
    /\ Source \in [Records -> Roots] /\ Destination \in [Records -> Roots] /\ Moves \in [Records -> Repos]
    /\ \A t \in Records : Source[t] # Destination[t]
    /\ None \notin Records

\* a registry entry: active and owned, retired and owned, retired and released
Entries  == {"absent", "active", "retired", "tombstone"}
Owning   == {"active", "retired"}
Registry == [Repos -> Entries]

RecordStatuses == {"pending", "released", "completed", "rolled_back"}
Commands == {"release", "register", "rollback", "verify"}
Jobs == [op: Commands, rec: Records, root: Roots, repo: Repos] \cup
        [op: {"configure"}, rec: {None}, root: Roots, repo: Repos]

VARIABLES
    registry,  \* targets.yaml of each root
    record,    \* the status of each approval record
    inUse,     \* per root, the repositories a non-terminal task binds or a module declares
    late,      \* history: of these, the ones bound or declared after a release had looked for them
    proc       \* per process: what it runs, the step it is at, what it read

vars == <<registry, record, inUse, late, proc>>

Steps == {"idle", "source", "uses", "reread", "destination", "snapshot", "decide",
          "fresh", "owners", "audit", "judge", "write", "save"}
Unread == [x \in Repos |-> "absent"]   \* a root without a file owns nothing; so does one not read yet
Idle   == [step |-> "idle", job |-> None, seen |-> [a \in Roots |-> Unread], next |-> 1, status |-> None]

TypeOK ==
    /\ registry \in [Roots -> Registry]
    /\ record \in [Records -> RecordStatuses]
    /\ inUse \in [Roots -> SUBSET Repos] /\ late \in [Roots -> SUBSET Repos]
    /\ proc \in [Processes -> [step: Steps, job: Jobs \cup {None}, seen: [Roots -> Registry],
                               next: Nat, status: RecordStatuses \cup {None}]]

-----------------------------------------------------------------------------
(* Helpers *)

Job(p) == proc[p].job
At(p, step) == proc[p].step = step
Op(p, ops) == proc[p].job.op \in ops
Owners(reg, x) == {a \in Roots : reg[a][x] \in Owning}

\* the roots of a record's transfer; the root a command writes is that of its job
JobOf(op, t) == [op |-> op, rec |-> t, repo |-> Moves[t],
                 root |-> IF op \in {"release", "rollback"} THEN Source[t] ELSE Destination[t]]
Home(p) == IF Job(p).rec = None THEN Job(p).root ELSE Source[Job(p).rec]

Becomes(p, q) == proc' = [proc EXCEPT ![p] = q]
Goto(p, step) == Becomes(p, [proc[p] EXCEPT !.step = step, !.next = 1])
Refuse(p)     == Becomes(p, Idle)
Choose(p, ok, step) == IF ok THEN Goto(p, step) ELSE Refuse(p)

\* the next root of a scan; the scan ends at the step given
Reading(p) == RootOrder[proc[p].next]
Onward(q, step) == IF q.next < Len(RootOrder) THEN [q EXCEPT !.next = @ + 1] ELSE [q EXCEPT !.step = step, !.next = 1]
Keep(q, a) == [q EXCEPT !.seen[a] = registry[a]]
Files == <<registry, record, inUse, late>>

-----------------------------------------------------------------------------
(* Commands *)

\* the record status a command accepts; configure has no record
Accepts(op) == CASE op = "release" -> {"pending"}
                 [] op = "verify" -> {"released", "completed"}
                 [] OTHER -> {"released"}

OpenRecord(p, op, t) ==
    /\ proc[p].step = "idle" /\ record[t] \in Accepts(op)
    /\ Becomes(p, [Idle EXCEPT !.step = "source", !.job = JobOf(op, t), !.status = record[t]])
    /\ UNCHANGED Files

Configure(p, a, x) ==
    /\ proc[p].step = "idle"
    /\ Becomes(p, [Idle EXCEPT !.step = "snapshot",
                               !.job = [op |-> "configure", rec |-> None, root |-> a, repo |-> x]])
    /\ UNCHANGED Files

\* a release needs an entry that is no tombstone yet, the others need the tombstone
SourceOk(op, e) == IF op = "release" THEN e \in Owning ELSE e = "tombstone"
AfterSource(op) == CASE op = "release" -> "uses" [] op = "rollback" -> "owners" [] OTHER -> "destination"

ReadSource(p) ==
    /\ At(p, "source")
    /\ IF SourceOk(Job(p).op, registry[Home(p)][Job(p).repo])
       THEN Becomes(p, [Keep(proc[p], Home(p)) EXCEPT !.step = AfterSource(Job(p).op)])
       ELSE Refuse(p)
    /\ UNCHANGED Files

\* no non-terminal task may bind the Target and no module may declare it
UnboundUnchecked(a, x) == TRUE   \* mutant: released while something still binds it
Unbound(a, x) == x \notin inUse[a]

CheckUses(p) ==
    /\ At(p, "uses")
    /\ Choose(p, Unbound(Home(p), Job(p).repo), "reread")
    /\ UNCHANGED Files

\* verify needs an owning destination; register finds nothing to write in an
\* entry that owns already, and leaves a tombstone to a person
PairedPresent(e) == e # "absent"   \* mutant: the ownership of the destination is not looked at
Paired(e) == e \in Owning

ReadDestination(p) ==
    /\ At(p, "destination")
    /\ LET e == registry[Job(p).root][Job(p).repo]
       IN  \/ Op(p, {"register"}) /\ Choose(p, e = "absent", "snapshot")
           \/ Op(p, {"verify"}) /\ Choose(p, Paired(e), "audit")
    /\ UNCHANGED Files

-----------------------------------------------------------------------------
(* The register flow *)

Snapshot(p) ==
    /\ At(p, "snapshot")
    /\ Becomes(p, Onward(Keep(proc[p], Reading(p)), "decide"))
    /\ UNCHANGED Files

\* no repository has two owners, the entry is new or retired, and nobody else owns it
FreeForAll(seen, a, x) == TRUE   \* mutant: the owners in other roots are not compared
FreeFor(seen, a, x) == Owners(seen, x) \subseteq {a}
Registrable(p) ==
    LET seen == proc[p].seen
    IN  /\ \A x \in Repos : \A a, b \in Owners(seen, x) : a = b
        /\ seen[Job(p).root][Job(p).repo] # "active"
        /\ FreeFor(seen, Job(p).root, Job(p).repo)

Decide(p) ==
    /\ At(p, "decide")
    /\ Choose(p, Registrable(p), "fresh")
    /\ UNCHANGED Files

\* a registry that moved under the command is not written on
Fresh(p) ==
    /\ At(p, "fresh")
    /\ IF registry[Reading(p)] = proc[p].seen[Reading(p)]
       THEN Becomes(p, Onward(proc[p], "write"))
       ELSE Refuse(p)
    /\ UNCHANGED Files

-----------------------------------------------------------------------------
(* Rollback and verification *)

\* rollback refuses at the first root that owns the repository
ScanOwners(p) ==
    /\ At(p, "owners")
    /\ IF registry[Reading(p)][Job(p).repo] \in Owning
       THEN Refuse(p)
       ELSE Becomes(p, Onward(proc[p], "reread"))
    /\ UNCHANGED Files

RereadRollsBack(p) ==   \* mutant: the rollback closes its record before it restores the entry
    /\ At(p, "reread")
    /\ Choose(p, registry[Home(p)] = proc[p].seen[Home(p)], IF Op(p, {"rollback"}) THEN "save" ELSE "write")
    /\ UNCHANGED Files
Reread(p) ==
    /\ At(p, "reread")
    /\ Choose(p, registry[Home(p)] = proc[p].seen[Home(p)], "write")
    /\ UNCHANGED Files

Audit(p) ==
    /\ At(p, "audit")
    /\ Becomes(p, Onward(Keep(proc[p], Reading(p)), "judge"))
    /\ UNCHANGED Files

\* the ownership audit fails on two owners and on a tombstone no owner covers;
\* the knowledge and module checks of the two roots may fail too
AuditPasses(seen) == \A x \in Repos :
    /\ \A a, b \in Owners(seen, x) : a = b
    /\ \A a \in Roots : seen[a][x] = "tombstone" => Owners(seen, x) # {}

Judge(p) ==
    /\ At(p, "judge")
    /\ \E checked \in BOOLEAN :
          Choose(p, AuditPasses(proc[p].seen) /\ checked /\ proc[p].status # "completed", "save")
    /\ UNCHANGED Files

-----------------------------------------------------------------------------
(* Writes *)

\* what the command makes of its entry: a rollback restores the ownership, not the status
Entry(op) == CASE op = "release" -> "tombstone" [] op = "rollback" -> "retired" [] OTHER -> "active"

\* the writer refuses to delete an entry; it writes the whole file as it was read
WriteRegistry(p) ==
    /\ At(p, "write")
    /\ LET a == Job(p).root
           new == [proc[p].seen[a] EXCEPT ![Job(p).repo] = Entry(Job(p).op)]
       IN  IF \A x \in Repos : registry[a][x] # "absent" => new[x] # "absent"
           THEN /\ registry' = [registry EXCEPT ![a] = new]
                /\ Choose(p, Op(p, {"release", "rollback"}), "save")
           ELSE Refuse(p) /\ UNCHANGED registry
    /\ UNCHANGED <<record, inUse, late>>

OutcomeNamed(op) == IF op = "release" THEN "released" ELSE op   \* mutant: the record keeps the name of the command
Outcome(op) == CASE op = "release" -> "released" [] op = "rollback" -> "rolled_back" [] OTHER -> "completed"

SaveRecord(p) ==
    /\ At(p, "save")
    /\ record' = [record EXCEPT ![Job(p).rec] = Outcome(Job(p).op)]
    /\ Refuse(p)
    /\ UNCHANGED <<registry, inUse, late>>

Die(p) ==
    /\ proc[p].step # "idle"
    /\ Refuse(p)
    /\ UNCHANGED Files

-----------------------------------------------------------------------------
(* The people at work in the roots *)

\* a release of the Target has looked for its uses and has not written yet
Releasing(a, x) == \E p \in Processes : /\ proc[p].step \in {"reread", "write"} /\ Op(p, {"release"})
                                        /\ Job(p).root = a /\ Job(p).repo = x

\* a task binds, or a module declares, an active Target; nothing keeps it from one that is being released
Use(a, x) ==
    /\ registry[a][x] = "active"
    /\ inUse' = [inUse EXCEPT ![a] = @ \cup {x}]
    /\ late' = IF Releasing(a, x) THEN [late EXCEPT ![a] = @ \cup {x}] ELSE late
    /\ UNCHANGED <<registry, record, proc>>

EndUse(a, x) ==
    /\ x \in inUse[a]
    /\ inUse' = [inUse EXCEPT ![a] = @ \ {x}]
    /\ late' = [late EXCEPT ![a] = @ \ {x}]
    /\ UNCHANGED <<registry, record, proc>>

-----------------------------------------------------------------------------

Init ==
    /\ registry \in {g \in [Roots -> [Repos -> {"absent", "active", "retired"}]] :
                        \A x \in Repos : \A a, b \in Owners(g, x) : a = b}
    /\ record = [t \in Records |-> "pending"]
    /\ inUse = [a \in Roots |-> {}] /\ late = [a \in Roots |-> {}]
    /\ proc = [p \in Processes |-> Idle]

Command(p) ==
    \/ \E t \in Records, op \in Commands : OpenRecord(p, op, t)
    \/ \E a \in Roots, x \in Repos : Configure(p, a, x)
    \/ ReadSource(p) \/ CheckUses(p) \/ ReadDestination(p)
    \/ Snapshot(p) \/ Decide(p) \/ Fresh(p)
    \/ ScanOwners(p) \/ Reread(p) \/ Audit(p) \/ Judge(p)
    \/ WriteRegistry(p) \/ SaveRecord(p) \/ Die(p)

Next ==
    \/ \E p \in Processes : Command(p)
    \/ \E a \in Roots, x \in Repos : Use(a, x) \/ EndUse(a, x)

Spec == Init /\ [][Next]_vars

-----------------------------------------------------------------------------
(* Properties *)

\* Ownership moves only through nobody, and never to two roots: however a
\* command dies, the registries behave as the abstract ownership
\* (targetTransfer.ts: the release before the register; the scans of register
\* and rollback).
TheOwners == [x \in Repos |-> Owners(registry, x)]
O == INSTANCE Ownership WITH owners <- TheOwners
ImplementsOwnership == O!Spec

\* A record becomes completed only over a finished pair: its source is a
\* tombstone and its destination owns the repository (verifyTargetTransfer).
CompletedPaired ==
    [][\A t \in Records : record[t] # "completed" /\ record'[t] = "completed" =>
          /\ registry[Source[t]][Moves[t]] = "tombstone"
          /\ registry[Destination[t]][Moves[t]] \in Owning]_vars

\* A repository that lost its owner is the business of a record that is not
\* closed: no order of releases, rollbacks, verifications and deaths closes
\* the last record and leaves a tombstone nobody owns.
NeverAbandoned ==
    \A x \in Repos :
        Owners(registry, x) = {} /\ (\E a \in Roots : registry[a][x] = "tombstone")
            => \E t \in Records : /\ Moves[t] = x /\ record[t] \in {"pending", "released"}
                                 /\ registry[Source[t]][x] = "tombstone"

\* What still binds or declares a Target that was given away began while its release was at work, after the
\* release had looked for tasks and modules (nonTerminalTasksBoundTo, moduleRefsDeclaring) and before it wrote;
\* whatever was bound before, or dies, or is released and restored meanwhile, no other use outlives a release.
TombstoneUnused ==
    \A a \in Roots, x \in Repos : registry[a][x] = "tombstone" /\ x \in inUse[a] => x \in late[a]

=============================================================================
