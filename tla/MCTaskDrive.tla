----------------------------- MODULE MCTaskDrive -----------------------------
(***************************************************************************)
(* The drives of a task of either of two classifications                   *)
(* (classification/taskClassifier.ts): a change of a text in a sensitive   *)
(* area, whose verifier may send it back, and a deployment.  No            *)
(* classification has both a verifier and devops, so each task is the one  *)
(* or the other from its start.                                            *)
(***************************************************************************)
EXTENDS TaskMachine

CONSTANT h1

VARIABLE task

SensitiveChange == <<"backend", "security">>

Deployment == INSTANCE TaskMachine
    WITH Pipeline <- <<"test_planner", "devops">>, RequiresHumanApproval <- TRUE

EitherInit ==
    \/ task = "change" /\ Init
    \/ task = "deployment" /\ Deployment!Init

EitherDrive ==
    /\ \/ task = "change" /\ Drive
       \/ task = "deployment" /\ Deployment!Drive
    /\ UNCHANGED task

EitherNext ==
    /\ \/ task = "change" /\ Next
       \/ task = "deployment" /\ Deployment!Next
    /\ UNCHANGED task

(* The driving process goes on, and its executor answers: every runtime has *)
(* a time limit.                                                            *)
EitherSpec ==
    EitherInit /\ [][EitherNext]_<<task, vars>> /\ WF_<<task, vars>>(EitherDrive)
=============================================================================
