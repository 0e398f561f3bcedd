--------------------------- MODULE MCTaskMachine ---------------------------
(* Tasks of two kinds of classification, small enough for TLC.             *)
EXTENDS TaskMachine

CONSTANT h1

(* taskClassifier.ts: an increment of a screen, a task of an approved plan. *)
Increment == <<"system_analyst", "uxui_designer", "frontend", "reviewer", "qa">>
PlanTask == <<"backend", "reviewer", "qa">>

(* A row that an old copy overwrote is not followed further: every property *)
(* of a run with this constraint is about rows that no old copy overwrote,  *)
(* or about that step itself.                                               *)
UntilLost == ~past.lost
=============================================================================
