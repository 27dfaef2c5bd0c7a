--------------------------- MODULE TaskLifecycleMC ---------------------------
(***************************************************************************)
(* Small budgets for TLC: total 2 with completion 1, or 0 for "use the     *)
(* default" (3 and 2 here, 8000 and 1024 in the code).                     *)
(***************************************************************************)
EXTENDS TaskLifecycle

MCTotals      == {0, 2}
OneCompletion == {1}
TwoEstimates  == {1, 3}
MCUsages      == {2, 3}

\* One request for the run that looks for a single step.
OneTotal == {2}
=============================================================================
