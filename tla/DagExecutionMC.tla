--------------------------- MODULE DagExecutionMC ---------------------------
(* The plan of PlanDAG without its three identical extra nodes, for TLC. *)
EXTENDS DagExecution

PlanNodes == {"research", "analyze", "compare", "validate", "conclude", "draft", "review"}
PlanDeps == [n \in PlanNodes |->
    CASE n \in {"research", "analyze"} -> {}
      [] n = "conclude" -> {"analyze"}
      [] n = "draft"    -> {"compare", "validate"}
      [] n = "review"   -> {"draft"}
      [] OTHER          -> {"research", "analyze"}]
PlanLLM == {"research", "analyze", "compare", "draft", "review"}
=============================================================================
