--------------------------- MODULE RoutingPolicyMC ---------------------------
(* Instances of RoutingPolicy for TLC.                                     *)
EXTENDS RoutingPolicy

\* Every keyword class, and queries without a keyword.
AllKeywords == {"none", "sandbox_execution", "debate", "reflection", "tree_of_thoughts",
                "research_v2", "react_tool", "dag_workflow"}
\* Each capability alone, none, and all.
SomeWishes == {{c} : c \in Capabilities} \cup {{}, Capabilities}
\* Everything on, everything off, and the pairs that fall back on each other.
SomeEnablings == {Flagged, {}, Flagged \ {"reflection"}, {"reflection", "research_v2"}}
=============================================================================
