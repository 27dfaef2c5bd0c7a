-------------------------- MODULE PatternDispatchMC --------------------------
(* One execution of each pattern and tool, with small limits. *)
EXTENDS PatternDispatch

MCModes == {"tree_of_thoughts", "debate", "reflection", "research_v1", "research_v2",
            "sandbox_execution", "mcp", "skill"}
MCScores == {2, 5, 9}
MCThresholds == {50, 75}
MCSubqueries == {"sq1", "sq2"}
MCSources == <<"local_rag", "docs">>

\* A hook that refuses, one whose server answers or fails, one whose handler is
\* gone, and one that only watches retrievals.
MCHooks == {[blocking |-> TRUE, filter |-> "mcp", handler |-> "deny"],
            [blocking |-> FALSE, filter |-> "none", handler |-> "deny"],
            [blocking |-> TRUE, filter |-> "none", handler |-> "http"],
            [blocking |-> TRUE, filter |-> "none", handler |-> "unknown"],
            [blocking |-> TRUE, filter |-> "rag_retrieval", handler |-> "http"]}
=============================================================================
