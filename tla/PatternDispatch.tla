--------------------------- MODULE PatternDispatch ---------------------------
(***************************************************************************)
(* The child workflow of one routed execution, for the modes that reason   *)
(* in several steps and for the sandbox: dispatchByMode starts the child   *)
(* of the mode and turns its result, or its error, into the outcome of the *)
(* execution.  The execution has one mode, so one of the patterns moves.   *)
(* The worker serves MCPToolCallWorkflow and SkillExecutionWorkflow, too,  *)
(* which end with a result; whoever starts them is not in the repository.  *)
(***************************************************************************)
EXTENDS ThoughtTree, DebateRounds, ReflectionLoop, EvidenceReport, ToolCalls

CONSTANT Modes

VARIABLES
    mode,            \* decision.Mode
    outcome          \* Status of the routed execution, "pending" while the child runs

patternVars == <<treeVars, debateVars, reflectionVars, researchVars, toolVars>>
vars == <<mode, outcome, patternVars>>

\* The configuration of a pattern that does not run is fixed.
Init ==
    /\ mode \in Modes /\ outcome = "pending"
    /\ TreeInit /\ DebateInit /\ ReflectionInit /\ ResearchInit /\ ToolInit
    /\ mode # "debate" => debate = [rounds |-> 1, moderator |-> TRUE, require |-> FALSE]
    /\ mode # "reflection" => threshold = 75
    /\ mode # "research_v2" => setting = [backend |-> FALSE, reflect |-> FALSE]
    /\ IF mode \in Tools THEN tool = mode
       ELSE /\ tool = "mcp" /\ hooks = <<>>
            /\ hookConfig = [blocking |-> FALSE, failClosed |-> FALSE]

RunTree == mode = "tree_of_thoughts" /\ TreeNext
           /\ UNCHANGED <<mode, outcome, debateVars, reflectionVars, researchVars, toolVars>>
RunDebate == mode = "debate" /\ DebateNext
             /\ UNCHANGED <<mode, outcome, treeVars, reflectionVars, researchVars, toolVars>>
RunReflection == mode = "reflection" /\ ReflectionNext
                 /\ UNCHANGED <<mode, outcome, treeVars, debateVars, researchVars, toolVars>>
RunResearch == mode = "research_v2" /\ ResearchNext
               /\ UNCHANGED <<mode, outcome, treeVars, debateVars, reflectionVars, toolVars>>

RunTool == mode \in Tools /\ ToolNext
           /\ UNCHANGED <<mode, outcome, treeVars, debateVars, reflectionVars, researchVars>>

\* The child returned an error.  The worker registers no activity of
\* ResearchSynthesisWorkflow, so that child fails at its first step.
ChildFailed ==
    CASE mode = "tree_of_thoughts" -> search = "error"
      [] mode = "debate" -> floor = "error"
      [] mode = "research_v2" -> research = "error"
      [] mode = "research_v1" -> TRUE
      [] OTHER -> FALSE

\* The child returned a result: also a reflection without a draft, and a tool that
\* was refused or has failed.
ChildReturned ==
    CASE mode = "tree_of_thoughts" -> search = "done"
      [] mode = "debate" -> floor = "done"
      [] mode = "reflection" -> review \in {"done", "failed"}
      [] mode = "research_v2" -> research = "done"
      [] mode \in Tools -> step = "ended"
      [] OTHER -> FALSE

Report ==
    /\ outcome = "pending" /\ (ChildReturned \/ ChildFailed)
    /\ outcome' = IF ChildFailed THEN "error" ELSE "ok"
    /\ UNCHANGED <<mode, patternVars>>

\* The execution is over, or its child panics for ever.
Finished == (outcome # "pending" \/ step = "panic") /\ UNCHANGED vars

Next == RunTree \/ RunDebate \/ RunReflection \/ RunResearch \/ RunTool \/ Report \/ Finished

Spec == Init /\ [][Next]_vars

\* The worker keeps taking the activities and the workflow task of a run.
FairSpec == Spec /\ WF_vars(Next)

-----------------------------------------------------------------------------
TypeOK ==
    /\ TreeTypeOK /\ DebateTypeOK /\ ReflectionTypeOK /\ ResearchTypeOK /\ ToolTypeOK
    /\ mode \in Modes /\ outcome \in {"pending", "ok", "error"}

\* Every pattern ends and its execution gets an outcome: the loops over rounds,
\* levels, thoughts, passes, subqueries and sources are all bounded.  The exception is
\* a skill started without parameters that finds a context: SkillExecutionWorkflow
\* writes it to a nil map (skill_execution.go:172), so that it neither ends nor fails.
PatternEnds == <>(outcome # "pending" \/ (step = "panic" /\ ~parameters))
=============================================================================
