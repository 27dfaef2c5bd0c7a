SPECIFICATION FairSpec
CONSTANTS
    Nodes <- PlanNodes
    Deps <- PlanDeps
    UsesLLM <- PlanLLM
    ReActNodes = {"draft"}
    MaxParallelAgents = 2
    MaxFaults = 3
    MaxReplays = 1
INVARIANTS EveryNodeAccounted RunsOnCompletedInput SkipHasCause CompletionIsBacked
PROPERTIES ShownSkippedStays PlannedWorkEnds
