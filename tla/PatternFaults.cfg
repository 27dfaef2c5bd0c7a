SPECIFICATION FairSpec
CONSTANTS
    Modes <- MCModes
    MaxDepth = 2
    Branching = 2
    MaxTotalNodes = 5
    TokenBudget = 5
    PruningThreshold = 3
    Scores <- MCScores
    ReplyLines = 3
    ReplyTokens = {1, 3}
    ScoreTokens = 1
    MaxDebateRounds = 2
    Moderated = {TRUE, FALSE}
    Consensus = {TRUE, FALSE}
    MaxIterations = 2
    Thresholds <- MCThresholds
    SubqueryIds <- MCSubqueries
    MaxSubqueries = 2
    MaxSources = 2
    MaxEvidenceItems = 3
    CredibilityThreshold = 6
    SourceTypes <- MCSources
    Chunks = {c1, c2}
    Registrations <- MCHooks
    MaxHooks = 2
INVARIANTS SearchBounded BestBranchChosen WinnerAgrees PassesExplainAnswer ReportIsSupported ToolCallIsGuarded
PROPERTIES PatternEnds
