SPECIFICATION Spec
CONSTANTS
    Queries <- GatedQueries
    Answers <- ShortAnswers
    Responders = {r1}
    ExecTimeout = 9
    ApprovalTimeout = 1
    MaxAttempts = 2
    MaxTime = 1
    MaxFaults = 0
INVARIANT ApprovedSandboxRuns
