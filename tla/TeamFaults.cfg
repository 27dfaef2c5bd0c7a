SPECIFICATION Spec
CONSTANTS
    Totals <- SomeTotals
    Completions <- SomeCompletions
    Estimates <- SomeEstimates
    Overheads <- SomeOverheads
    ToolText = 1
    DefaultTotal = 6
    DefaultCompletion = 1
    ToolTokens = 1
    MaxOverhead = 1
    MaxAttempts = 2
    MaxFaults = 3
INVARIANTS NoUnadmittedCall OvershootBounded AccountsAgree
PROPERTIES RowIsFinal TeamEnds
CHECK_DEADLOCK FALSE
