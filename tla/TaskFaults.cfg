SPECIFICATION FairSpec
CONSTANTS
    Totals <- MCTotals
    Completions <- OneCompletion
    Estimates <- TwoEstimates
    Usages <- MCUsages
    DefaultTotal = 3
    DefaultCompletion = 2
    MaxAttempts = 2
    MaxFaults = 2
INVARIANTS SpendWithinBudget CompletedIsTrue OneVerdict MemoryOfAnsweredTurns
PROPERTIES WorkflowKeepsTerminal PublishesOnce RunningSettles
