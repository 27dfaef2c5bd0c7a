SPECIFICATION Spec
CONSTANTS
    Totals <- OneTotal
    Completions <- OneCompletion
    Estimates <- TwoEstimates
    Usages <- MCUsages
    DefaultTotal = 3
    DefaultCompletion = 2
    MaxAttempts = 2
    MaxFaults = 0
PROPERTIES TerminalNotOverwritten
