SPECIFICATION Spec
CONSTANTS
    Runs = {r1, r2}
    Queries = {q1}
    long = long
    short = short
    Contents <- Texts
    Size <- Chunked
    BatchSize = 2
    TopK = 1
    MaxAttempts = 2
    MaxFailures = 1
    MaxFaults = 2
INVARIANTS IndexedMeansEmbedded
CHECK_DEADLOCK FALSE
