SPECIFICATION Spec
CONSTANTS
    Queries <- GatedQueries
    Answers <- RaceAnswers
    Responders = {r1, r2}
    ExecTimeout = 2
    ApprovalTimeout = 1
    MaxAttempts = 2
    MaxTime = 2
    MaxFaults = 1
INVARIANTS AnswersAreHonoured
PROPERTIES ImplementsContract
SYMMETRY AnyResponder
