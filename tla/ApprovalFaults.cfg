SPECIFICATION FairSpec
CONSTANTS
    Queries <- MCQueries
    Answers <- MCAnswers
    Responders = {r1}
    ExecTimeout = 9
    ApprovalTimeout = 1
    MaxAttempts = 2
    MaxTime = 1
    MaxFaults = 2
INVARIANTS RunsAreCleared TablesAgree
PROPERTIES GateEnds AnswerIsTaken
