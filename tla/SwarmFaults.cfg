SPECIFICATION FairSpec
CONSTANTS
    Counts <- MCCounts
    Rounds <- MCRounds
    DefaultCount = 3
    DefaultRounds = 2
    MaxSignals = 1
    MaxFaults = 1
INVARIANTS EveryRunCounted MailIsGiven
PROPERTIES SwarmEnds
