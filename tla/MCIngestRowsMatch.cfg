SPECIFICATION Spec
CONSTANTS
    Patterns <- MCPatterns
    Topics <- MCTopics
    SolaceCount = 2
    MaxSent = 2
    MaxFaults = 1
INVARIANTS RowsMatchTopic
