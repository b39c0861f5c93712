SPECIFICATION Spec
CONSTANTS
    Initial = 10
    Factor = 2
    Cap = 600
    Jitter = 50
    MaxFailures = 8
INVARIANTS FollowsSequence DelayInBounds
