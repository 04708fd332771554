\* Fair: two runs at once on a fresh namespace.
SPECIFICATION FairSpec
CONSTANTS
    Operators <- TwoOperators
    Cli <- TwoRuns
    Threads = 1
    Preinstalled <- Fresh
    PlansMayFail = FALSE
    MaxPlans = 2
    MaxWrites = 1
INVARIANTS
    TypeOK
    NoDeadEnd
PROPERTIES
    ImplementsSequence
    Terminates
