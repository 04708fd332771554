\* Fair: an upgrade and a restart, and OLM changes the Deployment.
SPECIFICATION FairSpec
CONSTANTS
    Cli <- TwoCli
    Tasks <- OneApplies
    Replicas = 1
    MaxGeneration = 2
    MaxPods = 4
    MaxCrashes = 1
INVARIANTS
    TypeOK
PROPERTIES
    RolledOutIsNewest
    RestartReplacesAll
    Ends
