\* Fair: two runs, each may fail anywhere, while users create objects.
SPECIFICATION FairSpec
CONSTANTS
    DBNamespaces <- TwoNamespaces
    System = "everest-system"
    Monitoring = "everest-monitoring"
    OLM = "everest-olm"
    Databases <- TwoDatabases
    Storages <- OneStorage
    Configs <- OneConfig
    Home <- Homes
    UsersActive = TRUE
    SleepSuffices = TRUE
    Failures = TRUE
    MaxRuns = 2
INVARIANTS
    TypeOK
PROPERTIES
    OperatorsOutliveObjects
    NoDatabaseWithoutConsent
    Completes
