\* A second run after one that failed.
SPECIFICATION Spec
CONSTANTS
    DBNamespaces <- TwoNamespaces
    System = "everest-system"
    Monitoring = "everest-monitoring"
    OLM = "everest-olm"
    Databases <- TwoDatabases
    Storages <- OneStorage
    Configs <- OneConfig
    Home <- Homes
    UsersActive = FALSE
    SleepSuffices = TRUE
    Failures = TRUE
    MaxRuns = 2
PROPERTIES
    EnginesFinishFirst
