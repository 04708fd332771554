\* Fair: an install; an install, upgrade or reset; a reset or an uninstall.
SPECIFICATION FairSpec
CONSTANTS
    Cli <- ThreeCli
    Commands <- TwoInstalls
    DBNamespaces <- OneNamespace
    Chosen <- Same
    System = "everest-system"
    Monitoring = "everest-monitoring"
    OLM = "everest-olm"
    Together = 2
    None <- NoSecret
INVARIANTS
    TypeOK
    PrintedTokenWorks
PROPERTIES
    ReportedComplete
    TokenIsKnown
    Ends
