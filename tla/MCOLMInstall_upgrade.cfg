\* Fair: OLM 1 is installed; three invocations of two releases, one of which
\* may start while another runs.
SPECIFICATION FairSpec
CONSTANTS
    Cli <- ThreeCli
    Commands <- Mixed
    Shipped <- Releases
    Found = 1
    Overlaps = 1
INVARIANTS
    TypeOK
    CSVIsCommitPoint
PROPERTIES
    NothingToDoMeansUpgraded
    NeverDowngraded
    Ends
