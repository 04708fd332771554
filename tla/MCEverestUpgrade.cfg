\* Two upgrades and writes of OLM, of an install and of the users.
SPECIFICATION Spec
CONSTANTS
    Cli <- TwoUpgrades
    Environment <- Opposed
    DBNamespaces <- TwoNamespaces
    Subscriptions = {s1, s2}
    Home <- AllInOne
    Types <- TwoTypes
    Shipped = "ClusterIP"
    MaxWrites = 1
INVARIANTS
    TypeOK
    ServiceTypeKept
PROPERTIES
    OnlyTelemetryChanges
    PatchedFirst
SYMMETRY Symmetry
