\* A fresh cluster; commands overlap or follow each other, and may die.
SPECIFICATION Spec
CONSTANTS
    n1 = n1
    n2 = n2
    n3 = n3
    c1 = c1
    c2 = c2
    c3 = c3
    System = system
    Namespaces <- TwoNamespaces
    Cli <- ThreeCli
    Commands <- Both
    Installed <- Nothing
    MaxStatusWrites = 0
SYMMETRY Symmetry
INVARIANTS
    TypeOK
    SubscriptionInv
    MonitoredIsUnion
PROPERTIES
    MonitoredNeverShrink
    RegisteredOnCompletion
