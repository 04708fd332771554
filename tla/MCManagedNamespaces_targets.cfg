\* A fresh cluster; two installs.
SPECIFICATION Spec
CONSTANTS
    n1 = n1
    n2 = n2
    n3 = n3
    c1 = c1
    c2 = c2
    c3 = c3
    System = system
    Namespaces <- TwoNamespaces
    Cli <- TwoCli
    Commands <- Installs
    Installed <- Nothing
    MaxStatusWrites = 0
INVARIANTS
    MonitoredAreTargeted
