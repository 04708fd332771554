\* Everest is installed; an upgrade follows.
SPECIFICATION Spec
CONSTANTS
    n1 = n1
    n2 = n2
    n3 = n3
    c1 = c1
    c2 = c2
    c3 = c3
    System = system
    Namespaces <- ThreeNamespaces
    Cli <- TwoCli
    Commands <- Both
    Installed <- OneInstalled
    MaxStatusWrites = 0
INVARIANTS
    GrantsSurviveUpgrade
