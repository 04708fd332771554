\* The library calls: one instance of each of the four modules.
SPECIFICATION Spec
CONSTANTS
    MonitoringFiles <- ThreeFiles
    Manifest <- EverestManifest
    EverestDeployment = "everest"
    LabelledTypes <- FourTypes
    VMAgentCRD = "crd"
    Broken = "broken"
    Alien = "alien"
    Caller = {"c1"}
    DBNamespaces <- TwoNamespaces
    SystemNS = "everest-system"
    Storages = {"s1"}
    Secrets = {"k1"}
    Names = {"a"}
    NoRef = "none"
    MaxStored = 3
    Alphabet <- ByName
    Reserved = {"everest-system"}
    Malformed = {"Bad"}
    Padded <- Typed
    Lists <- TypedLists
    Nodes <- Clusters
    Provisioners <- Classes
    Deployments <- Operators
    Pods <- SomePods
    EventPages <- Pages
    Subscriptions <- TwoSubscriptions
    MaxVersion = 2
    DeploymentSpecs = {"manager"}
INVARIANTS
    TypeOK
    SteadyUseSeen
    OutcomeIsTrue
    NamespacesRoundTrip
    AnswersRight
    WaitsTellTruth
PROPERTIES
    CallsEnd
