------------------------------ MODULE Lookups ------------------------------
(***************************************************************************)
(* What is computed from what was read: the list of namespaces on its way  *)
(* from the command line through the Subscription into the operator's      *)
(* environment and back, and the questions the library answers about       *)
(* nodes, storage classes, operators and logs.                             *)
(*                                                                         *)
(* A comma-separated string is the sequence of its fields, as              *)
(* strings.Split cuts it: the empty string is <<"">>.                      *)
(***************************************************************************)
EXTENDS Naturals, FiniteSets, SequencesExt

CONSTANTS
    Alphabet,     \* the names of namespaces in the order of sort.Strings
    Reserved,     \* those of Everest's own namespaces
    Malformed,    \* those that validateRFC1035 refuses
    Padded,       \* the fields a user may type: [field -> name without blanks]
    Lists,        \* the lists a user may type: sequences of such fields
    Nodes,        \* of each cluster the taints of its nodes
    Provisioners, \* of each cluster the kinds of its storage classes
    Deployments,  \* of the operator: its containers, each with the fields
                  \* of its image between the colons
    Pods,         \* of each pod the state of its containers
    EventPages    \* the pages of a list of events: whether each can be read,
                  \* and the times of its events

ASSUME NamesOrdered == Alphabet \in Seq(STRING) /\ IsInjective(Alphabet)
ASSUME ListsTypable ==
    /\ Lists \subseteq Seq(DOMAIN Padded) \ {<<>>}
    /\ Range(Padded) \subseteq Range(Alphabet) \cup {""}
(* Kubernetes refuses two containers of the same name.                     *)
ASSUME ClustersTyped ==
    /\ Nodes \subseteq Seq(Seq(STRING))
    /\ Provisioners \subseteq Seq({"eks", "minikube", "other"})
    /\ Deployments \subseteq Seq([name : STRING, image : Seq(STRING)])
    /\ \A d \in Deployments : \A i, j \in DOMAIN d :
           d[i].name = d[j].name => i = j
    /\ Pods \subseteq Seq(STRING)
    /\ EventPages \subseteq Seq([ok : BOOLEAN, times : Seq(Nat)])

VARIABLES
    env,      \* the environment in the Subscription: <<name, value>> each
    asked,    \* history: the namespaces of all installs
    told,     \* history: the value of DISABLE_TELEMETRY of the last one
    answer    \* the last question to the library, and its answer
lookupVars == <<env, asked, told, answer>>

-----------------------------------------------------------------------------
(* Namespaces                                                              *)

DBNamespacesEnvVar == "DB_NAMESPACES"

Join(s) == IF s = <<>> THEN <<"">> ELSE s
Before(m, n) == \E i, j \in DOMAIN Alphabet :
                   i < j /\ Alphabet[i] = m /\ Alphabet[j] = n
Sorted(S) == CHOOSE s \in SetToSeqs(S) :
                \A i, j \in DOMAIN s : i < j => Before(s[i], s[j])
NamesIn(raw) == {Padded[f] : f \in Range(raw)} \ {""}
(* A name that was typed twice is in the list twice.                       *)
ValidateTwice(raw) ==
    IF NamesIn(raw) \cap (Reserved \cup Malformed) # {} THEN {}
    ELSE {SelectSeq([i \in DOMAIN raw |-> Padded[raw[i]]],
                    LAMBDA n : n # "")} \ {<<>>}
(* The lists ValidateNamespaces may return: the names in any order, as Go  *)
(* runs through a map; none if it returns an error.                        *)
ValidateNamespaces(raw) ==
    IF NamesIn(raw) \cap (Reserved \cup Malformed) # {} THEN {}
    ELSE SetToSeqs(NamesIn(raw)) \ {<<>>}

(* The namespaces of earlier installs are overwritten.                     *)
OverwriteNamespacesEnvVar(v1, v2) == v2
mergeNamespacesEnvVar(v1, v2) ==
    Join(Sorted((Range(v1) \cup Range(v2)) \ {""}))

(* Every variable of cfg is put over the first one of its name, or added.  *)
Merged(sub, e) ==
    LET same == {i \in DOMAIN sub : sub[i][1] = e[1]}
        first == Min(same)
        value == IF e[1] = DBNamespacesEnvVar
                 THEN mergeNamespacesEnvVar(sub[first][2], e[2]) ELSE e[2]
    IN IF same = {} THEN Append(sub, e)
       ELSE [sub EXCEPT ![first] = <<e[1], value>>]
mergeSubscriptionConfig(sub, cfg) == FoldLeft(Merged, sub, cfg)

(* The configuration installOperator asks for.                             *)
SubscriptionConfig(list, telemetry) ==
    << <<"DISABLE_TELEMETRY", telemetry>>,
       <<"MONITORING_NAMESPACE", <<"everest-monitoring">> >>,
       <<DBNamespacesEnvVar, Join(list)>> >>

(* The first variable of the name; OLM copies them into the Deployment.    *)
GetDBNamespaces ==
    env[Min({i \in DOMAIN env : env[i][1] = DBNamespacesEnvVar})][2]

(* What Config.Namespaces is after the wizard: what was typed there, or     *)
(* nothing, as the wizard fails, if that is not valid.                     *)
runEverestWizard(typed) == {typed : list \in ValidateNamespaces(typed)}
(* It is validated once more then, and may come in another order.          *)
populateConfig(raw, skipWizard) ==
    UNION {ValidateNamespaces(namespaces) : namespaces \in
               IF skipWizard THEN {raw} ELSE runEverestWizard(raw)}

InstallWith(raw, skipWizard, telemetry) ==
    /\ \E list \in populateConfig(raw, skipWizard) :
          env' = mergeSubscriptionConfig(env,
                                         SubscriptionConfig(list, telemetry))
    /\ asked' = asked \cup NamesIn(raw)
    /\ told' = telemetry
    /\ UNCHANGED answer

-----------------------------------------------------------------------------
(* Questions                                                               *)

Forbidden == {"uninitialized", "unschedulable", "master"}
(* A node without taints is passed over.                                   *)
CopiesOfTainted(node) ==
    Cardinality({k \in DOMAIN node : node[k] \notin Forbidden})
(* A node is appended once if it has no taint, else once for each taint    *)
(* that is not forbidden with its effect.                                  *)
Copies(node) == IF node = <<>> THEN 1
                ELSE Cardinality({k \in DOMAIN node :
                                     node[k] \notin Forbidden})
GetWorkerNodes(nodes) ==
    FlattenSeq([i \in DOMAIN nodes |-> [c \in 1 .. Copies(nodes[i]) |-> i]])

(* The first storage class, and no other; none with an error.              *)
GetDefaultStorageClassName(provisioners) == {1} \cap DOMAIN provisioners
(* The provisioner of the first storage class that tells.                  *)
GetClusterType(provisioners) ==
    LET known == {i \in DOMAIN provisioners : provisioners[i] # "other"}
    IN IF known = {} THEN "generic" ELSE provisioners[Min(known)]

(* The second field of the image of the container with the name.           *)
getOperatorVersion(containers, name) ==
    LET named == {i \in DOMAIN containers : containers[i].name = name}
        image == containers[Min(named)].image
    IN IF named = {} THEN "error"
       ELSE IF Len(image) < 2 THEN "panic" ELSE image[2]

(* The operators an install is to install in each namespace, by the names  *)
(* of their Deployments: those with a flag, or else those that are chosen  *)
(* in the wizard, at least one, whatever the flags were before.            *)
Engines == {"percona-xtradb-cluster-operator", "percona-server-mongodb-operator",
            "percona-postgresql-operator"}
runInstallWizard(flags, chosen) == [o \in DOMAIN flags |-> o \in chosen]
provisionOperators(flags) == {o \in Engines : flags[o]}
(* What is found of them among the Deployments of a namespace.             *)
ListEngineDeploymentNames(deployments) == deployments \cap Engines

IsContainerInState(pod, state) == state \in Range(pod)
(* Nothing is read as long as some container of the pod is waiting.        *)
GetLogs(pod, container) ==
    IF IsContainerInState(pod, "waiting") THEN {} ELSE {container}

(* The events on the pages before the first one that fails.                *)
searchEvents(pages) ==
    LET read == {i \in DOMAIN pages : \A j \in 1 .. i : pages[j].ok}
    IN FlattenSeq([i \in read |-> pages[i].times])
Whole(pages) == \A i \in DOMAIN pages : pages[i].ok
DescribeEvents(events) ==
    LET D == DOMAIN events
    IN CHOOSE t \in {[i \in D |-> events[p[i]]] : p \in Bijection(D, D)} :
          \A i, j \in D : i < j => t[i] <= t[j]
(* The list that is described, none with an error. The error of the search *)
(* is dropped if the pod is there; if it is not, events are described only *)
(* if all could be read and there are any. A reference to a pod that was   *)
(* read can always be made: its type is known.                             *)
GetEvents(found, pages) ==
    IF found \/ (Whole(pages) /\ searchEvents(pages) # <<>>)
    THEN {DescribeEvents(searchEvents(pages))} ELSE {}

Answer(a) == answer' = a /\ UNCHANGED <<env, asked, told>>

AskLibrary ==
    \/ \E n \in Nodes : Answer([nodes |-> n, workers |-> GetWorkerNodes(n)])
    \/ \E p \in Provisioners :
          Answer([classes |-> p, type |-> GetClusterType(p),
                  default |-> GetDefaultStorageClassName(p)])
    \/ \E flags \in [Engines -> BOOLEAN], chosen \in SUBSET Engines,
          others \in SUBSET {"everest-operator-controller-manager"} :
          \/ Answer([wanted |-> provisionOperators(flags),
                     engines |-> ListEngineDeploymentNames(
                                    others \cup provisionOperators(flags))])
          \/ /\ chosen # {}
             /\ LET config == runInstallWizard(flags, chosen)
                IN Answer([wanted |-> chosen,
                           engines |-> ListEngineDeploymentNames(
                                    others \cup provisionOperators(config))])
    \/ \E d \in Deployments :
          Answer([containers |-> d,
                  version |-> getOperatorVersion(d, "operator")])
    \/ \E p \in Pods : \E c \in DOMAIN p :
          Answer([pod |-> p, container |-> c, logs |-> GetLogs(p, c)])
    \/ \E f \in BOOLEAN, g \in EventPages :
          Answer([found |-> f, pages |-> g, events |-> GetEvents(f, g)])

(* The Subscription that is there at first, if there is one, is without    *)
(* the list, or has an empty one.                                          *)
LookupInit ==
    /\ env \in {<<>>, << <<"DISABLE_TELEMETRY", <<"">> >>,
                         <<DBNamespacesEnvVar, <<"">> >> >>}
    /\ asked = {}
    /\ told = <<"">>
    /\ answer = [none |-> TRUE]

LookupNext ==
    \/ \E raw \in Lists, skip \in BOOLEAN, t \in {<<"true">>, <<"false">>} :
          InstallWith(raw, skip, t)
    \/ AskLibrary

LookupSpec == LookupInit /\ [][LookupNext]_lookupVars

(* The variables the CLI sets, and the fields of their values.             *)
EnvNames == {"DISABLE_TELEMETRY", "MONITORING_NAMESPACE", DBNamespacesEnvVar}
EnvFields == Range(Alphabet)
               \cup {"", "true", "false", "everest-monitoring"}
EnvVar == EnvNames \X Seq(EnvFields)

LookupTypeOK ==
    /\ \A i \in DOMAIN env : env[i] \in EnvVar
    /\ asked \subseteq Range(Alphabet)

-----------------------------------------------------------------------------
(* What uninstall reads from the operator's environment is what the        *)
(* installs were given, whatever their order, their blanks, repetitions    *)
(* and empty fields: each namespace once - a second deletion would fail -  *)
(* none empty, which would mean all of the cluster, none reserved. The     *)
(* other variables are those of the last install.                          *)
NamespacesRoundTrip ==
    asked # {} =>
        /\ Range(GetDBNamespaces) = asked
        /\ Len(GetDBNamespaces) = Cardinality(asked)
        /\ asked \cap (Reserved \cup {""}) = {}
        /\ \E i \in DOMAIN env : env[i] = <<"DISABLE_TELEMETRY", told>>
        /\ \A i, j \in DOMAIN env : env[i][1] = env[j][1] => i = j

Is(question) == question \in DOMAIN answer
Positions(lists) == UNION {{k} \X DOMAIN lists[k] : k \in DOMAIN lists}

(* The events are those of the pages, each as often as on them.            *)
AsOften(events, pages) ==
    LET times == [k \in DOMAIN pages |-> pages[k].times]
    IN \A time \in Range(events) \cup UNION {Range(times[k]) :
                                             k \in DOMAIN times} :
          Cardinality({i \in DOMAIN events : events[i] = time}) =
            Cardinality({at \in Positions(times) :
                            times[at[1]][at[2]] = time})

(* Nodes, versions, logs and events are those of the cluster, events in    *)
(* the order of their times, none twice, and an error instead of a list    *)
(* that is cut short when the pod is gone; the engines found are those of  *)
(* the operators the user asked for. Known to be wrong are a node of       *)
(* several taints (listed more than once, or in spite of a forbidden one), *)
(* an image with a port or without a tag (the port, a panic), the logs of  *)
(* a container beside one that is waiting (none), and the events of a pod  *)
(* that is there when a page of the list fails (cut short).                *)
AnswersRight ==
    /\ Is("workers") =>
         /\ \A i \in DOMAIN answer.nodes :
              LET taints == answer.nodes[i]
                  times == {k \in DOMAIN answer.workers :
                               answer.workers[k] = i}
              IN Len(taints) <= 1 =>
                   Cardinality(times) =
                     IF taints # <<>> /\ taints[1] \in Forbidden THEN 0 ELSE 1
         /\ \A k, l \in DOMAIN answer.workers :
              k <= l => answer.workers[k] <= answer.workers[l]
    /\ Is("type") =>
         /\ answer.type = "generic"
              <=> Range(answer.classes) \subseteq {"other"}
         /\ answer.default = {} <=> answer.classes = <<>>
    /\ Is("engines") => answer.engines = answer.wanted
    /\ Is("version") =>
         \A i \in DOMAIN answer.containers :
             LET c == answer.containers[i]
             IN c.name = "operator" /\ Len(c.image) = 2
                  => answer.version = c.image[2]
    /\ Is("logs") =>
         answer.logs = {answer.container} \/ "waiting" \in Range(answer.pod)
    /\ Is("events") => \A events \in answer.events :
         /\ \A i, j \in DOMAIN events : i < j => events[i] <= events[j]
         /\ answer.found \/ Whole(answer.pages)
         /\ Whole(answer.pages) => AsOften(events, answer.pages)
=============================================================================
