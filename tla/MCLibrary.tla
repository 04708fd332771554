----------------------------- MODULE MCLibrary -----------------------------
(* An instance of the library for TLC.                                     *)
EXTENDS Library

(* Manifests: three monitoring files, an Everest manifest of three objects.*)
(* The ConfigMap of the files has no label; the agent is in none of them.  *)
ThreeFiles == << <<"ServiceAccount", "ClusterRole">>, <<"VMNodeScrape">>,
                 <<"ConfigMap">> >>
EverestManifest == <<"binding", "everest", "service">>
FourTypes == {"ServiceAccount", "ClusterRole", "VMNodeScrape", "VMAgent"}

(* CustomResources: two DB namespaces                                      *)
TwoNamespaces == <<"db1", "db2">>

(* Lookups: two names, with blanks, repetitions and empty fields           *)
ByName == <<"Bad", "dev", "everest-system", "prod">>
Typed == [f \in {"dev", " dev", "prod ", "", "Bad", "everest-system"} |->
             CASE f \in {"dev", " dev"} -> "dev"
               [] f = "prod " -> "prod"
               [] OTHER -> f]
UpTo2(S) == {<<>>} \cup [1 .. 1 -> S] \cup [1 .. 2 -> S]
TypedLists == (UpTo2(DOMAIN Typed) \ {<<>>})
                \cup {<<"dev", "prod ", " dev">>, <<"prod ", "", "dev">>}
Taints == UpTo2({"master", "gpu", "ssd"})
Clusters == UpTo2(Taints)
Classes == UpTo2({"other", "eks", "minikube"})
Container == [name : {"operator", "proxy"},
              image : {<<"op">>, <<"op", "1.2">>,
                       <<"host", "5000/op", "1.2">>}]
Operators == {d \in UpTo2(Container) :
                  \A i, j \in DOMAIN d : d[i].name = d[j].name => i = j}
SomePods == UpTo2({"running", "waiting", "terminated"})
Pages == UpTo2([ok : BOOLEAN, times : {<<>>, <<1>>, <<2>>, <<2, 1>>}])

(* OperatorWaits: the operators of two Subscriptions                       *)
TwoSubscriptions == <<"everest", "victoria">>
=============================================================================
