----------------------------- MODULE Uninstall -----------------------------
(***************************************************************************)
(* `everestctl uninstall`: database clusters, backup storages, monitoring  *)
(* configs and the namespaces are deleted in an order that lets each       *)
(* operator finish the objects whose finalizers it handles before its own  *)
(* namespace goes. While it runs the cluster's users and the API server of *)
(* Everest are still there, and the CLI may fail at any call and be run    *)
(* again.                                                                  *)
(*                                                                         *)
(* External, as the comments of Run and deleteDBs describe them: a         *)
(* DatabaseCluster disappears at once and leaves its engine's resource to  *)
(* the DB operator in the same namespace; the Everest operator in the      *)
(* system namespace finishes backup storages and monitoring configs; a     *)
(* namespace being deleted takes its pods away and is gone when no object  *)
(* with finalizers is left in it.                                          *)
(***************************************************************************)
EXTENDS Naturals

CONSTANTS
    DBNamespaces, System, Monitoring, OLM,   \* the namespaces
    Databases, Storages, Configs,            \* names of custom resources
    Home,           \* the namespace of each database
    UsersActive,    \* TRUE: users create databases and storages meanwhile,
                    \* under each name at most once a run
    SleepSuffices,  \* TRUE: the engines are finished within the two minutes
    Failures,       \* TRUE: calls fail, polls time out, the CLI is killed
    MaxRuns         \* bound on the runs of the command

Others == {System, Monitoring, OLM}
Namespaces == DBNamespaces \cup Others
Objects == Storages \cup Configs

ASSUME NamespacesDistinct ==
    /\ System # Monitoring /\ System # OLM /\ Monitoring # OLM
    /\ Others \cap DBNamespaces = {}
ASSUME HomesKnown == Home \in [Databases -> DBNamespaces]
ASSUME ObjectsDistinct == Storages \cap Configs = {}
ASSUME SettingsTyped ==
    {UsersActive, SleepSuffices, Failures} \subseteq BOOLEAN /\ MaxRuns \in Nat

VARIABLES
    databases,   \* the DatabaseCluster resources there are
    engine,      \* of each database: its engine's resource
    object,      \* of each backup storage and monitoring config
    namespace,   \* of each namespace
    operators,   \* the namespaces whose operators' pods run
    csv,         \* the packageserver CSV exists
    consent,     \* this run was told to delete the databases
    pc, todo,    \* the step of the command, and what it has still to delete
    runs,
    created      \* history: what users created since the last time a run
                 \* looked whether there are databases

resources == <<databases, engine, object>>
cluster == <<databases, engine, object, namespace, operators, csv>>
history == <<runs, created>>
vars == <<databases, engine, object, namespace, operators, csv, consent, pc,
          todo, runs, created>>

(* The namespaces each stage deletes and waits for, in order.              *)
NamespaceStage ==
    [dbNamespaces |-> DBNamespaces, monitoringNamespace |-> {Monitoring},
     systemNamespace |-> {System}, olmNamespace |-> {OLM}]
ObjectStage == [storages |-> Storages, configs |-> Configs]

SystemFirst(stage) ==
    CASE stage = "databases" -> "storages"
      [] stage = "storages" -> "dbNamespaces"
      [] stage = "dbNamespaces" -> "systemNamespace"
      [] stage = "systemNamespace" -> "configs"
      [] stage = "configs" -> "monitoringNamespace"
      [] stage = "monitoringNamespace" -> "csv"
      [] stage = "csv" -> "olmNamespace"
      [] stage = "olmNamespace" -> "done"
(* Run: the order of the stages.                                           *)
After(stage) ==
    CASE stage = "databases" -> "storages"
      [] stage = "storages" -> "dbNamespaces"
      [] stage = "dbNamespaces" -> "configs"
      [] stage = "configs" -> "monitoringNamespace"
      [] stage = "monitoringNamespace" -> "systemNamespace"
      [] stage = "systemNamespace" -> "csv"
      [] stage = "csv" -> "olmNamespace"
      [] stage = "olmNamespace" -> "done"

Stages ==
    {"databases", "csv"} \cup DOMAIN NamespaceStage \cup DOMAIN ObjectStage
Steps == {"list", "delete", "sleep", "poll"}
Running == {<<"check", "databases">>, <<"confirm", "databases">>}
             \cup {<<step, stage>> : step \in Steps, stage \in Stages}
Ended == {<<"end", "done">>, <<"end", "failed">>, <<"end", "exited">>}

TypeOK ==
    /\ databases \subseteq Databases
    /\ engine \in [Databases -> {"absent", "running", "deleting"}]
    /\ object \in [Objects -> {"absent", "present", "deleting"}]
    /\ namespace \in [Namespaces -> {"active", "terminating", "gone"}]
    /\ operators \subseteq Namespaces
    /\ csv \in BOOLEAN /\ consent \in BOOLEAN
    /\ pc \in Running \cup Ended \cup {<<"idle", "databases">>}
    /\ todo \subseteq Databases \cup Objects \cup Namespaces
    /\ runs \in 0 .. MaxRuns
    /\ created \subseteq Databases \cup Storages

Init ==
    /\ databases \in SUBSET Databases
    /\ engine = [d \in Databases |->
                    IF d \in databases THEN "running" ELSE "absent"]
    /\ object \in [Objects -> {"absent", "present"}]
    /\ namespace = [n \in Namespaces |-> "active"]
    /\ operators = Namespaces
    /\ csv = TRUE
    /\ consent = FALSE
    /\ pc = <<"idle", "databases">>
    /\ todo = {}
    /\ runs = 0
    /\ created = {}

-----------------------------------------------------------------------------
(* The command                                                             *)

Goto(step, stage) == pc' = <<step, stage>>
NextStage(stage) == Goto("list", After(stage))
Finish(stage) == IF After(stage) = "done" THEN Goto("end", "done")
                                          ELSE Goto("list", After(stage))
Fails == Goto("end", "failed")

(* GetDBNamespaces reads the Deployment of the Everest operator.           *)
NamespacesKnown == namespace[System] # "gone" /\ System \in operators

Start ==
    /\ pc \in {<<"idle", "databases">>} \cup (Ended \ {<<"end", "done">>})
    /\ runs < MaxRuns
    /\ runs' = runs + 1
    /\ consent' = FALSE
    /\ Goto("check", "databases")
    /\ UNCHANGED <<resources, namespace, operators, csv, todo, created>>

DbsExist ==
    /\ pc = <<"check", "databases">>
    /\ \/ /\ NamespacesKnown /\ databases # {}
          /\ Goto("confirm", "databases")
       \/ /\ NamespacesKnown /\ databases = {}
          /\ Finish("databases")
       \/ ~NamespacesKnown /\ Fails
    /\ created' = {}
    /\ UNCHANGED <<cluster, consent, todo, runs>>

(* An answer that is not acted on.                                         *)
ProceedAnyway ==
    /\ pc = <<"confirm", "databases">>
    /\ \/ consent' = TRUE /\ Goto("list", "databases")
       \/ consent' = FALSE /\ Finish("databases")
    /\ UNCHANGED <<resources, namespace, operators, csv, todo, history>>

(* --force, or the user's answer.                                          *)
ConfirmForce ==
    /\ pc = <<"confirm", "databases">>
    /\ \/ consent' = TRUE /\ Goto("list", "databases")
       \/ consent' = FALSE /\ Goto("end", "exited")
    /\ UNCHANGED <<resources, namespace, operators, csv, todo, history>>

(* The databases are listed again after the confirmation.                  *)
ListDBs ==
    /\ pc = <<"list", "databases">>
    /\ \/ /\ NamespacesKnown
          /\ todo' = databases
          /\ Goto("delete", "databases")
       \/ ~NamespacesKnown /\ Fails /\ UNCHANGED todo
    /\ UNCHANGED <<cluster, consent, history>>

(* DeleteDatabaseCluster gets the cluster first: NotFound is an error.     *)
(* deleteObject gets it once more, and takes any error of that call for    *)
(* its absence: nothing is deleted and nothing reported.                   *)
DeleteDB ==
    /\ pc = <<"delete", "databases">>
    /\ \E d \in todo :
         /\ todo' = todo \ {d}
         /\ \/ /\ d \in databases
               /\ databases' = databases \ {d}
               /\ engine' = [engine EXCEPT ![d] = "deleting"]
               /\ UNCHANGED pc
            \/ /\ d \in databases /\ Failures
               /\ UNCHANGED <<databases, engine, pc>>
            \/ /\ d \notin databases
               /\ Fails
               /\ UNCHANGED <<databases, engine>>
    /\ UNCHANGED <<object, namespace, operators, csv, consent, history>>

Deleted ==
    /\ pc[1] = "delete" /\ todo = {}
    /\ Goto(IF pc[2] = "databases" THEN "sleep" ELSE "poll", pc[2])
    /\ UNCHANGED <<cluster, consent, todo, history>>

NoSleep ==
    /\ pc = <<"sleep", "databases">>
    /\ Goto("poll", "databases")
    /\ UNCHANGED <<cluster, consent, todo, history>>

(* Two minutes, to give the DB operators a chance.                         *)
Sleep ==
    /\ pc = <<"sleep", "databases">>
    /\ SleepSuffices => \A d \in Databases : engine[d] # "deleting"
    /\ Goto("poll", "databases")
    /\ UNCHANGED <<cluster, consent, todo, history>>

PollDBs ==
    /\ pc = <<"poll", "databases">>
    /\ \/ NamespacesKnown /\ databases = {} /\ Finish("databases")
       \/ ~NamespacesKnown /\ Fails
    /\ UNCHANGED <<cluster, consent, todo, history>>

(* deleteBackupStorages, deleteMonitoringConfigs                           *)
There(stage) == {o \in ObjectStage[stage] : object[o] # "absent"}

ListObjects ==
    /\ pc[1] = "list" /\ pc[2] \in DOMAIN ObjectStage
    /\ todo' = There(pc[2])
    /\ IF There(pc[2]) = {} THEN Finish(pc[2]) ELSE Goto("delete", pc[2])
    /\ UNCHANGED <<cluster, consent, history>>

DeleteObject ==
    /\ pc[1] = "delete" /\ pc[2] \in DOMAIN ObjectStage
    /\ \E o \in todo :
         /\ todo' = todo \ {o}
         /\ \/ /\ object[o] # "absent"
               /\ object' = [object EXCEPT ![o] = "deleting"]
               /\ UNCHANGED pc
            \/ /\ object[o] = "absent"
               /\ Fails
               /\ UNCHANGED object
    /\ UNCHANGED <<databases, engine, namespace, operators, csv, consent>>
    /\ UNCHANGED history

PollObjects ==
    /\ pc[1] = "poll" /\ pc[2] \in DOMAIN ObjectStage
    /\ There(pc[2]) = {}
    /\ Finish(pc[2])
    /\ UNCHANGED <<cluster, consent, todo, history>>

(* deleteNamespaces; the DB namespaces are read from the Everest operator. *)
ListNamespaces ==
    /\ pc[1] = "list" /\ pc[2] \in DOMAIN NamespaceStage
    /\ \/ /\ pc[2] # "dbNamespaces" \/ NamespacesKnown
          /\ todo' = NamespaceStage[pc[2]]
          /\ Goto("delete", pc[2])
       \/ /\ pc[2] = "dbNamespaces" /\ ~NamespacesKnown
          /\ Fails
          /\ UNCHANGED todo
    /\ UNCHANGED <<cluster, consent, history>>

(* Deleting a namespace that is gone is an error; deleting one that is     *)
(* being deleted is not.                                                   *)
DeleteNamespace ==
    /\ pc[1] = "delete" /\ pc[2] \in DOMAIN NamespaceStage
    /\ \E n \in todo :
         /\ todo' = todo \ {n}
         /\ \/ /\ namespace[n] # "gone"
               /\ namespace' = [namespace EXCEPT ![n] = "terminating"]
               /\ UNCHANGED pc
            \/ /\ namespace[n] = "gone"
               /\ Fails
               /\ UNCHANGED namespace
    /\ UNCHANGED <<resources, operators, csv, consent, history>>

PollNamespaces ==
    /\ pc[1] = "poll" /\ pc[2] \in DOMAIN NamespaceStage
    /\ \A n \in NamespaceStage[pc[2]] : namespace[n] = "gone"
    /\ Finish(pc[2])
    /\ UNCHANGED <<cluster, consent, todo, history>>

(* deleteOLM: a CSV that is gone is an error as well.                      *)
DeleteCSV ==
    /\ pc = <<"list", "csv">>
    /\ \/ csv /\ csv' = FALSE /\ Goto("poll", "csv")
       \/ ~csv /\ Fails /\ UNCHANGED csv
    /\ UNCHANGED <<resources, namespace, operators, consent, todo, history>>

PollCSV ==
    /\ pc = <<"poll", "csv">> /\ ~csv
    /\ Finish("csv")
    /\ UNCHANGED <<cluster, consent, todo, history>>

(* A poll whose condition is false asks again.                             *)
PollAgain == pc[1] = "poll" /\ UNCHANGED vars

(* An API call fails, a poll times out, or the process is killed.          *)
Fail ==
    /\ Failures /\ pc \in Running
    /\ Fails
    /\ UNCHANGED <<cluster, consent, todo, history>>

-----------------------------------------------------------------------------
(* The cluster                                                             *)

Command == <<consent, pc, todo, runs>>

Creates(x) ==
    /\ UsersActive /\ runs > 0 /\ x \notin created
    /\ created' = created \cup {x}

CreateDB(d) ==
    /\ Creates(d) /\ d \notin databases /\ engine[d] = "absent"
    /\ namespace[Home[d]] = "active" /\ System \in operators
    /\ databases' = databases \cup {d}
    /\ engine' = [engine EXCEPT ![d] = "running"]
    /\ UNCHANGED <<object, namespace, operators, csv, Command>>

CreateStorage(o) ==
    /\ Creates(o) /\ object[o] = "absent" /\ namespace[System] = "active"
    /\ object' = [object EXCEPT ![o] = "present"]
    /\ UNCHANGED <<databases, engine, namespace, operators, csv, Command>>

FinishEngine(d) ==
    /\ engine[d] = "deleting" /\ Home[d] \in operators
    /\ engine' = [engine EXCEPT ![d] = "absent"]
    /\ UNCHANGED <<databases, object, namespace, operators, csv>>
    /\ UNCHANGED <<Command, created>>

FinishObject(o) ==
    /\ object[o] = "deleting" /\ System \in operators
    /\ object' = [object EXCEPT ![o] = "absent"]
    /\ UNCHANGED <<databases, engine, namespace, operators, csv>>
    /\ UNCHANGED <<Command, created>>

(* The objects of a namespace that is being deleted are deleted with it,   *)
(* its pods go, and it is gone when nothing is left in it.                 *)
Belongs(o, n) == n = IF o \in Storages THEN System ELSE Monitoring

DeleteContent(n) ==
    /\ namespace[n] = "terminating"
    /\ \/ \E d \in databases : Home[d] = n
       \/ \E o \in Objects : Belongs(o, n) /\ object[o] = "present"
    /\ databases' = {d \in databases : Home[d] # n}
    /\ engine' = [d \in Databases |->
            IF d \in databases /\ Home[d] = n THEN "deleting" ELSE engine[d]]
    /\ object' = [o \in Objects |->
            IF Belongs(o, n) /\ object[o] = "present" THEN "deleting"
                                                      ELSE object[o]]
    /\ UNCHANGED <<namespace, operators, csv, Command, created>>

StopOperators(n) ==
    /\ namespace[n] = "terminating" /\ n \in operators
    /\ operators' = operators \ {n}
    /\ UNCHANGED <<resources, namespace, csv, Command, created>>

Empty(n) ==
    /\ \A d \in Databases : Home[d] = n => engine[d] = "absent"
    /\ \A d \in databases : Home[d] # n
    /\ \A o \in Objects : Belongs(o, n) => object[o] = "absent"

NamespaceGone(n) ==
    /\ namespace[n] = "terminating" /\ n \notin operators /\ Empty(n)
    /\ namespace' = [namespace EXCEPT ![n] = "gone"]
    /\ UNCHANGED <<resources, operators, csv, Command, created>>

Advance ==
    \/ Start \/ DbsExist \/ ConfirmForce \/ ListDBs \/ DeleteDB \/ Deleted
    \/ Sleep \/ PollDBs \/ ListObjects \/ DeleteObject \/ PollObjects
    \/ ListNamespaces \/ DeleteNamespace \/ PollNamespaces
    \/ DeleteCSV \/ PollCSV

Terminated ==
    /\ pc \in Ended /\ (pc = <<"end", "done">> \/ runs = MaxRuns)
    /\ UNCHANGED vars

Cluster ==
    \/ \E d \in Databases : FinishEngine(d)
    \/ \E o \in Objects : FinishObject(o)
    \/ \E n \in Namespaces :
         DeleteContent(n) \/ StopOperators(n) \/ NamespaceGone(n)

Users ==
    \/ \E d \in Databases : CreateDB(d)
    \/ \E o \in Storages : CreateStorage(o)

Next == Advance \/ PollAgain \/ Fail \/ Cluster \/ Users \/ Terminated

Spec == Init /\ [][Next]_vars

(* The command goes on when it can and the cluster's controllers do their  *)
(* work; users and failures need not happen.                               *)
FairSpec == Spec /\ WF_vars(Advance) /\ WF_vars(Cluster)

-----------------------------------------------------------------------------
(* Properties                                                              *)

Deletes(n) == namespace[n] = "active" /\ namespace'[n] = "terminating"

(* "All resources with finalizers in the system namespace have already     *)
(* been deleted", "VMAgent has finalizers, so we need to delete the        *)
(* monitoring configs first", and the two minutes' sleep: no namespace is  *)
(* deleted while the operators in it are the ones that must finish an      *)
(* object, or it would stay Terminating for ever. Of one run, which may    *)
(* fail anywhere, and of objects that no user created after its look for   *)
(* databases; a second run skips the sleep (EnginesFinishFirst).           *)
OperatorsOutliveObjects ==
    [][\A n \in Namespaces : Deletes(n) /\ runs = 1 =>
         /\ \A d \in Databases \ created : Home[d] = n => engine[d] # "deleting"
         /\ \A o \in Objects \ created :
              n \in {System} \cup {m \in Others : Belongs(o, m)}
                => object[o] = "absent"]_vars

(* The first run ends with a cluster without Everest, with the user's      *)
(* refusal or with a failure: it never waits for something that only a     *)
(* later stage enables. What it may wait for is a database that a call     *)
(* left behind, having failed unnoticed, or an object that a user created  *)
(* behind its back and that stays.                                         *)
Remains(x) == IF x \in Databases THEN engine[x] # "absent" ELSE object[x] # "absent"
WaitsForUsers ==
    /\ pc[1] = "poll"
    /\ \/ pc[2] = "databases" /\ databases # {}
       \/ \E x \in created : Remains(x)
Completes ==
    pc = <<"check", "databases">> /\ runs = 1 ~>
        \/ pc \in {<<"end", "exited">>, <<"end", "failed">>}
        \/ pc = <<"end", "done">> /\ \A n \in Namespaces : namespace[n] = "gone"
        \/ []WaitsForUsers

(* "If we don't wait for the DB operators to process the deletion of the   *)
(* CRs, we may end up deleting the namespaces before the DB operators have *)
(* a chance to delete the resources they manage": over several runs.       *)
EnginesFinishFirst ==
    [][\A d \in Databases : Deletes(Home[d]) => engine[d] # "deleting"]_vars

(* "There are still database clusters managed by Everest. Do you want to   *)
(* delete them?": no namespace is deleted with databases in it by a run    *)
(* that was not told to delete databases, whatever an earlier run was told *)
(* and wherever it failed. Only what users create after this run's look    *)
(* for databases is not asked about.                                       *)
NoDatabaseWithoutConsent ==
    [][\A n \in DBNamespaces : Deletes(n) =>
         consent \/ \A d \in databases \ created : Home[d] # n]_vars
-----------------------------------------------------------------------------
(* Inductive invariants                                                    *)

StorageStages == (Stages \cup {"done"}) \ {"databases"}
LaterStages == StorageStages \ {"storages"}
LastStages == LaterStages \ {"dbNamespaces", "configs"}

(* What runs is listed, and a stage deletes its own namespaces only.       *)
Engines == \A d \in Databases : d \in databases <=> engine[d] = "running"
OwnNamespaces ==
    pc[1] = "delete" /\ pc[2] \in DOMAIN NamespaceStage =>
        todo \subseteq NamespaceStage[pc[2]]

(* The first run: what the stages that are behind it have finished stays   *)
(* so, but for what users create. The wait at the end of the first one     *)
(* holds because no namespace is deleted before it.                        *)
FirstRun ==
    /\ runs = 0 <=> pc = <<"idle", "databases">>
    /\ runs <= 1 /\ pc[2] = "databases" =>
          /\ \A n \in Namespaces : namespace[n] = "active"
          /\ pc[1] \in {"idle", "check", "confirm", "list", "poll"} =>
                \A d \in Databases : engine[d] # "deleting"
    /\ runs <= 1 /\ pc[2] \in StorageStages =>
          \A d \in Databases \ created : engine[d] = "absent"
    /\ runs <= 1 /\ pc[2] \in LaterStages =>
          \A o \in Storages \ created : object[o] = "absent"
    /\ runs <= 1 /\ pc[2] \in LastStages =>
          \A o \in Configs : object[o] = "absent"

OrderInv == Engines /\ OwnNamespaces /\ FirstRun

(* A run that has passed its question was given consent, or has found no   *)
(* database to ask about.                                                  *)
ConsentInv ==
    /\ pc[2] = "databases" /\ pc[1] \in Steps => consent
    /\ pc[2] \in StorageStages => consent \/ databases \subseteq created
=============================================================================
