--------------------------- MODULE UninstallProofs ---------------------------
(***************************************************************************)
(* Proofs about Uninstall, for any namespaces, databases and objects, and  *)
(* any number of runs of the command.                                      *)
(***************************************************************************)
EXTENDS Uninstall, TLAPS

-----------------------------------------------------------------------------
(* The stages                                                              *)

LEMMA StageDomains ==
    /\ DOMAIN NamespaceStage =
         {"dbNamespaces", "monitoringNamespace", "systemNamespace", "olmNamespace"}
    /\ DOMAIN ObjectStage = {"storages", "configs"}
BY DEF NamespaceStage, ObjectStage

LEMMA StageContents ==
    /\ NamespaceStage["dbNamespaces"] = DBNamespaces
    /\ NamespaceStage["monitoringNamespace"] = {Monitoring}
    /\ NamespaceStage["systemNamespace"] = {System}
    /\ NamespaceStage["olmNamespace"] = {OLM}
    /\ ObjectStage["storages"] = Storages
    /\ ObjectStage["configs"] = Configs
BY DEF NamespaceStage, ObjectStage

LEMMA StageOrder ==
    /\ After("databases") = "storages"
    /\ After("storages") = "dbNamespaces"
    /\ After("dbNamespaces") = "configs"
    /\ After("configs") = "monitoringNamespace"
    /\ After("monitoringNamespace") = "systemNamespace"
    /\ After("systemNamespace") = "csv"
    /\ After("csv") = "olmNamespace"
    /\ After("olmNamespace") = "done"
BY DEF After

LEMMA AllStages ==
    Stages = {"databases", "csv", "storages", "configs", "dbNamespaces",
              "monitoringNamespace", "systemNamespace", "olmNamespace"}
BY StageDomains DEF Stages

(* The steps of a stage and its end lead to places of the command.         *)
LEMMA GotoPlace ==
    ASSUME NEW step \in Steps, NEW stage \in Stages, Goto(step, stage)
    PROVE  pc' \in Running /\ pc'[1] = step /\ pc'[2] = stage
BY DEF Goto, Running

LEMMA FinishPlace ==
    ASSUME NEW stage \in Stages, Finish(stage)
    PROVE  /\ pc' \in Running \cup Ended
           /\ pc'[1] \in {"list", "end"} /\ pc'[2] = After(stage)
           /\ pc'[1] = "end" <=> stage = "olmNamespace"
<1>1. CASE stage = "olmNamespace"
      BY <1>1, StageOrder DEF Finish, Goto, Ended
<1>2. CASE stage # "olmNamespace"
      <2>1. After(stage) \in Stages /\ After(stage) # "done"
            BY <1>2, StageOrder, AllStages
      <2> QED BY <1>2, <2>1, GotoPlace DEF Finish, Steps, Goto
<1> QED BY <1>1, <1>2

LEMMA FailsPlace ==
    ASSUME Fails
    PROVE  pc' \in Ended /\ pc'[1] = "end" /\ pc'[2] = "failed"
BY DEF Fails, Goto, Ended

-----------------------------------------------------------------------------
(* Types                                                                   *)

LEMMA InitType == Init => TypeOK
<1> SUFFICES ASSUME Init PROVE TypeOK
    OBVIOUS
<1>1. csv \in BOOLEAN /\ consent \in BOOLEAN
      BY Zenon DEF Init
<1>2. runs \in 0 .. MaxRuns
      BY SettingsTyped DEF Init
<1>3. /\ databases \subseteq Databases
      /\ engine \in [Databases -> {"absent", "running", "deleting"}]
      /\ object \in [Objects -> {"absent", "present", "deleting"}]
      BY DEF Init
<1>4. /\ namespace \in [Namespaces -> {"active", "terminating", "gone"}]
      /\ operators \subseteq Namespaces
      /\ todo \subseteq Databases \cup Objects \cup Namespaces
      /\ created \subseteq Databases \cup Storages
      BY DEF Init
<1>5. pc \in Running \cup Ended \cup {<<"idle", "databases">>}
      BY DEF Init
<1> QED BY <1>1, <1>2, <1>3, <1>4, <1>5 DEF TypeOK

(* Every step of the command leads to a place of it.                       *)
LEMMA CommandPlace ==
    ASSUME TypeOK, Start \/ Advance \/ Fail
    PROVE  pc' \in Running \cup Ended
<1>1. CASE Start
      BY <1>1 DEF Start, Goto, Running
<1>2. CASE DbsExist
      BY <1>2, FinishPlace, FailsPlace, AllStages DEF DbsExist, Goto, Running
<1>3. CASE ConfirmForce
      <2>1. \/ Goto("list", "databases")
            \/ pc' = <<"end", "exited">>
            BY <1>3 DEF ConfirmForce, Goto
      <2> QED BY <2>1, GotoPlace, AllStages DEF Steps, Ended
<1>4. CASE ListDBs
      BY <1>4, GotoPlace, FailsPlace, AllStages DEF ListDBs, Steps
<1>5. CASE DeleteDB
      BY <1>5, FailsPlace DEF DeleteDB, TypeOK, Running
<1>6. CASE Deleted
      <2>1. pc \in Running /\ pc[2] \in Stages
            BY <1>6 DEF Deleted, TypeOK, Running, Ended
      <2> QED BY <1>6, <2>1, GotoPlace DEF Deleted, Steps
<1>7. CASE Sleep \/ PollDBs
      BY <1>7, GotoPlace, FinishPlace, FailsPlace, AllStages DEF Sleep, PollDBs, Steps
<1>8. ASSUME pc[2] \in DOMAIN ObjectStage \cup DOMAIN NamespaceStage
      PROVE  pc[2] \in Stages
      BY <1>8 DEF Stages
<1>9. CASE ListObjects \/ DeleteObject \/ PollObjects
      BY <1>8, <1>9, GotoPlace, FinishPlace, FailsPlace
         DEF ListObjects, DeleteObject, PollObjects, Steps, TypeOK
<1>10. CASE ListNamespaces \/ DeleteNamespace \/ PollNamespaces
      BY <1>8, <1>10, GotoPlace, FinishPlace, FailsPlace
         DEF ListNamespaces, DeleteNamespace, PollNamespaces, Steps, TypeOK
<1>11. CASE DeleteCSV \/ PollCSV \/ Fail
      BY <1>11, GotoPlace, FinishPlace, FailsPlace, AllStages
         DEF DeleteCSV, PollCSV, Fail, Steps
<1> QED BY <1>1, <1>2, <1>3, <1>4, <1>5, <1>6, <1>7, <1>9, <1>10, <1>11 DEF Advance

LEMMA CommandType ==
    ASSUME TypeOK, Start \/ Advance \/ Fail
    PROVE  TypeOK'
<1>1. pc' \in Running \cup Ended
      BY CommandPlace
<1>2. CASE Start
      <2>1. runs' \in 0 .. MaxRuns
            BY <1>2, SettingsTyped DEF Start, TypeOK
      <2>2. consent' \in BOOLEAN
            BY <1>2, Zenon DEF Start
      <2> QED BY <1>1, <1>2, <2>1, <2>2 DEF Start, TypeOK, resources
<1>3. CASE DbsExist
      BY <1>1, <1>3 DEF DbsExist, TypeOK, cluster, history
<1>4. CASE ConfirmForce
      BY <1>1, <1>4 DEF ConfirmForce, TypeOK, resources, history
<1>5. CASE ListDBs
      BY <1>1, <1>5 DEF ListDBs, TypeOK, cluster, history
<1>6. CASE DeleteDB
      BY <1>1, <1>6 DEF DeleteDB, TypeOK, history
<1>7. CASE Deleted \/ Sleep \/ PollDBs \/ PollObjects \/ PollNamespaces
           \/ PollCSV \/ Fail
      BY <1>1, <1>7
         DEF Deleted, Sleep, PollDBs, PollObjects, PollNamespaces, PollCSV, Fail,
             TypeOK, cluster, history
<1>8. CASE ListObjects
      <2>1. There(pc[2]) \subseteq Objects
            BY <1>8, StageDomains, StageContents DEF ListObjects, There, Objects
      <2> QED BY <1>1, <1>8, <2>1 DEF ListObjects, TypeOK, cluster, history
<1>9. CASE DeleteObject
      BY <1>1, <1>9 DEF DeleteObject, TypeOK, history
<1>10. CASE ListNamespaces
      <2>1. NamespaceStage[pc[2]] \subseteq Namespaces
            BY <1>10, StageDomains, StageContents
               DEF ListNamespaces, Namespaces, Others
      <2> QED BY <1>1, <1>10, <2>1 DEF ListNamespaces, TypeOK, cluster, history
<1>11. CASE DeleteNamespace
      BY <1>1, <1>11 DEF DeleteNamespace, TypeOK, resources, history
<1>12. CASE DeleteCSV
      <2>1. csv' \in BOOLEAN
            BY <1>12, Zenon DEF DeleteCSV, TypeOK
      <2> QED BY <1>1, <1>12, <2>1 DEF DeleteCSV, TypeOK, resources, history
<1> QED BY <1>2, <1>3, <1>4, <1>5, <1>6, <1>7, <1>8, <1>9, <1>10, <1>11, <1>12
        DEF Advance

LEMMA ClusterType ==
    ASSUME TypeOK, Cluster \/ Users
    PROVE  TypeOK'
<1>1. ASSUME NEW d \in Databases, FinishEngine(d) \/ CreateDB(d)
      PROVE  TypeOK'
      BY <1>1 DEF FinishEngine, CreateDB, Creates, Command, TypeOK
<1>2. ASSUME NEW o \in Objects, FinishObject(o)
      PROVE  TypeOK'
      BY <1>2 DEF FinishObject, Command, TypeOK
<1>3. ASSUME NEW o \in Storages, CreateStorage(o)
      PROVE  TypeOK'
      BY <1>3 DEF CreateStorage, Creates, Command, TypeOK, Objects
<1>4. ASSUME NEW n \in Namespaces, DeleteContent(n)
      PROVE  TypeOK'
      BY <1>4 DEF DeleteContent, Command, TypeOK
<1>5. ASSUME NEW n \in Namespaces, StopOperators(n) \/ NamespaceGone(n)
      PROVE  TypeOK'
      BY <1>5 DEF StopOperators, NamespaceGone, resources, Command, TypeOK
<1> QED BY <1>1, <1>2, <1>3, <1>4, <1>5 DEF Cluster, Users

(* The variables stay in their types.                                      *)
THEOREM TypeCorrect == Spec => []TypeOK
<1>1. TypeOK /\ [Next]_vars => TypeOK'
      <2> SUFFICES ASSUME TypeOK, [Next]_vars PROVE TypeOK'
          OBVIOUS
      <2>1. CASE UNCHANGED vars
            BY <2>1 DEF vars, TypeOK
      <2> QED BY <2>1, CommandType, ClusterType DEF Next, PollAgain, Terminated, Advance
<1> QED BY <1>1, InitType, PTL DEF Spec

-----------------------------------------------------------------------------
(* No database without consent                                             *)

(* From a place to the next one: the question is answered before anything  *)
(* is deleted.                                                             *)
LEMMA StageSets ==
    /\ StorageStages = {"csv", "storages", "configs", "dbNamespaces",
              "monitoringNamespace", "systemNamespace", "olmNamespace", "done"}
    /\ LaterStages = {"csv", "configs", "dbNamespaces", "monitoringNamespace",
              "systemNamespace", "olmNamespace", "done"}
    /\ LastStages = {"csv", "monitoringNamespace", "systemNamespace",
              "olmNamespace", "done"}
BY AllStages DEF StorageStages, LaterStages, LastStages

(* The database set changes by deletions and by what users create.         *)
LEMMA ConsentStep ==
    ASSUME TypeOK, ConsentInv, Next
    PROVE  ConsentInv'
<1>1. ASSUME consent' = consent, created \subseteq created',
             databases' \subseteq databases \cup created', UNCHANGED pc
      PROVE  ConsentInv'
      BY <1>1 DEF ConsentInv
<1>2. ASSUME consent' = consent, created' = created, databases' \subseteq databases,
             pc[1] \in Steps, pc[2] \in Stages,
             pc'[2] \in {pc[2], After(pc[2]), "failed"}
      PROVE  ConsentInv'
      <2>1. pc'[2] \in {"databases", "failed"} \cup StorageStages
            BY <1>2, AllStages, StageSets, StageOrder
      <2>2. consent \/ databases \subseteq created
            BY <1>2, AllStages, StageSets DEF ConsentInv
      <2>3. pc'[2] = "databases" => pc[2] = "databases"
            BY <1>2, AllStages, StageOrder
      <2> QED BY <1>2, <2>1, <2>2, <2>3 DEF ConsentInv
<1>3. CASE Start
      BY <1>3, StageSets DEF Start, Goto, ConsentInv, Steps
<1>4. CASE DbsExist
      <2>1. CASE databases = {} /\ Finish("databases")
            <3>1. pc'[2] = "storages"
                  BY <2>1, AllStages, FinishPlace, StageOrder
            <3> QED BY <1>4, <2>1, <3>1 DEF DbsExist, cluster, ConsentInv
      <2>2. CASE Goto("confirm", "databases") \/ Fails
            BY <2>2, StageSets, FailsPlace DEF Goto, ConsentInv, Steps
      <2> QED BY <1>4, <2>1, <2>2 DEF DbsExist
<1>5. CASE ConfirmForce
      BY <1>5, StageSets DEF ConfirmForce, Goto, ConsentInv
<1>6. CASE Deleted
      <2>1. pc[2] \in Stages /\ pc'[2] = pc[2] /\ pc[1] \in Steps
            BY <1>6 DEF Deleted, TypeOK, Running, Ended, Goto, Steps
      <2> QED BY <1>2, <1>6, <2>1 DEF Deleted, cluster, history
<1>7. CASE ListDBs \/ DeleteDB \/ Sleep \/ PollDBs
      <2>1. /\ pc[2] = "databases" /\ pc[1] \in Steps
            /\ pc'[2] \in {"databases", "storages", "failed"}
            BY <1>7, FailsPlace, FinishPlace, AllStages, StageOrder
               DEF ListDBs, DeleteDB, Sleep, PollDBs, Goto, Steps
      <2>2. consent' = consent /\ created' = created /\ databases' \subseteq databases
            BY <1>7 DEF ListDBs, DeleteDB, Sleep, PollDBs, cluster, history
      <2> QED BY <1>2, <2>1, <2>2, AllStages, StageOrder
<1>8. ASSUME ListObjects \/ DeleteObject \/ PollObjects \/ ListNamespaces
                 \/ DeleteNamespace \/ PollNamespaces \/ DeleteCSV \/ PollCSV
      PROVE  ConsentInv'
      <2>1. pc[2] \in Stages /\ pc[1] \in Steps
            BY <1>8, AllStages, StageDomains
               DEF ListObjects, DeleteObject, PollObjects, ListNamespaces,
                   DeleteNamespace, PollNamespaces, DeleteCSV, PollCSV, Steps
      <2>2. consent' = consent /\ created' = created /\ databases' = databases
            BY <1>8
               DEF ListObjects, DeleteObject, PollObjects, ListNamespaces,
                   DeleteNamespace, PollNamespaces, DeleteCSV, PollCSV, cluster,
                   resources, history
      <2>3. pc'[2] \in {pc[2], After(pc[2]), "failed"}
            BY <1>8, <2>1, FailsPlace, FinishPlace
               DEF ListObjects, DeleteObject, PollObjects, ListNamespaces,
                   DeleteNamespace, PollNamespaces, DeleteCSV, PollCSV, Goto
      <2> QED BY <1>2, <2>1, <2>2, <2>3
<1>9. CASE Fail
      BY <1>9, FailsPlace, StageSets DEF Fail, ConsentInv
<1>10. CASE Cluster \/ Users
      BY <1>1, <1>10
         DEF Cluster, Users, FinishEngine, FinishObject, DeleteContent,
             StopOperators, NamespaceGone, CreateDB, CreateStorage, Creates,
             resources, Command
<1>11. CASE PollAgain \/ Terminated
      BY <1>11 DEF PollAgain, Terminated, vars, ConsentInv
<1> QED BY <1>3, <1>4, <1>5, <1>6, <1>7, <1>8, <1>9, <1>10, <1>11
        DEF Next, Advance

(* Only deleteNamespaces deletes a namespace, one of those of its stage.   *)
LEMMA WhoDeletes ==
    ASSUME TypeOK, [Next]_vars, NEW n \in Namespaces, Deletes(n)
    PROVE  DeleteNamespace /\ n \in todo
<1>1. namespace[n] = "active" /\ namespace'[n] = "terminating"
      BY DEF Deletes
<1>2. namespace' # namespace
      BY <1>1
<1>3. DeleteNamespace \/ \E m \in Namespaces : NamespaceGone(m)
      BY <1>2 DEF Next, Advance, Cluster, Users, vars, Start, DbsExist, ConfirmForce,
         ListDBs, DeleteDB, Deleted, Sleep, PollDBs, ListObjects, DeleteObject,
         PollObjects, ListNamespaces, PollNamespaces, DeleteCSV, PollCSV,
         PollAgain, Fail, FinishEngine, FinishObject, DeleteContent, StopOperators,
         CreateDB, CreateStorage, Terminated, cluster
<1>4. ASSUME NEW m \in Namespaces, NamespaceGone(m)
      PROVE  FALSE
      BY <1>1, <1>4 DEF NamespaceGone, TypeOK
<1>5. DeleteNamespace
      BY <1>3, <1>4
<1>6. PICK m \in todo : \/ namespace' = [namespace EXCEPT ![m] = "terminating"]
                         \/ UNCHANGED namespace
      BY <1>5 DEF DeleteNamespace
<1>7. m = n
      BY <1>1, <1>6 DEF TypeOK
<1> QED BY <1>5, <1>6, <1>7

(* Whatever an earlier run was told and wherever it failed: no namespace   *)
(* is deleted with databases in it that this run was not told to delete,   *)
(* but for those created after the question.                               *)
THEOREM AskedFirst == Spec => NoDatabaseWithoutConsent
<1>1. Init => ConsentInv
      BY StageSets DEF Init, ConsentInv, Steps
<1>2. TypeOK /\ ConsentInv /\ [Next]_vars => ConsentInv'
      <2>1. ConsentInv /\ UNCHANGED vars => ConsentInv'
            BY DEF vars, ConsentInv
      <2> QED BY <2>1, ConsentStep
<1>3. TypeOK /\ ConsentInv /\ [Next]_vars
         => \A n \in DBNamespaces : Deletes(n) =>
               consent \/ \A d \in databases \ created : Home[d] # n
      <2> SUFFICES ASSUME TypeOK, ConsentInv, [Next]_vars,
                          NEW n \in DBNamespaces, Deletes(n)
                   PROVE  consent \/ databases \subseteq created
          OBVIOUS
      <2>1. DeleteNamespace
            BY WhoDeletes DEF Namespaces
      <2>2. pc[2] \in StorageStages
            BY <2>1, StageDomains, StageSets DEF DeleteNamespace
      <2> QED BY <2>2 DEF ConsentInv
<1> QED BY <1>1, <1>2, <1>3, TypeCorrect, PTL DEF Spec, NoDatabaseWithoutConsent
-----------------------------------------------------------------------------
(* The order of the stages                                                 *)

LEMMA EnginesStep ==
    ASSUME TypeOK, Engines, Next
    PROVE  Engines'
<1>1. CASE UNCHANGED <<databases, engine>>
      BY <1>1 DEF Engines
<1>2. CASE DeleteDB
      BY <1>2 DEF DeleteDB, Engines, TypeOK
<1>3. ASSUME NEW d \in Databases, FinishEngine(d) \/ CreateDB(d)
      PROVE  Engines'
      BY <1>3 DEF FinishEngine, CreateDB, Engines, TypeOK
<1>4. ASSUME NEW n \in Namespaces, DeleteContent(n)
      PROVE  Engines'
      BY <1>4 DEF DeleteContent, Engines, TypeOK
<1> QED BY <1>1, <1>2, <1>3, <1>4
        DEF Next, Advance, Cluster, Users, Start, DbsExist, ConfirmForce,
            ListDBs, Deleted, Sleep, PollDBs, ListObjects, DeleteObject,
            PollObjects, ListNamespaces, DeleteNamespace, PollNamespaces,
            DeleteCSV, PollCSV, PollAgain, Fail, FinishObject, StopOperators,
            NamespaceGone, CreateStorage, Terminated, cluster, resources, vars

LEMMA OwnStep ==
    ASSUME TypeOK, OwnNamespaces, Next
    PROVE  OwnNamespaces'
<1>1. CASE todo' \subseteq todo /\ UNCHANGED pc
      BY <1>1 DEF OwnNamespaces
<1>2. CASE pc'[1] # "delete" \/ pc'[2] \notin DOMAIN NamespaceStage
      BY <1>2 DEF OwnNamespaces
<1>3. CASE ListNamespaces
      <2>1. CASE Fails
            BY <2>1, <1>2, FailsPlace
      <2>2. CASE todo' = NamespaceStage[pc[2]] /\ Goto("delete", pc[2])
            BY <2>2 DEF Goto, OwnNamespaces
      <2> QED BY <1>3, <2>1, <2>2 DEF ListNamespaces
<1>4. CASE DeleteDB \/ DeleteObject \/ DeleteNamespace
      BY <1>1, <1>2, <1>4, FailsPlace DEF DeleteDB, DeleteObject, DeleteNamespace
<1>5. CASE ListDBs \/ DbsExist \/ PollDBs \/ ConfirmForce \/ Start \/ Sleep \/ Fail
      BY <1>2, <1>5, FailsPlace, FinishPlace, AllStages, StageDomains
         DEF ListDBs, DbsExist, PollDBs, ConfirmForce, Start, Sleep, Fail, Goto
<1>6. ASSUME ListObjects \/ PollObjects \/ PollNamespaces \/ DeleteCSV \/ PollCSV
                 \/ Deleted
      PROVE  OwnNamespaces'
      <2>1. CASE Fails
            BY <2>1, <1>2, FailsPlace
      <2>2. ASSUME NEW stage \in Stages, Finish(stage)
            PROVE  OwnNamespaces'
            BY <2>2, <1>2, FinishPlace
      <2>3. CASE Goto("poll", pc[2]) \/ Goto("sleep", pc[2]) \/ Goto("poll", "csv")
            BY <2>3, <1>2 DEF Goto
      <2>4. CASE Goto("delete", pc[2]) /\ pc[2] \in DOMAIN ObjectStage
            BY <2>4, <1>2, StageDomains DEF Goto
      <2> QED BY <1>6, <2>1, <2>2, <2>3, <2>4, AllStages, StageDomains
              DEF ListObjects, PollObjects, PollNamespaces, DeleteCSV, PollCSV, Deleted
<1>7. CASE Cluster \/ Users \/ PollAgain \/ Terminated
      BY <1>1, <1>7
         DEF Cluster, Users, FinishEngine, FinishObject, DeleteContent,
             StopOperators, NamespaceGone, CreateDB, CreateStorage, PollAgain,
             Terminated, vars, Command
<1> QED BY <1>3, <1>4, <1>5, <1>6, <1>7 DEF Next, Advance

(* The cluster and its users bring nothing back that is not their own, and *)
(* delete nothing while every namespace is active.                         *)
LEMMA FirstRunCluster ==
    ASSUME TypeOK, Engines, FirstRun, Cluster \/ Users
    PROVE  FirstRun'
<1>1. UNCHANGED <<pc, runs>> /\ created \subseteq created'
      BY DEF Cluster, Users, FinishEngine, FinishObject, DeleteContent,
         StopOperators, NamespaceGone, CreateDB, CreateStorage, Creates, Command
<1>2. ASSUME runs <= 1, pc[2] = "databases", \A n \in Namespaces : namespace[n] = "active"
      PROVE  /\ UNCHANGED namespace
             /\ \A d \in Databases : engine[d] # "deleting" => engine'[d] # "deleting"
      BY <1>2 DEF Cluster, Users, FinishEngine, FinishObject, DeleteContent,
         StopOperators, NamespaceGone, CreateDB, CreateStorage, TypeOK, resources
<1>3. \A d \in Databases \ created' : engine[d] = "absent" => engine'[d] = "absent"
      BY DEF Cluster, Users, FinishEngine, FinishObject, DeleteContent,
         StopOperators, NamespaceGone, CreateDB, CreateStorage, Creates, TypeOK,
         resources, Engines
<1>4. \A o \in Objects \ created' : object[o] = "absent" => object'[o] = "absent"
      BY DEF Cluster, Users, FinishEngine, FinishObject, DeleteContent,
         StopOperators, NamespaceGone, CreateDB, CreateStorage, Creates, TypeOK,
         resources, Objects
<1>5. \A o \in Configs : object[o] = "absent" => object'[o] = "absent"
      BY ObjectsDistinct
         DEF Cluster, Users, FinishEngine, FinishObject, DeleteContent,
         StopOperators, NamespaceGone, CreateDB, CreateStorage, Creates, TypeOK,
         resources, Objects
<1> QED BY <1>1, <1>2, <1>3, <1>4, <1>5 DEF FirstRun, Objects

LEMMA FirstRunFails ==
    ASSUME TypeOK, FirstRun, Fails, UNCHANGED runs, pc \in Running
    PROVE  FirstRun'
<1>1. pc'[2] = "failed" /\ pc' # <<"idle", "databases">>
      BY FailsPlace DEF Fails, Goto
<1>2. pc # <<"idle", "databases">>
      BY DEF Running, Steps
<1>3. pc'[2] # "databases" /\ pc'[2] \notin StorageStages \cup LaterStages \cup LastStages
      BY <1>1, StageSets
<1> QED BY <1>1, <1>2, <1>3 DEF FirstRun

(* A step within a stage.                                                  *)
LEMMA FirstRunWithin ==
    ASSUME TypeOK, FirstRun, pc \in Running, pc' \in Running, pc'[2] = pc[2],
           UNCHANGED <<runs, created>>,
           pc[2] = "databases" => UNCHANGED namespace,
           runs <= 1 /\ pc[2] = "databases"
                     /\ pc'[1] \in {"idle", "check", "confirm", "list", "poll"} =>
               \A d \in Databases : engine'[d] # "deleting",
           pc[2] # "databases" => \A d \in Databases :
               engine[d] = "absent" => engine'[d] = "absent",
           \A o \in Objects : object[o] = "absent" => object'[o] = "absent"
    PROVE  FirstRun'
<1>1. pc # <<"idle", "databases">> /\ pc' # <<"idle", "databases">>
      BY DEF Running, Steps
<1> QED BY <1>1, StageSets DEF FirstRun, Objects

(* The end of a stage after the first one.                                 *)
LEMMA FirstRunOnward ==
    ASSUME TypeOK, FirstRun, pc \in Running, pc[2] \in Stages \ {"databases"},
           Finish(pc[2]), UNCHANGED <<runs, created, engine, object>>,
           pc[2] = "storages" => \A o \in Storages : object[o] = "absent",
           pc[2] = "configs" => \A o \in Configs : object[o] = "absent"
    PROVE  FirstRun'
<1>1. pc'[2] = After(pc[2]) /\ pc'[1] # "idle" /\ pc[1] # "idle"
      BY FinishPlace DEF Running, Steps
<1>2. /\ pc[2] \in StorageStages /\ pc'[2] \in LaterStages
      /\ pc'[2] \in LaterStages => pc[2] \in LaterStages \/ pc[2] = "storages"
      /\ pc'[2] \in LastStages => pc[2] \in LastStages \/ pc[2] = "configs"
      /\ pc'[2] # "databases" /\ pc'[2] \in StorageStages
      BY <1>1, AllStages, StageSets, StageOrder
<1> QED BY <1>1, <1>2 DEF FirstRun

LEMMA FirstRunCommand ==
    ASSUME TypeOK, Engines, FirstRun, SleepSuffices, Start \/ Advance \/ Fail
    PROVE  FirstRun'
<1>1. CASE Start
      <2>1. runs' = runs + 1 /\ runs \in Nat /\ runs' \in Nat
            BY <1>1, SettingsTyped DEF Start, TypeOK
      <2>2. pc' = <<"check", "databases">> /\ UNCHANGED <<namespace, engine>>
            BY <1>1 DEF Start, Goto, resources
      <2>3. runs' <= 1 => runs = 0
            BY <2>1
      <2> QED BY <2>1, <2>2, <2>3, StageSets DEF FirstRun
<1>2. CASE pc \in Running /\ Fails /\ UNCHANGED runs
      BY <1>2, FirstRunFails
<1>3. CASE DbsExist
      <2>1. pc = <<"check", "databases">> /\ pc \in Running
            /\ UNCHANGED <<runs, namespace, databases, engine, object>>
            BY <1>3 DEF DbsExist, Running, cluster
      <2>2. CASE Goto("confirm", "databases")
            <3>1. pc'[1] = "confirm" /\ pc'[2] = "databases"
                  BY <2>2 DEF Goto
            <3> QED BY <2>1, <3>1, StageSets DEF FirstRun
      <2>3. CASE databases = {} /\ Finish("databases")
            <3>1. pc'[2] = "storages"
                  BY <2>3, FinishPlace, AllStages, StageOrder
            <3>2. runs <= 1 => \A d \in Databases : engine[d] = "absent"
                  BY <2>1, <2>3 DEF FirstRun, Engines, TypeOK
            <3> QED BY <2>1, <3>1, <3>2, StageSets DEF FirstRun
      <2> QED BY <1>2, <1>3, <2>1, <2>2, <2>3 DEF DbsExist
<1>4. CASE ConfirmForce
      <2>1. pc = <<"confirm", "databases">> /\ pc \in Running
            /\ UNCHANGED <<runs, created, namespace, databases, engine, object>>
            BY <1>4 DEF ConfirmForce, Running, resources, history
      <2>2. CASE Goto("list", "databases")
            <3>1. pc'[2] = "databases" /\ pc' \in Running
                  BY <2>2, GotoPlace, AllStages DEF Steps
            <3> QED BY <2>1, <3>1, FirstRunWithin DEF FirstRun
      <2>3. CASE Goto("end", "exited")
            BY <2>1, <2>3, StageSets DEF Goto, FirstRun
      <2> QED BY <1>4, <2>2, <2>3 DEF ConfirmForce
<1>5. CASE ListDBs
      <2>1. pc = <<"list", "databases">> /\ pc \in Running
            /\ UNCHANGED <<runs, created, namespace, databases, engine, object>>
            BY <1>5, AllStages DEF ListDBs, Running, Steps, cluster, history
      <2>2. CASE Goto("delete", "databases")
            <3>1. pc'[1] = "delete" /\ pc'[2] = "databases" /\ pc' \in Running
                  BY <2>2, GotoPlace, AllStages DEF Steps
            <3> QED BY <2>1, <3>1, FirstRunWithin
      <2> QED BY <1>2, <1>5, <2>1, <2>2 DEF ListDBs
<1>6. CASE DeleteDB
      <2>1. pc = <<"delete", "databases">> /\ pc \in Running
            /\ UNCHANGED <<runs, created, namespace, object>>
            BY <1>6, AllStages DEF DeleteDB, Running, Steps, history
      <2>2. CASE UNCHANGED pc
            BY <2>1, <2>2, FirstRunWithin
      <2> QED BY <1>2, <1>6, <2>1, <2>2 DEF DeleteDB
<1>7. CASE Deleted
      <2>1. pc \in Running /\ pc[1] = "delete" /\ pc[2] \in Stages
            /\ UNCHANGED <<runs, created, namespace, databases, engine, object>>
            BY <1>7 DEF Deleted, TypeOK, Running, Ended, cluster, history
      <2>2. /\ pc' \in Running /\ pc'[2] = pc[2]
            /\ pc[2] = "databases" => pc'[1] = "sleep"
            BY <1>7, <2>1, GotoPlace DEF Deleted, Steps
      <2> QED BY <2>1, <2>2, FirstRunWithin
<1>8. CASE Sleep
      <2>1. pc = <<"sleep", "databases">> /\ pc \in Running
            /\ UNCHANGED <<runs, created, namespace, databases, engine, object>>
            /\ \A d \in Databases : engine[d] # "deleting"
            BY <1>8, AllStages DEF Sleep, Running, Steps, cluster, history
      <2>2. pc' \in Running /\ pc'[2] = "databases"
            BY <1>8, GotoPlace, AllStages DEF Sleep, Steps
      <2> QED BY <2>1, <2>2, FirstRunWithin
<1>9. CASE PollDBs
      <2>1. pc = <<"poll", "databases">> /\ pc \in Running
            /\ UNCHANGED <<runs, created, namespace, databases, engine, object>>
            BY <1>9, AllStages DEF PollDBs, Running, Steps, cluster, history
      <2>2. CASE databases = {} /\ Finish("databases")
            <3>1. pc'[2] = "storages"
                  BY <2>2, FinishPlace, AllStages, StageOrder
            <3>2. runs <= 1 => \A d \in Databases : engine[d] = "absent"
                  BY <2>1, <2>2 DEF FirstRun, Engines, TypeOK
            <3> QED BY <2>1, <3>1, <3>2, StageSets DEF FirstRun
      <2> QED BY <1>2, <1>9, <2>1, <2>2 DEF PollDBs
<1>10. ASSUME ListObjects \/ PollObjects \/ ListNamespaces \/ PollNamespaces
                  \/ DeleteCSV \/ PollCSV
       PROVE  FirstRun'
      <2>1. /\ pc[2] \in Stages \ {"databases"} /\ pc[1] \in Steps
            /\ UNCHANGED <<runs, created, namespace, engine, object>>
            BY <1>10, AllStages, StageDomains
               DEF ListObjects, PollObjects, ListNamespaces, PollNamespaces,
                   DeleteCSV, PollCSV, Steps, cluster, resources, history
      <2>2. pc \in Running
            BY <2>1 DEF TypeOK, Ended, Steps
      <2>3. \/ Goto("delete", pc[2]) \/ Goto("poll", pc[2])
            \/ Fails
            \/ /\ Finish(pc[2])
               /\ pc[2] \in DOMAIN ObjectStage => There(pc[2]) = {}
            BY <1>10, StageDomains
               DEF ListObjects, PollObjects, ListNamespaces, PollNamespaces,
                   DeleteCSV, PollCSV
      <2>4. CASE Goto("delete", pc[2]) \/ Goto("poll", pc[2])
            <3>1. pc' \in Running /\ pc'[2] = pc[2]
                  BY <2>1, <2>4, GotoPlace DEF Steps
            <3> QED BY <2>1, <2>2, <3>1, FirstRunWithin
      <2>5. CASE /\ Finish(pc[2])
                 /\ pc[2] \in DOMAIN ObjectStage => There(pc[2]) = {}
            <3>1. /\ pc[2] = "storages" => \A o \in Storages : object[o] = "absent"
                  /\ pc[2] = "configs" => \A o \in Configs : object[o] = "absent"
                  BY <2>5, StageDomains, StageContents DEF There
            <3> QED BY <2>1, <2>2, <2>5, <3>1, FirstRunOnward
      <2> QED BY <1>2, <2>1, <2>2, <2>3, <2>4, <2>5
<1>11. CASE DeleteObject \/ DeleteNamespace
      <2>1. /\ pc[2] \in Stages \ {"databases"} /\ pc[1] = "delete"
            /\ UNCHANGED <<runs, created, engine>>
            BY <1>11, AllStages, StageDomains
               DEF DeleteObject, DeleteNamespace, resources, history
      <2>2. pc \in Running
            BY <2>1 DEF TypeOK, Ended
      <2>3. \A o \in Objects : object[o] = "absent" => object'[o] = "absent"
            BY <1>11 DEF DeleteObject, DeleteNamespace, resources, TypeOK
      <2>4. CASE UNCHANGED pc
            BY <2>1, <2>2, <2>3, <2>4, FirstRunWithin
      <2> QED BY <1>2, <1>11, <2>1, <2>2, <2>4 DEF DeleteObject, DeleteNamespace
<1>12. CASE Fail
      BY <1>2, <1>12 DEF Fail, history
<1> QED BY <1>1, <1>3, <1>4, <1>5, <1>6, <1>7, <1>8, <1>9, <1>10, <1>11, <1>12
        DEF Advance

(* What a run that is the first one has behind it when it deletes a        *)
(* namespace.                                                              *)
LEMMA OrderAtDeletion ==
    ASSUME TypeOK, OrderInv, [Next]_vars, NEW n \in Namespaces, Deletes(n), runs = 1
    PROVE  /\ \A d \in Databases \ created : Home[d] = n => engine[d] # "deleting"
           /\ \A o \in Objects \ created :
                n \in {System} \cup {m \in Others : Belongs(o, m)}
                  => object[o] = "absent"
<1>1. /\ pc[1] = "delete" /\ pc[2] \in DOMAIN NamespaceStage
      /\ n \in NamespaceStage[pc[2]]
      BY WhoDeletes DEF DeleteNamespace, OrderInv, OwnNamespaces
<1>2. \A d \in Databases \ created : engine[d] = "absent"
      BY <1>1, StageDomains, StageSets DEF OrderInv, FirstRun
<1>3. ASSUME NEW o \in Objects \ created,
             n \in {System} \cup {m \in Others : Belongs(o, m)}
      PROVE  object[o] = "absent"
      <2>1. CASE n = System
            <3>1. pc[2] = "systemNamespace"
                  BY <1>1, <2>1, StageDomains, StageContents, NamespacesDistinct
                     DEF Others
            <3> QED BY <3>1, StageSets DEF OrderInv, FirstRun, Objects
      <2>2. CASE n \in Others /\ n # System /\ Belongs(o, n)
            <3>1. n = Monitoring /\ o \in Configs
                  BY <2>2 DEF Belongs, Objects
            <3>2. pc[2] = "monitoringNamespace"
                  BY <1>1, <3>1, StageDomains, StageContents, NamespacesDistinct
                     DEF Others
            <3> QED BY <3>1, <3>2, StageSets DEF OrderInv, FirstRun
      <2> QED BY <1>3, <2>1, <2>2
<1> QED BY <1>2, <1>3

(* In one run, wherever it fails, no namespace is deleted while operators  *)
(* in it have objects to finish, but for those that users created under    *)
(* it; if the two minutes are enough for the engines.                      *)
THEOREM ObjectsFirst ==
    ASSUME SleepSuffices PROVE Spec => OperatorsOutliveObjects
<1>1. Init => OrderInv
      <2> SUFFICES ASSUME Init PROVE OrderInv
          OBVIOUS
      <2>1. Engines /\ OwnNamespaces
            BY DEF Init, Engines, OwnNamespaces
      <2>2. FirstRun
            BY StageSets DEF Init, FirstRun
      <2> QED BY <2>1, <2>2 DEF OrderInv
<1>2. TypeOK /\ OrderInv /\ [Next]_vars => OrderInv'
      <2> SUFFICES ASSUME TypeOK, OrderInv, [Next]_vars PROVE OrderInv'
          OBVIOUS
      <2>1. CASE UNCHANGED vars
            BY <2>1 DEF vars, OrderInv, Engines, OwnNamespaces, FirstRun
      <2>2. CASE Next
            <3>1. Engines' /\ OwnNamespaces'
                  BY <2>2, EnginesStep, OwnStep DEF OrderInv
            <3>2. FirstRun'
                  <4>1. CASE PollAgain \/ Terminated
                        BY <4>1 DEF PollAgain, Terminated, vars, OrderInv, FirstRun
                  <4> QED BY <2>2, <4>1, FirstRunCluster, FirstRunCommand
                          DEF Next, OrderInv
            <3> QED BY <3>1, <3>2 DEF OrderInv
      <2> QED BY <2>1, <2>2
<1>3. TypeOK /\ OrderInv /\ [Next]_vars =>
         \A n \in Namespaces : Deletes(n) /\ runs = 1 =>
           /\ \A d \in Databases \ created : Home[d] = n => engine[d] # "deleting"
           /\ \A o \in Objects \ created :
                n \in {System} \cup {m \in Others : Belongs(o, m)}
                  => object[o] = "absent"
      BY OrderAtDeletion
<1> QED BY <1>1, <1>2, <1>3, TypeCorrect, PTL DEF Spec, OperatorsOutliveObjects
==============================================================================
