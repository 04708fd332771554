----------------------------- MODULE Manifests -----------------------------
(***************************************************************************)
(* Files of objects that are applied or deleted one object after the       *)
(* other: the monitoring files of an install, retried three times each,    *)
(* the Everest manifest, downloaded anew each time, and the removal of     *)
(* everything that belongs to monitoring.                                  *)
(***************************************************************************)
EXTENDS Naturals, Sequences

CONSTANTS
    MonitoringFiles,   \* a sequence of files, each a sequence of documents
    Manifest,          \* the documents of the Everest manifest
    EverestDeployment, \* the one of them whose rollout is waited for
    LabelledTypes,     \* the types of which there are labelled objects
    VMAgentCRD,        \* without it there is no monitoring
    Broken,            \* a document that is no YAML
    Alien              \* YAML that is no Kubernetes object

(* All objects of a type are deleted with one request: they count as one.  *)
monitoringResourceTypesForRemoval ==
    <<"ServiceAccount", "Service", "Deployment", "ClusterRole",
      "ClusterRoleBinding", "VMNodeScrape", "VMPodScrape", "VMServiceScrape",
      "VMAgent">>
Labelled == SelectSeq(monitoringResourceTypesForRemoval,
                      LAMBDA type : type \in LabelledTypes)

Documents(file) == {file[i] : i \in DOMAIN file}
Contents(file) == Documents(file) \ {Broken, Alien}
MonitoringObjects == UNION {Contents(MonitoringFiles[i]) :
                               i \in DOMAIN MonitoringFiles}
Objects == MonitoringObjects \cup Contents(Manifest)
             \cup Contents(Labelled) \cup {VMAgentCRD}

Intact(file) == file \in Seq(Contents(file)) \ {<<>>}
ASSUME FilesIntact ==
    /\ Broken # Alien /\ Intact(Manifest)
    /\ MonitoringFiles \in Seq(Documents(MonitoringFiles)) \ {<<>>}
    /\ \A i \in DOMAIN MonitoringFiles : Intact(MonitoringFiles[i])
    /\ Labelled \in Seq(Documents(Labelled))
ASSUME EverestInManifest == EverestDeployment \in Contents(Manifest)

VARIABLES
    present,    \* the objects on the cluster
    operation,  \* what is being done: "none" before
    files,      \* the files that are left, the current one included
    documents,  \* the objects of the current file that are left
    attempt,    \* how often the current file was tried in vain
    outcome,    \* "busy", "waiting", "ok" or "failed"
    unnoticed,  \* history: an error that was not reported
    failures    \* history: the failures since the file was begun
manifestVars == <<present, operation, files, documents, attempt, outcome,
                  unnoticed, failures>>

ManifestTypeOK ==
    /\ present \subseteq Objects
    /\ operation \in {"none", "ProvisionMonitoring", "InstallEverest",
                      "DeleteEverest", "DeleteAllMonitoringResources"}
    /\ attempt \in 0 .. 2
    /\ outcome \in {"busy", "waiting", "ok", "failed"}
    /\ unnoticed \in BOOLEAN
    /\ failures \in 0 .. 3

ManifestInit ==
    /\ present \in {{}, Objects}
    /\ operation = "none"
    /\ files = <<>>
    /\ documents = <<>>
    /\ attempt = 0
    /\ outcome = "ok"
    /\ unnoticed = FALSE
    /\ failures = 0

-----------------------------------------------------------------------------
(* getObjects decodes a whole file before its first object is applied. A   *)
(* document that cannot be decoded ends it, and no error is returned; one  *)
(* that is no object is an error.                                          *)
UpTo(file, stop) ==
    CHOOSE n \in 0 .. Len(file) :
        /\ \A i \in 1 .. n : file[i] # stop
        /\ n = Len(file) \/ file[n + 1] = stop
getObjects(file) == SubSeq(file, 1, UpTo(file, Broken))
IsError(file) == UpTo(getObjects(file), Alien) < Len(getObjects(file))

Begin(op, list) ==
    /\ outcome \in {"ok", "failed"}
    /\ operation' = op
    /\ outcome' = IF IsError(list[1]) THEN "failed" ELSE "busy"
    /\ files' = list
    /\ documents' = getObjects(list[1])
    /\ unnoticed' = (getObjects(list[1]) # list[1])
    /\ attempt' = 0 /\ failures' = 0
    /\ UNCHANGED present

ProvisionMonitoring == Begin("ProvisionMonitoring", MonitoringFiles)

(* The status of the answer is not looked at: its body may be the manifest,*)
(* a page that is no YAML, or a text that is YAML but no object, which is  *)
(* an error like no answer at all.                                         *)
getManifestData == {Manifest, <<Broken>>, <<Alien>>}
InstallEverest ==
    \E body \in getManifestData : Begin("InstallEverest", <<body>>)
DeleteEverest ==
    \E body \in getManifestData : Begin("DeleteEverest", <<body>>)

(* Nothing is deleted where the CRD of the agents is not found; another    *)
(* error of the call that asks for it counts as its presence.              *)
DeleteAllMonitoringResources ==
    \/ Begin("DeleteAllMonitoringResources", <<Labelled>>)
    \/ /\ VMAgentCRD \notin present
       /\ Begin("DeleteAllMonitoringResources", << <<>> >>)

InProgress == outcome = "busy"
Deletes == operation \in {"DeleteEverest", "DeleteAllMonitoringResources"}
Fail == outcome' = "failed" /\ UNCHANGED <<documents, attempt>>

ApplyDocument ==
    /\ InProgress /\ ~Deletes /\ documents # <<>>
    /\ present' = present \cup {Head(documents)}
    /\ documents' = Tail(documents)
    /\ UNCHANGED <<operation, files, attempt, outcome, unnoticed, failures>>

(* The error of the last attempt gets lost.                                *)
RetryShadowed ==
    \/ /\ attempt < 2
       /\ attempt' = attempt + 1
       /\ documents' = getObjects(Head(files))
       /\ UNCHANGED outcome
    \/ attempt = 2 /\ documents' = <<>> /\ UNCHANGED <<attempt, outcome>>
(* Four attempts.                                                          *)
RetryFour ==
    \/ /\ attempt < 3
       /\ attempt' = attempt + 1
       /\ documents' = getObjects(Head(files))
       /\ UNCHANGED outcome
    \/ attempt = 3 /\ Fail
(* The attempts are not counted.                                           *)
RetryAlways ==
    /\ documents' = getObjects(Head(files))
    /\ UNCHANGED <<attempt, outcome>>
(* Three attempts for each file, each from the start of the file.          *)
Retry ==
    \/ /\ attempt < 2
       /\ attempt' = attempt + 1
       /\ documents' = getObjects(Head(files))
       /\ UNCHANGED outcome
    \/ attempt = 2 /\ Fail
ApplyFails ==
    /\ InProgress /\ ~Deletes /\ documents # <<>>
    /\ failures' = IF failures < 3 THEN failures + 1 ELSE failures
    /\ IF operation = "ProvisionMonitoring" THEN Retry ELSE Fail
    /\ UNCHANGED <<present, operation, files, unnoticed>>

(* An object whose GET fails is taken for absent; an API group that cannot *)
(* be discovered is passed over. Other errors end the operation.           *)
DeleteDocument ==
    /\ InProgress /\ Deletes /\ documents # <<>>
    /\ \/ /\ present' = present \ {Head(documents)}
          /\ documents' = Tail(documents)
          /\ UNCHANGED <<attempt, outcome, unnoticed>>
       \/ /\ documents' = Tail(documents)
          /\ unnoticed' = TRUE
          /\ UNCHANGED <<present, attempt, outcome>>
       \/ Fail /\ UNCHANGED <<present, unnoticed>>
    /\ UNCHANGED <<operation, files, failures>>

FileDone ==
    /\ InProgress /\ documents = <<>>
    /\ files' = Tail(files)
    /\ documents' = IF Len(files) > 1 THEN getObjects(files[2]) ELSE <<>>
    /\ outcome' = IF Len(files) > 1 THEN "busy"
                  ELSE IF operation = "InstallEverest" THEN "waiting" ELSE "ok"
    /\ attempt' = 0 /\ failures' = 0
    /\ UNCHANGED <<present, operation, unnoticed>>

(* DoRolloutWait takes a Deployment that is absent for one to come.        *)
RolloutDone ==
    /\ outcome = "waiting" /\ EverestDeployment \in present
    /\ outcome' = "ok"
    /\ UNCHANGED <<present, operation, files, documents, attempt, unnoticed,
                   failures>>
(* Cancelled, or the progress deadline is exceeded.                        *)
RolloutFails ==
    /\ outcome = "waiting"
    /\ Fail
    /\ UNCHANGED <<present, operation, files, unnoticed, failures>>

(* What a call does by itself, request after request. That a rollout comes *)
(* to an end is not up to the client: its poll has no deadline.            *)
ManifestProgress ==
    \/ ApplyDocument \/ ApplyFails \/ DeleteDocument \/ FileDone

ManifestNext ==
    \/ ProvisionMonitoring \/ InstallEverest \/ DeleteEverest
    \/ DeleteAllMonitoringResources
    \/ ManifestProgress \/ RolloutDone \/ RolloutFails

ManifestSpec == ManifestInit /\ [][ManifestNext]_manifestVars

-----------------------------------------------------------------------------
Gone(S) == S \cap present = {}

(* What a call reports is what it did: success means that each object of   *)
(* each file was applied, or deleted, and monitoring gives up only after   *)
(* three failures with one file. The errors nobody is told of - a body     *)
(* that is no YAML, a failed GET, an API group that is not discovered -    *)
(* are the only exceptions.                                                *)
OutcomeIsTrue ==
    /\ outcome = "ok" /\ ~unnoticed =>
         CASE operation = "ProvisionMonitoring" ->
                MonitoringObjects \subseteq present
           [] operation = "InstallEverest" ->
                Contents(Manifest) \subseteq present
           [] operation = "DeleteEverest" -> Gone(Contents(Manifest))
           [] operation = "DeleteAllMonitoringResources" ->
                VMAgentCRD \notin present \/ Gone(Contents(Labelled))
           [] OTHER -> TRUE
    /\ outcome = "failed" /\ operation = "ProvisionMonitoring" => failures = 3

(* Every call comes to an end, or to the wait for the rollout of Everest,  *)
(* with the whole manifest applied: whatever fails and is tried again, no  *)
(* call applies and deletes for ever. The wait itself may last: neither    *)
(* the rollout nor, where a page that is no YAML was taken for the         *)
(* manifest, the Deployment need ever come.                                *)
AwaitsRollout ==
    /\ outcome = "waiting" /\ operation = "InstallEverest"
    /\ unnoticed \/ Contents(Manifest) \subseteq present
CallsEnd == InProgress ~> outcome \in {"ok", "failed"} \/ AwaitsRollout

-----------------------------------------------------------------------------
(* Inductive invariant                                                     *)

Left == Documents(documents)
          \cup UNION {Contents(files[i]) : i \in 2 .. Len(files)}

(* The operation has done what it is to do, but for some objects.          *)
DoneBut(S) ==
    CASE operation = "ProvisionMonitoring" ->
           MonitoringObjects \subseteq present \cup S
      [] operation = "InstallEverest" ->
           Contents(Manifest) \subseteq present \cup S
      [] operation = "DeleteEverest" -> Gone(Contents(Manifest) \ S)
      [] operation = "DeleteAllMonitoringResources" ->
           VMAgentCRD \notin present \/ Gone(Contents(Labelled) \ S)
      [] OTHER -> TRUE

(* Up to what nobody is told of, all is done but for the rest of the       *)
(* current file and the files after it. An attempt that begins again has   *)
(* the whole file before it; what was applied of it stays.                 *)
ManifestInv ==
    /\ outcome = "busy" =>
          /\ ~unnoticed => /\ documents \in Seq(Documents(documents))
                           /\ DoneBut(Left)
          /\ operation # "ProvisionMonitoring" => Len(files) = 1
          /\ operation = "ProvisionMonitoring" =>
                /\ files \in Seq(Documents(MonitoringFiles)) \ {<<>>}
                /\ Documents(documents) \subseteq Contents(files[1])
                /\ attempt = failures /\ failures \in 0 .. 2
    /\ outcome = "waiting" => operation = "InstallEverest"
    /\ outcome \in {"waiting", "ok"} /\ ~unnoticed => DoneBut({})
    /\ operation = "ProvisionMonitoring" =>
          ~unnoticed /\ (outcome = "failed" => failures = 3)
=============================================================================
