------------------------- MODULE ManagedNamespaces -------------------------
(***************************************************************************)
(* Everest keeps the list of the namespaces it manages in three objects of *)
(* the cluster, and no transaction covers the three:                       *)
(*                                                                         *)
(*   operatorGroup  the targets of the OperatorGroup of everest-system     *)
(*   subscription   DB_NAMESPACES in the everest-operator Subscription     *)
(*   binding        the subjects of everest-admin-cluster-role-binding     *)
(*                                                                         *)
(* Every invocation of `everestctl install` or `everestctl upgrade` is a   *)
(* process that reads and writes them one API call at a time. Re-running a *)
(* command after a crash is another member of Cli. The API server refuses  *)
(* an update made from a copy that is no longer current, and a create of   *)
(* an object that exists. Waits for OLM and pods write none of this state: *)
(* a wait that ends badly is Fail, one that ends well is not a step.       *)
(***************************************************************************)
EXTENDS Naturals

CONSTANTS
    Namespaces,       \* what a user may pass in --namespaces
    System,           \* everest-system, reserved
    Cli,              \* invocations of everestctl
    Commands,         \* the commands they may run
    Installed,        \* what a completed install registered; {}: no Everest
    MaxStatusWrites   \* bound on OLM's writes of the status of an object

ASSUME SystemReserved    == System \notin Namespaces
ASSUME CommandsKnown     == Commands \subseteq {"install", "upgrade"}
ASSUME InstalledValid    == Installed \subseteq Namespaces
ASSUME BoundNat          == MaxStatusWrites \in Nat

VARIABLES
    operatorGroup, subscription, binding,  \* the three objects
    systemNamespace,    \* everest-system exists
    everestDeployed,    \* the percona-everest Deployment exists
    pc, command, list,  \* of each invocation
    copy,               \* the object the invocation read last
    pending,            \* manifest objects it still has to apply
    recorded,           \* invocations whose subscription write was accepted
    alone,              \* invocations that no other one overlapped
    statusWrites

objects == <<operatorGroup, subscription, binding>>
process == <<pc, command, list, copy, pending>>
vars == <<operatorGroup, subscription, binding, systemNamespace,
          everestDeployed, pc, command, list, copy, pending, recorded, alone,
          statusWrites>>

Manifest == {"deployment", "binding"}

Running == {"createNamespace", "getOperatorGroup", "createOperatorGroup",
            "applyOperatorGroup", "getSubscription", "createSubscription",
            "updateSubscription", "getDeployment", "installEverest",
            "getBinding", "applyBinding"}

Ended == {"done", "failed"}

(* An object is absent at version 0; every write raises its version.       *)
Objects == [version : Nat, namespaces : SUBSET (Namespaces \cup {System})]
Absent == [version |-> 0, namespaces |-> {}]
Exists(object) == object.version > 0
Written(object, namespaces) ==
    [version |-> object.version + 1, namespaces |-> namespaces]

(* The API server's optimistic lock: the resourceVersion sent is current.  *)
Current(c, object) == copy[c].version = object.version

TypeOK ==
    /\ operatorGroup \in Objects /\ subscription \in Objects
    /\ binding \in Objects
    /\ systemNamespace \in BOOLEAN /\ everestDeployed \in BOOLEAN
    /\ pc \in [Cli -> Running \cup Ended \cup {"idle"}]
    /\ command \in [Cli -> Commands \cup {"none"}]
    /\ list \in [Cli -> SUBSET Namespaces]
    /\ copy \in [Cli -> Objects]
    /\ pending \in [Cli -> SUBSET Manifest]
    /\ recorded \subseteq Cli /\ alone \subseteq Cli
    /\ statusWrites \in 0 .. MaxStatusWrites

Found(namespaces) ==
    IF Installed = {} THEN Absent
                      ELSE [version |-> 1, namespaces |-> namespaces]

Init ==
    /\ operatorGroup = Found(Installed \cup {System})
    /\ subscription = Found(Installed)
    /\ binding = Found(Installed \cup {System})
    /\ systemNamespace = (Installed # {})
    /\ everestDeployed = (Installed # {})
    /\ pc = [c \in Cli |-> "idle"]
    /\ command = [c \in Cli |-> "none"]
    /\ list = [c \in Cli |-> {}]
    /\ copy = [c \in Cli |-> Absent]
    /\ pending = [c \in Cli |-> {}]
    /\ recorded = {} /\ alone = {}
    /\ statusWrites = 0

-----------------------------------------------------------------------------
Goto(c, step) == pc' = [pc EXCEPT ![c] = step]

Read(c, object) == copy' = [copy EXCEPT ![c] = object]

InFlight == {c \in Cli : pc[c] \in Running}

(* What the user asked for: a command and a validated list of namespaces.  *)
Start(c) ==
    /\ pc[c] = "idle"
    /\ alone' = IF InFlight = {} THEN alone \cup {c} ELSE alone \ InFlight
    /\ \E m \in Commands, l \in SUBSET Namespaces \ {{}} :
         /\ command' = [command EXCEPT ![c] = m]
         /\ list' = [list EXCEPT ![c] = l]
         /\ pending' = [pending EXCEPT
                ![c] = IF m = "upgrade" THEN Manifest ELSE {}]
         /\ Goto(c, IF m = "upgrade" THEN "installEverest"
                                     ELSE "createNamespace")
    /\ UNCHANGED <<objects, systemNamespace, everestDeployed, copy, recorded,
                   statusWrites>>

CreateNamespace(c) ==
    /\ pc[c] = "createNamespace"
    /\ systemNamespace' = TRUE
    /\ Goto(c, "getOperatorGroup")
    /\ UNCHANGED <<objects, everestDeployed, command, list, copy, pending,
                   recorded, alone, statusWrites>>

-----------------------------------------------------------------------------
(* provisionEverestOperator: the OperatorGroup                             *)

(* A trailing comma that validation lets through is an empty name.         *)
UnvalidatedTargets(c) == list[c] \cup {System, ""}
Targets(c) == list[c] \cup {System}

SomeTarget(c) == Targets(c) \cap operatorGroup.namespaces # {}
(* No target of the request is missing: the group is left as it is.        *)
AllTargets(c) == Targets(c) \subseteq operatorGroup.namespaces

GetOperatorGroup(c) ==
    /\ pc[c] = "getOperatorGroup"
    /\ Read(c, operatorGroup)
    /\ \/ /\ ~Exists(operatorGroup)
          /\ Goto(c, "createOperatorGroup")
       \/ /\ Exists(operatorGroup) /\ ~AllTargets(c)
          /\ Goto(c, "applyOperatorGroup")
       \/ /\ Exists(operatorGroup) /\ AllTargets(c)
          /\ Goto(c, "getSubscription")
    /\ UNCHANGED <<objects, systemNamespace, everestDeployed, command, list,
                   pending, recorded, alone, statusWrites>>

CreateOperatorGroup(c) ==
    /\ pc[c] = "createOperatorGroup"
    /\ \/ /\ ~Exists(operatorGroup)
          /\ operatorGroup' = Written(operatorGroup, Targets(c))
          /\ Goto(c, "getSubscription")
       \/ /\ Exists(operatorGroup)
          /\ Goto(c, "failed")
          /\ UNCHANGED operatorGroup
    /\ UNCHANGED <<subscription, binding, systemNamespace, everestDeployed,
                   command, list, copy, pending, recorded, alone, statusWrites>>

(* The targets are replaced by the request's, not extended.                *)
ApplyOperatorGroup(c) ==
    /\ pc[c] = "applyOperatorGroup"
    /\ \/ /\ Current(c, operatorGroup)
          /\ operatorGroup' = Written(operatorGroup, Targets(c))
          /\ Goto(c, "getSubscription")
       \/ /\ ~Current(c, operatorGroup)
          /\ Goto(c, "failed")
          /\ UNCHANGED operatorGroup
    /\ UNCHANGED <<subscription, binding, systemNamespace, everestDeployed,
                   command, list, copy, pending, recorded, alone, statusWrites>>

-----------------------------------------------------------------------------
(* InstallOperator: the Subscription                                       *)

GetSubscription(c) ==
    /\ pc[c] = "getSubscription"
    /\ Read(c, subscription)
    /\ Goto(c, IF Exists(subscription) THEN "updateSubscription"
                                       ELSE "createSubscription")
    /\ UNCHANGED <<objects, systemNamespace, everestDeployed, command, list,
                   pending, recorded, alone, statusWrites>>

(* AlreadyExists is swallowed: the command goes on, nothing was written.   *)
CreateSubscription(c) ==
    /\ pc[c] = "createSubscription"
    /\ Goto(c, "getDeployment")
    /\ \/ /\ ~Exists(subscription)
          /\ subscription' = Written(subscription, list[c])
          /\ recorded' = recorded \cup {c}
       \/ /\ Exists(subscription)
          /\ UNCHANGED <<subscription, recorded>>
    /\ UNCHANGED <<operatorGroup, binding, systemNamespace, everestDeployed,
                   command, list, copy, pending, alone, statusWrites>>

ReplacedNamespaces(c) == list[c]
(* DB_NAMESPACES is merged into what the copy holds.                       *)
MergedNamespaces(c) == copy[c].namespaces \cup list[c]

(* A conflict taken for success, as CreateSubscription takes AlreadyExists.*)
ConflictSwallowed(c) ==
    /\ pc[c] = "updateSubscription"
    /\ \/ /\ Current(c, subscription)
          /\ subscription' = Written(subscription, MergedNamespaces(c))
          /\ recorded' = recorded \cup {c}
       \/ /\ ~Current(c, subscription)
          /\ UNCHANGED <<subscription, recorded>>
    /\ Goto(c, "getDeployment")
    /\ UNCHANGED <<operatorGroup, binding, systemNamespace, everestDeployed,
                   command, list, copy, pending, alone, statusWrites>>

UpdateSubscription(c) ==
    /\ pc[c] = "updateSubscription"
    /\ \/ /\ Current(c, subscription)
          /\ subscription' = Written(subscription, MergedNamespaces(c))
          /\ recorded' = recorded \cup {c}
          /\ Goto(c, "getDeployment")
       \/ /\ ~Current(c, subscription)
          /\ Goto(c, "failed")
          /\ UNCHANGED <<subscription, recorded>>
    /\ UNCHANGED <<operatorGroup, binding, systemNamespace, everestDeployed,
                   command, list, copy, pending, alone, statusWrites>>

-----------------------------------------------------------------------------
(* provisionEverest: the manifest and the ClusterRoleBinding               *)

GetDeployment(c) ==
    /\ pc[c] = "getDeployment"
    /\ \/ /\ everestDeployed
          /\ Goto(c, "getBinding")
          /\ UNCHANGED pending
       \/ /\ ~everestDeployed
          /\ Goto(c, "installEverest")
          /\ pending' = [pending EXCEPT ![c] = Manifest]
    /\ UNCHANGED <<objects, systemNamespace, everestDeployed, command, list,
                   copy, recorded, alone, statusWrites>>

(* The manifest's binding has subjects in everest-system only, and carries *)
(* no resourceVersion: it overwrites the object there is.                  *)
InstallEverest(c) ==
    /\ pc[c] = "installEverest"
    /\ pending[c] # {}
    /\ systemNamespace
    /\ \E o \in pending[c] :
         /\ pending' = [pending EXCEPT ![c] = @ \ {o}]
         /\ \/ /\ o = "deployment"
               /\ everestDeployed' = TRUE
               /\ UNCHANGED binding
            \/ /\ o = "binding"
               /\ binding' = Written(binding, {System})
               /\ UNCHANGED everestDeployed
    /\ UNCHANGED <<operatorGroup, subscription, systemNamespace, pc, command,
                   list, copy, recorded, alone, statusWrites>>

EverestInstalled(c) ==
    /\ pc[c] = "installEverest"
    /\ pending[c] = {}
    /\ Goto(c, IF command[c] = "upgrade" THEN "done" ELSE "getBinding")
    /\ UNCHANGED <<objects, systemNamespace, everestDeployed, command, list,
                   copy, pending, recorded, alone, statusWrites>>

GetBinding(c) ==
    /\ pc[c] = "getBinding"
    /\ Read(c, binding)
    /\ \/ /\ ~Exists(binding)
          /\ Goto(c, "failed")
       \/ /\ Exists(binding) /\ ~(list[c] \subseteq binding.namespaces)
          /\ Goto(c, "applyBinding")
       \/ /\ Exists(binding) /\ list[c] \subseteq binding.namespaces
          /\ Goto(c, "done")
    /\ UNCHANGED <<objects, systemNamespace, everestDeployed, command, list,
                   pending, recorded, alone, statusWrites>>

UnversionedBinding(c) ==
    /\ pc[c] = "applyBinding"
    /\ binding' = Written(binding, copy[c].namespaces \cup list[c])
    /\ Goto(c, "done")
    /\ UNCHANGED <<operatorGroup, subscription, systemNamespace,
                   everestDeployed, command, list, copy, pending, recorded,
                   alone, statusWrites>>

ApplyBinding(c) ==
    /\ pc[c] = "applyBinding"
    /\ \/ /\ Current(c, binding)
          /\ binding' = Written(binding, copy[c].namespaces \cup list[c])
          /\ Goto(c, "done")
       \/ /\ ~Current(c, binding)
          /\ Goto(c, "failed")
          /\ UNCHANGED binding
    /\ UNCHANGED <<operatorGroup, subscription, systemNamespace,
                   everestDeployed, command, list, copy, pending, recorded,
                   alone, statusWrites>>

-----------------------------------------------------------------------------
(* Any call may fail, any wait may time out and the process may be killed: *)
(* no handler undoes what was already written.                             *)
Fail(c) ==
    /\ pc[c] \in Running
    /\ Goto(c, "failed")
    /\ UNCHANGED <<objects, systemNamespace, everestDeployed, command, list,
                   copy, pending, recorded, alone, statusWrites>>

(* OLM writes the status of a Subscription or an OperatorGroup.            *)
StatusWrite ==
    /\ statusWrites < MaxStatusWrites
    /\ statusWrites' = statusWrites + 1
    /\ \/ /\ Exists(subscription)
          /\ subscription' = Written(subscription, subscription.namespaces)
          /\ UNCHANGED operatorGroup
       \/ /\ Exists(operatorGroup)
          /\ operatorGroup' = Written(operatorGroup, operatorGroup.namespaces)
          /\ UNCHANGED subscription
    /\ UNCHANGED <<binding, systemNamespace, everestDeployed, process,
                   recorded, alone>>

Step(c) ==
    \/ Start(c) \/ CreateNamespace(c)
    \/ GetOperatorGroup(c) \/ CreateOperatorGroup(c) \/ ApplyOperatorGroup(c)
    \/ GetSubscription(c) \/ CreateSubscription(c) \/ UpdateSubscription(c)
    \/ GetDeployment(c) \/ InstallEverest(c) \/ EverestInstalled(c)
    \/ GetBinding(c) \/ ApplyBinding(c) \/ Fail(c)

(* Every invocation has ended: the system legitimately stops.              *)
Terminated ==
    /\ \A c \in Cli : pc[c] \in Ended
    /\ UNCHANGED vars

Next == (\E c \in Cli : Step(c)) \/ StatusWrite \/ Terminated

Spec == Init /\ [][Next]_vars
-----------------------------------------------------------------------------
(* Properties                                                              *)

Completed(c) == command[c] = "install" /\ pc[c] = "done"

(* DB_NAMESPACES, the list the operator watches, is exactly what the       *)
(* invocations whose write the API server accepted asked for: the stale    *)
(* copy an invocation merges into never drops another one's namespaces,    *)
(* however the reads and writes interleave and wherever they fail.         *)
MonitoredIsUnion ==
    subscription.namespaces = Installed \cup UNION {list[c] : c \in recorded}

(* A namespace the operator watches is never dropped by any step of an     *)
(* install, an upgrade or OLM (mergeSubscriptionConfig keeps old values).  *)
MonitoredNeverShrink ==
    [][subscription.namespaces \subseteq subscription'.namespaces]_subscription

(* When an install that no other command overlapped reports success, its   *)
(* namespaces are in all three objects, whatever earlier commands that     *)
(* crashed halfway or raced with each other left behind.                   *)
RegisteredOnCompletion ==
    [][\A c \in alone :
         ~Completed(c) /\ Completed(c)' =>
            list[c] \subseteq operatorGroup'.namespaces
                       \cap subscription'.namespaces
                       \cap binding'.namespaces]_vars

(* What an install reported stays watched by the operator and granted to   *)
(* everest-admin, whatever later or concurrent installs do. Everest must   *)
(* be on the cluster already: of two first installs at once, the one that  *)
(* finds the Subscription there reports a list that was never written.     *)
(* Upgrades break it (GrantsSurviveUpgrade).                               *)
ReportedStays ==
    \A c \in Cli : Completed(c) =>
        list[c] \subseteq subscription.namespaces \cap binding.namespaces

(* Every command so far has succeeded and none overlapped another.         *)
Undisturbed == \A c \in Cli : pc[c] = "idle" \/ (pc[c] = "done" /\ c \in alone)

(* GetDBNamespaces "returns a list of namespaces that are monitored by the *)
(* Everest operator": every one of them should be a target of the          *)
(* operator's OperatorGroup.                                               *)
MonitoredAreTargeted ==
    Undisturbed => subscription.namespaces \subseteq operatorGroup.namespaces

(* An upgrade takes a "validated list of namespaces that everest can       *)
(* operate in": the namespaces everest-admin was bound in should still be  *)
(* bound afterwards.                                                       *)
GrantsSurviveUpgrade == Undisturbed => Installed \subseteq binding.namespaces

-----------------------------------------------------------------------------
(* What the Subscription promises to an install, seen from outside         *)

status ==
    [c \in Cli |->
        IF command[c] # "install" THEN "idle"
        ELSE IF pc[c] = "done" THEN "reported"
        ELSE IF pc[c] = "failed" THEN "aborted"
        ELSE IF c \in recorded THEN "registered" ELSE "running"]

request == [c \in Cli |-> IF command[c] = "install" THEN list[c] ELSE {}]

Promise == INSTANCE Registry WITH managed <- subscription.namespaces

(* The Subscription steps implement a registry where a request is added    *)
(* atomically and nothing is reported before it was added.                 *)
ImplementsRegistry == Promise!Spec
-----------------------------------------------------------------------------
(* Inductive invariants                                                    *)

(* A copy that is current still holds what the object holds.               *)
Faithful(c, object) ==
    /\ copy[c].version <= object.version
    /\ Current(c, object) => copy[c].namespaces = object.namespaces

(* What MonitoredIsUnion rests on: an invocation about to update the       *)
(* Subscription holds an old version of it or exactly what it contains, so *)
(* the optimistic lock decides whether the merge is a merge.               *)
SubscriptionInv ==
    /\ \A c \in Cli :
         pc[c] = "updateSubscription" => Faithful(c, subscription)
    /\ ~Exists(subscription) => subscription.namespaces = {}
    /\ \A c \in recorded : pc[c] # "idle"
    /\ MonitoredIsUnion

BeforeSubscription == {"createNamespace", "getOperatorGroup",
    "createOperatorGroup", "applyOperatorGroup", "getSubscription",
    "updateSubscription"}
AfterSubscription == {"getDeployment", "installEverest", "getBinding",
    "applyBinding", "done"}

(* What RegisteredOnCompletion rests on: an install nobody overlaps has    *)
(* behind it the objects it went past, whatever it found there; only if no *)
(* Subscription was there does it take the path on which AlreadyExists     *)
(* would be swallowed.                                                     *)
AfterGroup == {"getSubscription", "createSubscription", "updateSubscription"}
                \cup (AfterSubscription \ {"done"})
Reached(c) ==
    /\ pc[c] \in AfterGroup => list[c] \subseteq operatorGroup.namespaces
    /\ pc[c] \in AfterGroup \cap AfterSubscription =>
          list[c] \subseteq subscription.namespaces
    /\ pc[c] = "createSubscription" => ~Exists(subscription)
Alone(c) ==
    /\ pc[c] # "idle"
    /\ pc[c] \in Running => InFlight = {c}
    /\ command[c] = "install" => Reached(c)
AloneInv == \A c \in alone : Alone(c)

Tracked(c) ==
    /\ command[c] = "none" <=> pc[c] = "idle"
    /\ command[c] = "install" =>
         /\ pc[c] \in BeforeSubscription => c \notin recorded
         /\ pc[c] \in AfterSubscription => c \in recorded
         /\ pc[c] \in BeforeSubscription \cup AfterSubscription \cup {"failed"}
    /\ command[c] = "upgrade" => pc[c] \in {"installEverest", "done", "failed"}

(* Where Everest is installed, no install ever takes the create path, so   *)
(* being past the Subscription means having written it: this is what makes *)
(* the program counter a refinement of the registry's status.              *)
ReinstallInv == Exists(subscription) /\ \A c \in Cli : Tracked(c)

(* Installs on a cluster that has Everest never reapply the manifest: the  *)
(* binding only grows, by updates made from a current copy.                *)
BindingInv ==
    /\ everestDeployed /\ Exists(binding)
    /\ \A c \in Cli :
         /\ pc[c] # "installEverest"
         /\ pc[c] = "applyBinding" => Faithful(c, binding)
    /\ ReportedStays
=============================================================================
