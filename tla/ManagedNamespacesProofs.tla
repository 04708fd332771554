---------------------- MODULE ManagedNamespacesProofs ----------------------
(***************************************************************************)
(* Proofs about ManagedNamespaces, for any namespaces and any number of    *)
(* invocations of everestctl.                                              *)
(***************************************************************************)
EXTENDS ManagedNamespaces, TLAPS

(* Writing an object raises its version and sets its namespaces.           *)
LEMMA WrittenObject ==
    ASSUME NEW object \in Objects,
           NEW namespaces \in SUBSET (Namespaces \cup {System})
    PROVE  /\ Written(object, namespaces) \in Objects
           /\ Written(object, namespaces).version = object.version + 1
           /\ Written(object, namespaces).namespaces = namespaces
BY DEF Written, Objects

-----------------------------------------------------------------------------
(* Type correctness                                                        *)

LEMMA InitType == Init => TypeOK
<1> SUFFICES ASSUME Init PROVE TypeOK
    OBVIOUS
<1>1. ASSUME NEW s \in SUBSET (Namespaces \cup {System})
      PROVE  Found(s) \in Objects
      BY <1>1 DEF Found, Absent, Objects
<1>2. Absent \in Objects
      BY DEF Absent, Objects
<1> QED
    BY <1>1, <1>2, InstalledValid, BoundNat DEF Init, TypeOK

LEMMA StepType == ASSUME TypeOK, NEW c \in Cli, Step(c) PROVE TypeOK'
<1> USE DEF TypeOK, Goto, Read
<1>1. CASE Start(c)
      <2>1. PICK m \in Commands, l \in SUBSET Namespaces \ {{}} :
               /\ command' = [command EXCEPT ![c] = m]
               /\ list' = [list EXCEPT ![c] = l]
               /\ pending' = [pending EXCEPT
                      ![c] = IF m = "upgrade" THEN Manifest ELSE {}]
               /\ pc' = [pc EXCEPT ![c] = IF m = "upgrade"
                                THEN "installEverest" ELSE "createNamespace"]
            BY <1>1 DEF Start
      <2>2. pc' \in [Cli -> Running \cup Ended \cup {"idle"}]
            BY <2>1 DEF Running
      <2> QED BY <1>1, <2>1, <2>2 DEF Start, objects
<1>2. CASE CreateNamespace(c)
      BY <1>2 DEF CreateNamespace, objects, Running
<1>3. CASE GetOperatorGroup(c)
      BY <1>3 DEF GetOperatorGroup, objects, Running
<1>4. CASE CreateOperatorGroup(c)
      <2>1. Targets(c) \in SUBSET (Namespaces \cup {System})
            BY DEF Targets
      <2> QED BY <1>4, <2>1, WrittenObject
              DEF CreateOperatorGroup, Running, Ended
<1>5. CASE ApplyOperatorGroup(c)
      <2>1. Targets(c) \in SUBSET (Namespaces \cup {System})
            BY DEF Targets
      <2> QED BY <1>5, <2>1, WrittenObject
              DEF ApplyOperatorGroup, Running, Ended
<1>6. CASE GetSubscription(c)
      BY <1>6 DEF GetSubscription, objects, Running
<1>7. CASE CreateSubscription(c)
      <2>1. list[c] \in SUBSET (Namespaces \cup {System})
            OBVIOUS
      <2> QED BY <1>7, <2>1, WrittenObject DEF CreateSubscription, Running
<1>8. CASE UpdateSubscription(c)
      <2>1. MergedNamespaces(c) \in SUBSET (Namespaces \cup {System})
            BY DEF MergedNamespaces, Objects
      <2> QED BY <1>8, <2>1, WrittenObject
              DEF UpdateSubscription, Running, Ended
<1>9. CASE GetDeployment(c)
      BY <1>9 DEF GetDeployment, objects, Running
<1>10. CASE InstallEverest(c)
      <2>1. PICK o \in pending[c] :
               /\ pending' = [pending EXCEPT ![c] = @ \ {o}]
               /\ \/ everestDeployed' = TRUE /\ UNCHANGED binding
                  \/ /\ binding' = Written(binding, {System})
                     /\ UNCHANGED everestDeployed
            BY <1>10 DEF InstallEverest
      <2>2. Written(binding, {System}) \in Objects
            BY WrittenObject
      <2> QED BY <1>10, <2>1, <2>2 DEF InstallEverest
<1>11. CASE EverestInstalled(c)
      BY <1>11 DEF EverestInstalled, objects, Running, Ended
<1>12. CASE GetBinding(c)
      BY <1>12 DEF GetBinding, objects, Running, Ended
<1>13. CASE ApplyBinding(c)
      <2>1. copy[c].namespaces \cup list[c] \in
               SUBSET (Namespaces \cup {System})
            BY DEF Objects
      <2> QED BY <1>13, <2>1, WrittenObject DEF ApplyBinding, Ended
<1>14. CASE Fail(c)
      BY <1>14 DEF Fail, objects, Ended
<1> QED
    BY <1>1, <1>2, <1>3, <1>4, <1>5, <1>6, <1>7, <1>8, <1>9, <1>10, <1>11,
       <1>12, <1>13, <1>14 DEF Step

LEMMA StatusWriteType == ASSUME TypeOK, StatusWrite PROVE TypeOK'
<1>1. /\ subscription.namespaces \in SUBSET (Namespaces \cup {System})
      /\ operatorGroup.namespaces \in SUBSET (Namespaces \cup {System})
      BY DEF TypeOK, Objects
<1>2. statusWrites' \in 0 .. MaxStatusWrites
      BY BoundNat DEF TypeOK, StatusWrite
<1> QED
    BY <1>1, <1>2, WrittenObject DEF TypeOK, StatusWrite, process

(* Type correctness: every reachable state has its variables in range; in  *)
(* particular System is the only reserved name the objects ever hold.      *)
THEOREM TypeCorrect == Spec => []TypeOK
<1>1. TypeOK /\ [Next]_vars => TypeOK'
      <2> SUFFICES ASSUME TypeOK, [Next]_vars PROVE TypeOK'
          OBVIOUS
      <2>1. CASE UNCHANGED vars
            BY <2>1 DEF vars, TypeOK
      <2>2. CASE Terminated
            BY <2>1, <2>2 DEF Terminated
      <2> QED BY <2>1, <2>2, StepType, StatusWriteType DEF Next
<1> QED BY <1>1, InitType, PTL DEF Spec
-----------------------------------------------------------------------------
(* The Subscription holds exactly what was recorded                        *)

LEMMA InitSubscription == Init => SubscriptionInv
BY DEF Init, SubscriptionInv, MonitoredIsUnion, Found, Absent, Exists

(* Most steps leave the Subscription, the requests and the record alone    *)
(* and do not reach updateSubscription.                                    *)
LEMMA SubscriptionUntouched ==
    ASSUME TypeOK, SubscriptionInv, NEW c \in Cli,
           UNCHANGED <<subscription, list, recorded>>,
           \A d \in Cli \ {c} : pc'[d] = pc[d] /\ copy'[d] = copy[d],
           pc'[c] \notin {"idle", "updateSubscription"}
    PROVE  SubscriptionInv'
<1>1. subscription' = subscription /\ list' = list /\ recorded' = recorded
      OBVIOUS
<1>2. MonitoredIsUnion'
      BY <1>1 DEF SubscriptionInv, MonitoredIsUnion
<1>3. \A d \in Cli : pc'[d] = "updateSubscription" =>
                         Faithful(d, subscription)'
      BY <1>1 DEF SubscriptionInv, Faithful, Current
<1>4. \A d \in recorded' : pc'[d] # "idle"
      BY <1>1 DEF SubscriptionInv, TypeOK
<1> QED BY <1>1, <1>2, <1>3, <1>4 DEF SubscriptionInv, Exists

(* The update is accepted only from a faithful copy, so the merge adds the *)
(* request to all that was recorded before; it makes older copies stale.   *)
LEMMA UpdateRecorded ==
    ASSUME TypeOK, SubscriptionInv, NEW c \in Cli, UpdateSubscription(c)
    PROVE  SubscriptionInv'
<1>1. CASE ~Current(c, subscription)
      <2>1. UNCHANGED <<subscription, list, recorded, copy>>
            BY <1>1 DEF UpdateSubscription
      <2>2. pc' = [pc EXCEPT ![c] = "failed"]
            BY <1>1 DEF UpdateSubscription, Goto
      <2> QED BY <2>1, <2>2, SubscriptionUntouched DEF TypeOK
<1>2. CASE Current(c, subscription)
      <2>1. /\ subscription' = Written(subscription, MergedNamespaces(c))
            /\ recorded' = recorded \cup {c}
            /\ pc' = [pc EXCEPT ![c] = "getDeployment"]
            /\ UNCHANGED <<copy, list>>
            BY <1>2 DEF UpdateSubscription, Goto
      <2>2. copy[c].namespaces = subscription.namespaces
            BY <1>2 DEF SubscriptionInv, Faithful, UpdateSubscription
      <2>3. /\ subscription'.version = subscription.version + 1
            /\ subscription'.namespaces = subscription.namespaces \cup list[c]
            BY <2>1, <2>2 DEF Written, MergedNamespaces
      <2>4. MonitoredIsUnion'
            BY <2>1, <2>3 DEF MonitoredIsUnion, SubscriptionInv
      <2>5. \A d \in Cli : pc'[d] = "updateSubscription" =>
                               Faithful(d, subscription)'
            <3> SUFFICES ASSUME NEW d \in Cli, pc'[d] = "updateSubscription"
                         PROVE  Faithful(d, subscription)'
                OBVIOUS
            <3>1. copy[d].version <= subscription.version
                  BY <2>1 DEF SubscriptionInv, Faithful, TypeOK
            <3> QED BY <2>1, <2>3, <3>1
                    DEF Faithful, Current, TypeOK, Objects
      <2>6. \A d \in recorded' : pc'[d] # "idle"
            BY <2>1 DEF SubscriptionInv, TypeOK
      <2>7. Exists(subscription)'
            BY <2>3 DEF Exists, TypeOK, Objects
      <2> QED BY <2>4, <2>5, <2>6, <2>7 DEF SubscriptionInv
<1> QED BY <1>1, <1>2

(* The create is accepted only when nothing was recorded yet.              *)
LEMMA CreateRecorded ==
    ASSUME TypeOK, SubscriptionInv, NEW c \in Cli, CreateSubscription(c)
    PROVE  SubscriptionInv'
<1>0. /\ pc' = [pc EXCEPT ![c] = "getDeployment"]
      /\ UNCHANGED <<copy, list>>
      BY DEF CreateSubscription, Goto
<1>1. CASE Exists(subscription)
      <2>1. UNCHANGED <<subscription, recorded>>
            BY <1>1 DEF CreateSubscription
      <2> QED BY <1>0, <2>1, SubscriptionUntouched DEF TypeOK
<1>2. CASE ~Exists(subscription)
      <2>1. /\ subscription' = Written(subscription, list[c])
            /\ recorded' = recorded \cup {c}
            BY <1>2 DEF CreateSubscription
      <2>2. /\ subscription'.version = subscription.version + 1
            /\ subscription'.namespaces = list[c]
            BY <2>1 DEF Written
      <2>3. subscription.namespaces = {}
            BY <1>2 DEF SubscriptionInv
      <2>4. MonitoredIsUnion'
            BY <1>0, <2>1, <2>2, <2>3 DEF MonitoredIsUnion, SubscriptionInv
      <2>5. \A d \in Cli : pc'[d] = "updateSubscription" =>
                               Faithful(d, subscription)'
            <3> SUFFICES ASSUME NEW d \in Cli, pc'[d] = "updateSubscription"
                         PROVE  Faithful(d, subscription)'
                OBVIOUS
            <3>1. copy[d].version <= subscription.version
                  BY <1>0 DEF SubscriptionInv, Faithful, TypeOK
            <3> QED BY <1>0, <2>2, <3>1
                    DEF Faithful, Current, TypeOK, Objects
      <2>6. \A d \in recorded' : pc'[d] # "idle"
            BY <1>0, <2>1 DEF SubscriptionInv, TypeOK
      <2>7. Exists(subscription)'
            BY <2>2 DEF Exists, TypeOK, Objects
      <2> QED BY <2>4, <2>5, <2>6, <2>7 DEF SubscriptionInv
<1> QED BY <1>1, <1>2

LEMMA StepSubscription ==
    ASSUME TypeOK, SubscriptionInv, NEW c \in Cli, Step(c)
    PROVE  SubscriptionInv'
<1> USE DEF Goto
<1>1. CASE Start(c)
      <2>1. /\ pc[c] = "idle" /\ pc'[c] # "idle"
            /\ pc'[c] # "updateSubscription"
            /\ \A d \in Cli \ {c} : pc'[d] = pc[d] /\ list'[d] = list[d]
            /\ UNCHANGED <<subscription, copy, recorded>>
            BY <1>1 DEF Start, TypeOK, objects
      <2>2. c \notin recorded
            BY <2>1 DEF SubscriptionInv
      <2>3. \A d \in recorded : d \in Cli \ {c}
            BY <2>2 DEF TypeOK
      <2>4. \A d \in recorded : list'[d] = list[d]
            BY <2>1, <2>3
      <2>5. {list'[d] : d \in recorded} = {list[d] : d \in recorded}
            BY <2>4
      <2>6. MonitoredIsUnion'
            BY <2>1, <2>5 DEF MonitoredIsUnion, SubscriptionInv
      <2>7. \A d \in Cli : pc'[d] = "updateSubscription" =>
                               Faithful(d, subscription)'
            BY <2>1 DEF SubscriptionInv, Faithful, Current
      <2>8. \A d \in recorded' : pc'[d] # "idle"
            BY <2>1, <2>3 DEF SubscriptionInv
      <2> QED BY <2>1, <2>6, <2>7, <2>8 DEF SubscriptionInv, Exists
<1>2. CASE GetSubscription(c)
      <2>1. /\ UNCHANGED <<subscription, list, recorded>>
            /\ pc'[c] \in {"updateSubscription", "createSubscription"}
            /\ copy'[c] = subscription
            /\ \A d \in Cli \ {c} : pc'[d] = pc[d] /\ copy'[d] = copy[d]
            BY <1>2 DEF GetSubscription, Read, TypeOK, objects
      <2>2. subscription.version <= subscription.version
            BY DEF TypeOK, Objects
      <2>3. MonitoredIsUnion'
            BY <2>1 DEF SubscriptionInv, MonitoredIsUnion
      <2>4. \A d \in Cli : pc'[d] = "updateSubscription" =>
                               Faithful(d, subscription)'
            BY <2>1, <2>2 DEF SubscriptionInv, Faithful, Current
      <2>5. \A d \in recorded' : pc'[d] # "idle"
            BY <2>1 DEF SubscriptionInv, TypeOK
      <2> QED BY <2>1, <2>3, <2>4, <2>5 DEF SubscriptionInv, Exists
<1>3. CASE CreateNamespace(c)
      BY <1>3, SubscriptionUntouched DEF CreateNamespace, objects, TypeOK
<1>4. CASE GetOperatorGroup(c)
      BY <1>4, SubscriptionUntouched
         DEF GetOperatorGroup, Read, objects, TypeOK
<1>5. CASE CreateOperatorGroup(c)
      BY <1>5, SubscriptionUntouched DEF CreateOperatorGroup, TypeOK
<1>6. CASE ApplyOperatorGroup(c)
      BY <1>6, SubscriptionUntouched DEF ApplyOperatorGroup, TypeOK
<1>7. CASE GetDeployment(c)
      BY <1>7, SubscriptionUntouched DEF GetDeployment, objects, TypeOK
<1>8. CASE InstallEverest(c)
      <2>1. /\ UNCHANGED <<subscription, list, recorded, pc, copy>>
            /\ pc[c] = "installEverest"
            BY <1>8 DEF InstallEverest
      <2> QED BY <2>1, SubscriptionUntouched
<1>9. CASE EverestInstalled(c)
      BY <1>9, SubscriptionUntouched DEF EverestInstalled, objects, TypeOK
<1>10. CASE GetBinding(c)
      BY <1>10, SubscriptionUntouched DEF GetBinding, Read, objects, TypeOK
<1>11. CASE ApplyBinding(c)
      BY <1>11, SubscriptionUntouched DEF ApplyBinding, TypeOK
<1>12. CASE Fail(c)
      BY <1>12, SubscriptionUntouched DEF Fail, objects, TypeOK
<1> QED
    BY <1>1, <1>2, <1>3, <1>4, <1>5, <1>6, <1>7, <1>8, <1>9, <1>10, <1>11,
       <1>12, CreateRecorded, UpdateRecorded DEF Step

LEMMA StatusWriteSubscription ==
    ASSUME TypeOK, SubscriptionInv, StatusWrite PROVE SubscriptionInv'
<1>1. /\ subscription'.namespaces = subscription.namespaces
      /\ \/ subscription' = subscription
         \/ subscription'.version = subscription.version + 1
      /\ UNCHANGED <<pc, list, copy, recorded>>
      BY DEF StatusWrite, Written, process
<1>2. \A d \in Cli : pc'[d] = "updateSubscription" =>
                         Faithful(d, subscription)'
      <2> SUFFICES ASSUME NEW d \in Cli, pc'[d] = "updateSubscription"
                   PROVE  Faithful(d, subscription)'
          OBVIOUS
      <2>1. Faithful(d, subscription)
            BY <1>1 DEF SubscriptionInv
      <2> QED BY <1>1, <2>1 DEF Faithful, Current, TypeOK, Objects
<1>3. MonitoredIsUnion'
      BY <1>1 DEF SubscriptionInv, MonitoredIsUnion
<1>4. (~Exists(subscription) => subscription.namespaces = {})'
      BY <1>1 DEF SubscriptionInv, Exists, TypeOK, Objects
<1> QED BY <1>1, <1>2, <1>3, <1>4 DEF SubscriptionInv

(* A copy of the Subscription that has its version has its contents: the   *)
(* reason why no accepted write loses what another one has added.          *)
THEOREM SubscriptionInvariant == Spec => []SubscriptionInv
<1>1. TypeOK /\ SubscriptionInv /\ [Next]_vars => SubscriptionInv'
      <2> SUFFICES ASSUME TypeOK, SubscriptionInv, [Next]_vars
                   PROVE  SubscriptionInv'
          OBVIOUS
      <2>1. CASE UNCHANGED vars
            BY <2>1 DEF vars, SubscriptionInv, MonitoredIsUnion, Faithful,
                        Current, Exists
      <2>2. CASE Terminated
            BY <2>1, <2>2 DEF Terminated
      <2> QED BY <2>1, <2>2, StepSubscription, StatusWriteSubscription
              DEF Next
<1> QED BY <1>1, InitSubscription, TypeCorrect, PTL DEF Spec

(* DB_NAMESPACES is the union of what the accepted writes asked for,       *)
(* however many invocations of install and upgrade run at once.            *)
THEOREM MonitoredUnion == Spec => []MonitoredIsUnion
<1>1. SubscriptionInv => MonitoredIsUnion
      BY DEF SubscriptionInv
<1> QED BY <1>1, SubscriptionInvariant, PTL
(* No step of any invocation or of OLM drops a watched namespace.          *)
THEOREM NeverShrink == Spec => MonitoredNeverShrink
<1>1. TypeOK /\ SubscriptionInv /\ [Next]_vars =>
          [subscription.namespaces \subseteq subscription'.namespaces]_subscription
      <2> SUFFICES ASSUME TypeOK, SubscriptionInv, [Next]_vars,
                          subscription' # subscription
                   PROVE  subscription.namespaces \subseteq subscription'.namespaces
          OBVIOUS
      <2>1. CASE StatusWrite
            BY <2>1 DEF StatusWrite, Written
      <2>2. ASSUME NEW c \in Cli, CreateSubscription(c)
            PROVE  subscription.namespaces \subseteq subscription'.namespaces
            BY <2>2 DEF CreateSubscription, SubscriptionInv
      <2>3. ASSUME NEW c \in Cli, UpdateSubscription(c)
            PROVE  subscription.namespaces \subseteq subscription'.namespaces
            BY <2>3 DEF UpdateSubscription, SubscriptionInv, Faithful,
                        Written, MergedNamespaces
      <2> QED BY <2>1, <2>2, <2>3
              DEF Next, Step, vars, objects, Terminated, Start,
                  CreateNamespace, GetOperatorGroup, CreateOperatorGroup,
                  ApplyOperatorGroup, GetSubscription, GetDeployment,
                  InstallEverest, EverestInstalled, GetBinding,
                  ApplyBinding, Fail
<1> QED BY <1>1, TypeCorrect, SubscriptionInvariant, PTL
        DEF Spec, MonitoredNeverShrink

-----------------------------------------------------------------------------
(* Where Everest is installed: the program counter tracks the record       *)

(* A step of one invocation concerns that invocation alone.                *)
Frame(c) ==
    \A d \in Cli \ {c} :
       /\ pc'[d] = pc[d] /\ command'[d] = command[d] /\ list'[d] = list[d]
       /\ d \in recorded' <=> d \in recorded

LEMMA StepFrame == ASSUME TypeOK, NEW c \in Cli, Step(c) PROVE Frame(c)
BY DEF Step, Frame, TypeOK, Goto, Start, CreateNamespace, GetOperatorGroup,
       CreateOperatorGroup, ApplyOperatorGroup, GetSubscription,
       CreateSubscription, UpdateSubscription, GetDeployment, InstallEverest,
       EverestInstalled, GetBinding, ApplyBinding, Fail

LEMMA StepTracked ==
    ASSUME TypeOK, SubscriptionInv, ReinstallInv, NEW c \in Cli, Step(c)
    PROVE  Tracked(c)'
<1> USE CommandsKnown
        DEF ReinstallInv, Tracked, TypeOK, Goto, BeforeSubscription,
            AfterSubscription
<1>1. CASE Start(c)
      <2>1. command'[c] \in Commands /\ pc[c] = "idle" /\ recorded' = recorded
            BY <1>1 DEF Start
      <2>2. pc'[c] = IF command'[c] = "upgrade" THEN "installEverest"
                                                ELSE "createNamespace"
            BY <1>1 DEF Start
      <2>3. c \notin recorded
            BY <2>1 DEF SubscriptionInv
      <2> QED BY <2>1, <2>2, <2>3
<1>2. CASE CreateNamespace(c)
      BY <1>2 DEF CreateNamespace
<1>3. CASE GetOperatorGroup(c)
      BY <1>3 DEF GetOperatorGroup
<1>4. CASE CreateOperatorGroup(c)
      BY <1>4 DEF CreateOperatorGroup
<1>5. CASE ApplyOperatorGroup(c)
      BY <1>5 DEF ApplyOperatorGroup
<1>6. CASE GetSubscription(c)
      BY <1>6 DEF GetSubscription
<1>7. CASE CreateSubscription(c)
      BY <1>7 DEF CreateSubscription
<1>8. CASE UpdateSubscription(c)
      BY <1>8 DEF UpdateSubscription
<1>9. CASE GetDeployment(c)
      BY <1>9 DEF GetDeployment
<1>10. CASE InstallEverest(c)
      BY <1>10 DEF InstallEverest
<1>11. CASE EverestInstalled(c)
      BY <1>11 DEF EverestInstalled
<1>12. CASE GetBinding(c)
      BY <1>12 DEF GetBinding
<1>13. CASE ApplyBinding(c)
      BY <1>13 DEF ApplyBinding
<1>14. CASE Fail(c)
      BY <1>14 DEF Fail, Running
<1> QED
    BY <1>1, <1>2, <1>3, <1>4, <1>5, <1>6, <1>7, <1>8, <1>9, <1>10, <1>11,
       <1>12, <1>13, <1>14 DEF Step

(* An object's version never goes down, so what exists stays.              *)
LEMMA SubscriptionStays ==
    ASSUME TypeOK, Exists(subscription), [Next]_vars
    PROVE  Exists(subscription)'
<1>1. \/ subscription' = subscription
      \/ subscription'.version = subscription.version + 1
      BY DEF Next, Step, vars, objects, Written, Terminated, StatusWrite,
             Start, CreateNamespace, GetOperatorGroup, CreateOperatorGroup,
             ApplyOperatorGroup, GetSubscription, CreateSubscription,
             UpdateSubscription, GetDeployment, InstallEverest,
             EverestInstalled, GetBinding, ApplyBinding, Fail
<1> QED BY <1>1 DEF Exists, TypeOK, Objects

LEMMA ReinstallInvariant ==
    ASSUME Installed # {} PROVE Spec => []ReinstallInv
<1>1. Init => ReinstallInv
      BY CommandsKnown
         DEF Init, ReinstallInv, Tracked, Found, Exists, BeforeSubscription,
             AfterSubscription
<1>2. TypeOK /\ SubscriptionInv /\ ReinstallInv /\ [Next]_vars => ReinstallInv'
      <2> SUFFICES ASSUME TypeOK, SubscriptionInv, ReinstallInv, [Next]_vars
                   PROVE  ReinstallInv'
          OBVIOUS
      <2>1. Exists(subscription)'
            BY SubscriptionStays DEF ReinstallInv
      <2>2. ASSUME NEW c \in Cli, Step(c)
            PROVE  \A d \in Cli : Tracked(d)'
            <3>1. Frame(c)
                  BY <2>2, StepFrame
            <3>2. \A d \in Cli \ {c} : Tracked(d)'
                  BY <3>1 DEF Frame, ReinstallInv, Tracked
            <3> QED BY <2>2, <3>2, StepTracked
      <2>3. CASE UNCHANGED <<pc, command, recorded>>
            BY <2>1, <2>3 DEF ReinstallInv, Tracked
      <2> QED BY <2>1, <2>2, <2>3
              DEF Next, vars, Terminated, StatusWrite, process, ReinstallInv
<1> QED BY <1>1, <1>2, TypeCorrect, SubscriptionInvariant, PTL DEF Spec
-----------------------------------------------------------------------------
(* Where Everest is installed: refinement of the registry                  *)

(* The mapped variables after a step of c: those of the others are as they *)
(* were.                                                                   *)
LEMMA StatusFrame ==
    ASSUME NEW c \in Cli, Frame(c)
    PROVE  /\ status' = [status EXCEPT ![c] = status'[c]]
           /\ request' = [request EXCEPT ![c] = request'[c]]
<1>1. ASSUME NEW d \in Cli \ {c}
      PROVE  status'[d] = status[d] /\ request'[d] = request[d]
      <2>1. /\ pc'[d] = pc[d] /\ command'[d] = command[d]
            /\ list'[d] = list[d] /\ (d \in recorded' <=> d \in recorded)
            BY DEF Frame
      <2> QED BY <2>1 DEF status, request
<1>2. /\ status = [d \in Cli |-> status[d]]
      /\ request = [d \in Cli |-> request[d]]
      /\ status' = [d \in Cli |-> status'[d]]
      /\ request' = [d \in Cli |-> request'[d]]
      BY DEF status, request
<1> HIDE DEF status, request
<1>3. status' = [status EXCEPT ![c] = status'[c]]
      BY <1>1, <1>2
<1>4. request' = [request EXCEPT ![c] = request'[c]]
      BY <1>1, <1>2
<1> QED BY <1>3, <1>4

(* A step that neither records the request nor ends the invocation.        *)
LEMMA QuietStep ==
    ASSUME NEW c \in Cli, Frame(c), pc[c] \notin Ended, pc'[c] \notin Ended,
           UNCHANGED <<command, list, recorded>>
    PROVE  UNCHANGED <<status, request>>
<1>1. status'[c] = status[c] /\ request'[c] = request[c]
      BY DEF Ended, status, request
<1>2. /\ status = [d \in Cli |-> status[d]]
      /\ request = [d \in Cli |-> request[d]]
      BY DEF status, request
<1> QED BY <1>1, <1>2, StatusFrame

LEMMA AbortStep ==
    ASSUME TypeOK, NEW c \in Cli, Frame(c), pc[c] \in Running,
           pc'[c] = "failed",
           UNCHANGED <<subscription, command, list, recorded>>
    PROVE  Promise!Abort(c) \/ UNCHANGED <<status, request>>
<1>1. CASE command[c] = "install"
      <2>1. status[c] \in {"running", "registered"} /\ status'[c] = "aborted"
            BY <1>1 DEF status, Running
      <2>2. request' = request
            BY <1>1 DEF request
      <2> QED BY <2>1, <2>2, StatusFrame DEF Promise!Abort
<1>2. CASE command[c] # "install"
      BY <1>2 DEF Frame, status, request
<1> QED BY <1>1, <1>2

LEMMA ReportStep ==
    ASSUME TypeOK, ReinstallInv, NEW c \in Cli, Frame(c),
           pc[c] \in Running \cap AfterSubscription, pc'[c] = "done",
           UNCHANGED <<subscription, command, list, recorded>>
    PROVE  Promise!Report(c) \/ UNCHANGED <<status, request>>
<1>1. CASE command[c] = "install"
      <2>1. c \in recorded
            BY <1>1 DEF ReinstallInv, Tracked
      <2>2. status[c] = "registered" /\ status'[c] = "reported"
            BY <1>1, <2>1 DEF status, Running
      <2>3. request' = request
            BY <1>1 DEF request
      <2> QED BY <2>2, <2>3, StatusFrame DEF Promise!Report
<1>2. CASE command[c] # "install"
      BY <1>2 DEF Frame, status, request
<1> QED BY <1>1, <1>2

(* The accepted update is the step that registers the request.             *)
LEMMA RegisterStep ==
    ASSUME TypeOK, SubscriptionInv, ReinstallInv, NEW c \in Cli,
           UpdateSubscription(c), Current(c, subscription)
    PROVE  Promise!Register(c)
<1>1. /\ command[c] = "install" /\ c \notin recorded
      /\ pc[c] = "updateSubscription"
      BY CommandsKnown
         DEF UpdateSubscription, ReinstallInv, Tracked, TypeOK,
             BeforeSubscription
<1>2. /\ subscription' = Written(subscription, MergedNamespaces(c))
      /\ recorded' = recorded \cup {c}
      /\ pc' = [pc EXCEPT ![c] = "getDeployment"]
      /\ UNCHANGED <<command, list>>
      BY DEF UpdateSubscription, Goto
<1>3. copy[c].namespaces = subscription.namespaces
      BY <1>1 DEF SubscriptionInv, Faithful
<1>4. subscription'.namespaces = subscription.namespaces \cup request[c]
      BY <1>1, <1>2, <1>3 DEF Written, MergedNamespaces, request
<1>5. status[c] = "running" /\ status'[c] = "registered"
      BY <1>1, <1>2 DEF status, TypeOK
<1>6. request' = request
      BY <1>2 DEF request
<1>7. Frame(c)
      BY <1>2 DEF Frame, TypeOK
<1> QED BY <1>4, <1>5, <1>6, <1>7, StatusFrame DEF Promise!Register

LEMMA StartStep ==
    ASSUME TypeOK, SubscriptionInv, ReinstallInv, NEW c \in Cli, Start(c)
    PROVE  Promise!Ask(c) \/ UNCHANGED <<status, request>>
<1>1. /\ command[c] = "none" /\ c \notin recorded /\ recorded' = recorded
      /\ list'[c] \in SUBSET Namespaces /\ subscription' = subscription
      /\ pc'[c] \notin Ended
      BY DEF Start, TypeOK, SubscriptionInv, ReinstallInv, Tracked, objects,
             Goto, Ended
<1>2. Frame(c)
      BY StepFrame DEF Step
<1>3. status[c] = "idle" /\ request[c] = {}
      BY <1>1 DEF status, request
<1>4. CASE command'[c] = "install"
      <2>1. status'[c] = "running" /\ request'[c] = list'[c]
            BY <1>1, <1>4 DEF status, request, Ended
      <2>2. status' = [status EXCEPT ![c] = "running"]
            BY <1>2, <2>1, StatusFrame
      <2>3. request' = [request EXCEPT ![c] = list'[c]]
            BY <1>2, <2>1, StatusFrame
      <2> QED BY <1>1, <1>3, <2>2, <2>3 DEF Promise!Ask
<1>5. CASE command'[c] # "install"
      BY <1>1, <1>2, <1>5 DEF Frame, status, request
<1> QED BY <1>4, <1>5

LEMMA StepRefines ==
    ASSUME TypeOK, SubscriptionInv, ReinstallInv, NEW c \in Cli, Step(c)
    PROVE  \/ Promise!Ask(c) \/ Promise!Register(c)
           \/ Promise!Report(c) \/ Promise!Abort(c)
           \/ UNCHANGED <<subscription.namespaces, status, request>>
<1>1. Frame(c)
      BY StepFrame
<1> USE <1>1 DEF Goto, TypeOK, objects
<1>2. CASE Start(c)
      BY <1>2, StartStep DEF Start
<1>3. CASE CreateNamespace(c)
      BY <1>3, QuietStep DEF CreateNamespace, Ended
<1>4. CASE GetOperatorGroup(c)
      BY <1>4, QuietStep DEF GetOperatorGroup, Ended
<1>5. CASE CreateOperatorGroup(c)
      BY <1>5, QuietStep, AbortStep DEF CreateOperatorGroup, Ended, Running
<1>6. CASE ApplyOperatorGroup(c)
      BY <1>6, QuietStep, AbortStep DEF ApplyOperatorGroup, Ended, Running
<1>7. CASE GetSubscription(c)
      BY <1>7, QuietStep DEF GetSubscription, Ended
<1>8. ~CreateSubscription(c)
      BY CommandsKnown
         DEF CreateSubscription, ReinstallInv, Tracked, BeforeSubscription,
             AfterSubscription
<1>9. CASE UpdateSubscription(c)
      BY <1>9, RegisterStep, AbortStep DEF UpdateSubscription, Running
<1>10. CASE GetDeployment(c)
      BY <1>10, QuietStep DEF GetDeployment, Ended
<1>11. CASE InstallEverest(c)
      BY <1>11, QuietStep DEF InstallEverest, Ended
<1>12. CASE EverestInstalled(c)
      BY <1>12, QuietStep, ReportStep
         DEF EverestInstalled, Ended, Running, AfterSubscription
<1>13. CASE GetBinding(c)
      BY <1>13, QuietStep, ReportStep, AbortStep
         DEF GetBinding, Ended, Running, AfterSubscription
<1>14. CASE ApplyBinding(c)
      BY <1>14, ReportStep, AbortStep
         DEF ApplyBinding, Running, AfterSubscription
<1>15. CASE Fail(c)
      BY <1>15, AbortStep DEF Fail
<1> QED
    BY <1>2, <1>3, <1>4, <1>5, <1>6, <1>7, <1>8, <1>9, <1>10, <1>11, <1>12,
       <1>13, <1>14, <1>15 DEF Step

(* On a cluster that has Everest, the API calls of any number of installs  *)
(* and upgrades at once implement the registry: a request is added to the  *)
(* watched namespaces in one step, and success is reported only after it.  *)
THEOREM Refinement ==
    ASSUME Installed # {} PROVE Spec => ImplementsRegistry
<1>1. Init => Promise!Init
      BY DEF Init, Promise!Init, Found, status, request
<1>2. TypeOK /\ SubscriptionInv /\ ReinstallInv /\ [Next]_vars =>
          [Promise!Next]_<<subscription.namespaces, status, request>>
      <2> SUFFICES ASSUME TypeOK, SubscriptionInv, ReinstallInv, [Next]_vars
                   PROVE  \/ Promise!Next
                          \/ UNCHANGED <<subscription.namespaces, status,
                                         request>>
          OBVIOUS
      <2>1. ASSUME NEW c \in Cli, Step(c)
            PROVE  \/ Promise!Next
                   \/ UNCHANGED <<subscription.namespaces, status, request>>
            BY <2>1, StepRefines DEF Promise!Next
      <2>2. CASE StatusWrite
            BY <2>2 DEF StatusWrite, Written, process, status, request
      <2>3. CASE UNCHANGED vars
            BY <2>3 DEF vars, status, request
      <2> QED BY <2>1, <2>2, <2>3 DEF Next, Terminated
<1> QED
    BY <1>1, <1>2, TypeCorrect, SubscriptionInvariant, ReinstallInvariant,
       PTL DEF Spec, ImplementsRegistry, Promise!Spec, Promise!registry
-----------------------------------------------------------------------------
(* Where Everest is installed and nobody upgrades: nothing reported is lost *)

LEMMA StepBinding ==
    ASSUME TypeOK, BindingInv, NEW c \in Cli, Step(c), ~Start(c)
    PROVE  /\ everestDeployed' /\ Exists(binding)'
           /\ \/ binding' = binding
              \/ /\ binding'.version = binding.version + 1
                 /\ binding.namespaces \subseteq binding'.namespaces
           /\ pc'[c] # "installEverest"
           /\ pc'[c] = "applyBinding" => Faithful(c, binding)'
           /\ pc[c] # "done" /\ pc'[c] = "done" =>
                 list[c] \subseteq binding'.namespaces
           /\ list' = list
           /\ \A d \in Cli \ {c} : copy'[d] = copy[d]
<1> USE DEF BindingInv, TypeOK, Goto, objects
<1>1. CASE ApplyBinding(c)
      <2>1. CASE Current(c, binding)
            <3>1. binding' = Written(binding, copy[c].namespaces \cup list[c])
                  BY <1>1, <2>1 DEF ApplyBinding
            <3>2. copy[c].namespaces = binding.namespaces
                  BY <1>1, <2>1 DEF ApplyBinding, Faithful
            <3>3. /\ binding'.version = binding.version + 1
                  /\ binding'.namespaces = binding.namespaces \cup list[c]
                  BY <3>1, <3>2 DEF Written
            <3>4. Exists(binding)'
                  BY <3>3 DEF Exists, Objects
            <3> QED BY <1>1, <2>1, <3>3, <3>4 DEF ApplyBinding
      <2> QED BY <1>1, <2>1 DEF ApplyBinding, Exists
<1>2. CASE GetBinding(c)
      <2>1. binding.version <= binding.version
            BY DEF Objects
      <2> QED BY <1>2, <2>1
              DEF GetBinding, Read, Faithful, Current, Exists
<1>3. CASE GetDeployment(c)
      BY <1>3 DEF GetDeployment, Exists
<1>4. CASE InstallEverest(c) \/ EverestInstalled(c)
      BY <1>4 DEF InstallEverest, EverestInstalled
<1>5. CASE CreateNamespace(c) \/ GetOperatorGroup(c) \/ CreateOperatorGroup(c)
            \/ ApplyOperatorGroup(c)
      BY <1>5 DEF CreateNamespace, GetOperatorGroup, CreateOperatorGroup,
                  ApplyOperatorGroup, Read, Exists
<1>6. CASE GetSubscription(c) \/ CreateSubscription(c) \/ UpdateSubscription(c)
      BY <1>6 DEF GetSubscription, CreateSubscription, UpdateSubscription,
                  Read, Exists
<1>7. CASE Fail(c)
      BY <1>7 DEF Fail, Exists
<1> QED BY <1>1, <1>2, <1>3, <1>4, <1>5, <1>6, <1>7 DEF Step
(* No install that reported success loses a namespace from the watched     *)
(* ones or from the binding of everest-admin, whatever other installs do   *)
(* and wherever they fail.                                                 *)
THEOREM ReportedStay ==
    ASSUME Installed # {}, Commands = {"install"}
    PROVE  Spec => []ReportedStays
<1>1. Init => BindingInv
      <2> SUFFICES ASSUME Init PROVE BindingInv
          OBVIOUS
      <2>1. everestDeployed /\ binding.version = 1
            BY DEF Init, Found
      <2>2. \A c \in Cli : pc[c] = "idle"
            BY DEF Init
      <2> QED BY <2>1, <2>2 DEF BindingInv, ReportedStays, Completed, Exists
<1>2. TypeOK /\ SubscriptionInv' /\ ReinstallInv' /\ BindingInv
        /\ [Next]_vars => BindingInv'
      <2> SUFFICES ASSUME TypeOK, SubscriptionInv', ReinstallInv', BindingInv,
                          [Next]_vars
                   PROVE  BindingInv'
          OBVIOUS
      <2>1. ASSUME NEW d \in Cli, Completed(d)'
            PROVE  list'[d] \subseteq subscription'.namespaces
            <3>1. d \in recorded'
                  BY <2>1 DEF Completed, ReinstallInv, Tracked,
                              AfterSubscription
            <3> QED BY <3>1 DEF SubscriptionInv, MonitoredIsUnion
      <2>2. ASSUME NEW c \in Cli, Step(c), ~Start(c) PROVE BindingInv'
            <3>1. Frame(c)
                  BY <2>2, StepFrame
            <3>2. command' = command
                  BY <2>2 DEF Step, CreateNamespace, GetOperatorGroup,
                     CreateOperatorGroup, ApplyOperatorGroup, GetSubscription,
                     CreateSubscription, UpdateSubscription, GetDeployment,
                     InstallEverest, EverestInstalled, GetBinding,
                     ApplyBinding, Fail
            <3>3. /\ everestDeployed' /\ Exists(binding)'
                  /\ \/ binding' = binding
                     \/ /\ binding'.version = binding.version + 1
                        /\ binding.namespaces \subseteq binding'.namespaces
                  /\ pc'[c] # "installEverest"
                  /\ pc'[c] = "applyBinding" => Faithful(c, binding)'
                  /\ pc[c] # "done" /\ pc'[c] = "done" =>
                        list[c] \subseteq binding'.namespaces
                  /\ list' = list
                  /\ \A d \in Cli \ {c} : copy'[d] = copy[d]
                  BY <2>2, StepBinding
            <3>4. ASSUME NEW d \in Cli, Completed(d)'
                  PROVE  list'[d] \subseteq binding'.namespaces
                  <4>1. CASE Completed(d)
                        <5>1. list[d] \subseteq binding.namespaces
                              BY <4>1 DEF BindingInv, ReportedStays
                        <5> QED BY <3>3, <5>1
                  <4>2. CASE ~Completed(d)
                        <5>1. d = c /\ pc[c] # "done" /\ pc'[c] = "done"
                              BY <3>1, <3>2, <3>4, <4>2 DEF Frame, Completed
                        <5> QED BY <3>3, <5>1
                  <4> QED BY <4>1, <4>2
            <3>5. ASSUME NEW d \in Cli \ {c}, pc'[d] = "applyBinding"
                  PROVE  Faithful(d, binding)'
                  <4>1. Faithful(d, binding) /\ copy'[d] = copy[d]
                        BY <3>1, <3>3, <3>5 DEF BindingInv, Frame
                  <4> QED BY <3>3, <4>1
                          DEF Faithful, Current, TypeOK, Objects
            <3>6. \A d \in Cli : pc'[d] # "installEverest"
                  BY <3>1, <3>3 DEF BindingInv, Frame
            <3>7. ReportedStays'
                  BY <2>1, <3>4 DEF ReportedStays
            <3> QED BY <3>3, <3>5, <3>6, <3>7 DEF BindingInv
      <2>3. ASSUME NEW c \in Cli, Start(c) PROVE BindingInv'
            <3>1. /\ UNCHANGED <<everestDeployed, binding, copy>>
                  /\ pc' = [pc EXCEPT ![c] = "createNamespace"]
                  /\ \A d \in Cli \ {c} : /\ command'[d] = command[d]
                                           /\ list'[d] = list[d]
                  BY <2>3 DEF Start, TypeOK, Goto, objects
            <3>2. ASSUME NEW d \in Cli, Completed(d)'
                  PROVE  list'[d] \subseteq binding'.namespaces
                  <4>1. Completed(d) /\ list'[d] = list[d]
                        BY <3>1, <3>2 DEF Completed, TypeOK
                  <4> QED BY <3>1, <4>1 DEF BindingInv, ReportedStays
            <3>3. ReportedStays'
                  BY <2>1, <3>2 DEF ReportedStays
            <3>4. \A d \in Cli : /\ pc'[d] # "installEverest"
                                 /\ pc'[d] = "applyBinding" =>
                                       pc[d] = "applyBinding"
                  BY <3>1 DEF BindingInv, TypeOK
            <3> QED BY <3>1, <3>3, <3>4
                    DEF BindingInv, Exists, Faithful, Current
      <2>4. CASE UNCHANGED <<everestDeployed, binding, process>>
            <3>1. ReportedStays'
                  BY <2>1, <2>4
                     DEF BindingInv, ReportedStays, Completed, process
            <3> QED BY <2>4, <3>1
                    DEF BindingInv, Exists, Faithful, Current, process
      <2> QED BY <2>2, <2>3, <2>4
              DEF Next, vars, Terminated, StatusWrite, process
<1>3. BindingInv => ReportedStays
      BY DEF BindingInv
<1> QED
    BY <1>1, <1>2, <1>3, TypeCorrect, SubscriptionInvariant,
       ReinstallInvariant, PTL DEF Spec

-----------------------------------------------------------------------------
(* What an install that nobody overlapped leaves behind                    *)

(* Steps of another invocation do not concern one that has ended, and none *)
(* is taken beside one that has not.                                       *)
LEMMA AloneOthers ==
    ASSUME TypeOK, AloneInv, NEW c \in alone, NEW d \in Cli \ {c}, Step(d),
           pc[d] # "idle" \/ pc[c] \notin Running
    PROVE  Alone(c)'
<1>1. c \in Cli /\ Alone(c)
      BY DEF TypeOK, AloneInv, Alone
<1>2. pc[d] = "idle" \/ pc[d] \in Running
      BY DEF Step, Start, CreateNamespace, GetOperatorGroup, CreateOperatorGroup,
         ApplyOperatorGroup, GetSubscription, CreateSubscription, UpdateSubscription,
         GetDeployment, InstallEverest, EverestInstalled, GetBinding, ApplyBinding,
         Fail, Running
<1>3. pc[c] \notin Running
      <2>1. CASE pc[d] \in Running
            BY <1>1, <2>1 DEF Alone, InFlight
      <2> QED BY <1>2, <2>1
<1>4. pc'[c] = pc[c]
      BY <1>1 DEF TypeOK, Goto, Step, Start, CreateNamespace, GetOperatorGroup,
         CreateOperatorGroup, ApplyOperatorGroup, GetSubscription, CreateSubscription,
         UpdateSubscription, GetDeployment, InstallEverest, EverestInstalled,
         GetBinding, ApplyBinding, Fail
<1>5. pc[c] \notin AfterGroup /\ pc[c] # "createSubscription"
      BY <1>3 DEF AfterGroup, AfterSubscription, Running
<1> QED BY <1>1, <1>3, <1>4, <1>5 DEF Alone, Reached

(* The steps of an install that is alone.                                  *)
LEMMA AloneStep ==
    ASSUME TypeOK, AloneInv, NEW c \in alone, Step(c)
    PROVE  /\ Alone(c)'
           /\ command'[c] = "install" /\ pc[c] # "done" /\ pc'[c] = "done" =>
                 list[c] \subseteq operatorGroup'.namespaces
                            \cap subscription'.namespaces \cap binding'.namespaces
<1>1. c \in Cli /\ Alone(c) /\ ~Start(c)
      BY DEF TypeOK, AloneInv, Alone, Start
<1>2. pc[c] \in Running
      BY <1>1 DEF Step, CreateNamespace, GetOperatorGroup, CreateOperatorGroup,
         ApplyOperatorGroup, GetSubscription, CreateSubscription, UpdateSubscription,
         GetDeployment, InstallEverest, EverestInstalled, GetBinding, ApplyBinding,
         Fail, Running
<1>3. /\ UNCHANGED <<command, list>> /\ pc'[c] \in Running \cup Ended
      /\ \A e \in Cli \ {c} : pc'[e] = pc[e]
      BY <1>1, <1>2 DEF TypeOK, Goto, Step, CreateNamespace, GetOperatorGroup,
         CreateOperatorGroup, ApplyOperatorGroup, GetSubscription, CreateSubscription,
         UpdateSubscription, GetDeployment, InstallEverest, EverestInstalled,
         GetBinding, ApplyBinding, Fail, Running, Ended
<1>4. pc'[c] # "idle" /\ (pc'[c] \in Running => InFlight' = {c})
      <2>1. InFlight = {c}
            BY <1>1, <1>2 DEF Alone
      <2>2. InFlight' \subseteq {c}
            BY <1>3, <2>1 DEF InFlight
      <2> QED BY <1>1, <1>3, <2>2 DEF InFlight, Running, Ended
<1> SUFFICES ASSUME command[c] = "install"
             PROVE  /\ Reached(c)'
                    /\ pc[c] # "done" /\ pc'[c] = "done" =>
                          list[c] \subseteq operatorGroup'.namespaces
                             \cap subscription'.namespaces \cap binding'.namespaces
    BY <1>3, <1>4 DEF Alone
<1>5. Reached(c)
      BY <1>1 DEF Alone
<1> USE <1>1, <1>3, <1>5 DEF Goto, Reached, AfterGroup, AfterSubscription
<1>6. CASE CreateNamespace(c) \/ Fail(c)
      BY <1>6 DEF CreateNamespace, Fail, TypeOK
<1>7. CASE GetOperatorGroup(c)
      BY <1>7 DEF GetOperatorGroup, AllTargets, Targets, TypeOK, objects
<1>8. CASE CreateOperatorGroup(c) \/ ApplyOperatorGroup(c)
      BY <1>8 DEF CreateOperatorGroup, ApplyOperatorGroup, Targets, Written, TypeOK
<1>9. CASE GetSubscription(c)
      BY <1>9 DEF GetSubscription, TypeOK, objects
<1>10. CASE CreateSubscription(c)
      BY <1>10 DEF CreateSubscription, Written, TypeOK
<1>11. CASE UpdateSubscription(c)
      BY <1>11 DEF UpdateSubscription, MergedNamespaces, Written, TypeOK
<1>12. CASE GetDeployment(c)
      BY <1>12 DEF GetDeployment, TypeOK, objects
<1>13. CASE InstallEverest(c)
      BY <1>13 DEF InstallEverest, TypeOK
<1>14. CASE EverestInstalled(c)
      BY <1>14 DEF EverestInstalled, TypeOK, objects
<1>15. CASE GetBinding(c)
      BY <1>15 DEF GetBinding, TypeOK, objects
<1>16. CASE ApplyBinding(c)
      BY <1>16 DEF ApplyBinding, Written, TypeOK
<1> QED BY <1>6, <1>7, <1>8, <1>9, <1>10, <1>11, <1>12, <1>13, <1>14, <1>15, <1>16
        DEF Step

LEMMA AloneStart ==
    ASSUME TypeOK, AloneInv, NEW d \in Cli, Start(d)
    PROVE  AloneInv'
<1>1. /\ pc[d] = "idle" /\ d \notin alone
      /\ alone' = IF InFlight = {} THEN alone \cup {d} ELSE alone \ InFlight
      BY DEF Start, AloneInv, Alone
<1>2. PICK m \in Commands :
        /\ command' = [command EXCEPT ![d] = m]
        /\ pc' = [pc EXCEPT ![d] = IF m = "upgrade" THEN "installEverest"
                                                     ELSE "createNamespace"]
      BY DEF Start, Goto
<1>3. ASSUME NEW c \in alone', c # d
      PROVE  Alone(c)'
      <2>1. c \in alone /\ c \notin InFlight
            BY <1>1, <1>3
      <2>2. pc[c] \notin Running
            BY <2>1 DEF InFlight, TypeOK
      <2> QED BY <1>3, <2>1, <2>2, AloneOthers DEF Step
<1>4. ASSUME d \in alone'
      PROVE  Alone(d)'
      <2>1. InFlight = {}
            BY <1>1, <1>4
      <2>2. /\ pc'[d] = IF m = "upgrade" THEN "installEverest" ELSE "createNamespace"
            /\ command'[d] = m
            /\ \A e \in Cli \ {d} : pc'[e] = pc[e]
            BY <1>2 DEF TypeOK
      <2>3. InFlight' = {d}
            BY <2>1, <2>2 DEF InFlight, Running
      <2>4. m = "install" => Reached(d)'
            BY <2>2 DEF Reached, AfterGroup, AfterSubscription
      <2> QED BY <2>2, <2>3, <2>4 DEF Alone
<1> QED BY <1>3, <1>4 DEF AloneInv, Alone

LEMMA AloneStatusWrite ==
    ASSUME TypeOK, AloneInv, StatusWrite
    PROVE  AloneInv'
<1>1. /\ UNCHANGED <<pc, command, list, alone>>
      /\ operatorGroup'.namespaces = operatorGroup.namespaces
      /\ subscription'.namespaces = subscription.namespaces
      /\ Exists(subscription)' => Exists(subscription)
      BY DEF StatusWrite, Written, process, Exists
<1>2. InFlight' = InFlight
      BY <1>1 DEF InFlight
<1> QED BY <1>1, <1>2 DEF AloneInv, Alone, Reached

LEMMA AloneInvariant == Spec => []AloneInv
<1>1. Init => AloneInv
      BY DEF Init, AloneInv
<1>2. TypeOK /\ AloneInv /\ [Next]_vars => AloneInv'
      <2> SUFFICES ASSUME TypeOK, AloneInv, [Next]_vars PROVE AloneInv'
          OBVIOUS
      <2>1. CASE UNCHANGED vars
            BY <2>1 DEF vars, AloneInv, Alone, Reached, InFlight, Exists
      <2>2. CASE Terminated
            BY <2>1, <2>2 DEF Terminated
      <2>3. ASSUME NEW d \in Cli, Step(d), ~Start(d)
            PROVE  AloneInv'
            <3>1. UNCHANGED alone /\ pc[d] # "idle"
                  BY <2>3 DEF Step, CreateNamespace, GetOperatorGroup,
                     CreateOperatorGroup, ApplyOperatorGroup, GetSubscription,
                     CreateSubscription, UpdateSubscription, GetDeployment,
                     InstallEverest, EverestInstalled, GetBinding, ApplyBinding, Fail,
                     Running
            <3>2. \A c \in alone : Alone(c)'
                  BY <2>3, <3>1, AloneOthers, AloneStep
            <3> QED BY <3>1, <3>2 DEF AloneInv, Alone
      <2> QED BY <2>1, <2>2, <2>3, AloneStart, AloneStatusWrite DEF Next
<1> QED BY <1>1, <1>2, TypeCorrect, PTL DEF Spec

(* When an install that no other command overlapped reports success, its   *)
(* namespaces are targets of the operator, on its list and bound, whatever *)
(* earlier commands left behind.                                           *)
THEOREM Registered == Spec => RegisteredOnCompletion
<1> DEFINE Registers ==
        \A c \in alone :
             ~Completed(c) /\ Completed(c)' =>
                list[c] \subseteq operatorGroup'.namespaces
                           \cap subscription'.namespaces
                           \cap binding'.namespaces
<1>1. TypeOK /\ AloneInv /\ [Next]_vars => [Registers]_vars
      <2> SUFFICES ASSUME TypeOK, AloneInv, Next,
                          NEW c \in alone, ~Completed(c), Completed(c)'
                   PROVE  list[c] \subseteq operatorGroup'.namespaces
                             \cap subscription'.namespaces \cap binding'.namespaces
          OBVIOUS
      <2>1. c \in Cli /\ pc[c] # "idle"
            BY DEF TypeOK, AloneInv, Alone
      <2>2. ~Terminated /\ ~StatusWrite
            BY DEF Terminated, StatusWrite, vars, process, Completed
      <2>3. ASSUME NEW d \in Cli \ {c}, Step(d)
            PROVE  FALSE
            BY <2>1, <2>3 DEF Completed, TypeOK, Goto, Step, Start, CreateNamespace,
               GetOperatorGroup, CreateOperatorGroup, ApplyOperatorGroup,
               GetSubscription, CreateSubscription, UpdateSubscription, GetDeployment,
               InstallEverest, EverestInstalled, GetBinding, ApplyBinding, Fail
      <2>4. Step(c)
            BY <2>2, <2>3 DEF Next
      <2>5. command'[c] = command[c]
            BY <2>1, <2>4 DEF Step, Start, CreateNamespace, GetOperatorGroup,
               CreateOperatorGroup, ApplyOperatorGroup, GetSubscription,
               CreateSubscription, UpdateSubscription, GetDeployment, InstallEverest,
               EverestInstalled, GetBinding, ApplyBinding, Fail
      <2> QED BY <2>4, <2>5, AloneStep DEF Completed
<1> QED BY <1>1, TypeCorrect, AloneInvariant, PTL DEF Spec, RegisteredOnCompletion
=============================================================================
