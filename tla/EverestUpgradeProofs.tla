------------------------ MODULE EverestUpgradeProofs ------------------------
(***************************************************************************)
(* Proofs about EverestUpgrade, for any namespaces and Subscriptions and   *)
(* any number of upgrades and of writes by others.                         *)
(***************************************************************************)
EXTENDS EverestUpgrade, TLAPS

-----------------------------------------------------------------------------
(* Type correctness                                                        *)

LEMMA NoneType == None \in Objects
BY WritesNat DEF None, Objects, Settings

LEMMA SettingType == \A c \in Cli : Setting(c) \in Settings \ {"unset"}
BY DEF Setting, Settings

(* Patching changes the telemetry setting, of an object that has one.      *)
LEMMA PatchedObject ==
    ASSUME NEW c \in Cli, NEW object \in Objects
    PROVE  /\ Patched(c, object) \in Objects
           /\ Patched(c, object).version = object.version
           /\ Patched(c, object).rest = object.rest
           /\ Patched(c, object).telemetry \in {"unset", Setting(c)}
BY SettingType DEF Patched, Objects

(* The API server stores what it is sent, under a version of its own.      *)
LEMMA StoredObject ==
    ASSUME NEW old \in Objects, NEW new \in Objects
    PROVE  /\ Stored(old, new) \in Objects
           /\ Stored(old, new).version >= old.version
           /\ Stored(old, new).version = old.version => Stored(old, new) = old
           /\ Stored(old, new).rest = new.rest
           /\ Stored(old, new).telemetry = new.telemetry
<1>1. CASE [new EXCEPT !.version = old.version] = old
      BY <1>1 DEF Stored, Objects
<1>2. CASE [new EXCEPT !.version = old.version] # old
      BY <1>2 DEF Stored, Objects
<1> QED BY <1>1, <1>2

LEMMA InitType == Init => TypeOK
<1> SUFFICES ASSUME Init PROVE TypeOK
    OBVIOUS
<1>1. subscription \in [Subscriptions -> Objects]
      BY NoneType, WritesNat DEF Init, Objects, Settings
<1>2. /\ service \in [version : Nat, type : Types]
      /\ chosen \in Types
      BY ShippedKnown DEF Init
<1>3. /\ copy \in [Cli -> [Subscriptions -> Objects]]
      /\ type \in [Cli -> Types]
      /\ writes \in 0 .. MaxWrites
      BY NoneType, ShippedKnown, WritesNat DEF Init
<1> QED
    BY <1>1, <1>2, <1>3 DEF Init, TypeOK

LEMMA EndType ==
    ASSUME TypeOK, NEW c \in Cli, NEW how \in Ended, End(c, how)
    PROVE  /\ pc' \in [Cli -> Running \cup Ended \cup {"idle"}]
           /\ namespaces' \in [Cli -> SUBSET DBNamespaces]
           /\ copies' \in [Cli -> SUBSET Subscriptions]
           /\ copy' \in [Cli -> [Subscriptions -> Objects]]
           /\ type' \in [Cli -> Types]
           /\ version' \in [Cli -> Nat]
BY NoneType, ShippedKnown DEF TypeOK, End, Goto

LEMMA ForgetType ==
    ASSUME TypeOK, NEW c \in Cli, Forget(c)
    PROVE  /\ asked' \in [Cli -> SUBSET DBNamespaces]
           /\ disturbed' \in [Cli -> SUBSET Subscriptions]
BY DEF TypeOK, Forget

LEMMA StepType == ASSUME TypeOK, NEW c \in Cli, Step(c) PROVE TypeOK'
<1>1. CASE Start(c)
      BY <1>1 DEF Start, TypeOK, Goto, Running, manifest
<1>2. CASE ListSubscriptions(c)
      <2>1. ASSUME NEW n \in namespaces[c], ListNamespace(c, n) PROVE TypeOK'
            <3>1. In(n) \in SUBSET Subscriptions
                  BY DEF In
            <3>2. [s \in Subscriptions |->
                     IF s \in In(n) THEN subscription[s] ELSE None]
                     \in [Subscriptions -> Objects]
                  BY NoneType DEF TypeOK
            <3> QED
                BY <1>2, <2>1, <3>1, <3>2
                DEF ListSubscriptions, ListNamespace, Listed, TypeOK, Goto,
                    Running, manifest
      <2>2. CASE Goto(c, "customise") /\ Forget(c) /\ UNCHANGED patching
            BY <1>2, <2>2, ForgetType
            DEF ListSubscriptions, TypeOK, Goto, Running, Applying, manifest,
                patching
      <2> QED BY <1>2, <2>1, <2>2 DEF ListSubscriptions
<1>3. CASE PatchSubscription(c)
      <2>1. ASSUME NEW s \in copies[c], Patch(c, s) PROVE TypeOK'
            <3>1. Stored(subscription[s], Patched(c, copy[c][s])) \in Objects
                  BY PatchedObject, StoredObject DEF TypeOK
            <3> QED
                BY <1>3, <2>1, <3>1
                DEF PatchSubscription, Patch, Refused, TypeOK, manifest
      <2>2. CASE Refused(c) /\ UNCHANGED subscription
            BY <1>3, <2>2, EndType, ForgetType
            DEF PatchSubscription, Refused, TypeOK, Ended
      <2>3. CASE Goto(c, "list") /\ UNCHANGED
                   <<subscription, patching, manifest, asked, disturbed>>
            BY <1>3, <2>3
            DEF PatchSubscription, TypeOK, Goto, Running, patching, manifest
      <2> QED BY <1>3, <2>1, <2>2, <2>3 DEF PatchSubscription
<1>4. CASE SetEverestServiceType(c)
      BY <1>4, ShippedKnown
      DEF SetEverestServiceType, TypeOK, Goto, Running, Applying, patching,
          history
<1>5. CASE GetObject(c)
      BY <1>5
      DEF GetObject, TypeOK, Goto, Running, Applying, patching, manifest,
          history
<1>6. CASE CreateObject(c)
      <2>1. service' \in [version : Nat, type : Types]
            BY <1>6 DEF CreateObject, TypeOK
      <2> QED BY <1>6, <2>1, EndType DEF CreateObject, TypeOK, Ended, history
<1>7. CASE ReadVersion(c)
      BY <1>7
      DEF ReadVersion, TypeOK, Goto, Running, Applying, patching, history
<1>8. CASE PutObject(c)
      <2>1. service' \in [version : Nat, type : Types]
            BY <1>8 DEF PutObject, TypeOK
      <2> QED BY <1>8, <2>1, EndType DEF PutObject, TypeOK, Ended, history
<1>9. CASE Fail(c)
      BY <1>9, EndType, ForgetType DEF Fail, TypeOK, Ended
<1> QED
    BY <1>1, <1>2, <1>3, <1>4, <1>5, <1>6, <1>7, <1>8, <1>9 DEF Step

LEMMA OthersType ==
    ASSUME TypeOK,
           \/ \E s \in Subscriptions : WriteSubscription(s)
           \/ \E t \in Types : ChooseType(t)
    PROVE  TypeOK'
<1>1. ASSUME Writes
      PROVE  writes' \in 0 .. MaxWrites /\ writes + 1 \in 0 .. MaxWrites
      BY <1>1, WritesNat DEF Writes, TypeOK
<1>2. ASSUME NEW s \in Subscriptions, WriteSubscription(s) PROVE TypeOK'
      <2>1. subscription' \in [Subscriptions -> Objects]
            BY <1>1, <1>2 DEF WriteSubscription, TypeOK, Objects
      <2> QED BY <1>1, <1>2, <2>1 DEF WriteSubscription, TypeOK, Process
<1>3. ASSUME NEW t \in Types, ChooseType(t) PROVE TypeOK'
      <2>1. service' \in [version : Nat, type : Types]
            BY <1>3 DEF ChooseType, TypeOK
      <2>2. raced' \in BOOLEAN
            BY <1>3 DEF ChooseType
      <2> QED BY <1>1, <1>3, <2>1, <2>2 DEF ChooseType, TypeOK, Process
<1> QED BY <1>2, <1>3

LEMMA NextType == TypeOK /\ [Next]_vars => TypeOK'
<1> SUFFICES ASSUME TypeOK, [Next]_vars PROVE TypeOK'
    OBVIOUS
<1>1. CASE UNCHANGED vars
      BY <1>1 DEF TypeOK, vars
<1> QED
    BY <1>1, StepType, OthersType DEF Next, Terminated

(* Type correctness: every reachable state has its variables in range; in  *)
(* particular an upgrade writes "true" or "false" into a Subscription,     *)
(* whatever it finds in DISABLE_TELEMETRY.                                 *)
THEOREM TypeCorrect == Spec => []TypeOK
BY InitType, NextType, PTL DEF Spec

-----------------------------------------------------------------------------
(* The copies are faithful                                                 *)

(* A Subscription changes only with its version, which never falls.        *)
LEMMA VersionsGrow ==
    ASSUME TypeOK, [Next]_vars, NEW s \in Subscriptions
    PROVE  \/ subscription'[s] = subscription[s]
           \/ subscription'[s].version > subscription[s].version
<1>1. CASE UNCHANGED subscription
      BY <1>1
<1>2. ASSUME NEW c \in Cli, NEW x \in copies[c], Patch(c, x)
      PROVE  \/ subscription'[s] = subscription[s]
             \/ subscription'[s].version > subscription[s].version
      <2>1. /\ Patched(c, copy[c][x]) \in Objects
            /\ subscription[x] \in Objects /\ x \in Subscriptions
            BY PatchedObject DEF TypeOK
      <2>2. /\ Stored(subscription[x], Patched(c, copy[c][x])) \in Objects
            /\ \/ Stored(subscription[x], Patched(c, copy[c][x]))
                    = subscription[x]
               \/ Stored(subscription[x], Patched(c, copy[c][x])).version
                    > subscription[x].version
            BY <2>1, StoredObject DEF Objects
      <2> QED BY <1>2, <2>1, <2>2 DEF Patch, TypeOK
<1>3. ASSUME NEW x \in Subscriptions, WriteSubscription(x)
      PROVE  \/ subscription'[s] = subscription[s]
             \/ subscription'[s].version > subscription[s].version
      BY <1>3 DEF WriteSubscription, TypeOK, Objects
<1>4. ASSUME NEW c \in Cli, Step(c), subscription' # subscription
      PROVE  \E x \in copies[c] : Patch(c, x)
      BY <1>4
      DEF Step, Start, ListSubscriptions, PatchSubscription,
          SetEverestServiceType, GetObject, CreateObject, ReadVersion,
          PutObject, Fail
<1> QED
    BY <1>1, <1>2, <1>3, <1>4 DEF Next, vars, Terminated, ChooseType

(* What a step does to the copies of an invocation: it keeps them, but may *)
(* strike one off the list, drops them, or reads new ones.                 *)
Kept(c) ==
    /\ copy'[c] = copy[c] /\ copies'[c] \subseteq copies[c]
    /\ pc'[c] # "patch" => copies'[c] = {}
Read(c) ==
    /\ pc'[c] = "patch"
    /\ \A s \in copies'[c] : copy'[c][s] = subscription'[s]

LEMMA CopiesStep ==
    ASSUME TypeOK, CopyInv, [Next]_vars, NEW d \in Cli
    PROVE  Kept(d) \/ copies'[d] = {} \/ Read(d)
<1>1. CASE UNCHANGED Process
      BY <1>1 DEF Process, Kept, CopyInv
<1>2. ASSUME NEW c \in Cli, Step(c), c # d PROVE Kept(d)
      BY <1>2
      DEF Step, Start, ListSubscriptions, ListNamespace, Listed,
          PatchSubscription, Patch, Refused,
                SetEverestServiceType, GetObject,
          CreateObject, ReadVersion, PutObject, Fail, End, Goto, patching,
          TypeOK, Kept, CopyInv
<1>3. CASE ListSubscriptions(d)
      <2>1. ASSUME NEW n \in namespaces[d], ListNamespace(d, n) PROVE Read(d)
            BY <1>3, <2>1
            DEF ListSubscriptions, ListNamespace, Listed, In, Goto, TypeOK,
                Read
      <2>2. CASE UNCHANGED patching
            BY <1>3, <2>2 DEF ListSubscriptions, patching, CopyInv
      <2> QED BY <1>3, <2>1, <2>2 DEF ListSubscriptions
<1>4. CASE PatchSubscription(d)
      BY <1>4
      DEF PatchSubscription, Patch, Refused, End, patching, TypeOK, Kept
<1>5. CASE Start(d) \/ SetEverestServiceType(d) \/ GetObject(d)
             \/ ReadVersion(d)
      BY <1>5
      DEF Start, SetEverestServiceType, GetObject, ReadVersion, patching,
          CopyInv
<1>6. CASE CreateObject(d) \/ PutObject(d) \/ Fail(d)
      BY <1>6 DEF CreateObject, PutObject, Fail, End, TypeOK
<1> QED
    BY <1>1, <1>2, <1>3, <1>4, <1>5, <1>6
    DEF Next, Step, vars, Process, WriteSubscription, ChooseType, Terminated

LEMMA CopyStep == TypeOK /\ CopyInv /\ [Next]_vars => CopyInv'
<1> SUFFICES ASSUME TypeOK, CopyInv, [Next]_vars PROVE CopyInv'
    OBVIOUS
<1>1. TypeOK'
      BY NextType
<1>2. ASSUME NEW s \in Subscriptions, ~Exists(subscription'[s])
      PROVE  subscription'[s] = None
      <2>1. ~Exists(subscription[s]) /\ subscription'[s] = subscription[s]
            BY <1>1, <1>2, VersionsGrow DEF Exists, TypeOK, Objects
      <2> QED BY <2>1 DEF CopyInv
<1>3. ASSUME NEW c \in Cli
      PROVE  /\ pc'[c] # "patch" => copies'[c] = {}
             /\ \A s \in copies'[c] :
                  /\ copy'[c][s].version <= subscription'[s].version
                  /\ Current(c, s)' => copy'[c][s] = subscription'[s]
      <2>1. CASE copies'[c] = {}
            BY <2>1
      <2>2. CASE Kept(c)
            <3> SUFFICES ASSUME NEW s \in copies'[c]
                  PROVE  /\ copy'[c][s].version <= subscription'[s].version
                         /\ Current(c, s)' => copy'[c][s] = subscription'[s]
                BY <2>2 DEF Kept
            <3>1. s \in copies[c] /\ s \in Subscriptions /\ copy'[c] = copy[c]
                  BY <2>2 DEF Kept, TypeOK
            <3>2. /\ copy[c][s].version <= subscription[s].version
                  /\ Current(c, s) => copy[c][s] = subscription[s]
                  BY <3>1 DEF CopyInv
            <3>3. /\ copy[c][s].version \in Nat
                  /\ subscription[s].version \in Nat
                  /\ subscription'[s].version \in Nat
                  BY <1>1, <3>1 DEF TypeOK, Objects
            <3>4. CASE subscription'[s] = subscription[s]
                  BY <3>1, <3>2, <3>4 DEF Current
            <3>5. CASE subscription'[s].version > subscription[s].version
                  BY <3>1, <3>2, <3>3, <3>5 DEF Current
            <3> QED BY <3>1, <3>4, <3>5, VersionsGrow
      <2>3. CASE Read(c)
            BY <1>1, <2>3 DEF Read, TypeOK, Objects
      <2> QED BY <2>1, <2>2, <2>3, CopiesStep
<1> QED BY <1>2, <1>3 DEF CopyInv

LEMMA InitCopy == Init => CopyInv
BY DEF Init, CopyInv, Exists

(* A copy that still has the current version has the current contents,     *)
(* whoever wrote the Subscriptions meanwhile.                              *)
THEOREM CopiesFaithful == Spec => []CopyInv
BY InitType, InitCopy, NextType, CopyStep, PTL DEF Spec

-----------------------------------------------------------------------------
(* An upgrade changes telemetry and nothing else                           *)

(* Only a patch and the others write a Subscription.                       *)
LEMMA WhoWrites ==
    ASSUME [Next]_vars, subscription' # subscription
    PROVE  \/ \E c \in Cli : /\ PatchSubscription(c)
                             /\ \E s \in copies[c] : Patch(c, s)
           \/ \E s \in Subscriptions : WriteSubscription(s)
<1>1. ASSUME NEW c \in Cli, Step(c)
      PROVE  PatchSubscription(c) /\ \E s \in copies[c] : Patch(c, s)
      BY <1>1
      DEF Step, Start, ListSubscriptions, PatchSubscription,
          SetEverestServiceType, GetObject, CreateObject, ReadVersion,
          PutObject, Fail
<1> QED
    BY <1>1 DEF Next, vars, Terminated, ChooseType

LEMMA PatchKeepsRest ==
    ASSUME TypeOK, CopyInv, NEW c \in Cli, NEW x \in copies[c], Patch(c, x),
           NEW s \in Subscriptions
    PROVE  /\ subscription'[s].rest = subscription[s].rest
           /\ Exists(subscription[s])' = Exists(subscription[s])
<1>1. CASE s # x
      BY <1>1 DEF Patch, TypeOK, Exists
<1>2. CASE s = x
      <2>1. copy[c][s] = subscription[s] /\ Exists(subscription[s])
            BY <1>2 DEF Patch, Current, CopyInv
      <2>2. /\ Patched(c, copy[c][s]) \in Objects
            /\ Patched(c, copy[c][s]).rest = subscription[s].rest
            /\ subscription[s] \in Objects
            BY <2>1, PatchedObject DEF TypeOK
      <2>3. /\ subscription'[s] = Stored(subscription[s],
                                         Patched(c, copy[c][s]))
            /\ subscription'[s] \in Objects
            /\ subscription'[s].rest = subscription[s].rest
            /\ subscription'[s].version >= subscription[s].version
            BY <1>2, <2>2, StoredObject DEF Patch, TypeOK
      <2> QED BY <2>1, <2>2, <2>3 DEF Exists, Objects
<1> QED BY <1>1, <1>2

(* patchSubscriptions writes whole objects from a list it made earlier,    *)
(* and nevertheless no upgrade changes anything but the telemetry setting, *)
(* or creates a Subscription, in any interleaving with OLM, installs,      *)
(* administrators and other upgrades: the version the copy carries is what *)
(* protects them.                                                          *)
THEOREM TelemetryOnly == Spec => OnlyTelemetryChanges
<1>1. TypeOK /\ CopyInv /\ [Next]_vars =>
         [writes' = writes =>
            \A s \in Subscriptions :
               /\ subscription'[s].rest = subscription[s].rest
               /\ Exists(subscription[s])' = Exists(subscription[s])]_subscription
      <2> SUFFICES ASSUME TypeOK, CopyInv, [Next]_vars, writes' = writes,
                          subscription' # subscription,
                          NEW s \in Subscriptions
                   PROVE  /\ subscription'[s].rest = subscription[s].rest
                          /\ Exists(subscription[s])' = Exists(subscription[s])
          OBVIOUS
      <2>1. ~ \E x \in Subscriptions : WriteSubscription(x)
            BY DEF WriteSubscription, Writes, TypeOK
      <2> QED BY <2>1, WhoWrites, PatchKeepsRest
<1> QED
    BY <1>1, TypeCorrect, CopiesFaithful, PTL
    DEF Spec, OnlyTelemetryChanges

-----------------------------------------------------------------------------
(* No Subscription is passed over                                          *)

(* Nobody but an invocation itself moves it or its lists, and what others  *)
(* write is noted while it is patching.                                    *)
LEMMA Bystander ==
    ASSUME TypeOK, [Next]_vars, NEW d \in Cli, ~Step(d),
           pc[d] \in {"list", "patch"}
    PROVE  /\ pc'[d] = pc[d] /\ namespaces'[d] = namespaces[d]
           /\ copies'[d] = copies[d] /\ asked'[d] = asked[d]
           /\ \A s \in Subscriptions \ disturbed'[d] :
                s \notin disturbed[d] /\ subscription'[s] = subscription[s]
<1>1. CASE UNCHANGED vars
      BY <1>1 DEF vars
<1>2. ASSUME NEW c \in Cli, Step(c), c # d
      PROVE  /\ pc'[d] = pc[d] /\ namespaces'[d] = namespaces[d]
             /\ copies'[d] = copies[d] /\ asked'[d] = asked[d]
      <2>1. CASE Start(c) \/ ListSubscriptions(c) \/ PatchSubscription(c) \/ Fail(c)
            BY <1>2, <2>1
            DEF Start, ListSubscriptions, ListNamespace, Listed, PatchSubscription, Patch,
                Refused, Fail, End, Forget, Goto, patching, history, TypeOK
      <2>2. CASE \/ SetEverestServiceType(c) \/ GetObject(c) \/ CreateObject(c)
                 \/ ReadVersion(c) \/ PutObject(c)
            BY <1>2, <2>2
            DEF SetEverestServiceType, GetObject, CreateObject, ReadVersion, PutObject,
                End, Forget, Goto, patching, history, TypeOK
      <2> QED BY <1>2, <2>1, <2>2 DEF Step
<1>3. ASSUME NEW c \in Cli, Step(c), c # d, subscription' = subscription
      PROVE  disturbed[d] \subseteq disturbed'[d]
      BY <1>3
      DEF Step, Start, ListSubscriptions, ListNamespace, Listed,
          PatchSubscription, Patch, Refused,
                SetEverestServiceType, GetObject,
          CreateObject, ReadVersion, PutObject, Fail, End, Forget, Goto,
          patching, history, TypeOK
<1>4. ASSUME NEW c \in Cli, c # d, NEW x \in copies[c], Patch(c, x)
      PROVE  \A s \in Subscriptions \ disturbed'[d] :
                s \notin disturbed[d] /\ subscription'[s] = subscription[s]
      BY <1>4 DEF Patch, TypeOK
<1>5. ASSUME NEW x \in Subscriptions, WriteSubscription(x)
      PROVE  \A s \in Subscriptions \ disturbed'[d] :
                s \notin disturbed[d] /\ subscription'[s] = subscription[s]
      BY <1>5 DEF WriteSubscription, TypeOK
<1>6. ASSUME NEW c \in Cli, Step(c), c # d, subscription' # subscription
      PROVE  \E x \in copies[c] : Patch(c, x)
      BY <1>6
      DEF Step, Start, ListSubscriptions, PatchSubscription,
          SetEverestServiceType, GetObject, CreateObject, ReadVersion,
          PutObject, Fail
<1>7. ASSUME NEW c \in Cli, Step(c), c # d
      PROVE  \A s \in Subscriptions \ disturbed'[d] :
                s \notin disturbed[d] /\ subscription'[s] = subscription[s]
      BY <1>3, <1>4, <1>6, <1>7
<1>8. CASE \E x \in Subscriptions : WriteSubscription(x)
      BY <1>5, <1>8 DEF WriteSubscription, Process
<1>9. CASE \E t \in Types : ChooseType(t)
      BY <1>9 DEF ChooseType, Process
<1> QED
    BY <1>1, <1>2, <1>7, <1>8, <1>9 DEF Next, Terminated

LEMMA PatchStep == TypeOK /\ CopyInv /\ PatchInv /\ [Next]_vars => PatchInv'
<1> SUFFICES ASSUME TypeOK, CopyInv, PatchInv, [Next]_vars,
                    NEW d \in Cli, pc'[d] \in {"list", "patch"},
                    NEW s \in Subscriptions \ disturbed'[d],
                    Home[s] \in asked'[d]
             PROVE  Due(d, s)'
    BY DEF PatchInv
<1>1. CASE ~Step(d) /\ pc[d] \in {"list", "patch"}
      BY <1>1, Bystander DEF PatchInv, Due
<1>2. CASE ~Step(d) /\ pc[d] \notin {"list", "patch"}
      <2>1. ASSUME NEW c \in Cli, c # d, Step(c) PROVE pc'[d] = pc[d]
            BY <2>1
            DEF Step, Start, ListSubscriptions, ListNamespace, Listed,
                PatchSubscription, Patch, Refused,
                SetEverestServiceType, GetObject,
                CreateObject, ReadVersion, PutObject, Fail, End, Goto, TypeOK
      <2> QED BY <1>2, <2>1
              DEF Next, vars, Terminated, WriteSubscription, ChooseType,
                  Process
<1>3. CASE Start(d)
      BY <1>3 DEF Start, TypeOK, Due
<1>4. CASE ListSubscriptions(d)
      <2>1. PICK n \in namespaces[d] : ListNamespace(d, n)
            BY <1>4 DEF ListSubscriptions, Goto, TypeOK
      <2>2. /\ pc[d] = "list" /\ copies[d] = {} /\ asked'[d] = asked[d]
            /\ disturbed'[d] = disturbed[d] /\ subscription' = subscription
            /\ namespaces'[d] = namespaces[d] \ {n} /\ copies'[d] = In(n)
            BY <1>4, <2>1
            DEF ListSubscriptions, ListNamespace, Listed, TypeOK, CopyInv
      <2>3. Due(d, s)
            BY <2>2 DEF PatchInv
      <2>4. CASE Home[s] = n
            <3>1. s \in In(n) \/ subscription[s] = None
                  BY <2>4 DEF In, CopyInv
            <3> QED BY <2>2, <3>1 DEF Due, None
      <2>5. CASE Home[s] # n
            BY <2>2, <2>3, <2>5 DEF Due
      <2> QED BY <2>4, <2>5
<1>5. CASE PatchSubscription(d)
      <2>1. ASSUME NEW x \in copies[d], Patch(d, x) PROVE Due(d, s)'
            <3>1. CASE s = x
                  <4>1. /\ Patched(d, copy[d][s]) \in Objects
                        /\ Patched(d, copy[d][s]).telemetry
                             \in {"unset", Setting(d)}
                        /\ subscription[s] \in Objects
                        BY PatchedObject DEF TypeOK
                  <4>2. subscription'[s].telemetry \in {"unset", Setting(d)}
                        BY <2>1, <3>1, <4>1, StoredObject DEF Patch, TypeOK
                  <4> QED BY <4>2 DEF Due, Setting
            <3>2. CASE s # x
                  BY <1>5, <2>1, <3>2
                  DEF PatchSubscription, Patch, Refused, TypeOK, PatchInv, Due,
                      Setting
            <3> QED BY <3>1, <3>2
      <2>2. CASE Refused(d)
            BY <2>2 DEF Refused, End, Goto, TypeOK
      <2>3. CASE copies[d] = {} /\ UNCHANGED
                   <<subscription, patching, asked, disturbed>>
            BY <1>5, <2>3
            DEF PatchSubscription, patching, PatchInv, Due, Setting
      <2> QED BY <1>5, <2>1, <2>2, <2>3 DEF PatchSubscription
<1>6. CASE SetEverestServiceType(d) \/ GetObject(d) \/ CreateObject(d)
             \/ ReadVersion(d) \/ PutObject(d) \/ Fail(d)
      BY <1>6
      DEF SetEverestServiceType, GetObject, CreateObject, ReadVersion,
          PutObject, Fail, End, Goto, TypeOK
<1> QED BY <1>1, <1>2, <1>3, <1>4, <1>5, <1>6 DEF Step

LEMMA InitPatch == Init => PatchInv
BY DEF Init, PatchInv

(* Every Subscription that an upgrade has to patch is on its lists until   *)
(* it is patched.                                                          *)
THEOREM StillListed == Spec => []PatchInv
BY InitType, InitCopy, InitPatch, NextType, CopyStep, PatchStep, PTL
DEF Spec

(* No upgrade goes on to Everest before every Subscription of the chosen   *)
(* namespaces has its telemetry setting, unless others wrote it after it   *)
(* was patched.                                                            *)
THEOREM NonePassedOver == Spec => PatchedFirst
<1>1. TypeOK /\ CopyInv /\ PatchInv /\ [Next]_vars =>
         [\A c \in Cli : pc[c] = "list" /\ pc'[c] = "customise" =>
            \A s \in Subscriptions \ disturbed[c] : Home[s] \in asked[c] =>
               subscription[s].telemetry \in {"unset", Setting(c)}]_vars
      <2> SUFFICES ASSUME TypeOK, CopyInv, PatchInv, [Next]_vars,
                          NEW c \in Cli, pc[c] = "list", pc'[c] = "customise",
                          NEW s \in Subscriptions \ disturbed[c],
                          Home[s] \in asked[c]
                   PROVE  subscription[s].telemetry \in {"unset", Setting(c)}
          OBVIOUS
      <2>1. Step(c)
            BY Bystander
      <2>2. ListSubscriptions(c)
            BY <2>1
            DEF Step, Start, PatchSubscription, Refused, Patch,
                SetEverestServiceType, GetObject, CreateObject, ReadVersion,
                PutObject, Fail, End, Goto, TypeOK
      <2>3. namespaces[c] = {} /\ copies[c] = {}
            BY <2>2
            DEF ListSubscriptions, ListNamespace, Listed, Goto, TypeOK,
                CopyInv
      <2> QED BY <2>3 DEF PatchInv, Due
<1> QED
    BY <1>1, TypeCorrect, CopiesFaithful, StillListed, PTL
    DEF Spec, PatchedFirst

-----------------------------------------------------------------------------
(* The type of the Service                                                 *)

LEMMA InitService == Init => ServiceInv
BY DEF Init, ServiceInv, ServiceTypeKept, Applying

LEMMA ServiceStep == TypeOK /\ ServiceInv /\ [Next]_vars => ServiceInv'
<1> SUFFICES ASSUME TypeOK, ServiceInv, [Next]_vars PROVE ServiceInv'
    OBVIOUS
<1> DEFINE Carries(c) == pc[c] \in Applying \ {"customise"}
<1>1. CASE UNCHANGED <<service, chosen, raced>>
      <2>1. ASSUME NEW c \in Cli, Carries(c)', ~raced PROVE type'[c] = chosen
            <3>1. CASE pc'[c] = pc[c] /\ type'[c] = type[c]
                  BY <2>1, <3>1 DEF ServiceInv
            <3>2. CASE SetEverestServiceType(c)
                  BY <2>1, <3>2
                  DEF SetEverestServiceType, ServiceInv, ServiceTypeKept,
                      TypeOK
            <3>3. CASE GetObject(c) \/ ReadVersion(c)
                  BY <2>1, <3>3
                  DEF GetObject, ReadVersion, manifest, ServiceInv, Applying
            <3>4. CASE \/ Start(c) \/ ListSubscriptions(c)
                       \/ PatchSubscription(c) \/ CreateObject(c)
                       \/ PutObject(c) \/ Fail(c)
                  BY <2>1, <3>4
                  DEF Start, ListSubscriptions, ListNamespace, Listed,
                      PatchSubscription, Patch, Refused, CreateObject,
                      PutObject, Fail, End, Goto, manifest, ServiceInv, Applying, TypeOK
            <3>5. ASSUME NEW d \in Cli, d # c, Step(d)
                  PROVE  pc'[c] = pc[c] /\ type'[c] = type[c]
                  BY <3>5
                  DEF Step, Start, ListSubscriptions, ListNamespace, Listed,
                      PatchSubscription, Patch, Refused, SetEverestServiceType,
                      GetObject, CreateObject, ReadVersion, PutObject, Fail,
                      End, Goto, manifest, TypeOK
            <3> QED
                BY <3>1, <3>2, <3>3, <3>4, <3>5
                DEF Next, Step, vars, WriteSubscription, ChooseType, Process,
                    Terminated
      <2> QED BY <1>1, <2>1 DEF ServiceInv, ServiceTypeKept
<1>2. ASSUME NEW c \in Cli, CreateObject(c) \/ PutObject(c) PROVE ServiceInv'
      <2>1. /\ Carries(c)
            /\ UNCHANGED <<chosen, raced>>
            /\ pc'[c] \in Ended
            /\ \A d \in Cli \ {c} : pc'[d] = pc[d] /\ type'[d] = type[d]
            BY <1>2
            DEF CreateObject, PutObject, End, Goto, history, TypeOK, Applying,
                Ended
      <2>2. service' = service \/ service'.type = type[c]
            BY <1>2 DEF CreateObject, PutObject
      <2>3. service'.version = 0 => service.version = 0
            BY <1>2 DEF CreateObject, PutObject, TypeOK
      <2> QED BY <2>1, <2>2, <2>3
              DEF ServiceInv, ServiceTypeKept, Applying, Ended
<1>3. ASSUME NEW t \in Types, ChooseType(t) PROVE ServiceInv'
      <2>1. service'.type = t /\ chosen' = t /\ service'.version # 0
            BY <1>3 DEF ChooseType, TypeOK
      <2>2. ~raced' => \A c \in Cli : ~Carries(c)'
            BY <1>3 DEF ChooseType, Process
      <2> QED BY <2>1, <2>2 DEF ServiceInv, ServiceTypeKept
<1>4. ASSUME NEW c \in Cli, Step(c), ~(CreateObject(c) \/ PutObject(c))
      PROVE  UNCHANGED <<service, chosen, raced>>
      BY <1>4
      DEF Step, Start, ListSubscriptions, PatchSubscription,
          SetEverestServiceType, GetObject, ReadVersion, Fail, history
<1> QED
    BY <1>1, <1>2, <1>3, <1>4
    DEF Next, vars, WriteSubscription, Terminated

(* The comment of applyTemplateCustomization, "CLI should keep spec.type   *)
(* untouched", holds of every number of upgrades in every interleaving, up *)
(* to a user's choice between an upgrade's read and its write.             *)
THEOREM TypeKept == Spec => []ServiceTypeKept
<1>1. ServiceInv => ServiceTypeKept
      BY DEF ServiceInv
<1> QED
    BY <1>1, InitType, InitService, NextType, ServiceStep, PTL DEF Spec

=============================================================================
