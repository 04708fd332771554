--------------------------- MODULE EverestUpgrade ---------------------------
(***************************************************************************)
(* What `everestctl upgrade` does after OLM and the catalog: it lists the  *)
(* Subscriptions of each DB namespace and writes the telemetry setting     *)
(* into each of the copies (patchSubscriptions), then it applies the       *)
(* objects of the Everest manifest, keeping the type of the Service that   *)
(* is on the cluster (InstallEverest, setEverestServiceType).              *)
(*                                                                         *)
(* OLM, other commands and users write the same objects meanwhile. The API *)
(* server refuses a write that carries an old version; the manifest's      *)
(* objects carry none, and the client gives them the version it reads just *)
(* before the write. Waits write nothing and are left out.                 *)
(***************************************************************************)
EXTENDS Naturals

CONSTANTS
    Cli,            \* invocations of `everestctl upgrade`
    DBNamespaces,   \* the namespaces Everest manages
    Subscriptions,  \* the Subscriptions there may be
    Home,           \* the namespace of each
    Environment,    \* DISABLE_TELEMETRY as each invocation finds it
    Types,          \* of a Service
    Shipped,        \* the type the manifest asks for
    MaxWrites       \* bound on the writes of the others

ASSUME HomeKnown == Home \in [Subscriptions -> DBNamespaces]
ASSUME EnvironmentKnown == Environment \in [Cli -> {"absent", "true", "1"}]
ASSUME ShippedKnown == Shipped \in Types
ASSUME WritesNat == MaxWrites \in Nat

VARIABLES
    subscription,   \* of each name; version 0: there is none
    service,        \* the Service of Everest; version 0: there is none
    pc, namespaces, \* the namespaces the invocation has yet to list
    copies,         \* the Subscriptions it listed and has yet to patch
    copy,           \* of each name, as listed
    type, version,  \* what it read of the Service
    asked,          \* history: the namespaces it was started for
    disturbed,      \* history: what others wrote since it began, and it has
                    \* not written since
    chosen,         \* history: the type the users last asked for
    raced,          \* history: they did so between its being read and written
    writes

manifest == <<type, version>>
patching == <<namespaces, copies, copy>>
history == <<asked, disturbed, chosen, raced, writes>>
vars == <<subscription, service, pc, namespaces, copies, copy, type, version,
          asked, disturbed, chosen, raced, writes>>

(* The rest of a Subscription is a number that others count up.            *)
Settings == {"unset", "true", "false"}
Objects == [version : Nat, configured : BOOLEAN, telemetry : Settings,
            rest : 0 .. MaxWrites]
None == [version |-> 0, configured |-> FALSE, telemetry |-> "unset", rest |-> 0]
Exists(object) == object.version > 0

Applying == {"customise", "get", "create", "replace", "put"}
Running == {"list", "patch"} \cup Applying
Ended == {"done", "failed"}

TypeOK ==
    /\ subscription \in [Subscriptions -> Objects]
    /\ service \in [version : Nat, type : Types]
    /\ pc \in [Cli -> Running \cup Ended \cup {"idle"}]
    /\ namespaces \in [Cli -> SUBSET DBNamespaces]
    /\ copies \in [Cli -> SUBSET Subscriptions]
    /\ copy \in [Cli -> [Subscriptions -> Objects]]
    /\ type \in [Cli -> Types] /\ version \in [Cli -> Nat]
    /\ asked \in [Cli -> SUBSET DBNamespaces]
    /\ disturbed \in [Cli -> SUBSET Subscriptions]
    /\ chosen \in Types /\ raced \in BOOLEAN
    /\ writes \in 0 .. MaxWrites

Init ==
    /\ \E there \in SUBSET Subscriptions, configured \in BOOLEAN,
          telemetry \in Settings :
         subscription = [s \in Subscriptions |-> IF s \in there
            THEN [version |-> 1, configured |-> configured, rest |-> 0,
                  telemetry |-> IF configured THEN telemetry ELSE "unset"]
            ELSE None]
    /\ \E t \in Types :
         /\ service \in {[version |-> 0, type |-> t], [version |-> 1, type |-> t]}
         /\ chosen = IF service.version = 0 THEN Shipped ELSE t
    /\ pc = [c \in Cli |-> "idle"]
    /\ namespaces = [c \in Cli |-> {}]
    /\ copies = [c \in Cli |-> {}]
    /\ copy = [c \in Cli |-> [s \in Subscriptions |-> None]]
    /\ type = [c \in Cli |-> Shipped]
    /\ version = [c \in Cli |-> 0]
    /\ asked = [c \in Cli |-> {}]
    /\ disturbed = [c \in Cli |-> {}]
    /\ raced = FALSE
    /\ writes = 0

-----------------------------------------------------------------------------
Goto(c, step) == pc' = [pc EXCEPT ![c] = step]

(* The command is over, and with it its locals.                            *)
End(c, how) ==
    /\ Goto(c, how)
    /\ namespaces' = [namespaces EXCEPT ![c] = {}]
    /\ copies' = [copies EXCEPT ![c] = {}]
    /\ copy' = [copy EXCEPT ![c] = [s \in Subscriptions |-> None]]
    /\ type' = [type EXCEPT ![c] = Shipped]
    /\ version' = [version EXCEPT ![c] = 0]

(* The history ends where PatchedFirst reads it.                           *)
Forget(c) ==
    /\ asked' = [asked EXCEPT ![c] = {}]
    /\ disturbed' = [disturbed EXCEPT ![c] = {}]

Start(c) ==
    /\ pc[c] = "idle"
    /\ \E l \in SUBSET DBNamespaces \ {{}} :
         /\ namespaces' = [namespaces EXCEPT ![c] = l]
         /\ asked' = [asked EXCEPT ![c] = l]
    /\ disturbed' = [disturbed EXCEPT ![c] = {}]
    /\ Goto(c, "list")
    /\ UNCHANGED <<subscription, service, copies, copy, manifest, chosen,
                   raced, writes>>

(* The namespaces come in the order of a map. One without Subscriptions is *)
(* skipped.                                                                *)
In(n) == {s \in Subscriptions : Home[s] = n /\ Exists(subscription[s])}

Listed(c, n) ==
    /\ copies' = [copies EXCEPT ![c] = In(n)]
    /\ copy' = [copy EXCEPT ![c] = [s \in Subscriptions |->
                   IF s \in In(n) THEN subscription[s] ELSE None]]
    /\ Goto(c, "patch")
    /\ UNCHANGED <<asked, disturbed>>

(* An empty namespace ends the loop.                                       *)
StopAtEmpty(c, n) ==
    /\ namespaces' = [namespaces EXCEPT ![c] = IF In(n) = {} THEN {}
                                               ELSE @ \ {n}]
    /\ Listed(c, n)

ListNamespace(c, n) ==
    /\ namespaces' = [namespaces EXCEPT ![c] = @ \ {n}]
    /\ Listed(c, n)

ListSubscriptions(c) ==
    /\ pc[c] = "list"
    /\ \/ \E n \in namespaces[c] : ListNamespace(c, n)
       \/ /\ namespaces[c] = {}
          /\ Goto(c, "customise") /\ Forget(c)
          /\ UNCHANGED patching
    /\ UNCHANGED <<subscription, service, manifest, chosen, raced, writes>>

(* The variable is written as it was found.                                *)
AsFound(c) == Environment[c]
Setting(c) == IF Environment[c] = "true" THEN "true" ELSE "false"

Patched(c, object) ==
    IF object.telemetry = "unset" THEN object
    ELSE [object EXCEPT !.telemetry = Setting(c)]

(* A write that changes nothing does not make a new version.               *)
Stored(old, new) ==
    IF [new EXCEPT !.version = old.version] = old THEN old
    ELSE [new EXCEPT !.version = old.version + 1]

AnyVersion(c, s) == Exists(subscription[s])
Current(c, s) ==
    Exists(subscription[s]) /\ copy[c][s].version = subscription[s].version

Patch(c, s) ==
    /\ copy[c][s].configured /\ Current(c, s)
    /\ subscription' = [subscription EXCEPT
                          ![s] = Stored(@, Patched(c, copy[c][s]))]
    /\ disturbed' = [d \in Cli |->
         IF d = c THEN disturbed[d] \ {s}
         ELSE IF /\ pc[d] \in {"list", "patch"}
                 /\ subscription'[s] # subscription[s]
         THEN disturbed[d] \cup {s} ELSE disturbed[d]]
    /\ copies' = [copies EXCEPT ![c] = @ \ {s}]
    /\ UNCHANGED <<pc, namespaces, copy, manifest, asked>>

(* The refusal is ignored and the next namespace is next.                  *)
GoOn(c) ==
    /\ Goto(c, "list")
    /\ UNCHANGED <<patching, manifest, asked, disturbed>>

(* A Subscription without a configuration is a nil dereference, a conflict *)
(* or one that is gone is an error: either way the command is over.        *)
Refused(c) == End(c, "failed") /\ Forget(c)

PatchSubscription(c) ==
    /\ pc[c] = "patch"
    /\ \/ \E s \in copies[c] : Patch(c, s)
       \/ /\ \E s \in copies[c] : ~(copy[c][s].configured /\ Current(c, s))
          /\ Refused(c)
          /\ UNCHANGED subscription
       \/ /\ copies[c] = {}
          /\ Goto(c, "list")
          /\ UNCHANGED <<subscription, patching, manifest, asked, disturbed>>
    /\ UNCHANGED <<service, chosen, raced, writes>>

(* The manifest goes out as it was downloaded.                             *)
Uncustomised(c) ==
    /\ pc[c] = "customise"
    /\ Goto(c, "get")
    /\ UNCHANGED <<subscription, service, patching, manifest, history>>

SetEverestServiceType(c) ==
    /\ pc[c] = "customise"
    /\ type' = [type EXCEPT ![c] = IF service.version > 0 THEN service.type
                                                          ELSE Shipped]
    /\ Goto(c, "get")
    /\ UNCHANGED <<subscription, service, patching, version, history>>

(* An error counts as the absence of the object.                           *)
GetObject(c) ==
    /\ pc[c] = "get"
    /\ \/ service.version > 0 /\ Goto(c, "replace")
       \/ Goto(c, "create")
    /\ UNCHANGED <<subscription, service, patching, manifest, history>>

CreateObject(c) ==
    /\ pc[c] = "create"
    /\ \/ /\ service.version = 0
          /\ service' = [version |-> 1, type |-> type[c]]
          /\ End(c, "done")
       \/ /\ service.version > 0
          /\ End(c, "failed")
          /\ UNCHANGED service
    /\ UNCHANGED <<subscription, history>>

ReadVersion(c) ==
    /\ pc[c] = "replace"
    /\ version' = [version EXCEPT ![c] = service.version]
    /\ Goto(c, "put")
    /\ UNCHANGED <<subscription, service, patching, type, history>>

PutObject(c) ==
    /\ pc[c] = "put"
    /\ \/ /\ version[c] = service.version
          /\ service' = IF service.type = type[c] THEN service
                        ELSE [version |-> service.version + 1, type |-> type[c]]
          /\ End(c, "done")
       \/ /\ version[c] # service.version
          /\ End(c, "failed")
          /\ UNCHANGED service
    /\ UNCHANGED <<subscription, history>>

(* An API call fails, or the process is killed.                            *)
Fail(c) ==
    /\ pc[c] \in Running
    /\ End(c, "failed") /\ Forget(c)
    /\ UNCHANGED <<subscription, service, chosen, raced, writes>>

Step(c) ==
    \/ Start(c) \/ ListSubscriptions(c) \/ PatchSubscription(c)
    \/ SetEverestServiceType(c) \/ GetObject(c) \/ CreateObject(c)
    \/ ReadVersion(c) \/ PutObject(c) \/ Fail(c)

-----------------------------------------------------------------------------
(* The others                                                              *)

Process == <<pc, namespaces, copies, copy, type, version>>

Writes ==
    /\ writes < MaxWrites
    /\ writes' = writes + 1

(* OLM writes a status, an install its configuration, an administrator     *)
(* anything, also a new Subscription.                                      *)
WriteSubscription(s) ==
    /\ Writes
    /\ \E t \in Settings, r \in {subscription[s].rest, writes + 1} :
         subscription' = [subscription EXCEPT
            ![s] = [version |-> @.version + 1, configured |-> TRUE,
                    telemetry |-> t, rest |-> r]]
    /\ disturbed' = [c \in Cli |-> IF pc[c] \in {"list", "patch"}
                                   THEN disturbed[c] \cup {s} ELSE {}]
    /\ UNCHANGED <<service, Process, asked, chosen, raced>>

ChooseType(t) ==
    /\ Writes
    /\ service.version > 0 /\ service.type # t
    /\ service' = [version |-> service.version + 1, type |-> t]
    /\ chosen' = t
    /\ raced' = \E c \in Cli : pc[c] \in Applying \ {"customise"}
    /\ UNCHANGED <<subscription, Process, asked, disturbed>>

Terminated == (\A c \in Cli : pc[c] \in Ended) /\ UNCHANGED vars

Next ==
    \/ \E c \in Cli : Step(c)
    \/ \E s \in Subscriptions : WriteSubscription(s)
    \/ \E t \in Types : ChooseType(t)
    \/ Terminated

Spec == Init /\ [][Next]_vars

-----------------------------------------------------------------------------
(* Properties                                                              *)

(* patchSubscriptions writes whole objects from copies it listed earlier:  *)
(* whatever OLM, installs and administrators write in between, an upgrade  *)
(* changes the telemetry setting and nothing else of a Subscription, and   *)
(* creates none.                                                           *)
OnlyTelemetryChanges ==
    [][writes' = writes =>
         \A s \in Subscriptions :
            /\ subscription'[s].rest = subscription[s].rest
            /\ Exists(subscription[s])' = Exists(subscription[s])]_subscription

(* An upgrade goes on to Everest only when every Subscription of the       *)
(* namespaces it was started for that has a telemetry setting has the one  *)
(* of this run, up to those that others wrote after it: no namespace and   *)
(* no Subscription is passed over, whichever are empty or unset, and a     *)
(* write that was refused is never taken for done.                         *)
PatchedFirst ==
    [][\A c \in Cli : pc[c] = "list" /\ pc'[c] = "customise" =>
         \A s \in Subscriptions \ disturbed[c] :
            Home[s] \in asked[c] =>
               subscription[s].telemetry \in {"unset", Setting(c)}]_vars

(* Why: the copies are faithful - whoever wrote meanwhile, one that has    *)
(* the current version has the current contents - ...                      *)
CopyInv ==
    /\ \A s \in Subscriptions : ~Exists(subscription[s]) => subscription[s] = None
    /\ \A c \in Cli :
         /\ pc[c] # "patch" => copies[c] = {}
         /\ \A s \in copies[c] :
              /\ copy[c][s].version <= subscription[s].version
              /\ Current(c, s) => copy[c][s] = subscription[s]

(* ... and what an upgrade has neither listed nor patched yet is still on  *)
(* its lists.                                                              *)
Due(c, s) ==
    \/ Home[s] \in namespaces[c] \/ s \in copies[c]
    \/ subscription[s].telemetry \in {"unset", Setting(c)}

PatchInv ==
    \A c \in Cli : pc[c] \in {"list", "patch"} =>
       \A s \in Subscriptions \ disturbed[c] : Home[s] \in asked[c] => Due(c, s)

(* "CLI should keep spec.type untouched to prevent overriding of it": the  *)
(* Service has the type its users last chose, however many upgrades run at *)
(* once and wherever they die, unless a user chose between the moment an   *)
(* upgrade read the type and the moment it wrote it.                       *)
ServiceTypeKept == service.version > 0 /\ ~raced => service.type = chosen

(* Why: whoever is about to write the Service carries the type that was    *)
(* chosen last.                                                            *)
ServiceInv ==
    /\ ServiceTypeKept
    /\ service.version = 0 => chosen = Shipped
    /\ ~raced => \A c \in Cli :
         pc[c] \in Applying \ {"customise"} => type[c] = chosen
=============================================================================
