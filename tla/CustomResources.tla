-------------------------- MODULE CustomResources --------------------------
(***************************************************************************)
(* Everest's custom resources behind their typed clients, and the two      *)
(* questions the library asks about them: is a backup storage in use, and  *)
(* which monitoring configs refer to a secret. The first takes many        *)
(* requests, and others write between any two of them.                     *)
(***************************************************************************)
EXTENDS Naturals, Sequences, FiniteSets

CONSTANTS
    Caller,         \* who asks
    DBNamespaces,   \* what GetDBNamespaces returns, in this order
    SystemNS,       \* the namespace of storages and configs
    Storages,       \* names of backup storages
    Secrets,        \* names of the secrets of monitoring configs
    Names,          \* of all other resources
    NoRef,          \* no label
    MaxStored       \* bound: resources at the same time

Homes == {DBNamespaces[i] : i \in DOMAIN DBNamespaces}

(* What strings.Split returns is never empty.                              *)
ASSUME DBNamespacesDistinct ==
    /\ DBNamespaces \in Seq(Homes) \ {<<>>}
    /\ \A i, j \in DOMAIN DBNamespaces :
          DBNamespaces[i] = DBNamespaces[j] => i = j
ASSUME RefsDistinct ==
    Storages \cap Secrets = {} /\ NoRef \notin Storages \cup Secrets

VARIABLES
    stored,      \* the resources there are, and what each refers to: the
                 \* storage its label names, the secret of a config
    lists,       \* of each caller: the lists it has still to ask for
    wanted,      \* what it looks for
    reply,       \* "idle", "busy", "error", or what the last list returned
    steady,      \* history: what referred to that all through the call
    referred     \* history: what did at some time during the call
resourceVars == <<stored, lists, wanted, reply, steady, referred>>

-----------------------------------------------------------------------------
(* The typed clients: a resource and the requests there are for it. The    *)
(* operators make and change the others with clients of their own.         *)

Client(resource, verbs) == [resource |-> resource, verbs |-> verbs]
Reads == {"list", "get", "watch"}
Writes == {"list", "get", "create", "update", "delete"}
DBClusters == Client("databaseclusters", Reads)
DBClusterBackups == Client("databaseclusterbackups", Reads)
DBClusterRestores == Client("databaseclusterrestores", Reads)
DBEngines == Client("databaseengines", Reads)
BackupStorage == Client("backupstorages", Writes)
MonitoringConfig == Client("monitoringconfigs", Writes)

OfDatabases == {DBClusters, DBClusterBackups, DBClusterRestores, DBEngines}

Keys == [client : OfDatabases, name : Names,
         namespace : Homes]
          \cup [client : {BackupStorage}, namespace : {SystemNS},
                name : Storages]
          \cup [client : {MonitoringConfig}, namespace : {SystemNS},
                name : Names]
Refs == Storages \cup Secrets

Get(k) == "get" \in k.client.verbs /\ k \in DOMAIN stored
(* Lists with a label selector. *)
List(client, n, ref) ==
    {k \in DOMAIN stored : /\ "list" \in k.client.verbs
                           /\ k.client = client
                           /\ k.namespace = n /\ stored[k] = ref}

-----------------------------------------------------------------------------
ResourceTypeOK ==
    /\ DOMAIN stored \subseteq Keys
    /\ \A k \in DOMAIN stored : stored[k] \in Refs \cup {NoRef}
    /\ lists \in [Caller -> Seq((OfDatabases \cup {MonitoringConfig})
                                   \X (Homes \cup {SystemNS}))]
    /\ wanted \in [Caller -> Refs \cup {NoRef}]
    /\ reply \in [Caller -> [state : {"idle", "busy", "error", "ok"},
                             items : SUBSET Keys]]
    /\ steady \in [Caller -> SUBSET Keys]
    /\ referred \in [Caller -> SUBSET Keys]

ResourceInit ==
    /\ stored = [k \in {} |-> NoRef]
    /\ lists = [c \in Caller |-> <<>>]
    /\ wanted = [c \in Caller |-> NoRef]
    /\ reply = [c \in Caller |-> [state |-> "idle", items |-> {}]]
    /\ steady = [c \in Caller |-> {}]
    /\ referred = [c \in Caller |-> {}]

Busy(c) == reply[c].state = "busy"
Referring(store, ref) == {k \in DOMAIN store : store[k] = ref}

Ask(c, ref, todo) ==
    /\ ~Busy(c)
    /\ lists' = [lists EXCEPT ![c] = todo]
    /\ wanted' = [wanted EXCEPT ![c] = ref]
    /\ reply' = [reply EXCEPT ![c] = [state |-> "busy", items |-> {}]]
    /\ steady' = [steady EXCEPT ![c] = Referring(stored, ref)]
    /\ referred' = [referred EXCEPT ![c] = Referring(stored, ref)]
    /\ UNCHANGED stored

(* What is looked through in each of the DB namespaces.                    *)
Users == <<DBClusters, DBClusterBackups, DBClusterRestores>>
(* Returns after the first namespace.                                      *)
ScanFirst == [i \in 1 .. 3 |-> <<Users[i], DBNamespaces[1]>>]
Scan == [i \in 1 .. 3 * Len(DBNamespaces) |->
            <<Users[((i - 1) % 3) + 1], DBNamespaces[((i - 1) \div 3) + 1]>>]

IsBackupStorageUsed(c) ==
    \E k \in Keys : k.client = BackupStorage /\ Get(k) /\ Ask(c, k.name, Scan)
GetMonitoringConfigsBySecretName(c) ==
    \E secret \in Secrets :
        Ask(c, secret, << <<MonitoringConfig, SystemNS>> >>)

(* The first list with an item, or else the last, is the answer.           *)
NextList(c) ==
    /\ Busy(c)
    /\ LET items == List(Head(lists[c])[1], Head(lists[c])[2], wanted[c])
           last == (items # {}) \/ (Len(lists[c]) = 1)
       IN /\ lists' = [lists EXCEPT ![c] = IF last THEN <<>> ELSE Tail(@)]
          /\ reply' = IF last
                      THEN [reply EXCEPT ![c] =
                                [state |-> "ok", items |-> items]]
                      ELSE reply
    /\ UNCHANGED <<stored, wanted, steady, referred>>
ListFails(c) ==
    /\ Busy(c)
    /\ reply' = [reply EXCEPT ![c] = [state |-> "error", items |-> {}]]
    /\ lists' = [lists EXCEPT ![c] = <<>>]
    /\ UNCHANGED <<stored, wanted, steady, referred>>

-----------------------------------------------------------------------------
(* The writes. Each changes one resource at most, whatever requests it     *)
(* makes before that. The history of a call that has ended is forgotten.   *)

Written(store) ==
    /\ stored' = store
    /\ steady' = [c \in Caller |->
           IF Busy(c) THEN steady[c] \cap Referring(store, wanted[c]) ELSE {}]
    /\ referred' = [c \in Caller |->
           IF Busy(c) THEN referred[c] \cup Referring(store, wanted[c])
                      ELSE reply[c].items]
    /\ UNCHANGED <<lists, wanted, reply>>

Put(k, ref) ==
    /\ k \notin DOMAIN stored => Cardinality(DOMAIN stored) < MaxStored
    /\ Written([l \in DOMAIN stored \cup {k} |->
                   IF l = k THEN ref ELSE stored[l]])
Drop(k) == Written([l \in DOMAIN stored \ {k} |-> stored[l]])
Verb(k, verb) == verb \in k.client.verbs

(* A storage refers to nothing, a config to the secret with its key.       *)
Specs(k) == IF k.client = BackupStorage THEN {NoRef} ELSE Secrets
Create(k) == /\ Verb(k, "create") /\ k \notin DOMAIN stored
             /\ \E ref \in Specs(k) : Put(k, ref)
Update(k) == /\ Verb(k, "update") /\ k \in DOMAIN stored
             /\ \E ref \in Specs(k) : Put(k, ref)
Delete(k) == Verb(k, "delete") /\ k \in DOMAIN stored /\ Drop(k)

(* CreateDatabaseCluster, PatchDatabaseCluster and CreateRestore apply the *)
(* object: one that is there is replaced, and has the label then that the  *)
(* caller gave it, or none.                                                *)
ApplyResource(k) ==
    /\ k.client \in {DBClusters, DBClusterRestores}
    /\ \E ref \in Storages \cup {NoRef} : Put(k, ref)
DeleteDatabaseCluster(k) ==
    k.client = DBClusters /\ Get(k) /\ Drop(k)

(* The Everest operator makes engines and backups, sets the labels, and    *)
(* takes backups and restores away.                                        *)
OperatorWrites(k) ==
    /\ k.client \in OfDatabases
    /\ \/ /\ k.client \in {DBClusterBackups, DBEngines}
          /\ k \notin DOMAIN stored /\ Put(k, NoRef)
       \/ /\ k.client # DBEngines /\ k \in DOMAIN stored
          /\ \E s \in Storages : Put(k, s)
       \/ k \in DOMAIN stored /\ k.client # DBClusters /\ Drop(k)

ResourceNext ==
    \/ \E c \in Caller : \/ IsBackupStorageUsed(c)
                         \/ GetMonitoringConfigsBySecretName(c)
                         \/ NextList(c) \/ ListFails(c)
    \/ \E k \in Keys :
         \/ Create(k) \/ Update(k) \/ Delete(k)
         \/ ApplyResource(k) \/ DeleteDatabaseCluster(k) \/ OperatorWrites(k)

ResourceSpec == ResourceInit /\ [][ResourceNext]_resourceVars

-----------------------------------------------------------------------------
(* IsBackupStorageUsed "checks that a backup storage by provided name is   *)
(* used across k8s cluster": a database cluster, backup or restore that    *)
(* refers to it all through the call, in whichever namespace, makes the    *)
(* answer yes; the answer is yes only for what referred to it at some time *)
(* during the call. GetMonitoringConfigsBySecretName leaves out no config  *)
(* that stays. Uses handed over from one resource to another can be missed.*)
LookedThrough(ref) ==
    IF ref \in Storages THEN {DBClusters, DBClusterBackups, DBClusterRestores}
                        ELSE {MonitoringConfig}
SteadyUseSeen ==
    \A c \in Caller : reply[c].state = "ok" =>
        /\ reply[c].items \subseteq referred[c]
        /\ (\E k \in steady[c] : k.client \in LookedThrough(wanted[c]))
             => reply[c].items # {}
        /\ wanted[c] \in Secrets => steady[c] \subseteq reply[c].items

-----------------------------------------------------------------------------
(* Inductive invariant                                                     *)

(* What is looked for is a storage in the lists of the databases, or a     *)
(* secret in that of the configs. What referred to it all the time is in a *)
(* list that is still to be asked for: those before were empty.            *)
StillToRead(c, k) ==
    \E j \in DOMAIN lists[c] : lists[c][j] = <<k.client, k.namespace>>
Asking(c) ==
    /\ wanted[c] \in Refs /\ lists[c] # <<>>
    /\ lists[c] \in Seq((OfDatabases \cup {MonitoringConfig})
                           \X (Homes \cup {SystemNS}))
    /\ wanted[c] \in Secrets => lists[c] = << <<MonitoringConfig, SystemNS>> >>
    /\ steady[c] \subseteq Referring(stored, wanted[c])
    /\ Referring(stored, wanted[c]) \subseteq referred[c]
    /\ \A k \in steady[c] :
          k.client \in LookedThrough(wanted[c]) => StillToRead(c, k)

(* Nothing but configs refers to a secret.                                 *)
ResourceInv ==
    /\ DOMAIN stored \subseteq Keys
    /\ \A k \in DOMAIN stored :
          stored[k] \in Secrets => k.client = MonitoringConfig
    /\ DOMAIN reply = Caller /\ DOMAIN lists = Caller /\ DOMAIN wanted = Caller
    /\ DOMAIN steady = Caller /\ DOMAIN referred = Caller
    /\ \A c \in Caller : /\ steady[c] \subseteq Keys
                         /\ Busy(c) => Asking(c)
    /\ SteadyUseSeen
=============================================================================
