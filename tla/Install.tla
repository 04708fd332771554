------------------------------ MODULE Install ------------------------------
(***************************************************************************)
(* The stages of `everestctl install` one after the other, beside other    *)
(* installs, `token reset`, `upgrade` and `uninstall`: what there is on    *)
(* the cluster when an install or upgrade reports success, and whether the *)
(* access token that a command printed is the one Everest accepts. The     *)
(* modules of the single stages look into them; here a stage is the        *)
(* objects it leaves behind.                                               *)
(*                                                                         *)
(* A process carries out a list of steps. A step is one object: it is      *)
(* created or replaced, in a namespace that takes new objects as long as   *)
(* it is not being deleted, and goes with its namespace. Any process may   *)
(* be killed between two steps; nothing is undone.                         *)
(***************************************************************************)
EXTENDS Naturals, Sequences, FiniteSets

CONSTANTS
    Cli,                        \* invocations of everestctl
    Commands,                   \* the commands each may run
    DBNamespaces,
    Chosen,                     \* the DB namespaces given to each install
    System, Monitoring, OLM,    \* the other namespaces
    Together,                   \* bound: how many run at the same time
    None                        \* no secret

Namespaces == DBNamespaces \cup {System, Monitoring, OLM}

ASSUME CommandsKnown ==
    Commands \in [Cli -> SUBSET {"install", "reset", "upgrade", "uninstall"}]
ASSUME ChosenKnown ==
    IsFiniteSet(DBNamespaces) /\ Chosen \in [Cli -> SUBSET DBNamespaces]
ASSUME NamespacesDistinct ==
    /\ System # Monitoring /\ System # OLM /\ Monitoring # OLM
    /\ {System, Monitoring, OLM} \cap DBNamespaces = {}
ASSUME TogetherPositive == Together \in Nat \ {0}
ASSUME NoneDistinct == None \notin [token : Cli, salt : Nat]

VARIABLES
    object,      \* the objects there are: <<kind, namespace>>
    namespace,   \* of each namespace
    uid,         \* of the system namespace: how often it was created
    monitored,   \* DB_NAMESPACES of the Everest operator
    secret,      \* the everest-token Secret: a token's hash and its salt
    command, status,
    todo,        \* the steps a process has still to carry out
    salt,        \* the UID of the system namespace it has read
    printed,     \* history: whose tokens were printed
    met,         \* history: the processes that ran at some time beside it
    leftover     \* history: it began while a namespace was being deleted

cluster == <<object, namespace, uid, monitored, secret>>
process == <<command, status, todo, salt>>
history == <<printed, met, leftover>>
vars == <<object, namespace, uid, monitored, secret, command, status, todo,
          salt, printed, met, leftover>>

-----------------------------------------------------------------------------
(* The steps of each command                                               *)

Step(do, kind, n) == [do |-> do, object |-> <<kind, n>>]
Apply(kind, n) == Step("apply", kind, n)

(* InstallOLMOperator: the objects in the order of olm.yaml that somebody  *)
(* looks for, and the wait for the last of them.                           *)
InstallOLM == << Step("namespace", "namespace", OLM),
                 Apply("olm-operator", OLM), Apply("packageserver", OLM),
                 Step("await", "packageserver", OLM) >>
(* DoPackageWait waits for what the packageserver serves of the catalog.   *)
InstallPerconaCatalog == << Apply("catalog", OLM),
                            Step("await", "packageserver", OLM),
                            Step("await", "catalog", OLM) >>
provisionOLM ==
    << Step("checkOLM", "olm-operator", OLM) >> \o InstallPerconaCatalog

installVMOperator == << Apply("group", Monitoring),
                        Step("operator", "operator", Monitoring) >>
provisionMonitoringStack ==
    << Step("namespace", "namespace", Monitoring) >>
      \o installVMOperator \o << Apply("monitoring", Monitoring) >>

(* A namespace that is there already taken for a provisioned one.          *)
ProvisionMissing(n) ==
    IF namespace[n] # "absent" THEN <<>>
    ELSE << Apply("group", n), Step("operator", "operator", n),
            Apply("role", n), Apply("roleBinding", n) >>
(* provisionDBNamespaces: what follows the creation of each namespace.     *)
provisionDBNamespace(n) ==
    << Apply("group", n), Step("operator", "operator", n),
       Apply("role", n), Apply("roleBinding", n) >>

provisionEverestOperator ==
    << Step("namespace", "namespace", System), Apply("group", System),
       Step("operator", "operator", System) >>
provisionEverest == << Step("everest", "everest", System) >>

(* generateToken and Reset.Run                                             *)
ResetToken == << Step("uid", "namespace", System),
                 Step("write", "secret", System),
                 Step("print", "secret", System) >>

(* Install.Run, for the namespaces in the order ValidateNamespaces gave.   *)
RunInstall(order) ==
    provisionOLM \o provisionMonitoringStack
      \o [i \in DOMAIN order |-> Step("namespace", "namespace", order[i])]
      \o provisionEverestOperator \o provisionEverest
      \o << Step("token", "secret", System) >>

(* Upgrade.Run; the Subscriptions it patches in between stay the same      *)
(* objects.                                                                *)
RunUpgrade == << Step("checkCSV", "packageserver", OLM) >>
                \o InstallPerconaCatalog
                \o << Apply("everest", System),
                      Step("await", "everest", System) >>
(* Without the flag the namespaces are chosen from those of the operator.  *)
runEverestWizard == << Step("select", "operator", System) >>

DeleteNamespaces(order) ==
    [i \in DOMAIN order |-> Step("delete", "namespace", order[i])]
      \o [i \in DOMAIN order |-> Step("gone", "namespace", order[i])]

(* Uninstall.Run, without the custom resources.                            *)
RunUninstall ==
    << Step("list", "operator", System) >>
      \o DeleteNamespaces(<<Monitoring>>) \o DeleteNamespaces(<<System>>)
      \o << Step("deleteCSV", "packageserver", OLM) >>
      \o DeleteNamespaces(<<OLM>>)

-----------------------------------------------------------------------------
Kinds == {"namespace", "olm-operator", "packageserver", "catalog", "group",
          "operator", "monitoring", "role", "roleBinding", "everest",
          "secret"}
Verbs == {"namespace", "checkOLM", "apply", "await", "operator", "everest",
          "token", "uid", "write", "print", "list", "delete", "gone",
          "deleteCSV", "checkCSV", "select"}
Steps == [do : Verbs, object : Kinds \X Namespaces]
Secrets == [token : Cli, salt : Nat]

TypeOK ==
    /\ object \subseteq Kinds \X Namespaces
    /\ namespace \in [Namespaces -> {"absent", "active", "terminating"}]
    /\ uid \in Nat
    /\ monitored \subseteq DBNamespaces
    /\ secret \in Secrets \cup {None}
    /\ command \in [Cli -> {"install", "reset", "upgrade", "uninstall", "none"}]
    /\ status \in [Cli -> {"idle", "running", "ok", "failed"}]
    /\ todo \in [Cli -> Seq(Steps)]
    /\ salt \in [Cli -> Nat]
    /\ printed \subseteq Cli
    /\ met \in [Cli -> SUBSET Cli]
    /\ leftover \in [Cli -> BOOLEAN]

Init ==
    /\ object = {}
    /\ namespace = [n \in Namespaces |-> "absent"]
    /\ uid = 0
    /\ monitored = {}
    /\ secret = None
    /\ command = [c \in Cli |-> "none"]
    /\ status = [c \in Cli |-> "idle"]
    /\ todo = [c \in Cli |-> <<>>]
    /\ salt = [c \in Cli |-> 0]
    /\ printed = {}
    /\ met = [c \in Cli |-> {}]
    /\ leftover = [c \in Cli |-> FALSE]

Orders(S) == {s \in [1 .. Cardinality(S) -> S] :
                 \A i, j \in DOMAIN s : s[i] = s[j] => i = j}

Running(c) == status[c] = "running"
Others(c) == {d \in Cli \ {c} : Running(d)}

Start(c) ==
    /\ status[c] = "idle" /\ Cardinality(Others(c)) < Together
    /\ \E m \in Commands[c] :
         /\ command' = [command EXCEPT ![c] = m]
         /\ \/ /\ m = "install" /\ Chosen[c] # {}
               /\ \E order \in Orders(Chosen[c]) :
                    todo' = [todo EXCEPT ![c] = RunInstall(order)]
            \/ m = "reset" /\ todo' = [todo EXCEPT ![c] = ResetToken]
            \/ m = "upgrade" /\ Chosen[c] # {}
               /\ todo' \in {[todo EXCEPT ![c] = RunUpgrade],
                             [todo EXCEPT ![c] = runEverestWizard
                                                   \o RunUpgrade]}
            \/ m = "uninstall" /\ todo' = [todo EXCEPT ![c] = RunUninstall]
    /\ status' = [status EXCEPT ![c] = "running"]
    /\ met' = [d \in Cli |-> IF d = c THEN Others(c)
                             ELSE IF Running(d) THEN met[d] \cup {c}
                             ELSE met[d]]
    /\ leftover' = [leftover EXCEPT ![c] =
                        \E n \in Namespaces : namespace[n] = "terminating"]
    /\ UNCHANGED <<cluster, salt, printed>>

-----------------------------------------------------------------------------
(* One step                                                                *)

At(c, do) == Running(c) /\ todo[c] # <<>> /\ Head(todo[c]).do = do
Object(c) == Head(todo[c]).object
Where(c) == Object(c)[2]

(* The rest follows; a command without a step left has succeeded.          *)
Continue(c, rest) ==
    /\ todo' = [todo EXCEPT ![c] = rest]
    /\ status' = [status EXCEPT ![c] = IF rest = <<>> THEN "ok" ELSE @]
Done(c) == Continue(c, Tail(todo[c]))
Fails(c) ==
    /\ todo' = [todo EXCEPT ![c] = <<>>]
    /\ status' = [status EXCEPT ![c] = "failed"]

(* A namespace that is being deleted takes no new objects, but lets those  *)
(* that are still there be replaced.                                       *)
Accepts(o) == \/ namespace[o[2]] = "active"
              \/ namespace[o[2]] = "terminating" /\ o \in object

ApplyObject(c) ==
    /\ At(c, "apply")
    /\ \/ /\ Accepts(Object(c))
          /\ object' = object \cup {Object(c)}
          /\ Done(c)
       \/ ~Accepts(Object(c)) /\ Fails(c) /\ UNCHANGED object
    /\ UNCHANGED <<namespace, uid, monitored, secret, command, salt, history>>

(* One that is being deleted is replaced, which changes nothing.           *)
CreateNamespace(c) ==
    /\ At(c, "namespace")
    /\ LET n == Where(c)
           new == namespace[n] = "absent"
       IN /\ namespace' = IF new THEN [namespace EXCEPT ![n] = "active"]
                                 ELSE namespace
          /\ uid' = IF new /\ n = System THEN uid + 1 ELSE uid
          /\ Continue(c, IF n \in DBNamespaces
                         THEN provisionDBNamespace(n) \o Tail(todo[c])
                         ELSE Tail(todo[c]))
    /\ UNCHANGED <<object, monitored, secret, command, salt, history>>

(* The olm-operator Deployment stands for the whole of OLM; an error of    *)
(* the call that asks for it counts as its absence.                        *)
CheckOLM(c) ==
    /\ At(c, "checkOLM")
    /\ \/ Object(c) \in object /\ Done(c)
       \/ Continue(c, InstallOLM \o Tail(todo[c]))
    /\ UNCHANGED <<cluster, command, salt, history>>

(* upgradeOLM: without the packageserver's version there is no upgrade; an *)
(* OLM that is as new as the shipped one, or not to be upgraded, is left.  *)
upgradeOLM(c) ==
    /\ At(c, "checkCSV")
    /\ \/ Object(c) \notin object /\ Fails(c)
       \/ /\ Object(c) \in object
          /\ \E olm \in {<<>>, InstallOLM} : Continue(c, olm \o Tail(todo[c]))
    /\ UNCHANGED <<cluster, command, salt, history>>

SelectNamespaces(c) ==
    /\ At(c, "select")
    /\ IF Object(c) \in object THEN Done(c) ELSE Fails(c)
    /\ UNCHANGED <<cluster, command, salt, history>>

(* A wait without a deadline for an object that is absent does not end;    *)
(* it is OLM that makes the packageserver's Deployment of its version, and *)
(* serves the catalog.                                                     *)
Await(c) ==
    /\ At(c, "await") /\ Object(c) \in object
    /\ Where(c) = OLM => <<"olm-operator", OLM>> \in object
    /\ Done(c)
    /\ UNCHANGED <<cluster, command, salt, history>>

(* The system namespace told to the operator with the others.              *)
ToldOwn(c) == monitored \cup Chosen[c] \cup {System}
(* DB_NAMESPACES, merged with those of earlier installs.                   *)
Told(c) == monitored \cup Chosen[c]

OLMServes == {"olm-operator", "packageserver", "catalog"} \X {OLM}
               \subseteq object

(* The plan of its Subscription comes from OLM and the catalog, or not     *)
(* within the 300 s. The wait for the rollout at its end, which has no     *)
(* deadline, is taken to end here: it hangs where OLM gives an approved    *)
(* plan up (OperatorInstall). The Everest operator is told the namespaces. *)
InstallOperator(c) ==
    /\ At(c, "operator")
    /\ \/ /\ Accepts(Object(c)) /\ OLMServes
          /\ object' = object \cup {Object(c)}
          /\ monitored' = IF Where(c) = System THEN Told(c) ELSE monitored
          /\ Done(c)
       \/ /\ ~(Accepts(Object(c)) /\ OLMServes)
          /\ Fails(c)
          /\ UNCHANGED <<object, monitored>>
    /\ UNCHANGED <<namespace, uid, secret, command, salt, history>>

(* A Deployment that is there is restarted, which leaves the same objects. *)
(* The manifest is one step here, with the wait for its rollout after it.  *)
InstallEverest(c) ==
    /\ At(c, "everest")
    /\ \/ Object(c) \in object /\ Done(c) /\ UNCHANGED object
       \/ /\ Object(c) \notin object /\ Accepts(Object(c))
          /\ object' = object \cup {Object(c)}
          /\ Continue(c, <<Step("await", "everest", System)>> \o Tail(todo[c]))
       \/ /\ ~Accepts(Object(c))
          /\ Fails(c) /\ UNCHANGED object
    /\ UNCHANGED <<namespace, uid, monitored, secret, command, salt, history>>

-----------------------------------------------------------------------------
(* The token                                                               *)

(* An existing secret replaced by an install.                              *)
GenerateAlways(c) ==
    /\ At(c, "token")
    /\ Continue(c, ResetToken)
    /\ UNCHANGED <<cluster, command, salt, history>>
(* The new token is never printed.                                         *)
GenerateSilently(c) ==
    /\ At(c, "token")
    /\ Continue(c, IF Object(c) \in object THEN <<>>
                   ELSE SubSeq(ResetToken, 1, 2))
    /\ UNCHANGED <<cluster, command, salt, history>>
(* An install makes a token only if it finds no secret.                    *)
GetSecret(c) ==
    /\ At(c, "token")
    /\ Continue(c, IF Object(c) \in object THEN <<>> ELSE ResetToken)
    /\ UNCHANGED <<cluster, command, salt, history>>

GetNamespace(c) ==
    /\ At(c, "uid")
    /\ \/ /\ namespace[System] # "absent"
          /\ salt' = [salt EXCEPT ![c] = uid]
          /\ Done(c)
       \/ namespace[System] = "absent" /\ Fails(c) /\ UNCHANGED salt
    /\ UNCHANGED <<cluster, command, history>>

(* The token of each process is another one.                               *)
SetSecret(c) ==
    /\ At(c, "write")
    /\ \/ /\ Accepts(Object(c))
          /\ object' = object \cup {Object(c)}
          /\ secret' = [token |-> c, salt |-> salt[c]]
          /\ Done(c)
       \/ ~Accepts(Object(c)) /\ Fails(c) /\ UNCHANGED <<object, secret>>
    /\ UNCHANGED <<namespace, uid, monitored, command, salt, history>>

PrintOutput(c) ==
    /\ At(c, "print")
    /\ printed' = printed \cup {c}
    /\ Done(c)
    /\ UNCHANGED <<cluster, command, salt, met, leftover>>

-----------------------------------------------------------------------------
(* Uninstall                                                               *)

GetDBNamespaces(c) ==
    /\ At(c, "list")
    /\ \/ /\ Object(c) \in object
          /\ \E order \in Orders(monitored) :
               Continue(c, DeleteNamespaces(order) \o Tail(todo[c]))
       \/ Object(c) \notin object /\ Fails(c)
    /\ UNCHANGED <<cluster, command, salt, history>>

DeleteNamespace(c) ==
    /\ At(c, "delete")
    /\ \/ /\ namespace[Where(c)] # "absent"
          /\ namespace' = [namespace EXCEPT ![Where(c)] = "terminating"]
          /\ Done(c)
       \/ namespace[Where(c)] = "absent" /\ Fails(c) /\ UNCHANGED namespace
    /\ UNCHANGED <<object, uid, monitored, secret, command, salt, history>>

(* The poll has no deadline.                                               *)
PollForever(c) ==
    /\ At(c, "gone") /\ namespace[Where(c)] = "absent"
    /\ Done(c)
    /\ UNCHANGED <<cluster, command, salt, history>>
(* The poll goes on for five minutes, be it for a namespace that another   *)
(* process has created again.                                              *)
PollNamespace(c) ==
    /\ At(c, "gone")
    /\ IF namespace[Where(c)] = "absent" THEN Done(c) ELSE Fails(c)
    /\ UNCHANGED <<cluster, command, salt, history>>

DeleteCSV(c) ==
    /\ At(c, "deleteCSV")
    /\ \/ /\ Object(c) \in object
          /\ object' = object \ {Object(c)}
          /\ Done(c)
       \/ Object(c) \notin object /\ Fails(c) /\ UNCHANGED object
    /\ UNCHANGED <<namespace, uid, monitored, secret, command, salt, history>>

(* The namespace controller.                                               *)
NamespaceGone(n) ==
    /\ namespace[n] = "terminating"
    /\ namespace' = [namespace EXCEPT ![n] = "absent"]
    /\ object' = {o \in object : o[2] # n}
    /\ monitored' = IF n = System THEN {} ELSE monitored
    /\ secret' = IF n = System THEN None ELSE secret
    /\ UNCHANGED <<uid, process, history>>

-----------------------------------------------------------------------------
(* A call fails, or the process is killed.                                 *)
Stop(c) ==
    /\ Running(c)
    /\ Fails(c)
    /\ UNCHANGED <<cluster, command, salt, history>>

Advance(c) ==
    \/ ApplyObject(c) \/ CreateNamespace(c) \/ CheckOLM(c) \/ Await(c)
    \/ upgradeOLM(c) \/ SelectNamespaces(c)
    \/ InstallOperator(c) \/ InstallEverest(c)
    \/ GetSecret(c) \/ GetNamespace(c) \/ SetSecret(c) \/ PrintOutput(c)
    \/ GetDBNamespaces(c) \/ DeleteNamespace(c) \/ PollNamespace(c)
    \/ DeleteCSV(c)

Terminated ==
    (\A c \in Cli : ~Running(c) /\ status[c] # "idle") /\ UNCHANGED vars

Next ==
    \/ \E c \in Cli : Start(c) \/ Advance(c) \/ Stop(c)
    \/ \E n \in Namespaces : NamespaceGone(n)
    \/ Terminated

Spec == Init /\ [][Next]_vars

(* A process that can go on does, and so does the namespace controller;    *)
(* failures and kills need not happen. That an operator's step or the wait *)
(* for an object that is there goes on is the fairness of OLM and of the   *)
(* Deployment controller.                                                  *)
FairSpec ==
    /\ Spec
    /\ \A c \in Cli : WF_vars(Advance(c))
    /\ \A n \in Namespaces : WF_vars(NamespaceGone(n))

-----------------------------------------------------------------------------
(* Properties                                                              *)

(* An uninstall ran beside the process, or left it a namespace that was    *)
(* still being deleted.                                                    *)
Undone(c) == leftover[c] \/ \E d \in met[c] : command[d] = "uninstall"

Provisioned(n) ==
    {"group", "operator", "role", "roleBinding"} \X {n} \subseteq object

Complete(c) ==
    /\ OLMServes
    /\ {"group", "operator", "monitoring"} \X {Monitoring} \subseteq object
    /\ \A n \in Chosen[c] : Provisioned(n)
    /\ {"group", "operator", "everest", "secret"} \X {System} \subseteq object
    /\ Chosen[c] \subseteq monitored

(* What a successful upgrade leaves; it does not make up for an install    *)
(* that died before it.                                                    *)
Upgraded == OLMServes /\ <<"everest", System>> \in object

(* An install that exits with success leaves the whole of Everest behind,  *)
(* wherever earlier commands died, and whoever installs, upgrades or       *)
(* resets beside it; an upgrade leaves an OLM that serves the catalog, and *)
(* Everest. An uninstall must not undo it meanwhile.                       *)
ReportedComplete ==
    [][\A c \in Cli :
         Running(c) /\ status'[c] = "ok" /\ ~Undone(c)
         => /\ command[c] = "install" => Complete(c)'
            /\ command[c] = "upgrade" => Upgraded']_vars

(* Whoever checks a token hashes it with the UID of the namespace.         *)
Works(c) == secret = [token |-> c, salt |-> uid]

(* "Here's your authorization token": the token a command printed works    *)
(* until the user asks for another, uninstalls, or ran commands at once;   *)
(* no later install, whatever it finds, takes it away.                     *)
PrintedTokenWorks ==
    \A c \in printed :
        \/ Works(c)
        \/ \E d \in Cli \ {c} : command[d] \in {"reset", "uninstall"}
        \/ \E d \in met[c] : command[d] = "install"

(* "Store this token securely as you will not be able to retrieve it       *)
(* later": after a successful install the secret is for a token somebody   *)
(* was told, is being told, or was not told because his command died.      *)
TokenIsKnown ==
    [][\A c \in Cli :
         /\ command[c] = "install" /\ Running(c) /\ status'[c] = "ok"
         /\ ~Undone(c)
         => /\ secret # None
            /\ \/ secret.token \in printed'
               \/ status[secret.token] \in {"running", "failed"}]_vars

(* A command that is left alone ends, if OLM carries out what is approved  *)
(* and what is rolled out gets ready. It hangs only where an uninstall     *)
(* takes away what it waits for, or on an OLM of which earlier commands    *)
(* left no more than the Deployment that stands for all of it, or all but  *)
(* that.                                                                   *)
HalfOLM == <<"olm-operator", OLM>> \in object
              <=> <<"packageserver", OLM>> \notin object
Ends ==
    \A c \in Cli : Running(c) ~> ~Running(c) \/ Undone(c) \/ HalfOLM
-----------------------------------------------------------------------------
(* Inductive invariants                                                    *)

(* What each command does, beside the making of a token.                   *)
Installing == Verbs \ {"token", "uid", "write", "print", "list", "delete",
                       "gone", "deleteCSV"}
Doing(m) == CASE m = "install" -> Installing \cup {"token"}
              [] m = "upgrade" -> Installing
              [] m = "uninstall" -> {"list", "delete", "gone", "deleteCSV"}
              [] OTHER -> {}
Planned(m) == {s \in [do : Doing(m), object : Kinds \X Namespaces] :
                  IF s.do = "token" THEN s.object = <<"secret", System>>
                  ELSE s.object[1] # "secret"}
Plan(m) == Seq(Planned(m))

ToWrite == Tail(ResetToken)
ToPrint == Tail(ToWrite)

CommandInv ==
    /\ \A c \in Cli :
         /\ status[c] = "idle" <=> command[c] = "none"
         /\ \/ todo[c] \in Plan(command[c])
            \/ /\ todo[c] \in {ResetToken, ToWrite, ToPrint}
               /\ command[c] \in {"install", "reset"} /\ Running(c)
         /\ c \in printed => command[c] \in {"install", "reset"}
    /\ \A c, d \in Cli : Running(c) /\ Running(d) /\ c # d => d \in met[c]
    /\ (\E n \in Namespaces : namespace[n] = "terminating") =>
          \E c \in Cli : command[c] = "uninstall"

(* Nobody but the process itself was to make a token or delete a namespace *)
(* and no install ran beside it.                                           *)
Undisturbed(c) ==
    /\ \A d \in Cli \ {c} : command[d] \notin {"reset", "uninstall"}
    /\ \A d \in met[c] : command[d] # "install"
Written(c) == c \in printed \/ todo[c] = ToPrint

(* The UID a process has read stays that of the namespace; the secret it   *)
(* has written stays, as the installs that come later find it.             *)
TokenKept(c) ==
    /\ todo[c] = ToWrite => namespace[System] = "active" /\ salt[c] = uid
    /\ Written(c) =>
          /\ namespace[System] = "active"
          /\ Works(c) /\ <<"secret", System>> \in object
          /\ \A d \in Cli \ {c} :
                Running(d) /\ d \notin met[c] => todo[d] \in Plan(command[d])
TokenInv == \A c \in Cli : Undisturbed(c) => TokenKept(c)

(* An install comes to its token last.                                     *)
EndsInToken(steps) ==
    /\ steps # <<>>
    /\ \A i \in 1 .. Len(steps) : steps[i].do = "token" <=> i = Len(steps)
ToToken(c) == todo[c] \in {ResetToken, ToWrite, ToPrint} \/ EndsInToken(todo[c])

(* The secret there is belongs to a token that was printed, is going to be *)
(* or was lost with its process; what an install has written stays, unless *)
(* it is undone.                                                           *)
SecretInv ==
    /\ secret # None <=> <<"secret", System>> \in object
    /\ secret # None => \/ secret.token \in printed
                        \/ todo[secret.token] = ToPrint
                        \/ status[secret.token] = "failed"
    /\ \A c \in Cli : Running(c) =>
         /\ command[c] = "install" => ToToken(c)
         /\ ~Undone(c) /\ command[c] # "uninstall" =>
               \A n \in Namespaces : namespace[n] # "terminating"
         /\ ~Undone(c) /\ todo[c] = ToPrint => secret # None

(* A step leaves the object o behind, itself or by those it is replaced    *)
(* with.                                                                   *)
Leaves(s, o) ==
    \/ /\ s.do \in {"apply", "await", "operator", "everest", "token", "write"}
       /\ o = s.object
    \/ s.do = "await" /\ s.object[2] = OLM /\ o = <<"olm-operator", OLM>>
    \/ /\ s.do = "namespace" /\ s.object[2] \in DBNamespaces
       /\ o \in {"group", "operator", "role", "roleBinding"} \X {s.object[2]}
StepsOf(steps) == {steps[i] : i \in 1 .. Len(steps)}

Needed(c) ==
    {"olm-operator", "packageserver", "catalog"} \X {OLM}
      \cup {<<"everest", System>>}
      \cup IF command[c] = "upgrade" THEN {}
           ELSE {"group", "operator", "monitoring"} \X {Monitoring}
                  \cup {"group", "operator", "role", "roleBinding"} \X Chosen[c]
                  \cup {"group", "operator", "secret"} \X {System}

(* What a command is to leave behind is there or left by a step it has     *)
(* still before it; so are the namespaces told to the operator.            *)
Covered(c) ==
    /\ \A o \in Needed(c) :
          o \in object \/ \E s \in StepsOf(todo[c]) : Leaves(s, o)
    /\ command[c] = "install" =>
          \/ Chosen[c] \subseteq monitored
          \/ Step("operator", "operator", System) \in StepsOf(todo[c])
CoverInv ==
    \A c \in Cli : Running(c) /\ ~Undone(c) /\ command[c] \in {"install", "upgrade"}
                     => Covered(c)
=============================================================================
