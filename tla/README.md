# A verification of everestctl

TLA+ models of `percona-everest-cli` (`src/`), the command-line tool that puts
Percona Everest on a Kubernetes cluster, upgrades it and takes it away. TLC checks
the models on small instances; TLAPS proves what matters most for every instance.

The program is a client: it keeps nothing between two runs, every state it works
on lives in the cluster, and it changes that state one API call at a time, with no
transaction and with other actors at work - other runs of the CLI, the Operator
Lifecycle Manager (OLM), the controllers of the cluster, its users. What can go
wrong is therefore what these models are about: copies that are stale when they
are used, commands that die between two calls and are run again, waits for
something that nobody is bound to bring about, the order in which things are
created and destroyed.

## Inventory

| Component | Source | State | Operations | Interacts with |
|---|---|---|---|---|
| Managed namespaces | `pkg/install/install.go`, `pkg/kubernetes/kubernetes.go` | OperatorGroup targets, `DB_NAMESPACES` in the Subscription, subjects of a ClusterRoleBinding | `CreateOperatorGroup`, `InstallOperator`, `InstallEverest`, `UpdateClusterRoleBinding`, `Upgrade.Run` | other runs, OLM (status writes) |
| Operator installation | `install.go` (`provisionOperators`), `kubernetes.go` (`InstallOperator`, `approveInstallPlan`) | goroutines, the errgroup, Subscriptions, InstallPlans | launch, create or update, poll, approve, wait | OLM, the Deployment controller, other runs |
| OLM and catalog | `kubernetes.go` (`InstallOLMOperator`, `applyResources`), `pkg/upgrade/upgrade.go` | versions of OLM's objects, of the catalog | install, upgrade, apply with retries | OLM, other runs |
| Uninstall | `pkg/uninstall/uninstall.go` | custom resources with finalizers, namespaces | eight stages: list, delete, poll | operators, namespace controller, users |
| Rollout and restart | `kubernetes.go` (`RestartEverest`), `client/client.go` (`pollRolloutComplete`) | the Deployment's status, pods | apply, wait for the rollout, delete pods, wait for new ones | the Deployment controller, OLM |
| Upgrade pipeline | `pkg/upgrade/upgrade.go` | - | OLM, catalog, `patchSubscriptions`, manifest | the above |
| Install pipeline | `install.go` (`Run`), `role.go`, `commands/install.go` | every object an install leaves, the namespaces | the stages in their order, exit with success or an error | other runs, uninstall, the namespace controller |
| Access token | `pkg/token/reset.go`, `install.go:176` | one Secret, salted with the namespace's UID | first token, reset, print | other runs |
| Manifest application | `client/client.go` (`ApplyManifestFile`, `DeleteManifestFile`) | the manifest's objects, the Service's type | decode, customise, get, create or replace, delete | users |
| Monitoring stack | `kubernetes.go` (`ProvisionMonitoring`), `client/monitoring.go` | thirteen files | apply, three attempts each; delete by type and label | - |
| Usage of storages and configs | `kubernetes/backup_storage.go`, `monitoring_config.go`, `client/customresources/` | Everest's custom resources | typed reads and writes, list after list until one has an item | operators, users |
| Operator upgrade | `kubernetes.go` (`UpgradeOperator`, `applyCSVs`), `client.go` (`DoCSVWait`) | InstallPlans, the phases of ClusterServiceVersions | poll, approve, wait | OLM, administrators |
| Pure functions | `ValidateNamespaces`, `mergeSubscriptionConfig`, `GetDBNamespaces`, `GetWorkerNodes`, `GetEvents` ... | none | - | the operator's environment carries the list between commands |
| Commands | `commands/`, `pkg/output` | none | flags, exit status, printing of the token | - |
| Not modelled | single-request wrappers, generated mock, logging, versions, embedded YAML | none of their own | one call each, formatting | - |

What makes each component correct, and what is hard about it:

* *Managed namespaces.* Nothing that an install added may be lost, and a success
  must mean that all three objects know the namespaces. Hard: the merge starts
  from a copy; three objects, no transaction; runs race and die.
* *Operator installation.* The goroutines must behave like a loop that returns
  early, and the rollout wait, which has no deadline, must begin only when
  somebody is bound to end it. Hard: InstallPlans are shared between operators
  and runs and are rewritten by OLM; conflicts must be retried.
* *OLM.* The version read from one object must speak for all the others. Hard: the
  objects are applied one by one and any run may die in the middle.
* *Uninstall.* Whoever must finish an object outlives it, nobody's database goes
  unasked, and the command ends. Hard: two commands' worth of half-done states,
  controllers, users.
* *Rollout and restart.* A wait that ends well was about the change it followed.
  Hard: the status is old news, lists contain pods that are going away.
* *Install pipeline and token.* Success must mean a whole Everest and a token that
  works, whatever an earlier run left. Hard: objects of the size of one namespace
  stand for a stage, uninstall takes namespaces away under a running install, and
  the secret, its salt and the printed token are three separate steps.
* *Files.* What a call reports is what it did. Hard: retries, errors that are taken
  for absence, a document that cannot be decoded and ends the file unnoticed.
* *Questions that take many requests.* The answer must be right of what did not
  change while it was looked for.

`PROJECT.json` names every hazard at its line and the properties that cover it.

## Modules

| Module | What it is |
|---|---|
| `Registry` | abstract: what an install promises about the list of namespaces |
| `ManagedNamespaces` | the three objects and every install and upgrade that writes them; implements `Registry` |
| `ManagedNamespacesProofs` | its theorems |
| `InstallSequence` | abstract: operators are installed in order, nothing after a failure |
| `OperatorInstall` | the errgroup, `InstallOperator` and OLM; implements `InstallSequence` |
| `OperatorInstallProofs` | its theorems |
| `OLMInstall` | installing and upgrading OLM and the catalog |
| `OLMInstallProofs` | its theorems |
| `Uninstall` | `everestctl uninstall` with the cluster and its users |
| `UninstallProofs` | its theorems |
| `EverestUpgrade` | patching the Subscriptions and the Service of the manifest, beside OLM, other upgrades and users |
| `EverestUpgradeProofs` | its theorems |
| `Install` | all stages of `Install.Run` in a row, and of `Upgrade.Run`, beside installs, upgrades, resets and uninstalls |
| `InstallProofs` | its theorems |
| `Manifests` | files of objects applied and deleted, with their retries and errors |
| `CustomResources` | the typed clients, and the questions asked over many lists |
| `Lookups` | the namespaces' way through the Subscription and back; what is computed from what was read |
| `OperatorWaits` | `UpgradeOperator` and `applyCSVs`, waiting for OLM |
| `Library` | `Manifests`, `CustomResources`, `Lookups` and `OperatorWaits` together |
| `LibraryProofs` | their theorems, and lemmas about numbers, lists and finite sets |
| `EverestRollout` | following a Deployment: the rollout wait and the restart |
| `EverestRolloutProofs` | its theorems |
| `MC...` | the instances TLC checks |

Some definitions stand directly in front of the one they vary (`ReplacedNamespaces`
before `MergedNamespaces`, `NoSleep` before `Sleep`, `RetryFour` before `Retry`): a plausible mistake in the
code, kept to show that each property notices one. The models never use them.

### How the models correspond to the code

*Processes.* A run of the CLI is a process with a program counter; one action is
one API call together with everything the code does until the next one. Run again
after a crash means another member of `Cli` (`Uninstall`: another value of `runs`).

*API server.* `ManagedNamespaces` and `OperatorInstall` give objects a version; a
write from a copy whose version is not current is refused (conflict). `ApplyObject`
(`client.go:384`) gets the object and then creates or replaces it; it overwrites
when the object at hand carries no version, and conflicts when it does, which is
why `UpdateClusterRoleBinding`, who got the binding first, is protected and the
manifest is not.

*Errors.* In each module one or two actions (`Fail`, `Error`, `Abandon`) stand for
the error returns of all the steps; they are possible at every call. Errors the
code swallows are modelled where it swallows them: `CreateSubscription` takes
AlreadyExists for success (`client.go:1172`), `deleteObject` takes any error of its
GET for absence (`client.go:374`), `InstallOLMOperator` does the same with the
Deployment it looks for (`kubernetes.go:400`).

*Waits.* A poll is an action that is enabled when its condition holds, next to an
action for its deadline if it has one. `DoRolloutWait` and `DoPackageWait` have
none.

`ManagedNamespaces`: `Start` is the choice of command and namespaces, the next five
actions are `provisionEverestOperator` and `InstallOperator` up to its write of the
Subscription, `GetDeployment` .. `ApplyBinding` are `provisionEverest`. An upgrade
is only its `InstallEverest`, the one stage that writes these objects.

`OperatorInstall`: `launched`, `InFlight` and `cancelled` are the errgroup (limit,
slots, context); a goroutine keeps its slot through `failing` and `failed`, because
the group cancels its context before it frees the slot. `Resolve` and `Execute`
are OLM: one plan for all the Subscriptions that are not installed, executed once
approved.

`OLMInstall`: `Files` has those of the objects of `crds.yaml` and `olm.yaml` that
somebody tells apart, in their order; a version is the release an object was
applied from. `Reapply` is the retry of a whole file, `Expire` its 30 seconds.

`Uninstall`: `pc` is a step and a stage; `After` is the order of the stages in
`Run`. `FinishEngine` and `FinishObject` are the operators that handle finalizers,
which they can only while their pods run; the last four actions of the cluster are
the namespace controller. Half of the map of this module is external for that
reason: what an uninstall order is good for is decided outside the CLI.

`EverestUpgrade`: `ListSubscriptions` and `PatchSubscription` are the two loops of
`patchSubscriptions`; a Subscription is what the CLI changes (the setting), whether
it has the configuration the code dereferences, and a number for all the rest, so
that a lost write of others shows. `GetObject` .. `PutObject` are `applyObject` for
the Service: `ReadVersion` is the client library's own read of the version before a
replace, which the Subscriptions, who carry one, do not get. `asked`, `disturbed`,
`chosen` and `raced` are history.

`EverestRollout`: `RolledOut` and `TimedOut` are `rolloutComplete` of
`client.go:1068`; `ListPods`, `DeletePod` and `PollPods` are `RestartEverest`. The
Deployment is there from the start: a missing one is in `OperatorInstall`.

`Install`: a process is its command and the list of steps it has still to carry
out; the lists (`RunInstall`, `RunUpgrade`, `ResetToken`, `RunUninstall`) are the code's calls in
their order, and a step that depends on the cluster puts its own steps in front
(`CheckOLM` all of OLM, or only the catalog; `GetSecret` the token). A step is one
object that stands for all that its call makes; the other modules look inside
(`ManagedNamespaces` into `operator` and `everest`, `OLMInstall` into OLM's files,
`Manifests` into `monitoring`). An object can be made only in a namespace that is
not Terminating, and goes with it. A token is named after the process that made it;
the secret holds it with the UID of the namespace it was salted with, and Everest
accepts it as long as that is the UID. `Continue` is the exit status, `PrintOutput`
may fail after `SetSecret` has succeeded. An upgrade applies OLM again or not
(`upgradeOLM`: which of the two is in `OLMInstall`), then the catalog and the
manifest; the Subscriptions it patches stay the same objects and are in
`EverestUpgrade`.

`InstallOperator` ends with a rollout wait that has no deadline. In `Install` it is
part of a step that is done or fails: where it hangs is the matter of
`OperatorInstall` (`PlansMayFail`).

`Manifests`: `getObjects` decodes a file up to the first document that is no YAML
(`client.go:842`) and fails on one that is no object; only `getManifestData` can
meet either, the other files are embedded (`FilesIntact`). `Retry` is the loop of
`ProvisionMonitoring`. `unnoticed` is history: an error the code drops. The rollout
wait of `InstallEverest` has its actions, but nothing makes them happen.
`DeleteAllMonitoringResources` deletes by type and label: all of a type is one
request, and one element of `Labelled`. The ConfigMap of the monitoring files
(`crds/victoriametrics/kube-state-metrics/configmap.yaml`) has neither a type that
`monitoringResourceTypesForRemoval` lists nor the label, so that it stays; the
instance has it, and `OutcomeIsTrue` speaks of what is labelled.

`CustomResources`: `Scan` is the order of the lists of `IsBackupStorageUsed`,
`NextList` one of them with the test after it; every other action is a write of one
resource by the library, a user or an operator.

`Lookups`: a comma-separated string is the sequence of its fields, so that the
empty string is one empty field, as in Go. `InstallWith` is the whole way from the
flag, or from the wizard, which validates what is typed before `populateConfig` does
so once more, to the Subscription's environment; OLM's copy of it into the Deployment is
taken to be faithful. The questions are one action, `AskLibrary`, that records the
question with the answer. Where the code's answer is known to be wrong - a node of
several taints, an image with a port - the operator gives that wrong answer, and
`AnswersRight` names the case. The operators an install is asked for - by flags, or
in the wizard, which forgets the flags - are compared with those that
`ListEngineDeploymentNames` finds afterwards.

`OperatorWaits`: a request and what follows it is an action; `fresh` is the
optimistic lock of the plan; the last five actions are OLM. `applyCSVs` is the
general call; the files the CLI embeds have no Subscription. `checkPodErrors` is
never reached: `checkDeploymentErrors` is called once the context is over, so that
each of its requests for a Deployment fails, and the reasons its comment
(`client.go:963`) speaks of are never read.

## What is checked

| Run | Instance | What it shows |
|---|---|---|
| `fresh` | three invocations, installs and upgrades, no Everest | stale copies never lose a namespace (`MonitoredIsUnion`, `MonitoredNeverShrink`); an install nobody overlapped ends with all three objects right, whatever was left before (`RegisteredOnCompletion`); the inductive `SubscriptionInv` |
| `installed` | two installs at once, Everest there, OLM writes once | the installs implement the registry (`ImplementsRegistry`), what was reported stays (`ReportedStays`) |
| `targets` | two installs in turn | *violated*: an install replaces the targets of the earlier ones |
| `grants` | an upgrade | *violated*: the manifest replaces the subjects installs added |
| `operators` | two runs at once, two operators, one write by OLM | each run is a loop that returns early (`ImplementsSequence`), no rollout wait with nobody to end it (`NoDeadEnd`), both runs end (`Terminates`) |
| `olm` | three invocations of two releases, one may overlap | the packageserver's version is a commit point (`CSVIsCommitPoint`, `NothingToDoMeansUpgraded`), no downgrade in turn (`NeverDowngraded`), every command ends (`Ends`) |
| `uninstall` | two runs, two databases, a storage, a config, users | operators outlive their objects (`OperatorsOutliveObjects`), no database that was there when a run looked goes unasked (`NoDatabaseWithoutConsent`), no stage waits for a later one (`Completes`) |
| `uninstall_rerun` | the same without users | *violated*: a second run skips the two minutes the code says it must wait |
| `everest_upgrade` | two upgrades that disagree about telemetry, two Subscriptions, an empty namespace, one write by others | stale lists change nothing but telemetry (`OnlyTelemetryChanges`), nothing is passed over (`PatchedFirst`), the Service keeps its type (`ServiceTypeKept`) |
| `rollout` | an upgrade and a restart at once, OLM, one crash | a wait that ends well saw the newest specification (`RolledOutIsNewest`), a restart leaves nothing old (`RestartReplacesAll`), waiting for ever needs a finished rollout that lost a pod (`Ends`) |
| `install` | an install, a second one, a reset or an upgrade, and a reset or an uninstall, two of them at a time, each may die at any step | success means all of Everest, whatever was left before, for an upgrade an OLM that serves the catalog, and Everest (`ReportedComplete`); a printed token works (`PrintedTokenWorks`) and the secret is of a token somebody was told (`TokenIsKnown`); an install ends (`Ends`) |
| `library` | one instance each of `Manifests`, `CustomResources`, `Lookups`, `OperatorWaits`, which share no state | calls report what they did (`OutcomeIsTrue`) and end, or come to the rollout wait (`CallsEnd`); a steady use is seen (`SteadyUseSeen`); the namespaces survive their round trip (`NamespacesRoundTrip`); answers about nodes, classes, engines, versions, logs, events (`AnswersRight`); waits for OLM report what happened (`WaitsTellTruth`) |

The strengthenings that only the proofs need (the sections "Inductive invariants" of
the modules) are not runs of their own: TLC was asked whether they hold on the
instances above before they were proved inductive.

### Findings

* `kubernetes.go:762` - a second install writes its own targets over those of the
  first, while `DB_NAMESPACES` is merged: the operator lists namespaces that its
  OperatorGroup does not target any more.
* `upgrade.go:104` - an upgrade reapplies the ClusterRoleBinding of the manifest and
  does not call `UpdateClusterRoleBinding`: the subjects in the DB namespaces go.
* `uninstall.go:92` - the pause for the DB operators belongs to the deletion of the
  databases; a run after one that died in the pause finds no databases and deletes
  the namespaces at once.

Some properties hold only with a condition, and the condition is itself news:
`RegisteredOnCompletion` and `CSVIsCommitPoint` need commands that do not overlap
(two first installs: the loser's namespaces are nowhere; two upgrades of different
releases: OLM can go back), `Terminates` needs plans that OLM does execute
(otherwise the rollout wait hangs; set `PlansMayFail`), `NoDatabaseWithoutConsent`
excludes databases created after the look of the run that deletes, `Ends` of `EverestRollout` names the
rollout that completed and broke, `ServiceTypeKept` the choice a user makes between
an upgrade's read and its write. `Ends` of `Install` names two hangs: an uninstall
takes away what is waited for, or an earlier run died in the middle of OLM and left
one of its Deployment and the packageserver without the other (`HalfOLM`), so that
`InstallOLMOperator` skips the rest or waits for what nobody makes.
`TokenIsKnown` names the command that died between the secret and its printing:
later installs find the secret and print nothing, only a reset helps.
`OutcomeIsTrue` names the page that is no YAML and is applied as nothing
(`unnoticed`). `CallsEnd` ends at the rollout wait of `InstallEverest`
(`AwaitsRollout`), with the whole manifest applied or such a page passed over:
`pollRolloutComplete` has no deadline, so that the wait itself may last. `SteadyUseSeen` speaks of uses that last: one handed over
from a list still to be read to one already read is missed.

### Bounds

Three invocations (`fresh`, `olm`) are one that leaves something behind, one that
races and one that must cope; two suffice where everybody is alike (`installed`,
`operators`). Three namespaces are two that invocations add apart and one that is
there already; two operators are the smallest list that can be reordered.
`MaxStatusWrites` and `MaxWrites` count OLM's writes: one is enough to make any one
copy stale. `MaxPlans = 2` lets OLM make a second plan, so that a Subscription can
refer to another one when an approval is tried again. `Files` keeps five objects:
the two the CLI and OLM look for, one before, one between and one after. `MaxRuns =
2` is an interrupted uninstall and the next. `everest_upgrade` has two
interchangeable Subscriptions (model values, symmetry) and an empty namespace; one
write by others makes a copy stale, slips in behind a list or races the type.
`created` lets users create each name once after each run's look for databases, when
it is emptied. `Overlaps = 1` keeps two invocations of
the three apart. One replica, two generations and one crash are enough for a status
to be stale and a pod to be lost; a fourth pod is never created. `Together = 2`:
three processes of which two overlap give a leftover and a race; one DB namespace
is enough, since namespaces are handled alike and `ManagedNamespaces` has the sets.
In `library`, the monitoring files are three of one or two objects (a retry in the
middle of a file, files before and after) and an Everest manifest of three;
`MaxStored = 3` resources in two namespaces with one storage and one secret let a
use move between lists; typed lists have up to three fields of two valid names with
blanks, an empty one, a malformed and a reserved one; clusters have up to two nodes
of up to two taints, lists of events two pages; `MaxVersion = 2` lets OLM replace
the version that is waited for, of two Subscriptions.

### Fairness

Weak fairness is assumed of: a process or goroutine that can go on (the Go
scheduler, the API server answering), deadlines (the clock), the polls, OLM where
it executes approved plans or serves (`Execute`, `Serve`), the namespace
controller, the operators that run, the Deployment controller's writes of the
status and its progress deadline.

* `Manifests`: only of a call's own requests, each of which gets an answer or an
  error (`ManifestProgress`). `RolloutDone` and `RolloutFails` are not among them:
  nothing is assumed of rollouts.
* `Install`: of a process whose step is enabled. An operator's step and the wait for
  an object that is there always end in it, be it with an error: that is the
  fairness of OLM, which makes and executes plans, and of the Deployment controller,
  whose rollouts complete or exceed their progress deadline. Where either does not
  is in `OperatorInstall` (`PlansMayFail`) and `EverestRollout` (`Ends`), and `Ends`
  of `Install` does not speak of it.
* `OperatorWaits`: none. OLM need not do anything, and no caller gives these waits a
  deadline.

Nothing is assumed of: errors, crashes, kills, users, OLM's making of plans (the
poll has 300 s for it), pods becoming ready.

### Hazards without a property

`PROJECT.json` lists what is hard to test here, also where the code does not cope.
In these cases a property would be false, or would have to except the very case, so
that no property is claimed to cover them:

* `client.go:1172` two first installs, one configuration lost; `upgrade.go:201` two
  upgrades at once lower OLM; `token/reset.go:88` a namespace made again under a
  token; `install.go:420` an install into a namespace that is being deleted.
* `kubernetes.go:401` an install after one that died inside OLM hangs;
  `client.go:1072` and `client.go:1101` rollout waits without an end;
  `uninstall.go:254` an uninstall that failed late cannot be completed.
* `uninstall.go:88` and `uninstall.go:109` what users create during an uninstall.
* `client.go:842` an error page taken for an empty manifest; `kubernetes.go:377`
  nodes of several taints; `kubernetes.go:227` images with a port or without a tag.
* `kubernetes.go:906` a restart that ends at the first moment without a pod.

The properties nearest to them say by name what they except.

## What is proved

Every safety invariant and every action property that a passing run checks, and both
refinements, are theorems for all values of the constants. Each component has `TypeCorrect`: `Spec => []TypeOK`, together with what its types
rest on. What follows names the assumptions beyond the typing of the constants,
and why the property alone is not inductive.

**`ManagedNamespacesProofs`**, for all namespaces, all sets of invocations and any
number of status writes:

* `SubscriptionInvariant`, and from it `MonitoredUnion` and `NeverShrink` -
  `MonitoredIsUnion` is not inductive: from a state where a process holds a wrong
  copy of the current version, its merge would lose names. `SubscriptionInv` adds
  what excludes it: whoever is about to update holds an older version, which the API
  server refuses, or exactly the contents.
* `Registered` - `RegisteredOnCompletion` speaks of the last step of an install,
  which knows of the binding only. `AloneInv` carries what it went past: with
  nobody beside it, the targets and the list are still as it left or found them,
  and it creates the Subscription only if there is none, so that `AlreadyExists`
  is never swallowed.
* `Refinement` - with Everest installed (`Installed # {}`), every step of an install
  or upgrade is a step of `Registry` or a stutter. `ReinstallInv` says that no
  install takes the create path then, so that being past the Subscription means
  having written it; without it the refinement is false (two first installs).
* `ReportedStay` - with Everest installed and installs only, what was reported
  stays. `BindingInv` says that nobody reapplies the manifest and that whoever
  updates the binding does it from a faithful copy.

**`InstallProofs`**, for any commands, namespaces, and number of processes at a time:

* `TypeCorrect` includes `CommandInv`: a process has steps of its command before it
  or is making a token, all that run at once have met, and nothing is being deleted
  unless somebody uninstalls. That plans stay plans under concatenation and `Tail`
  are lemmas of their own.
* `PrintedWorks` - `PrintedTokenWorks` is about tokens printed; `TokenInv` follows a
  token from the reading of the UID: the namespace stays that one until the secret
  is written, and an install that starts after the write finds the secret.
* `TokenKnown` - `TokenIsKnown` is about one step; `SecretInv` says of every state
  whose token the secret is, that the object and its contents come and go together,
  that an install comes to its token last (so that it cannot succeed on another
  step), and that a command nobody undoes sees no namespace being deleted.
* `SuccessIsComplete` - `ReportedComplete` is about the last step, which knows of one
  object. `CoverInv` says that whatever the command is to leave (`Needed`) is on the
  cluster or left by a step it has still before it (`Covered`), a step that is replaced
  by others included; what is skipped because it is there must really be there. It
  needs `SecretInv`, because an install ends at its token step, and that an order of
  the given namespaces has all of them, a pigeonhole argument over finite sets. An
  OLM without its operator serves no packageserver however often its objects are
  applied; without that in `Await` the half about upgrades is false once more than
  two processes run at a time.

**`OperatorInstallProofs`**, for any operators, runs and plans:

* `TypeCorrect` includes `PlanInv`: what a Subscription refers to, and what a
  goroutine is about to approve, is a plan that installs its operator, also after
  OLM has superseded it. Without it a copy written back could point at anything.
* `NeverAbandoned` - `NoDeadEnd`, if `~PlansMayFail`: an executed plan has made its
  Deployments (`ExecutedInv`). Where OLM gives an approved plan up, nobody is bound
  to make the Deployment the rollout waits for; the assumption is needed.
* `Sequential`, `InstallsInSequence` - with `Threads = 1`, which is what the code
  sets (`operatorInstallThreads`, `install.go:452`), each run implements `InstallSequence`. `SequenceInv` says
  that the goroutines before the last one launched have released their slot, that a
  failure has cancelled the context before it did, and that what was written tells
  how far each is. Each action is then mapped: the first write of a goroutine to a
  `Touch`, the end of one to an `Install`, the first failure of anybody to `Fail`, the
  main thread's success to `Succeed`, every other step to a stutter. That the loop has advanced by the number of operators done needs
  cardinalities of intervals. With more threads the refinement is false.

**`OLMInstallProofs`**, for any files, releases and number of invocations:

* `CommitPoint`, `NothingMissed`, `NoDowngrade` - if `InstallsNewest`: an install whose
  question for OLM fails applies its own release over a newer one
  (`kubernetes.go:400`), so nothing can be said where an older release still
  installs. `OLMInv` says that one invocation after the other applies the objects in
  order, from wherever it began again, and was told to upgrade only to something
  newer. `NothingMissed` is then the commit point at the step that skips.
* `Inductive` - the conjuncts of `OLMInv` themselves.

**`UninstallProofs`**, for any namespaces, databases, storages, configs and runs:

* `AskedFirst` - `NoDatabaseWithoutConsent` from `ConsentInv`: a run past its question
  was given consent or found no database; what users create after this run's own
  look is excepted (`created` is emptied at each look), what they created during an
  earlier run is not.
* `ObjectsFirst` - `OperatorsOutliveObjects` if `SleepSuffices`: the code sleeps two
  minutes for the engines (`uninstall.go`) and looks no more. `OrderInv` says, stage by
  stage, which objects are gone by then, and which namespaces a first run may have
  deleted.

**`EverestRolloutProofs`**, for any number of pods, replicas and processes:

* `NewestRolledOut` - `RolledOutIsNewest` from `NewestInv`: a status that is about the
  newest generation and counts enough pods was written when it was rolled out. It
  rests on a cardinality argument: there are never more current pods than replicas,
  and a set of as many ready pods among them is all of them.
* `AllReplaced` - `RestartReplacesAll` from `ReplacedInv`: a pod that was there at the
  start and still is has been listed, and pods that are gone do not come back.

**`EverestUpgradeProofs`**, for any Subscriptions, namespaces, upgrades, settings and
number of writes by others:

* `TelemetryOnly` - from `CopyInv` (`CopiesFaithful`): a patch writes the whole
  object, so that it loses nothing only because a copy of the current version is the
  current object. The lemma beneath is `VersionsGrow`: no Subscription changes
  without a higher version.
* `NonePassedOver` - from `PatchInv` (`StillListed`): what is not patched yet is in a
  namespace still to be listed or on the list at hand. `PatchedFirst` alone is about
  one step and says nothing of the steps before.
* `TypeKept` - from `ServiceInv`: every upgrade that has read the type carries the
  one chosen last, or a user has chosen since.

**`LibraryProofs`**:

* `WaitsTyped`, `WaitsTrue`, for any Subscriptions, versions and Deployments -
  `WaitsTellTruth` is not inductive: a wait in the middle of the list says nothing
  of the Subscriptions before. `LeftOK` adds that each had a CSV that succeeded or is
  still in `left`, `AboutOK` that the CSV waited for belongs to the first of `left`.
* `OutcomeTrue`, for any manifests and monitoring files - `ManifestInv` says that all
  is done but for the rest of the current file and the files after it (`DoneBut`),
  also where an attempt begins again, and that attempts are counted right.
* `SteadySeen`, for any storages, secrets and list of namespaces - `ResourceInv` says
  that a use that has lasted since the call began is in a list still to be read. The
  namespaces are a list without duplicates and never an empty one, as what
  `strings.Split` returns.
* `ManifestsTyped`, `ResourcesTyped` - for the manifests, the types rest on
  `ManifestInv` and on what is applied next being an object (`ManifestTyped`): a page
  that is no YAML leaves nothing to apply and one that is no object is an error, so
  that only objects of the files ever reach the cluster (`PageTyped`, for any list of
  documents).
* `NamespacesKept`, for any names, reserved and malformed ones, and lists a user may
  type - `NamespacesRoundTrip` speaks of the first variable of the name;
  `LookupInv` says of every one that it lists exactly what was asked for, that no
  variable is there twice, and what the environment of an earlier CLI may hold before
  the first install (an empty list). `MergedIs` says what merging one variable does to
  the others, `MergedThrice` that the fold merges the three of a configuration in
  their order, `SortedIs` that the names can be sorted. Assumed is that the alphabet
  has no name twice.
* `AnswersTrue`, for any cluster - by question: how often a node is in the list that
  is appended (`FlattenPlaces`) and in what order (`FlattenOrder`), which storage
  class or container is the first (`MinIs`), that the pages read are the first ones
  (`Prefix`), and that sorting events exists and loses none (`Described`, from
  `Arrangement`: any total order of a finite set is a list). Assumed is that the
  containers of a Deployment have different names, as Kubernetes demands.
* `EachAlone`, `TypeCorrect` - a behaviour of `Library` is one of each of its modules,
  so that what holds of each holds of it; `TypeOK` follows.

These rest on induction, over the length of a list or the number of lists appended.
The library's induction theorems take a predicate as a parameter, which the provers
cannot instantiate; `LeastNumber` derives the least element of a set of numbers from
an order that is well founded (strict inclusion between finite sets), `Induction`
is about a set of numbers in place of a predicate, and `Recursion` says that a
function given by its first value and its step exists. For the same reason `Lookups`
says `Sorted` and `DescribeEvents` by what they are, an ordered arrangement, and
picks the first element by the least index.

Only model-checked: everything temporal beyond safety (`Terminates`, `Completes`,
`Ends`, `CallsEnd`): liveness under fairness is out of the prover's reach. The
theorems about `Spec` hold of `FairSpec` as well.

## Not modelled

* Formatting, flags, prompts (a prompt is a free choice), the decoding of YAML
  beyond where it stops, the contents of manifests beyond the objects named, the
  rules of the roles.
* Wrappers of a single request (`ListCRDs`, `GetNodes`, `GetServerVersion`), the
  generated mock and the interface it is generated from, `IsNodeInCondition` (one
  loop, which nothing calls), service
  accounts and kubeconfigs that no command writes, `client/database`, which nothing
  imports, the versions of the build.
* The custom resources in `Install`'s uninstall: they are in `Uninstall`.
* OLM's resolver, the Deployment controller and the namespace controller are
  environments: they do what the code relies on, in any order, and no more.

## Plan

Nothing that was planned is left. If the code changes, the run that checks the
module and the proofs of its module say what the change breaks; if the prover comes
to handle fairness, `Ends` of `Install` is the first property to prove.
