-------------------------- MODULE OperatorInstall --------------------------
(***************************************************************************)
(* The installation of the database operators of one namespace             *)
(* (provisionOperators and InstallOperator): each run of the CLI starts a  *)
(* goroutine per selected operator in an errgroup limited to Threads; a    *)
(* goroutine creates or updates its Subscription, polls until OLM refers   *)
(* it to an InstallPlan, approves the plan under the API server's          *)
(* optimistic lock, retries on a conflict, and waits for the operator's    *)
(* Deployment. Several runs may be at work on the same namespace.          *)
(*                                                                         *)
(* OLM and the Deployment controller are external: OLM resolves all the    *)
(* Subscriptions that are not installed into one plan, executes approved   *)
(* plans and rewrites its objects at any time; a rollout ends or exceeds   *)
(* its progress deadline.                                                  *)
(***************************************************************************)
EXTENDS Naturals, Sequences, FiniteSets

CONSTANTS
    Operators,      \* the selected operators, in the order of the code
    Cli,            \* runs of everestctl
    Threads,        \* operatorInstallThreads
    Preinstalled,   \* operators that are on the cluster already
    PlansMayFail,   \* TRUE: the execution of an approved plan may fail
    MaxPlans,       \* bound on the plans OLM creates
    MaxWrites       \* bound on OLM's other writes of its objects

ASSUME OperatorsDistinct ==
    /\ Operators \in Seq(STRING)
    /\ \A i, j \in 1 .. Len(Operators) :
         Operators[i] = Operators[j] => i = j
ASSUME ThreadsPositive == Threads \in Nat \ {0}
ASSUME PreinstalledKnown ==
    Preinstalled \subseteq {Operators[i] : i \in 1 .. Len(Operators)}
ASSUME BoundsNat == PlansMayFail \in BOOLEAN /\ {MaxPlans, MaxWrites} \subseteq Nat

Selected == 1 .. Len(Operators)
Names == {Operators[i] : i \in Selected}

VARIABLES
    subscription,   \* of each operator: its version and the plan it refers to
    plans,          \* the InstallPlans, in the order OLM made them
    deployment,     \* of each operator: the state of its Deployment
    main,           \* of each run: the goroutine that called provisionOperators
    launched,       \* how many goroutines it has started
    cancelled,      \* the errgroup's context is cancelled
    pc,             \* of each goroutine, indexed by run and position
    plan, copy,     \* the plan the goroutine read, and its version
    expired,        \* the 300 s of its poll are over
    wrote,          \* history: the positions whose Subscription it wrote
    writes

cluster == <<subscription, plans, deployment>>
group == <<main, launched, cancelled>>
vars == <<subscription, plans, deployment, main, launched, cancelled, pc,
          plan, copy, expired, wrote, writes>>

Subscriptions == [exists : BOOLEAN, ref : Nat]       \* ref 0: no plan yet
Plans == [operators : SUBSET Names, version : Nat, approved : BOOLEAN,
          phase : {"pending", "complete", "failed"}]

Polling == {"poll", "getPlan", "approve"}
Calling == {"getSubscription", "create", "update"} \cup Polling
Holding == {"start", "rollout", "failing", "failed", "succeeded"} \cup Calling

TypeOK ==
    /\ subscription \in [Names -> Subscriptions]
    /\ plans \in Seq(Plans)
    /\ deployment \in
         [Names -> {"absent", "progressing", "rolledOut", "timedOut"}]
    /\ main \in [Cli -> {"launching", "ok", "failed"}]
    /\ launched \in [Cli -> 0 .. Len(Operators)]
    /\ cancelled \in [Cli -> BOOLEAN]
    /\ pc \in [Cli -> [Selected -> Holding \cup {"none", "ok", "error"}]]
    /\ plan \in [Cli -> [Selected -> Nat]]
    /\ copy \in [Cli -> [Selected -> Nat]]
    /\ expired \in [Cli -> [Selected -> BOOLEAN]]
    /\ wrote \in [Cli -> SUBSET Selected]
    /\ writes \in 0 .. MaxWrites

Everywhere(x) == [c \in Cli |-> [i \in Selected |-> x]]

Init ==
    /\ subscription = [o \in Names |-> IF o \in Preinstalled
            THEN [exists |-> TRUE, ref |-> 1] ELSE [exists |-> FALSE, ref |-> 0]]
    /\ plans = IF Preinstalled = {} THEN <<>>
               ELSE <<[operators |-> Preinstalled, version |-> 1,
                       approved |-> TRUE, phase |-> "complete"]>>
    /\ deployment =
         [o \in Names |-> IF o \in Preinstalled THEN "rolledOut" ELSE "absent"]
    /\ main = [c \in Cli |-> "launching"]
    /\ launched = [c \in Cli |-> 0]
    /\ cancelled = [c \in Cli |-> FALSE]
    /\ pc = Everywhere("none")
    /\ plan = Everywhere(0)
    /\ copy = Everywhere(0)
    /\ expired = Everywhere(FALSE)
    /\ wrote = [c \in Cli |-> {}]
    /\ writes = 0

-----------------------------------------------------------------------------
(* The errgroup                                                            *)

InFlight(c) == {i \in Selected : pc[c][i] \in Holding}
Running(c) == main[c] = "launching"
Goto(c, i, step) == pc' = [pc EXCEPT ![c][i] = step]

(* The condition function of the poll returned: its locals are gone.       *)
Forget(c, i) ==
    /\ plan' = [plan EXCEPT ![c][i] = 0]
    /\ copy' = [copy EXCEPT ![c][i] = 0]

OneTooMany(c) == launched[c] <= Len(Operators)
Remaining(c) == launched[c] < Len(Operators)

(* g.Go blocks until fewer than Threads goroutines hold a slot.            *)
Launch(c) ==
    /\ Running(c) /\ Remaining(c)
    /\ Cardinality(InFlight(c)) < Threads
    /\ launched' = [launched EXCEPT ![c] = @ + 1]
    /\ Goto(c, launched[c] + 1, "start")
    /\ UNCHANGED <<cluster, main, cancelled, plan, copy, expired, wrote, writes>>

(* g.Wait: the first error of any goroutine is the error of the run.       *)
Wait(c) ==
    /\ Running(c) /\ ~Remaining(c) /\ InFlight(c) = {}
    /\ main' = [main EXCEPT ![c] =
            IF \A i \in Selected : pc[c][i] = "ok" THEN "ok" ELSE "failed"]
    /\ UNCHANGED <<cluster, launched, cancelled, pc, plan, copy, expired,
                   wrote, writes>>

(* A group without a context: the error is kept, nobody is told.           *)
KeepError(c, i) ==
    /\ Running(c) /\ pc[c][i] = "failing"
    /\ Goto(c, i, "failed")
    /\ UNCHANGED <<cluster, group, plan, copy, expired, wrote, writes>>

(* The first error cancels the context while its goroutine holds the slot. *)
Cancel(c, i) ==
    /\ Running(c) /\ pc[c][i] = "failing"
    /\ Goto(c, i, "failed")
    /\ cancelled' = [cancelled EXCEPT ![c] = TRUE]
    /\ UNCHANGED <<cluster, main, launched, plan, copy, expired, wrote, writes>>

Release(c, i) ==
    /\ Running(c)
    /\ \/ pc[c][i] = "failed" /\ Goto(c, i, "error")
       \/ pc[c][i] = "succeeded" /\ Goto(c, i, "ok")
    /\ UNCHANGED <<cluster, group, plan, copy, expired, wrote, writes>>

-----------------------------------------------------------------------------
(* InstallOperator                                                         *)

(* An API call under a context that is neither cancelled nor, in the poll, *)
(* past its deadline.                                                      *)
Calls(c, i, step) ==
    /\ Running(c) /\ pc[c][i] = step
    /\ ~cancelled[c]
    /\ step \in Polling => ~expired[c][i]

Start(c, i) ==
    /\ Running(c) /\ pc[c][i] = "start"
    /\ Goto(c, i, IF cancelled[c] THEN "failing" ELSE "getSubscription")
    /\ UNCHANGED <<cluster, group, plan, copy, expired, wrote, writes>>

GetSubscription(c, i) ==
    /\ Calls(c, i, "getSubscription")
    /\ Goto(c, i, IF subscription[Operators[i]].exists THEN "update"
                                                       ELSE "create")
    /\ UNCHANGED <<cluster, group, plan, copy, expired, wrote, writes>>

(* AlreadyExists counts as created: either way the Subscription is there.  *)
CreateSubscription(c, i) ==
    /\ Calls(c, i, "create")
    /\ subscription' = [subscription EXCEPT ![Operators[i]].exists = TRUE]
    /\ Goto(c, i, "poll")
    /\ wrote' = [wrote EXCEPT ![c] = @ \cup {i}]
    /\ UNCHANGED <<plans, deployment, group, plan, copy, expired, writes>>

(* The merged configuration is of no account here; a conflict is an error, *)
(* see Error.                                                              *)
UpdateSubscription(c, i) ==
    /\ Calls(c, i, "update")
    /\ Goto(c, i, "poll")
    /\ wrote' = [wrote EXCEPT ![c] = @ \cup {i}]
    /\ UNCHANGED <<cluster, group, plan, copy, expired, writes>>

(* The condition of the poll is false until the Subscription has a plan.   *)
Poll(c, i) ==
    /\ Calls(c, i, "poll")
    /\ subscription[Operators[i]].ref # 0
    /\ plan' = [plan EXCEPT ![c][i] = subscription[Operators[i]].ref]
    /\ Goto(c, i, "getPlan")
    /\ UNCHANGED <<cluster, group, copy, expired, wrote, writes>>

GetInstallPlan(c, i) ==
    /\ Calls(c, i, "getPlan")
    /\ copy' = [copy EXCEPT ![c][i] = plans[plan[c][i]].version]
    /\ Goto(c, i, "approve")
    /\ UNCHANGED <<cluster, group, plan, expired, wrote, writes>>

(* A conflict taken for an approval.                                       *)
ApproveOnce(c, i) ==
    /\ Calls(c, i, "approve")
    /\ plans' = IF copy[c][i] = plans[plan[c][i]].version
                THEN [plans EXCEPT ![plan[c][i]].version = @ + 1,
                                   ![plan[c][i]].approved = TRUE]
                ELSE plans
    /\ Goto(c, i, "rollout")
    /\ Forget(c, i)
    /\ UNCHANGED <<subscription, deployment, group, expired,
                   wrote, writes>>

(* A conflict goes back to the poll, which reads the Subscription again.   *)
ApproveInstallPlan(c, i) ==
    /\ Calls(c, i, "approve")
    /\ \/ /\ copy[c][i] = plans[plan[c][i]].version
          /\ plans' = [plans EXCEPT ![plan[c][i]].version = @ + 1,
                                    ![plan[c][i]].approved = TRUE]
          /\ Goto(c, i, "rollout")
       \/ /\ copy[c][i] # plans[plan[c][i]].version
          /\ Goto(c, i, "poll")
          /\ UNCHANGED plans
    /\ Forget(c, i)
    /\ UNCHANGED <<subscription, deployment, group, expired,
                   wrote, writes>>

(* The wait sees the Deployment's state only: absent means not yet.        *)
RolloutWait(c, i) ==
    /\ Running(c) /\ pc[c][i] = "rollout" /\ ~cancelled[c]
    /\ \/ /\ deployment[Operators[i]] = "rolledOut"
          /\ Goto(c, i, "succeeded")
       \/ /\ deployment[Operators[i]] = "timedOut"
          /\ Goto(c, i, "failing")
    /\ UNCHANGED <<cluster, group, plan, copy, expired, wrote, writes>>

(* A call or a wait made with a context that is over.                      *)
Abandon(c, i) ==
    /\ Running(c)
    /\ \/ pc[c][i] \in Calling \cup {"rollout"} /\ cancelled[c]
       \/ pc[c][i] \in Polling /\ expired[c][i]
    /\ Goto(c, i, "failing")
    /\ Forget(c, i)
    /\ UNCHANGED <<cluster, group, expired, wrote, writes>>

(* Any API call may fail: a conflict, a missing object, no connection.     *)
Error(c, i) ==
    /\ Running(c) /\ pc[c][i] \in Calling \cup {"rollout"}
    /\ Goto(c, i, "failing")
    /\ Forget(c, i)
    /\ UNCHANGED <<cluster, group, expired, wrote, writes>>

(* The 300 s of the poll pass.                                             *)
Expire(c, i) ==
    /\ Running(c) /\ pc[c][i] \in Polling /\ ~expired[c][i]
    /\ expired' = [expired EXCEPT ![c][i] = TRUE]
    /\ UNCHANGED <<cluster, group, pc, plan, copy, wrote, writes>>

(* The process is killed: its goroutines stop where they are.              *)
Kill(c) ==
    /\ Running(c)
    /\ main' = [main EXCEPT ![c] = "failed"]
    /\ UNCHANGED <<cluster, launched, cancelled, pc, plan, copy, expired,
                   wrote, writes>>

-----------------------------------------------------------------------------
(* OLM and the Deployment controller                                       *)

Process == <<main, launched, cancelled, pc, plan, copy, expired, wrote>>

Covered(o) ==
    \E p \in 1 .. Len(plans) : o \in plans[p].operators /\ plans[p].approved
Unresolved ==
    {o \in Names : /\ subscription[o].exists
                   /\ deployment[o] = "absent" /\ ~Covered(o)}

(* One plan for everything that is not installed; it supersedes the older  *)
(* unapproved ones, which stay.                                            *)
Resolve ==
    /\ Unresolved # {} /\ Len(plans) < MaxPlans
    /\ \A p \in 1 .. Len(plans) : plans[p].operators # Unresolved
    /\ plans' = Append(plans, [operators |-> Unresolved, version |-> 1,
                               approved |-> FALSE, phase |-> "pending"])
    /\ subscription' = [o \in Names |->
            IF o \in Unresolved
            THEN [exists |-> TRUE, ref |-> Len(plans) + 1]
            ELSE subscription[o]]
    /\ UNCHANGED <<deployment, Process, writes>>

Execute(p) ==
    /\ plans[p].approved /\ plans[p].phase = "pending"
    /\ \/ /\ plans' = [plans EXCEPT ![p].phase = "complete", ![p].version = @ + 1]
          /\ deployment' = [o \in Names |->
                IF o \in plans[p].operators /\ deployment[o] = "absent"
                THEN "progressing" ELSE deployment[o]]
       \/ /\ PlansMayFail
          /\ plans' = [plans EXCEPT ![p].phase = "failed", ![p].version = @ + 1]
          /\ UNCHANGED deployment
    /\ UNCHANGED <<subscription, Process, writes>>

Rollout(o) ==
    /\ deployment[o] = "progressing"
    /\ \E s \in {"rolledOut", "timedOut"} :
         deployment' = [deployment EXCEPT ![o] = s]
    /\ UNCHANGED <<subscription, plans, Process, writes>>

(* OLM writes a plan's status, or a Subscription's new configuration into  *)
(* the Deployment, which rolls out again.                                  *)
Rewrite ==
    /\ writes < MaxWrites
    /\ writes' = writes + 1
    /\ \/ /\ \E p \in 1 .. Len(plans) :
               plans' = [plans EXCEPT ![p].version = @ + 1]
          /\ UNCHANGED deployment
       \/ /\ \E o \in Names :
               /\ deployment[o] \in {"rolledOut", "timedOut"}
               /\ deployment' = [deployment EXCEPT ![o] = "progressing"]
          /\ UNCHANGED plans
    /\ UNCHANGED <<subscription, Process>>

Advance(c, i) ==
    \/ Start(c, i) \/ GetSubscription(c, i) \/ CreateSubscription(c, i)
    \/ UpdateSubscription(c, i) \/ Poll(c, i) \/ GetInstallPlan(c, i)
    \/ ApproveInstallPlan(c, i) \/ RolloutWait(c, i) \/ Abandon(c, i)
    \/ Cancel(c, i) \/ Release(c, i)

Terminated == (\A c \in Cli : ~Running(c)) /\ UNCHANGED vars

Next ==
    \/ \E c \in Cli :
         \/ Launch(c) \/ Wait(c) \/ Kill(c)
         \/ \E i \in Selected : Advance(c, i) \/ Error(c, i) \/ Expire(c, i)
    \/ Resolve \/ Rewrite
    \/ \E p \in 1 .. Len(plans) : Execute(p)
    \/ \E o \in Names : Rollout(o)
    \/ Terminated

Spec == Init /\ [][Next]_vars

(* A goroutine that can go on does, the clock passes a deadline, OLM       *)
(* executes approved plans and a rollout ends one way or the other. Errors,*)
(* kills and the making of plans need not happen.                          *)
Fairness ==
    /\ \A c \in Cli :
         /\ WF_vars(Launch(c)) /\ WF_vars(Wait(c))
         /\ \A i \in Selected :
              WF_vars(Advance(c, i)) /\ WF_vars(Expire(c, i))
    /\ \A p \in 1 .. MaxPlans : WF_vars(p \in 1 .. Len(plans) /\ Execute(p))
    /\ \A o \in Names : WF_vars(Rollout(o))

FairSpec == Spec /\ Fairness

-----------------------------------------------------------------------------
(* Properties                                                              *)

(* The rollout wait has no deadline and sees no plan, so it must not begin *)
(* without somebody bound to end it: whoever waits for an operator, its    *)
(* Deployment exists or an approved plan that OLM has yet to execute       *)
(* installs it. It rests on approveInstallPlan taking a conflict as a      *)
(* retry while OLM and other runs rewrite and supersede plans.             *)
NoDeadEnd ==
    \A c \in Cli, i \in Selected :
        pc[c][i] = "rollout" =>
            \/ deployment[Operators[i]] # "absent"
            \/ \E p \in 1 .. Len(plans) :
                 /\ Operators[i] \in plans[p].operators
                 /\ plans[p].approved /\ plans[p].phase = "pending"

(* Every run of the installation ends: the slots of the errgroup are       *)
(* always handed on, the poll ends at its deadline and the rollout wait by *)
(* the Deployment.                                                         *)
Terminates == \A c \in Cli : <>~Running(c)

-----------------------------------------------------------------------------
(* The order of the installation, seen from outside                        *)

touched == [c \in Cli |-> Cardinality(wrote[c])]

installed ==
    [c \in Cli |-> Cardinality({i \in Selected : pc[c][i] \in {"succeeded", "ok"}})]

outcome ==
    [c \in Cli |->
        IF main[c] = "ok" THEN "ok"
        ELSE IF \/ main[c] = "failed"
                \/ \E i \in Selected : pc[c][i] \in {"failing", "failed", "error"}
             THEN "failed" ELSE "running"]

Promise == INSTANCE InstallSequence WITH Selected <- Len(Operators)

(* The goroutines of a run install the operators strictly in their order   *)
(* and write nothing after the first failure: the limit of the errgroup,   *)
(* its context and the check at the start of installOperator together make *)
(* it a loop that returns early.                                           *)
ImplementsSequence == Promise!Spec
-----------------------------------------------------------------------------
(* Inductive invariants                                                    *)

(* What goroutines and Subscriptions refer to are plans that install the   *)
(* operator in question, also when newer plans have superseded them.       *)
PlanInv ==
    /\ \A o \in Names : LET p == subscription[o].ref
                        IN p # 0 => p \in DOMAIN plans /\ o \in plans[p].operators
    /\ \A c \in Cli, i \in Selected :
          pc[c][i] \in {"getPlan", "approve"} =>
             /\ plan[c][i] \in DOMAIN plans
             /\ Operators[i] \in plans[plan[c][i]].operators

(* An executed plan has made the Deployments of its operators, for good.   *)
ExecutedInv ==
    \A p \in DOMAIN plans :
        /\ plans[p].phase # "failed"
        /\ plans[p].phase = "complete" =>
              \A o \in plans[p].operators : deployment[o] # "absent"

(* With one thread: the goroutines before the last one launched have       *)
(* released their slot; whoever failed has cancelled the context before,   *)
(* and what a goroutine has written tells how far it is.                   *)
InSequence(c) ==
    /\ cancelled[c] <=> \E i \in Selected : pc[c][i] \in {"failed", "error"}
    /\ \A i \in Selected :
         /\ i > launched[c] <=> pc[c][i] = "none"
         /\ i < launched[c] => pc[c][i] \in {"ok", "error"}
         /\ pc[c][i] \in Polling \cup {"rollout", "succeeded", "ok"} =>
               i \in wrote[c]
         /\ pc[c][i] \in {"none", "start", "getSubscription", "create",
                          "update"} => i \notin wrote[c]
SequenceInv == \A c \in Cli : InSequence(c)
=============================================================================
