--------------------------- MODULE OperatorWaits ---------------------------
(***************************************************************************)
(* The library's calls that wait for the Operator Lifecycle Manager:       *)
(* UpgradeOperator approves the plan a Subscription refers to, applyCSVs   *)
(* waits for the ClusterServiceVersion of each Subscription. Each makes    *)
(* several requests, and OLM, which may offer, install and replace         *)
(* versions, writes between them.                                          *)
(***************************************************************************)
EXTENDS Naturals, Sequences

CONSTANTS
    Subscriptions,   \* those of the applied files, in their order; there
                     \* are none in the files that are embedded
    MaxVersion,      \* bound: versions OLM offers of each operator
    DeploymentSpecs  \* the Deployments of a ClusterServiceVersion

Of == {Subscriptions[i] : i \in DOMAIN Subscriptions}

ASSUME VersionsNatural == MaxVersion \in Nat \ {0}
ASSUME SubscriptionsListed == Subscriptions \in Seq(Of) /\ Subscriptions # <<>>

Version == 1 .. MaxVersion

VARIABLES
    offered,    \* the version for which there is a plan, 0 before
    approved,   \* the versions whose plan is approved
    installed,  \* the version the Subscription calls installed, 0 before
    phase,      \* of each CSV
    step,       \* what the call does next, or how it ended
    left,       \* the Subscriptions applyCSVs has still to wait for
    about,      \* the Subscription and version the call has read
    fresh,      \* the plan was not written since the call read it
    csvRead,    \* the wait has read the CSV at least once
    named,      \* the Deployments the error names
    succeeded   \* history: the CSVs that had succeeded during the call
waitVars == <<offered, approved, installed, phase, step, left, about, fresh,
              csvRead, named, succeeded>>
olm == <<offered, approved, installed, phase>>

Ended == {"upgraded", "nothing", "ok", "error"}

WaitTypeOK ==
    /\ offered \in [Of -> 0 .. MaxVersion]
    /\ installed \in [Of -> 0 .. MaxVersion]
    /\ approved \in [Of -> SUBSET Version]
    /\ phase \in [Of \X Version ->
                    {"absent", "pending", "succeeded", "failed"}]
    /\ step \in Ended \cup {"pollPlan", "getPlan", "updatePlan",
                            "pollSubscription", "pollCSV"}
    /\ about \in Of \X (0 .. MaxVersion)
    /\ named \subseteq DeploymentSpecs
    /\ succeeded \subseteq Of \X Version

WaitInit ==
    /\ offered = [s \in Of |-> 0]
    /\ approved = [s \in Of |-> {}]
    /\ installed = [s \in Of |-> 0]
    /\ phase = [c \in Of \X Version |-> "absent"]
    /\ step = "ok"
    /\ left = <<>>
    /\ about = <<CHOOSE s \in Of : TRUE, 0>>
    /\ fresh = FALSE /\ csvRead = FALSE
    /\ named = {}
    /\ succeeded = Of \X Version

-----------------------------------------------------------------------------
BeginWait(first, s, list) ==
    /\ step \in Ended
    /\ step' = first
    /\ left' = list
    /\ about' = <<s, 0>>
    /\ csvRead' = FALSE /\ named' = {} /\ fresh' = FALSE
    /\ succeeded' = {c \in DOMAIN phase : phase[c] = "succeeded"}
    /\ UNCHANGED olm

WaitFails ==
    /\ step' = "error"
    /\ UNCHANGED <<olm, left, about, fresh, csvRead, named, succeeded>>
RequestFails == step \notin Ended /\ WaitFails

UpgradeOperator(s) == BeginWait("pollPlan", s, <<>>)

(* Until the Subscription refers to a plan, 300 s at most.                 *)
getInstallPlan ==
    /\ step = "pollPlan" /\ offered[about[1]] # 0
    /\ about' = <<about[1], offered[about[1]]>>
    /\ step' = "getPlan"
    /\ UNCHANGED <<olm, left, fresh, csvRead, named, succeeded>>

(* A plan that is approved means that there are no upgrades.               *)
ReadPlan ==
    /\ step = "getPlan"
    /\ step' = IF about[2] \in approved[about[1]] THEN "nothing"
                                                  ELSE "updatePlan"
    /\ fresh' = TRUE
    /\ UNCHANGED <<olm, left, about, csvRead, named, succeeded>>

(* A conflict is taken for somebody else's approval.                       *)
ConflictIsApproval ==
    /\ step = "updatePlan"
    /\ step' = "upgraded"
    /\ approved' = IF fresh THEN [approved EXCEPT ![about[1]] =
                                     @ \cup {about[2]}]
                            ELSE approved
    /\ UNCHANGED <<offered, installed, phase, left, about, fresh, csvRead,
                   named, succeeded>>
(* A plan that was written meanwhile is a conflict, which is not retried;  *)
(* the answer to a write may be lost.                                      *)
UpdateInstallPlan ==
    /\ step = "updatePlan"
    /\ \/ fresh /\ step' \in {"upgraded", "error"}
          /\ approved' = [approved EXCEPT ![about[1]] = @ \cup {about[2]}]
       \/ ~fresh /\ step' = "error" /\ UNCHANGED approved
    /\ UNCHANGED <<offered, installed, phase, left, about, fresh, csvRead,
                   named, succeeded>>

-----------------------------------------------------------------------------
applyCSVs == BeginWait("pollSubscription", Subscriptions[1], Subscriptions)

(* Until the Subscription names an installed CSV.                          *)
GetSubscriptionCSV ==
    /\ step = "pollSubscription" /\ installed[Head(left)] # 0
    /\ about' = <<Head(left), installed[Head(left)]>>
    /\ step' = "pollCSV"
    /\ csvRead' = FALSE
    /\ UNCHANGED <<olm, left, fresh, named, succeeded>>

NextSubscription ==
    /\ left' = Tail(left)
    /\ step' = IF Len(left) = 1 THEN "ok" ELSE "pollSubscription"

(* A CSV that is gone taken for one that was replaced and is done.         *)
GoneIsDone ==
    /\ step = "pollCSV"
    /\ \/ phase[about] \in {"absent", "succeeded"} /\ NextSubscription
       \/ phase[about] = "failed" /\ step' = "error" /\ UNCHANGED left
    /\ UNCHANGED <<olm, about, fresh, csvRead, named, succeeded>>
(* One that is absent is waited for like one that is being installed, be   *)
(* it that OLM has replaced it since.                                      *)
pollCsvPhaseSucceeded ==
    /\ step = "pollCSV"
    /\ \/ phase[about] = "succeeded" /\ NextSubscription
       \/ phase[about] = "failed" /\ step' = "error" /\ UNCHANGED left
       \/ phase[about] = "pending" /\ ~csvRead /\ UNCHANGED <<step, left>>
    /\ csvRead' = TRUE
    /\ UNCHANGED <<olm, about, fresh, named, succeeded>>

(* The context ends. DoCSVWait reports a deadline with the Deployments of  *)
(* the CSV read last, as each of the requests for them fails, the context  *)
(* being over; applyCSVs leaves them out of its own error.                 *)
checkDeploymentErrors ==
    /\ step = "pollCSV"
    /\ step' = "error"
    /\ named' = IF csvRead THEN DeploymentSpecs ELSE {}
    /\ UNCHANGED <<olm, left, about, fresh, csvRead, succeeded>>

-----------------------------------------------------------------------------
(* OLM, and others who approve its plans                                   *)

Call == <<step, left, about, csvRead, named>>
PlanWritten(s, v) == fresh' = (fresh /\ about # <<s, v>>)

Offer(s) ==
    /\ offered[s] < MaxVersion
    /\ offered' = [offered EXCEPT ![s] = @ + 1]
    /\ UNCHANGED <<approved, installed, phase, Call, fresh, succeeded>>
(* The plan's status, or somebody's approval.                              *)
WritePlan(s, v) ==
    /\ v <= offered[s]
    /\ PlanWritten(s, v)
    /\ approved' \in {approved, [approved EXCEPT ![s] = @ \cup {v}]}
    /\ UNCHANGED <<offered, installed, phase, Call, succeeded>>
Install(s, v) ==
    /\ v \in approved[s] /\ v > installed[s]
    /\ installed' = [installed EXCEPT ![s] = v]
    /\ phase' = [phase EXCEPT ![<<s, v>>] = "pending"]
    /\ PlanWritten(s, v)
    /\ UNCHANGED <<offered, approved, Call, succeeded>>
SetPhase(s, v) ==
    /\ phase[<<s, v>>] # "absent"
    /\ \E p \in {"pending", "succeeded", "failed"} :
         /\ phase' = [phase EXCEPT ![<<s, v>>] = p]
         /\ succeeded' = IF p = "succeeded" THEN succeeded \cup {<<s, v>>}
                                            ELSE succeeded
    /\ UNCHANGED <<offered, approved, installed, Call, fresh>>
(* The CSV of a later version replaces that of an earlier one.             *)
Replace(s, v) ==
    /\ phase[<<s, v>>] # "absent" /\ v < installed[s]
    /\ phase' = [phase EXCEPT ![<<s, v>>] = "absent"]
    /\ UNCHANGED <<offered, approved, installed, Call, fresh, succeeded>>

WaitNext ==
    \/ \E s \in Of : UpgradeOperator(s) \/ Offer(s)
    \/ applyCSVs
    \/ getInstallPlan \/ ReadPlan \/ UpdateInstallPlan
    \/ GetSubscriptionCSV \/ pollCsvPhaseSucceeded \/ checkDeploymentErrors
    \/ RequestFails
    \/ \E s \in Of, v \in Version :
         WritePlan(s, v) \/ Install(s, v) \/ SetPhase(s, v) \/ Replace(s, v)

WaitSpec == WaitInit /\ [][WaitNext]_waitVars

-----------------------------------------------------------------------------
(* What a call reports held on the cluster while it ran, whatever OLM wrote*)
(* between its requests: success of applyCSVs means that some CSV of each  *)
(* Subscription had succeeded - not necessarily the one that is installed  *)
(* now -, and UpgradeOperator returns without an error only if the plan    *)
(* that the Subscription named is approved.                                *)
WaitsTellTruth ==
    /\ step = "ok" => \A s \in Of : \E v \in Version : <<s, v>> \in succeeded
    /\ step \in {"upgraded", "nothing"} => about[2] \in approved[about[1]]
=============================================================================
