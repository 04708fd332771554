----------------------- MODULE OperatorInstallProofs -----------------------
(***************************************************************************)
(* Proofs about OperatorInstall, for any operators, any number of runs on  *)
(* the same namespace and any number of plans and writes of OLM.           *)
(***************************************************************************)
EXTENDS OperatorInstall, FiniteSetTheorems, SequenceTheorems, TLAPS

-----------------------------------------------------------------------------
(* What the actions do to one goroutine, one plan                          *)

PCs == Holding \cup {"none", "ok", "error"}

(* A goroutine that goes to a step leaves the others where they are.       *)
LEMMA GotoStep ==
    ASSUME pc \in [Cli -> [Selected -> PCs]],
           NEW c \in Cli, NEW i \in Selected, NEW step \in PCs, Goto(c, i, step)
    PROVE  /\ pc' \in [Cli -> [Selected -> PCs]]
           /\ pc'[c][i] = step
           /\ \A d \in Cli, j \in Selected : <<d, j>> # <<c, i>> => pc'[d][j] = pc[d][j]
           /\ \A d \in Cli \ {c} : pc'[d] = pc[d]
BY DEF Goto

LEMMA ForgetStep ==
    ASSUME plan \in [Cli -> [Selected -> Nat]], copy \in [Cli -> [Selected -> Nat]],
           NEW c \in Cli, NEW i \in Selected, Forget(c, i)
    PROVE  /\ plan' \in [Cli -> [Selected -> Nat]]
           /\ copy' \in [Cli -> [Selected -> Nat]]
           /\ \A d \in Cli, j \in Selected :
                <<d, j>> # <<c, i>> => plan'[d][j] = plan[d][j]
BY DEF Forget

LEMMA OperatorNamed == \A i \in Selected : Operators[i] \in Names
BY DEF Names, Selected

(* A plan that is written keeps its place and its operators.               *)
LEMMA PlanWritten ==
    ASSUME plans \in Seq(Plans), NEW p \in 1 .. Len(plans), NEW r \in Plans
    PROVE  LET new == [plans EXCEPT ![p] = r]
           IN  /\ new \in Seq(Plans) /\ Len(new) = Len(plans)
               /\ DOMAIN new = DOMAIN plans /\ new[p] = r
               /\ \A q \in DOMAIN plans : q # p => new[q] = plans[q]
<1>1. DOMAIN plans = 1 .. Len(plans)
      OBVIOUS
<1> QED BY <1>1, ExceptSeq

LEMMA ApprovedRecord ==
    ASSUME NEW q \in Plans
    PROVE  LET r == [q EXCEPT !.version = @ + 1, !.approved = TRUE]
           IN  /\ r \in Plans /\ r.approved
               /\ r.operators = q.operators /\ r.phase = q.phase
<1>0. [q EXCEPT !.version = @ + 1] \in Plans
      BY DEF Plans
<1>1. PICK v \in Plans : v = [q EXCEPT !.version = @ + 1]
      BY <1>0
<1>2. [q EXCEPT !.version = @ + 1, !.approved = TRUE]
        = [v EXCEPT !.approved = TRUE]
      BY <1>1
<1>3. v.operators = q.operators /\ v.phase = q.phase
      BY <1>1 DEF Plans
<1>4. /\ [v EXCEPT !.approved = TRUE] \in Plans
      /\ [v EXCEPT !.approved = TRUE].approved
      /\ [v EXCEPT !.approved = TRUE].operators = v.operators
      /\ [v EXCEPT !.approved = TRUE].phase = v.phase
      BY DEF Plans
<1> QED BY <1>2, <1>3, <1>4

LEMMA ApprovedPlan ==
    ASSUME plans \in Seq(Plans), NEW p \in 1 .. Len(plans)
    PROVE  LET r == [plans[p] EXCEPT !.version = @ + 1, !.approved = TRUE]
           IN  /\ r \in Plans /\ r.approved
               /\ r.operators = plans[p].operators /\ r.phase = plans[p].phase
               /\ [plans EXCEPT ![p].version = @ + 1, ![p].approved = TRUE]
                    = [plans EXCEPT ![p] = r]
<1>1. plans[p] \in Plans /\ p \in DOMAIN plans
      BY ElementOfSeq
<1>2. [plans EXCEPT ![p].version = @ + 1, ![p].approved = TRUE]
        = [plans EXCEPT ![p] = [plans[p] EXCEPT !.version = @ + 1, !.approved = TRUE]]
      BY <1>1, Zenon
<1> QED BY <1>1, <1>2, ApprovedRecord

LEMMA ExecutedRecord ==
    ASSUME NEW q \in Plans, NEW f \in {"complete", "failed"},
           NEW r, r = [q EXCEPT !.phase = f, !.version = @ + 1]
    PROVE  /\ r \in Plans /\ r.phase = f
           /\ r.operators = q.operators /\ r.approved = q.approved
<1>0. [q EXCEPT !.phase = f] \in Plans
      BY DEF Plans
<1>1. PICK v \in Plans : v = [q EXCEPT !.phase = f]
      BY <1>0
<1>2. [q EXCEPT !.phase = f, !.version = @ + 1] = [v EXCEPT !.version = @ + 1]
      BY <1>1 DEF Plans
<1>3. v.operators = q.operators /\ v.phase = f /\ v.approved = q.approved
      BY <1>1 DEF Plans
<1>4. /\ [v EXCEPT !.version = @ + 1] \in Plans
      /\ [v EXCEPT !.version = @ + 1].approved = v.approved
      /\ [v EXCEPT !.version = @ + 1].operators = v.operators
      /\ [v EXCEPT !.version = @ + 1].phase = v.phase
      BY DEF Plans
<1> QED BY <1>2, <1>3, <1>4

(* Plans are added and approved, never taken away, and keep their          *)
(* operators.                                                              *)
PlansKept ==
    /\ plans' \in Seq(Plans)
    /\ DOMAIN plans \subseteq DOMAIN plans'
    /\ \A p \in DOMAIN plans :
         /\ plans'[p].operators = plans[p].operators
         /\ plans[p].approved => plans'[p].approved

LEMMA PlanReplaced ==
    ASSUME plans \in Seq(Plans), NEW p \in 1 .. Len(plans), NEW r \in Plans,
           r.operators = plans[p].operators,
           plans[p].approved => r.approved, plans' = [plans EXCEPT ![p] = r]
    PROVE  /\ PlansKept /\ DOMAIN plans' = DOMAIN plans /\ plans'[p] = r
           /\ \A q \in DOMAIN plans : q # p => plans'[q] = plans[q]
BY PlanWritten DEF PlansKept

(* An approval changes no phase; it ends in the rollout wait only if the   *)
(* plan the goroutine read was approved.                                   *)
LEMMA ApproveEffect ==
    ASSUME TypeOK, PlanInv, NEW c \in Cli, NEW i \in Selected,
           ApproveInstallPlan(c, i)
    PROVE  /\ PlansKept /\ DOMAIN plans' = DOMAIN plans
           /\ \A p \in DOMAIN plans : plans'[p].phase = plans[p].phase
           /\ \/ Goto(c, i, "poll")
              \/ Goto(c, i, "rollout") /\ plans'[plan[c][i]].approved
<1> DEFINE p == plan[c][i]
           r == [plans[p] EXCEPT !.version = @ + 1, !.approved = TRUE]
<1>1. plans \in Seq(Plans) /\ p \in 1 .. Len(plans)
      BY DEF ApproveInstallPlan, Calls, PlanInv, TypeOK
<1>2. CASE UNCHANGED plans /\ Goto(c, i, "poll")
      BY <1>1, <1>2 DEF PlansKept
<1>3. CASE /\ plans' = [plans EXCEPT ![p].version = @ + 1, ![p].approved = TRUE]
           /\ Goto(c, i, "rollout")
      <2>1. /\ r \in Plans /\ r.approved
            /\ r.operators = plans[p].operators /\ r.phase = plans[p].phase
            /\ plans' = [plans EXCEPT ![p] = r]
            BY <1>1, <1>3, ApprovedPlan
      <2>2. /\ PlansKept /\ DOMAIN plans' = DOMAIN plans /\ plans'[p] = r
            /\ \A q \in DOMAIN plans : q # p => plans'[q] = plans[q]
            BY <1>1, <2>1, PlanReplaced
      <2> HIDE DEF r
      <2> QED BY <1>3, <2>1, <2>2
<1> QED BY <1>2, <1>3 DEF ApproveInstallPlan

LEMMA ExecuteEffect ==
    ASSUME TypeOK, NEW p \in 1 .. Len(plans), Execute(p)
    PROVE  /\ PlansKept /\ DOMAIN plans' = DOMAIN plans
           /\ \A q \in DOMAIN plans : q # p => plans'[q] = plans[q]
           /\ plans'[p].phase = "complete" \/ (PlansMayFail /\ UNCHANGED deployment)
<1> DEFINE r(f) == [plans[p] EXCEPT !.phase = f, !.version = @ + 1]
<1>1. plans[p] \in Plans /\ p \in DOMAIN plans /\ plans \in Seq(Plans)
      BY ElementOfSeq DEF TypeOK
<1>2. PICK f \in {"complete", "failed"} :
          /\ plans' = [plans EXCEPT ![p].phase = f, ![p].version = @ + 1]
          /\ f = "complete" \/ (PlansMayFail /\ UNCHANGED deployment)
      BY DEF Execute
<1>3. plans' = [plans EXCEPT ![p] = r(f)]
      BY <1>1, <1>2, Zenon
<1>4. /\ r(f) \in Plans /\ r(f).phase = f
      /\ r(f).operators = plans[p].operators /\ r(f).approved = plans[p].approved
      <2>1. PICK q \in Plans : q = plans[p]
            BY <1>1
      <2>2. PICK s : s = [q EXCEPT !.phase = f, !.version = @ + 1]
            OBVIOUS
      <2>3. /\ s \in Plans /\ s.phase = f
            /\ s.operators = q.operators /\ s.approved = q.approved
            BY <2>2, ExecutedRecord
      <2>4. r(f) = s
            BY <2>1, <2>2
      <2> QED BY <2>1, <2>3, <2>4
<1> HIDE DEF r
<1> QED BY <1>1, <1>2, <1>3, <1>4, PlanReplaced

LEMMA RewriteEffect ==
    ASSUME TypeOK, Rewrite
    PROVE  /\ PlansKept /\ DOMAIN plans' = DOMAIN plans
           /\ \A p \in DOMAIN plans : plans'[p].phase = plans[p].phase
<1>1. plans \in Seq(Plans)
      BY DEF TypeOK
<1>2. CASE UNCHANGED plans
      BY <1>1, <1>2 DEF PlansKept
<1>3. ASSUME NEW p \in 1 .. Len(plans),
             plans' = [plans EXCEPT ![p].version = @ + 1]
      PROVE  /\ PlansKept /\ DOMAIN plans' = DOMAIN plans
             /\ \A q \in DOMAIN plans : plans'[q].phase = plans[q].phase
      <2> DEFINE r == [plans[p] EXCEPT !.version = @ + 1]
      <2>1. plans[p] \in Plans /\ p \in DOMAIN plans
            BY <1>1, ElementOfSeq
      <2>2. r \in Plans /\ r.operators = plans[p].operators
            /\ r.approved = plans[p].approved /\ r.phase = plans[p].phase
            BY <2>1 DEF Plans
      <2>3. plans' = [plans EXCEPT ![p] = r]
            BY <1>3, <2>1, Zenon
      <2> HIDE DEF r
      <2> QED BY <1>1, <2>2, <2>3, PlanReplaced
<1> QED BY <1>2, <1>3 DEF Rewrite

LEMMA ResolveEffect ==
    ASSUME TypeOK, Resolve
    PROVE  /\ PlansKept /\ DOMAIN plans' = 1 .. Len(plans) + 1
           /\ \A p \in DOMAIN plans : plans'[p] = plans[p]
           /\ plans'[Len(plans) + 1] =
                 [operators |-> Unresolved, version |-> 1, approved |-> FALSE,
                  phase |-> "pending"]
<1> DEFINE r == [operators |-> Unresolved, version |-> 1, approved |-> FALSE,
                 phase |-> "pending"]
<1>1. r \in Plans /\ plans \in Seq(Plans) /\ plans' = Append(plans, r)
      BY DEF Resolve, TypeOK, Plans, Unresolved
<1> HIDE DEF r
<1>2. /\ plans' \in Seq(Plans) /\ Len(plans') = Len(plans) + 1
      /\ \A p \in 1 .. Len(plans) : plans'[p] = plans[p]
      /\ plans'[Len(plans) + 1] = r
      BY <1>1, AppendProperties
<1>3. DOMAIN plans = 1 .. Len(plans) /\ DOMAIN plans' = 1 .. Len(plans')
      BY <1>1, <1>2
<1> QED BY <1>2, <1>3 DEF PlansKept, r
-----------------------------------------------------------------------------
(* Type correctness                                                        *)

LEMMA InitType == Init => TypeOK
<1> SUFFICES ASSUME Init PROVE TypeOK
    OBVIOUS
<1>1. plans \in Seq(Plans)
      <2> DEFINE r == [operators |-> Preinstalled, version |-> 1,
                       approved |-> TRUE, phase |-> "complete"]
      <2>1. r \in Plans
            BY PreinstalledKnown DEF Plans, Names, Selected
      <2> HIDE DEF r
      <2>2. <<r>> \in Seq(Plans) /\ <<>> \in Seq(Plans)
            BY <2>1
      <2> QED BY <2>2 DEF Init, r
<1>2. subscription \in [Names -> Subscriptions]
      BY DEF Init, Subscriptions
<1>3. Len(Operators) \in Nat
      BY OperatorsDistinct
<1>4. /\ pc \in [Cli -> [Selected -> Holding \cup {"none", "ok", "error"}]]
      /\ plan \in [Cli -> [Selected -> Nat]] /\ copy \in [Cli -> [Selected -> Nat]]
      /\ expired \in [Cli -> [Selected -> BOOLEAN]]
      BY DEF Init, Everywhere
<1>5. launched \in [Cli -> 0 .. Len(Operators)] /\ writes \in 0 .. MaxWrites
      BY <1>3, BoundsNat DEF Init
<1> QED BY <1>1, <1>2, <1>4, <1>5 DEF Init, TypeOK

(* The steps of the errgroup and of the goroutines.                        *)
LEMMA RunType ==
    ASSUME TypeOK, NEW c \in Cli,
           Launch(c) \/ Wait(c) \/ Kill(c)
    PROVE  TypeOK'
<1>1. CASE Launch(c)
      <2>1. Len(Operators) \in Nat /\ launched[c] \in 0 .. Len(Operators)
            BY OperatorsDistinct DEF TypeOK
      <2>2. launched[c] + 1 \in Selected
            BY <1>1, <2>1 DEF Launch, Remaining, Selected
      <2>3. pc' \in [Cli -> [Selected -> PCs]]
            BY <1>1, <2>2, GotoStep DEF Launch, TypeOK, PCs, Holding
      <2>4. launched' \in [Cli -> 0 .. Len(Operators)]
            BY <1>1, <2>1, <2>2 DEF Launch, TypeOK, Selected
      <2> QED BY <1>1, <2>3, <2>4 DEF Launch, TypeOK, PCs, cluster
<1>2. CASE Wait(c)
      BY <1>2 DEF Wait, TypeOK, cluster
<1>3. CASE Kill(c)
      BY <1>3 DEF Kill, TypeOK, cluster
<1> QED BY <1>1, <1>2, <1>3

LEMMA GoroutineType ==
    ASSUME TypeOK, PlanInv, NEW c \in Cli, NEW i \in Selected,
           Advance(c, i) \/ Error(c, i) \/ Expire(c, i)
    PROVE  TypeOK'
<1>1. pc \in [Cli -> [Selected -> PCs]] /\ Operators[i] \in Names
      BY OperatorNamed DEF TypeOK, PCs
<1>2. ASSUME NEW step \in PCs, Goto(c, i, step)
      PROVE  pc' \in [Cli -> [Selected -> Holding \cup {"none", "ok", "error"}]]
      BY <1>1, <1>2, GotoStep DEF PCs
<1>3. /\ {"start", "rollout", "failing", "failed", "succeeded", "getSubscription",
           "create", "update", "poll", "getPlan", "approve", "ok", "error"}
             \subseteq PCs
      BY DEF PCs, Holding, Calling, Polling
<1>4. Forget(c, i) => /\ plan' \in [Cli -> [Selected -> Nat]]
                      /\ copy' \in [Cli -> [Selected -> Nat]]
      BY ForgetStep DEF TypeOK
<1>5. CASE Start(c, i)
      BY <1>2, <1>3, <1>5 DEF Start, TypeOK, cluster, group
<1>6. CASE GetSubscription(c, i)
      BY <1>2, <1>3, <1>6 DEF GetSubscription, TypeOK, cluster, group
<1>7. CASE CreateSubscription(c, i)
      <2>1. subscription' \in [Names -> Subscriptions]
            <3>1. subscription[Operators[i]] \in Subscriptions
                  BY <1>1 DEF TypeOK
            <3>2. [subscription[Operators[i]] EXCEPT !.exists = TRUE] \in Subscriptions
                  BY <3>1 DEF Subscriptions
            <3> QED BY <1>1, <1>7, <3>2 DEF CreateSubscription, TypeOK
      <2> QED BY <1>2, <1>3, <1>7, <2>1 DEF CreateSubscription, TypeOK, group
<1>8. CASE UpdateSubscription(c, i)
      BY <1>2, <1>3, <1>8 DEF UpdateSubscription, TypeOK, cluster, group
<1>9. CASE Poll(c, i)
      <2>1. subscription[Operators[i]].ref \in Nat
            BY <1>1 DEF TypeOK, Subscriptions
      <2> QED BY <1>2, <1>3, <1>9, <2>1 DEF Poll, TypeOK, cluster, group
<1>10. CASE GetInstallPlan(c, i)
      <2>1. plans[plan[c][i]].version \in Nat
            <3>1. plans \in Seq(Plans) /\ plan[c][i] \in 1 .. Len(plans)
                  BY <1>10 DEF GetInstallPlan, Calls, PlanInv, TypeOK
            <3>2. plans[plan[c][i]] \in Plans
                  BY <3>1, ElementOfSeq
            <3> QED BY <3>2 DEF Plans
      <2> QED BY <1>2, <1>3, <1>10, <2>1 DEF GetInstallPlan, TypeOK, cluster, group
<1>11. CASE ApproveInstallPlan(c, i)
      BY <1>2, <1>3, <1>4, <1>11, ApproveEffect
         DEF ApproveInstallPlan, TypeOK, group, PlansKept
<1>12. CASE RolloutWait(c, i)
      BY <1>2, <1>3, <1>12 DEF RolloutWait, TypeOK, cluster, group
<1>13. CASE Abandon(c, i)
      BY <1>2, <1>3, <1>4, <1>13 DEF Abandon, TypeOK, cluster, group
<1>14. CASE Cancel(c, i)
      BY <1>2, <1>3, <1>14 DEF Cancel, TypeOK, cluster
<1>15. CASE Release(c, i)
      BY <1>2, <1>3, <1>15 DEF Release, TypeOK, cluster, group
<1>16. CASE Error(c, i)
      BY <1>2, <1>3, <1>4, <1>16 DEF Error, TypeOK, cluster, group
<1>17. CASE Expire(c, i)
      BY <1>17 DEF Expire, TypeOK, cluster, group
<1> QED
    BY <1>5, <1>6, <1>7, <1>8, <1>9, <1>10, <1>11, <1>12, <1>13, <1>14,
       <1>15, <1>16, <1>17 DEF Advance

LEMMA ClusterType ==
    ASSUME TypeOK,
           \/ Resolve \/ Rewrite
           \/ \E p \in 1 .. Len(plans) : Execute(p)
           \/ \E o \in Names : Rollout(o)
    PROVE  TypeOK'
<1>1. CASE Resolve
      <2>1. subscription' \in [Names -> Subscriptions]
            <3>1. Len(plans) + 1 \in Nat
                  BY DEF TypeOK
            <3> QED BY <1>1, <3>1 DEF Resolve, TypeOK, Subscriptions
      <2> QED BY <1>1, <2>1, ResolveEffect
              DEF Resolve, TypeOK, Process, PlansKept
<1>2. CASE Rewrite
      <2>1. writes' \in 0 .. MaxWrites
            BY <1>2, BoundsNat DEF Rewrite, TypeOK
      <2>2. deployment' \in
               [Names -> {"absent", "progressing", "rolledOut", "timedOut"}]
            BY <1>2 DEF Rewrite, TypeOK
      <2> QED BY <1>2, <2>1, <2>2, RewriteEffect
              DEF Rewrite, TypeOK, Process, PlansKept
<1>3. ASSUME NEW p \in 1 .. Len(plans), Execute(p)
      PROVE  TypeOK'
      <2>1. deployment' \in
               [Names -> {"absent", "progressing", "rolledOut", "timedOut"}]
            BY <1>3 DEF Execute, TypeOK
      <2> QED BY <1>3, <2>1, ExecuteEffect DEF Execute, TypeOK, Process, PlansKept
<1>4. ASSUME NEW o \in Names, Rollout(o)
      PROVE  TypeOK'
      BY <1>4 DEF Rollout, TypeOK, Process
<1> QED BY <1>1, <1>2, <1>3, <1>4

-----------------------------------------------------------------------------
(* The plans                                                               *)

LEMMA InitPlan == Init => PlanInv /\ ExecutedInv /\ NoDeadEnd
<1> SUFFICES ASSUME Init PROVE PlanInv /\ ExecutedInv /\ NoDeadEnd
    OBVIOUS
<1>1. \A c \in Cli, i \in Selected : pc[c][i] = "none"
      BY DEF Init, Everywhere
<1>2. /\ Preinstalled = {} => DOMAIN plans = {}
      /\ Preinstalled # {} =>
           /\ DOMAIN plans = {1} /\ plans[1].operators = Preinstalled
           /\ plans[1].phase = "complete"
      BY DEF Init
<1>3. ASSUME NEW o \in Names
      PROVE  /\ subscription[o].ref = IF o \in Preinstalled THEN 1 ELSE 0
             /\ o \in Preinstalled => deployment[o] # "absent"
      BY DEF Init
<1>4. PlanInv
      BY <1>1, <1>2, <1>3 DEF PlanInv
<1>5. ExecutedInv
      BY <1>2, <1>3, PreinstalledKnown DEF ExecutedInv, Names, Selected
<1> QED BY <1>1, <1>4, <1>5 DEF NoDeadEnd

(* Plans that are kept keep what refers to them right.                     *)
LEMMA PlanFrame ==
    ASSUME TypeOK, PlanInv, PlansKept,
           \A o \in Names : subscription'[o].ref = subscription[o].ref,
           NEW c \in Cli, NEW i \in Selected,
           \A d \in Cli, j \in Selected : <<d, j>> # <<c, i>> =>
               pc'[d][j] = pc[d][j] /\ plan'[d][j] = plan[d][j],
           pc'[c][i] \in {"getPlan", "approve"} =>
               /\ plan'[c][i] \in DOMAIN plans
               /\ Operators[i] \in plans[plan'[c][i]].operators
    PROVE  PlanInv'
<1>1. ASSUME NEW o \in Names, subscription'[o].ref # 0
      PROVE  /\ subscription'[o].ref \in DOMAIN plans'
             /\ o \in plans'[subscription'[o].ref].operators
      BY <1>1 DEF PlanInv, PlansKept
<1>2. ASSUME NEW d \in Cli, NEW j \in Selected, pc'[d][j] \in {"getPlan", "approve"}
      PROVE  /\ plan'[d][j] \in DOMAIN plans'
             /\ Operators[j] \in plans'[plan'[d][j]].operators
      <2>1. /\ plan'[d][j] \in DOMAIN plans
            /\ Operators[j] \in plans[plan'[d][j]].operators
            <3>1. CASE <<d, j>> = <<c, i>>
                  BY <1>2, <3>1
            <3>2. CASE <<d, j>> # <<c, i>>
                  BY <1>2, <3>2 DEF PlanInv
            <3> QED BY <3>1, <3>2
      <2> QED BY <2>1 DEF PlansKept
<1> QED BY <1>1, <1>2 DEF PlanInv

LEMMA SamePlans == ASSUME TypeOK, UNCHANGED plans PROVE PlansKept
BY DEF PlansKept, TypeOK

(* What each step of a goroutine does to the plans it refers to.           *)
LEMMA GoroutinePlan ==
    ASSUME TypeOK, PlanInv, NEW c \in Cli, NEW i \in Selected,
           Advance(c, i) \/ Error(c, i) \/ Expire(c, i)
    PROVE  PlanInv'
<1>1. pc \in [Cli -> [Selected -> PCs]] /\ Operators[i] \in Names
      BY OperatorNamed DEF TypeOK, PCs
<1>2. ASSUME NEW step \in PCs, Goto(c, i, step)
      PROVE  /\ pc'[c][i] = step
             /\ \A d \in Cli, j \in Selected :
                   <<d, j>> # <<c, i>> => pc'[d][j] = pc[d][j]
      BY <1>1, <1>2, GotoStep
<1>3. /\ {"start", "rollout", "failing", "failed", "succeeded", "getSubscription",
           "create", "update", "poll", "getPlan", "approve", "ok", "error"}
             \subseteq PCs
      BY DEF PCs, Holding, Calling, Polling
<1>4. Forget(c, i) \/ UNCHANGED plan =>
          \A d \in Cli, j \in Selected :
              <<d, j>> # <<c, i>> => plan'[d][j] = plan[d][j]
      BY ForgetStep DEF TypeOK
<1>5. ASSUME PlansKept, \A o \in Names : subscription'[o].ref = subscription[o].ref,
             Forget(c, i) \/ UNCHANGED plan,
             NEW step \in PCs \ {"getPlan", "approve"}, Goto(c, i, step)
      PROVE  PlanInv'
      <2>1. pc'[c][i] \notin {"getPlan", "approve"}
            BY <1>2, <1>5
      <2> QED BY <1>2, <1>4, <1>5, <2>1, PlanFrame
<1>6. CASE Start(c, i)
      BY <1>3, <1>5, <1>6, SamePlans DEF Start, cluster
<1>7. CASE GetSubscription(c, i)
      BY <1>3, <1>5, <1>7, SamePlans DEF GetSubscription, cluster
<1>8. CASE CreateSubscription(c, i)
      <2>1. \A o \in Names : subscription'[o].ref = subscription[o].ref
            BY <1>8 DEF CreateSubscription, TypeOK, Subscriptions
      <2> QED BY <1>3, <1>5, <1>8, <2>1, SamePlans DEF CreateSubscription
<1>9. CASE UpdateSubscription(c, i)
      BY <1>3, <1>5, <1>9, SamePlans DEF UpdateSubscription, cluster
<1>10. CASE Poll(c, i)
      <2>1. plan'[c][i] = subscription[Operators[i]].ref
            BY <1>10 DEF Poll, TypeOK
      <2>2. /\ plan'[c][i] \in DOMAIN plans
            /\ Operators[i] \in plans[plan'[c][i]].operators
            BY <1>1, <1>10, <2>1 DEF Poll, PlanInv
      <2>3. \A d \in Cli, j \in Selected :
                <<d, j>> # <<c, i>> => plan'[d][j] = plan[d][j]
            BY <1>10 DEF Poll, TypeOK
      <2>4. /\ PlansKept /\ UNCHANGED subscription
            BY <1>10, SamePlans DEF Poll, cluster
      <2> QED BY <1>2, <1>3, <1>10, <2>2, <2>3, <2>4, PlanFrame DEF Poll
<1>11. CASE GetInstallPlan(c, i)
      <2>1. /\ plan'[c][i] \in DOMAIN plans
            /\ Operators[i] \in plans[plan'[c][i]].operators
            BY <1>11 DEF GetInstallPlan, Calls, PlanInv
      <2>2. /\ PlansKept /\ UNCHANGED <<subscription, plan>>
            BY <1>11, SamePlans DEF GetInstallPlan, cluster
      <2> QED BY <1>2, <1>3, <1>11, <2>1, <2>2, PlanFrame DEF GetInstallPlan
<1>12. CASE ApproveInstallPlan(c, i)
      BY <1>3, <1>5, <1>12, ApproveEffect DEF ApproveInstallPlan
<1>13. CASE RolloutWait(c, i)
      BY <1>3, <1>5, <1>13, SamePlans DEF RolloutWait, cluster
<1>14. CASE Abandon(c, i)
      BY <1>3, <1>5, <1>14, SamePlans DEF Abandon, cluster
<1>15. CASE Cancel(c, i)
      BY <1>3, <1>5, <1>15, SamePlans DEF Cancel, cluster
<1>16. CASE Release(c, i)
      BY <1>3, <1>5, <1>16, SamePlans DEF Release, cluster
<1>17. CASE Error(c, i)
      BY <1>3, <1>5, <1>17, SamePlans DEF Error, cluster
<1>18. CASE Expire(c, i)
      BY <1>18 DEF Expire, cluster, PlanInv
<1> QED
    BY <1>6, <1>7, <1>8, <1>9, <1>10, <1>11, <1>12, <1>13, <1>14, <1>15,
       <1>16, <1>17, <1>18 DEF Advance

LEMMA RunPlan ==
    ASSUME TypeOK, PlanInv, NEW c \in Cli, Launch(c) \/ Wait(c) \/ Kill(c)
    PROVE  PlanInv'
<1>1. CASE Launch(c)
      <2>1. launched[c] + 1 \in Selected
            BY <1>1, OperatorsDistinct DEF Launch, Remaining, Selected, TypeOK
      <2>2. /\ pc'[c][launched[c] + 1] = "start"
            /\ \A d \in Cli, j \in Selected :
                  <<d, j>> # <<c, launched[c] + 1>> => pc'[d][j] = pc[d][j]
            BY <1>1, <2>1, GotoStep DEF Launch, TypeOK, PCs, Holding
      <2> QED BY <1>1, <2>1, <2>2, PlanFrame, SamePlans DEF Launch, cluster
<1>2. CASE Wait(c) \/ Kill(c)
      BY <1>2 DEF Wait, Kill, cluster, PlanInv
<1> QED BY <1>1, <1>2

LEMMA ClusterPlan ==
    ASSUME TypeOK, PlanInv,
           \/ Resolve \/ Rewrite
           \/ \E p \in 1 .. Len(plans) : Execute(p)
           \/ \E o \in Names : Rollout(o)
    PROVE  PlanInv'
<1>1. UNCHANGED <<pc, plan>>
      BY DEF Resolve, Rewrite, Execute, Rollout, Process
<1>2. PlansKept
      BY ResolveEffect, RewriteEffect, ExecuteEffect, SamePlans DEF Rollout
<1>3. \A c \in Cli, i \in Selected :
          pc'[c][i] \in {"getPlan", "approve"} =>
             /\ plan'[c][i] \in DOMAIN plans'
             /\ Operators[i] \in plans'[plan'[c][i]].operators
      BY <1>1, <1>2 DEF PlanInv, PlansKept
<1>4. ASSUME NEW o \in Names, subscription'[o].ref # 0
      PROVE  /\ subscription'[o].ref \in DOMAIN plans'
             /\ o \in plans'[subscription'[o].ref].operators
      <2>1. CASE UNCHANGED subscription
            BY <1>2, <1>4, <2>1 DEF PlanInv, PlansKept
      <2>2. CASE Resolve
            <3>1. CASE o \in Unresolved
                  <4>1. subscription'[o].ref = Len(plans) + 1
                        BY <2>2, <3>1 DEF Resolve
                  <4>2. plans'[Len(plans) + 1].operators = Unresolved
                        BY <2>2, ResolveEffect
                  <4>3. Len(plans) + 1 \in DOMAIN plans'
                        BY <2>2, ResolveEffect DEF TypeOK
                  <4> QED BY <3>1, <4>1, <4>2, <4>3
            <3>2. CASE o \notin Unresolved
                  <4>1. subscription'[o] = subscription[o]
                        BY <2>2, <3>2 DEF Resolve
                  <4> QED BY <1>2, <1>4, <4>1 DEF PlanInv, PlansKept
            <3> QED BY <3>1, <3>2
      <2> QED BY <2>1, <2>2 DEF Rewrite, Execute, Rollout
<1> QED BY <1>3, <1>4 DEF PlanInv

(* Type correctness, with what the references to plans rest on: whichever  *)
(* plan OLM has superseded meanwhile, a goroutine approves one that        *)
(* installs its operator.                                                  *)
THEOREM TypeCorrect == Spec => [](TypeOK /\ PlanInv)
<1>1. TypeOK /\ PlanInv /\ [Next]_vars => (TypeOK /\ PlanInv)'
      <2> SUFFICES ASSUME TypeOK, PlanInv, [Next]_vars PROVE TypeOK' /\ PlanInv'
          OBVIOUS
      <2>1. CASE UNCHANGED vars
            BY <2>1 DEF vars, TypeOK, PlanInv
      <2>2. ASSUME NEW c \in Cli, Launch(c) \/ Wait(c) \/ Kill(c)
            PROVE  TypeOK' /\ PlanInv'
            BY <2>2, RunType, RunPlan
      <2>3. ASSUME NEW c \in Cli, NEW i \in Selected,
                   Advance(c, i) \/ Error(c, i) \/ Expire(c, i)
            PROVE  TypeOK' /\ PlanInv'
            BY <2>3, GoroutineType, GoroutinePlan
      <2>4. CASE \/ Resolve \/ Rewrite
                 \/ \E p \in 1 .. Len(plans) : Execute(p)
                 \/ \E o \in Names : Rollout(o)
            BY <2>4, ClusterType, ClusterPlan
      <2> QED BY <2>1, <2>2, <2>3, <2>4 DEF Next, Terminated
<1> QED BY <1>1, InitType, InitPlan, PTL DEF Spec
-----------------------------------------------------------------------------
(* Whoever waits for a Deployment waits for something that comes           *)

(* The Deployment is there, or OLM is bound to make it.                    *)
Bound(o) ==
    \/ deployment[o] # "absent"
    \/ \E p \in DOMAIN plans : /\ o \in plans[p].operators
                              /\ plans[p].approved /\ plans[p].phase = "pending"

LEMMA NoDeadEndBound ==
    ASSUME TypeOK
    PROVE  NoDeadEnd <=> \A c \in Cli, i \in Selected :
                             pc[c][i] = "rollout" => Bound(Operators[i])
<1>1. DOMAIN plans = 1 .. Len(plans)
      BY DEF TypeOK
<1> QED BY <1>1 DEF NoDeadEnd, Bound

LEMMA PlansTyped ==
    ASSUME TypeOK
    PROVE  \A p \in DOMAIN plans :
             /\ plans[p].operators \subseteq Names
             /\ plans[p].phase \in {"pending", "complete", "failed"}
<1>1. plans \in Seq(Plans) /\ DOMAIN plans = 1 .. Len(plans)
      BY DEF TypeOK
<1>2. ASSUME NEW p \in DOMAIN plans
      PROVE  plans[p] \in Plans
      BY <1>1, <1>2, ElementOfSeq
<1> QED BY <1>2 DEF Plans

LEMMA ClusterBound ==
    ASSUME TypeOK, ~PlansMayFail, ExecutedInv,
           \/ Resolve \/ Rewrite
           \/ \E p \in 1 .. Len(plans) : Execute(p)
           \/ \E o \in Names : Rollout(o)
    PROVE  ExecutedInv' /\ \A o \in Names : Bound(o) => Bound(o)'
<1>1. ASSUME NEW o \in Names, deployment[o] # "absent"
      PROVE  deployment'[o] # "absent"
      BY <1>1 DEF Resolve, Rewrite, Execute, Rollout, TypeOK
<1>2. CASE Resolve
      <2>1. /\ \A p \in DOMAIN plans : plans'[p] = plans[p]
            /\ DOMAIN plans \subseteq DOMAIN plans'
            /\ DOMAIN plans' \subseteq DOMAIN plans \cup {Len(plans) + 1}
            /\ plans'[Len(plans) + 1].phase = "pending"
            BY <1>2, ResolveEffect DEF PlansKept, TypeOK
      <2>2. UNCHANGED deployment
            BY <1>2 DEF Resolve
      <2> QED BY <2>1, <2>2 DEF ExecutedInv, Bound
<1>3. CASE Rewrite
      <2>1. /\ DOMAIN plans' = DOMAIN plans
            /\ \A p \in DOMAIN plans :
                  /\ plans'[p].phase = plans[p].phase
                  /\ plans'[p].operators = plans[p].operators
                  /\ plans[p].approved => plans'[p].approved
            BY <1>3, RewriteEffect DEF PlansKept
      <2>2. \A p \in DOMAIN plans : plans[p].operators \subseteq Names
            BY PlansTyped
      <2> QED BY <1>1, <2>1, <2>2 DEF ExecutedInv, Bound
<1>4. ASSUME NEW p \in 1 .. Len(plans), Execute(p)
      PROVE  ExecutedInv' /\ \A o \in Names : Bound(o) => Bound(o)'
      <2>1. /\ DOMAIN plans' = DOMAIN plans /\ p \in DOMAIN plans
            /\ \A q \in DOMAIN plans : q # p => plans'[q] = plans[q]
            /\ plans'[p].operators = plans[p].operators
            /\ plans'[p].phase = "complete"
            BY <1>4, ExecuteEffect, BoundsNat DEF PlansKept, TypeOK
      <2>2. \A q \in DOMAIN plans : plans[q].operators \subseteq Names
            BY PlansTyped
      <2>3. /\ plans[p].phase = "pending"
            /\ \A o \in plans[p].operators : deployment'[o] # "absent"
            <3>1. deployment' = [o \in Names |->
                     IF o \in plans[p].operators /\ deployment[o] = "absent"
                     THEN "progressing" ELSE deployment[o]]
                  <4>1. \/ deployment' = [o \in Names |->
                              IF o \in plans[p].operators /\ deployment[o] = "absent"
                              THEN "progressing" ELSE deployment[o]]
                        \/ PlansMayFail
                        BY <1>4 DEF Execute
                  <4> QED BY <4>1
            <3> QED BY <1>4, <2>1, <2>2, <3>1 DEF Execute
      <2>4. ExecutedInv'
            BY <1>1, <2>1, <2>2, <2>3 DEF ExecutedInv
      <2>5. ASSUME NEW o \in Names, Bound(o)
            PROVE  Bound(o)'
            <3>1. CASE deployment[o] # "absent"
                  BY <1>1, <3>1 DEF Bound
            <3>2. CASE o \in plans[p].operators
                  BY <2>3, <3>2 DEF Bound
            <3>3. CASE deployment[o] = "absent" /\ o \notin plans[p].operators
                  BY <2>1, <2>5, <3>3 DEF Bound
            <3> QED BY <3>1, <3>2, <3>3
      <2> QED BY <2>4, <2>5
<1>5. ASSUME NEW o \in Names, Rollout(o)
      PROVE  ExecutedInv' /\ \A q \in Names : Bound(q) => Bound(q)'
      <2>1. \A p \in DOMAIN plans : plans[p].operators \subseteq Names
            BY PlansTyped
      <2> QED BY <1>1, <1>5, <2>1 DEF Rollout, ExecutedInv, Bound
<1> QED BY <1>2, <1>3, <1>4, <1>5

(* A goroutine begins to wait when it has approved its plan, which is      *)
(* pending or executed.                                                    *)
LEMMA GoroutineBound ==
    ASSUME TypeOK, PlanInv, ExecutedInv, NEW c \in Cli, NEW i \in Selected,
           Advance(c, i) \/ Error(c, i) \/ Expire(c, i)
    PROVE  /\ ExecutedInv'
           /\ \A o \in Names : Bound(o) => Bound(o)'
           /\ \A d \in Cli, j \in Selected :
                 pc'[d][j] = "rollout" =>
                     pc[d][j] = "rollout" \/ Bound(Operators[j])'
<1>1. pc \in [Cli -> [Selected -> PCs]]
      BY DEF TypeOK, PCs
<1>2. ASSUME UNCHANGED <<plans, deployment>>,
             \A d \in Cli, j \in Selected :
                 pc'[d][j] = "rollout" => pc[d][j] = "rollout"
      PROVE  /\ ExecutedInv'
             /\ \A o \in Names : Bound(o) => Bound(o)'
      BY <1>2 DEF ExecutedInv, Bound
<1>3. CASE ApproveInstallPlan(c, i)
      <2> DEFINE p == plan[c][i]
      <2>1. /\ p \in DOMAIN plans /\ Operators[i] \in plans[p].operators
            /\ UNCHANGED deployment
            BY <1>3 DEF ApproveInstallPlan, Calls, PlanInv
      <2>2. /\ PlansKept /\ DOMAIN plans' = DOMAIN plans
            /\ \A q \in DOMAIN plans : plans'[q].phase = plans[q].phase
            /\ \/ Goto(c, i, "poll")
               \/ Goto(c, i, "rollout") /\ plans'[p].approved
            BY <1>3, ApproveEffect
      <2>3. ExecutedInv' /\ \A o \in Names : Bound(o) => Bound(o)'
            BY <2>1, <2>2 DEF ExecutedInv, Bound, PlansKept
      <2>4. plans[p].phase \in {"pending", "complete"}
            BY <2>1, PlansTyped DEF ExecutedInv
      <2>5. plans'[p].approved => Bound(Operators[i])'
            BY <2>1, <2>2, <2>4 DEF ExecutedInv, Bound, PlansKept
      <2>6. ASSUME NEW d \in Cli, NEW j \in Selected, pc'[d][j] = "rollout"
            PROVE  pc[d][j] = "rollout" \/ Bound(Operators[j])'
            <3>1. CASE <<d, j>> # <<c, i>>
                  BY <1>1, <2>2, <2>6, <3>1, GotoStep
                     DEF PCs, Holding, Calling, Polling
            <3>2. CASE <<d, j>> = <<c, i>>
                  BY <1>1, <2>2, <2>5, <2>6, <3>2, GotoStep
                     DEF PCs, Holding, Calling, Polling
            <3> QED BY <3>1, <3>2
      <2> QED BY <2>3, <2>6
<1>4. CASE ~ApproveInstallPlan(c, i)
      <2>1. UNCHANGED <<plans, deployment>>
            BY <1>4 DEF Advance, Start, GetSubscription, CreateSubscription,
               UpdateSubscription, Poll, GetInstallPlan, RolloutWait, Abandon,
               Cancel, Release, Error, Expire, cluster
      <2>2. \/ UNCHANGED pc
            \/ \E step \in PCs \ {"rollout"} : Goto(c, i, step)
            BY <1>4 DEF Advance, Start, GetSubscription, CreateSubscription,
               UpdateSubscription, Poll, GetInstallPlan, RolloutWait, Abandon,
               Cancel, Release, Error, Expire, PCs, Holding, Calling, Polling
      <2>3. \A d \in Cli, j \in Selected :
                pc'[d][j] = "rollout" => pc[d][j] = "rollout"
            BY <1>1, <2>2, GotoStep
      <2> QED BY <1>2, <2>1, <2>3
<1> QED BY <1>3, <1>4

(* The rollout wait, which has no deadline, never begins before somebody   *)
(* is bound to end it, whatever other runs and OLM do to the plans; for    *)
(* plans that OLM executes once they are approved.                         *)
THEOREM NeverAbandoned ==
    ASSUME ~PlansMayFail PROVE Spec => []NoDeadEnd
<1>1. TypeOK /\ PlanInv /\ TypeOK' /\ ExecutedInv /\ NoDeadEnd /\ [Next]_vars
          => (ExecutedInv /\ NoDeadEnd)'
      <2> SUFFICES ASSUME TypeOK, PlanInv, TypeOK', ExecutedInv, NoDeadEnd,
                          [Next]_vars
                   PROVE  ExecutedInv' /\ NoDeadEnd'
          OBVIOUS
      <2>1. ASSUME ExecutedInv', \A o \in Names : Bound(o) => Bound(o)',
                   \A c \in Cli, i \in Selected :
                       pc'[c][i] = "rollout" =>
                           pc[c][i] = "rollout" \/ Bound(Operators[i])'
            PROVE  ExecutedInv' /\ NoDeadEnd'
            <3>1. NoDeadEnd <=> \A c \in Cli, i \in Selected :
                                    pc[c][i] = "rollout" => Bound(Operators[i])
                  BY NoDeadEndBound
            <3>2. DOMAIN plans' = 1 .. Len(plans')
                  BY DEF TypeOK
            <3> QED BY <2>1, <3>1, <3>2, OperatorNamed DEF NoDeadEnd, Bound
      <2>2. CASE UNCHANGED vars
            BY <2>2 DEF vars, ExecutedInv, NoDeadEnd
      <2>3. ASSUME NEW c \in Cli, Launch(c) \/ Wait(c) \/ Kill(c)
            PROVE  ExecutedInv' /\ NoDeadEnd'
            <3>1. UNCHANGED <<plans, deployment>>
                  BY <2>3 DEF Launch, Wait, Kill, cluster
            <3>2. CASE Launch(c)
                  <4>1. launched[c] + 1 \in Selected
                        BY <3>2, OperatorsDistinct
                           DEF Launch, Remaining, Selected, TypeOK
                  <4> DEFINE i == launched[c] + 1
                  <4>2. /\ pc'[c][i] = "start"
                        /\ \A d \in Cli, j \in Selected :
                              <<d, j>> # <<c, i>> => pc'[d][j] = pc[d][j]
                        BY <3>2, <4>1, GotoStep
                           DEF Launch, TypeOK, PCs, Holding
                  <4>3. \A d \in Cli, j \in Selected :
                            pc'[d][j] = "rollout" => pc[d][j] = "rollout"
                        <5> HIDE DEF i
                        <5> QED BY <4>2
                  <4> QED BY <3>1, <4>3 DEF ExecutedInv, NoDeadEnd
            <3>3. CASE UNCHANGED pc
                  BY <3>1, <3>3 DEF ExecutedInv, NoDeadEnd
            <3> QED BY <2>3, <3>2, <3>3 DEF Wait, Kill
      <2>4. ASSUME NEW c \in Cli, NEW i \in Selected,
                   Advance(c, i) \/ Error(c, i) \/ Expire(c, i)
            PROVE  ExecutedInv' /\ NoDeadEnd'
            BY <2>1, <2>4, GoroutineBound
      <2>5. CASE \/ Resolve \/ Rewrite
                 \/ \E p \in 1 .. Len(plans) : Execute(p)
                 \/ \E o \in Names : Rollout(o)
            <3>1. UNCHANGED pc
                  BY <2>5 DEF Resolve, Rewrite, Execute, Rollout, Process
            <3>2. ExecutedInv' /\ \A o \in Names : Bound(o) => Bound(o)'
                  BY <2>5, ClusterBound
            <3> QED BY <2>1, <3>1, <3>2
      <2> QED BY <2>2, <2>3, <2>4, <2>5 DEF Next, Terminated
<1> QED BY <1>1, InitPlan, TypeCorrect, PTL DEF Spec
-----------------------------------------------------------------------------
(* With one thread, the goroutines of a run follow one another             *)

(* Only the goroutine launched last can be at work.                        *)
LEMMA LastLaunched ==
    ASSUME TypeOK, SequenceInv, NEW c \in Cli, NEW i \in Selected,
           pc[c][i] \in Holding
    PROVE  i = launched[c]
<1>1. launched[c] \in 0 .. Len(Operators) /\ Len(Operators) \in Nat
      BY OperatorsDistinct DEF TypeOK
<1>2. pc[c][i] \notin {"none", "ok", "error"}
      BY DEF Holding, Calling, Polling
<1>3. ~(i > launched[c]) /\ ~(i < launched[c])
      BY <1>2 DEF SequenceInv, InSequence
<1> QED BY <1>1, <1>3 DEF Selected

(* A goroutine gets its slot when all those before it have ended.          *)
LEMMA SlotFree ==
    ASSUME TypeOK, NEW c \in Cli, Cardinality(InFlight(c)) < 1
    PROVE  InFlight(c) = {}
<1>1. IsFiniteSet(Selected)
      BY OperatorsDistinct, FS_Interval DEF Selected
<1>2. IsFiniteSet(InFlight(c))
      BY <1>1, FS_Subset DEF InFlight
<1>3. Cardinality(InFlight(c)) \in Nat
      BY <1>2, FS_CardinalityType
<1>4. Cardinality(InFlight(c)) = 0
      BY <1>3
<1> QED BY <1>2, <1>4, FS_EmptySet

LEMMA InitSequence == Init => SequenceInv
<1> SUFFICES ASSUME Init PROVE SequenceInv
    OBVIOUS
<1>1. \A c \in Cli, i \in Selected : pc[c][i] = "none"
      BY DEF Init, Everywhere
<1>2. \A c \in Cli : launched[c] = 0 /\ ~cancelled[c] /\ wrote[c] = {}
      BY DEF Init
<1>3. \A i \in Selected : i > 0 /\ ~(i < 0)
      BY OperatorsDistinct DEF Selected
<1> QED BY <1>1, <1>2, <1>3 DEF SequenceInv, InSequence, Polling

LEMMA LaunchSequence ==
    ASSUME TypeOK, SequenceInv, Threads = 1, NEW c \in Cli, Launch(c)
    PROVE  SequenceInv'
<1> DEFINE i == launched[c] + 1
<1>1. Len(Operators) \in Nat /\ launched[c] \in 0 .. Len(Operators)
      BY OperatorsDistinct DEF TypeOK
<1>2. i \in Selected
      BY <1>1 DEF Launch, Remaining, Selected
<1>3. /\ pc'[c][i] = "start"
      /\ \A d \in Cli, j \in Selected : <<d, j>> # <<c, i>> => pc'[d][j] = pc[d][j]
      BY <1>2, GotoStep DEF Launch, TypeOK, PCs, Holding
<1>4. pc[c][i] = "none" /\ i \notin wrote[c]
      BY <1>1, <1>2 DEF SequenceInv, InSequence
<1>5. /\ launched'[c] = i /\ \A d \in Cli \ {c} : launched'[d] = launched[d]
      /\ UNCHANGED <<cancelled, wrote>>
      BY DEF Launch, TypeOK
<1>6. ASSUME NEW j \in Selected, j < i
      PROVE  pc[c][j] \in {"ok", "error"}
      <2>1. pc[c][j] # "none"
            BY <1>1, <1>6 DEF SequenceInv, InSequence, Selected
      <2>2. pc[c][j] \notin Holding
            BY SlotFree DEF Launch, InFlight
      <2> QED BY <2>1, <2>2 DEF TypeOK
<1>7. InSequence(c)'
      <2>1. cancelled'[c] <=> \E j \in Selected : pc'[c][j] \in {"failed", "error"}
            <3>1. \A j \in Selected : pc'[c][j] \in {"failed", "error"} <=>
                                      pc[c][j] \in {"failed", "error"}
                  <4> HIDE DEF i
                  <4> QED BY <1>3, <1>4
            <3> QED BY <1>5, <3>1 DEF SequenceInv, InSequence
      <2>2. ASSUME NEW j \in Selected
            PROVE  /\ j > launched'[c] <=> pc'[c][j] = "none"
                   /\ j < launched'[c] => pc'[c][j] \in {"ok", "error"}
                   /\ pc'[c][j] \in Polling \cup {"rollout", "succeeded", "ok"}
                         => j \in wrote'[c]
                   /\ pc'[c][j] \in {"none", "start", "getSubscription",
                                     "create", "update"} => j \notin wrote'[c]
            <3>1. CASE j = i
                  <4> HIDE DEF i
                  <4>1. i \in Int
                        BY <1>2 DEF Selected
                  <4> QED BY <1>3, <1>4, <1>5, <3>1, <4>1 DEF Polling
            <3>2. CASE j # i
                  <4>1. pc'[c][j] = pc[c][j]
                        BY <1>3, <3>2
                  <4>2. j > launched'[c] <=> j > launched[c]
                        BY <1>1, <1>5, <3>2 DEF Selected
                  <4> QED BY <1>5, <1>6, <4>1, <4>2 DEF SequenceInv, InSequence
            <3> QED BY <3>1, <3>2
      <2> QED BY <2>1, <2>2 DEF InSequence
<1>8. \A d \in Cli \ {c} : InSequence(d)'
      BY <1>3, <1>5 DEF SequenceInv, InSequence
<1> QED BY <1>7, <1>8 DEF SequenceInv, InSequence

(* A step of the goroutine that holds the slot keeps the order if what it  *)
(* records agrees with where it goes.                                      *)
LEMMA StepSequence ==
    ASSUME TypeOK, SequenceInv, NEW c \in Cli, NEW i \in Selected,
           pc[c][i] \in Holding, NEW step \in PCs \ {"none"}, Goto(c, i, step),
           UNCHANGED launched,
           \A d \in Cli \ {c} : cancelled'[d] = cancelled[d] /\ wrote'[d] = wrote[d],
           cancelled'[c] <=> cancelled[c] \/ step \in {"failed", "error"},
           pc[c][i] = "failed" => step = "error",
           \A j \in Selected \ {i} : j \in wrote'[c] <=> j \in wrote[c],
           step \in Polling \cup {"rollout", "succeeded", "ok"} => i \in wrote'[c],
           step \in {"start", "getSubscription", "create", "update"} =>
               i \notin wrote'[c]
    PROVE  SequenceInv'
<1>1. /\ pc'[c][i] = step
      /\ \A d \in Cli, j \in Selected : <<d, j>> # <<c, i>> => pc'[d][j] = pc[d][j]
      BY GotoStep DEF TypeOK, PCs
<1>2. i = launched[c] /\ i \in Int
      BY LastLaunched DEF Selected
<1>3. pc[c][i] # "error"
      BY DEF Holding, Calling, Polling
<1>4. InSequence(c)'
      <2>1. cancelled'[c] <=> \E j \in Selected : pc'[c][j] \in {"failed", "error"}
            <3>1. cancelled[c] <=> \E j \in Selected : pc[c][j] \in {"failed", "error"}
                  BY DEF SequenceInv, InSequence
            <3> QED BY <1>1, <1>3, <3>1
      <2>2. ASSUME NEW j \in Selected
            PROVE  /\ j > launched'[c] <=> pc'[c][j] = "none"
                   /\ j < launched'[c] => pc'[c][j] \in {"ok", "error"}
                   /\ pc'[c][j] \in Polling \cup {"rollout", "succeeded", "ok"}
                         => j \in wrote'[c]
                   /\ pc'[c][j] \in {"none", "start", "getSubscription",
                                     "create", "update"} => j \notin wrote'[c]
            <3>1. CASE j = i
                  BY <1>1, <1>2, <3>1
            <3>2. CASE j # i
                  <4>1. pc'[c][j] = pc[c][j]
                        BY <1>1, <3>2
                  <4> QED BY <3>2, <4>1 DEF SequenceInv, InSequence
            <3> QED BY <3>1, <3>2
      <2> QED BY <2>1, <2>2 DEF InSequence
<1>5. \A d \in Cli \ {c} : InSequence(d)'
      BY <1>1 DEF SequenceInv, InSequence
<1> QED BY <1>4, <1>5 DEF SequenceInv

LEMMA GoroutineSequence ==
    ASSUME TypeOK, SequenceInv, NEW c \in Cli, NEW i \in Selected,
           Advance(c, i) \/ Error(c, i) \/ Expire(c, i)
    PROVE  SequenceInv'
<1> USE DEF PCs, Holding, Calling, Polling
<1>1. /\ pc[c][i] \in {"poll", "getPlan", "approve", "rollout", "succeeded"} =>
             i \in wrote[c]
      /\ pc[c][i] \in {"start", "getSubscription", "create", "update"} =>
             i \notin wrote[c]
      /\ pc[c][i] = "failed" => cancelled[c]
      BY DEF SequenceInv, InSequence
<1>2. CASE CreateSubscription(c, i) \/ UpdateSubscription(c, i)
      <2>1. /\ pc[c][i] \in {"create", "update"} /\ Goto(c, i, "poll")
            /\ UNCHANGED <<launched, cancelled>>
            /\ wrote' = [wrote EXCEPT ![c] = @ \cup {i}]
            BY <1>2 DEF CreateSubscription, UpdateSubscription, Calls, group
      <2>2. wrote'[c] = wrote[c] \cup {i} /\ \A d \in Cli \ {c} : wrote'[d] = wrote[d]
            BY <2>1 DEF TypeOK
      <2> QED BY <2>1, <2>2, StepSequence
<1>3. CASE Cancel(c, i)
      <2>1. /\ pc[c][i] = "failing" /\ Goto(c, i, "failed")
            /\ UNCHANGED <<launched, wrote>>
            /\ cancelled' = [cancelled EXCEPT ![c] = TRUE]
            BY <1>3 DEF Cancel
      <2>2. cancelled'[c] /\ \A d \in Cli \ {c} : cancelled'[d] = cancelled[d]
            BY <2>1, Zenon DEF TypeOK
      <2> QED BY <2>1, <2>2, StepSequence
<1>4. ASSUME UNCHANGED <<launched, cancelled, wrote>>,
             NEW step \in PCs \ {"none"},
             pc[c][i] \in Holding, Goto(c, i, step),
             step \in {"failed", "error"} => cancelled[c],
             pc[c][i] = "failed" => step = "error",
             step \in Polling \cup {"rollout", "succeeded", "ok"} => i \in wrote[c],
             step \in {"start", "getSubscription", "create", "update"} =>
                 i \notin wrote[c]
      PROVE  SequenceInv'
      BY <1>4, StepSequence
<1>5. CASE Start(c, i)
      <2>1. /\ pc[c][i] = "start"
            /\ UNCHANGED <<launched, cancelled, wrote>>
            /\ Goto(c, i, "failing") \/ Goto(c, i, "getSubscription")
            BY <1>5 DEF Start, group
      <2> QED BY <1>1, <1>4, <2>1
<1>6. CASE GetSubscription(c, i)
      <2>1. /\ pc[c][i] = "getSubscription"
            /\ UNCHANGED <<launched, cancelled, wrote>>
            /\ Goto(c, i, "update") \/ Goto(c, i, "create")
            BY <1>6 DEF GetSubscription, Calls, group
      <2> QED BY <1>1, <1>4, <2>1
<1>7. CASE Poll(c, i) \/ GetInstallPlan(c, i) \/ ApproveInstallPlan(c, i)
      <2>1. /\ pc[c][i] \in {"poll", "getPlan", "approve"}
            /\ UNCHANGED <<launched, cancelled, wrote>>
            BY <1>7 DEF Poll, GetInstallPlan, ApproveInstallPlan, Calls, group
      <2>2. PICK step \in {"getPlan", "approve", "rollout", "poll"} : Goto(c, i, step)
            BY <1>7 DEF Poll, GetInstallPlan, ApproveInstallPlan
      <2>3. i \in wrote[c]
            BY <1>1, <2>1
      <2> QED BY <1>4, <2>1, <2>2, <2>3
<1>8. CASE RolloutWait(c, i) \/ Abandon(c, i) \/ Release(c, i) \/ Error(c, i)
      <2>1. UNCHANGED <<launched, cancelled, wrote>>
            BY <1>8 DEF RolloutWait, Abandon, Release, Error, group
      <2>2. CASE pc[c][i] \in Calling \cup {"rollout"} /\ Goto(c, i, "failing")
            BY <1>4, <2>1, <2>2
      <2>3. CASE pc[c][i] = "rollout" /\ Goto(c, i, "succeeded")
            BY <1>1, <1>4, <2>1, <2>3
      <2>4. CASE pc[c][i] = "succeeded" /\ Goto(c, i, "ok")
            BY <1>1, <1>4, <2>1, <2>4
      <2>5. CASE pc[c][i] = "failed" /\ Goto(c, i, "error")
            BY <1>1, <1>4, <2>1, <2>5
      <2> QED BY <1>8, <2>2, <2>3, <2>4, <2>5 DEF RolloutWait, Abandon, Release, Error
<1>9. CASE Expire(c, i)
      BY <1>9 DEF Expire, group, SequenceInv, InSequence
<1> QED BY <1>2, <1>3, <1>5, <1>6, <1>7, <1>8, <1>9 DEF Advance

(* With one thread, the goroutines of a run are launched one after the     *)
(* other has released its slot, and those after a failure start on a       *)
(* cancelled context.                                                      *)
THEOREM Sequential ==
    ASSUME Threads = 1 PROVE Spec => []SequenceInv
<1>1. TypeOK /\ SequenceInv /\ [Next]_vars => SequenceInv'
      <2> SUFFICES ASSUME TypeOK, SequenceInv, [Next]_vars PROVE SequenceInv'
          OBVIOUS
      <2>1. ASSUME UNCHANGED <<launched, cancelled, pc, wrote>>
            PROVE  SequenceInv'
            BY <2>1 DEF SequenceInv, InSequence
      <2>2. CASE UNCHANGED vars
            BY <2>1, <2>2 DEF vars
      <2>3. ASSUME NEW c \in Cli, Launch(c) \/ Wait(c) \/ Kill(c)
            PROVE  SequenceInv'
            BY <2>1, <2>3, LaunchSequence DEF Wait, Kill
      <2>4. ASSUME NEW c \in Cli, NEW i \in Selected,
                   Advance(c, i) \/ Error(c, i) \/ Expire(c, i)
            PROVE  SequenceInv'
            BY <2>4, GoroutineSequence
      <2>5. CASE \/ Resolve \/ Rewrite
                 \/ \E p \in 1 .. Len(plans) : Execute(p)
                 \/ \E o \in Names : Rollout(o)
            BY <2>1, <2>5 DEF Resolve, Rewrite, Execute, Rollout, Process
      <2> QED BY <2>2, <2>3, <2>4, <2>5 DEF Next, Terminated
<1> QED BY <1>1, InitSequence, TypeCorrect, PTL DEF Spec
-----------------------------------------------------------------------------
(* The installation of each run is the sequence it promises                *)

Done(c) == {i \in Selected : pc[c][i] \in {"succeeded", "ok"}}
Broken(c) == \E i \in Selected : pc[c][i] \in {"failing", "failed", "error"}

LEMMA Mapped ==
    /\ installed = [c \in Cli |-> Cardinality(Done(c))]
    /\ outcome = [c \in Cli |->
                     IF main[c] = "ok" THEN "ok"
                     ELSE IF main[c] = "failed" \/ Broken(c) THEN "failed"
                     ELSE "running"]
BY DEF installed, outcome, Done, Broken

LEMMA MappedAfter ==
    /\ installed' = [c \in Cli |-> Cardinality(Done(c)')]
    /\ outcome' = [c \in Cli |->
                      IF main'[c] = "ok" THEN "ok"
                      ELSE IF main'[c] = "failed" \/ Broken(c)' THEN "failed"
                      ELSE "running"]
BY DEF installed, outcome, Done, Broken

(* Steps that the sequence does not see.                                   *)
LEMMA Unseen ==
    ASSUME UNCHANGED <<main, wrote>>,
           \A c \in Cli : Done(c)' = Done(c) /\ (Broken(c)' <=> Broken(c))
    PROVE  UNCHANGED <<touched, installed, outcome>>
BY Mapped, MappedAfter DEF touched

(* A failure ends the sequence, once.                                      *)
LEMMA Failing ==
    ASSUME NEW c \in Cli, UNCHANGED wrote,
           main[c] = "launching",
           main'[c] = "failed" \/ (main'[c] = "launching" /\ Broken(c)'),
           \A d \in Cli : Done(d)' = Done(d),
           \A d \in Cli \ {c} : main'[d] = main[d] /\ (Broken(d)' <=> Broken(d))
    PROVE  Promise!Fail(c) \/ UNCHANGED <<touched, installed, outcome>>
<1>1. UNCHANGED <<touched, installed>>
      BY Mapped, MappedAfter DEF touched
<1>2. /\ outcome[c] \in {"running", "failed"} /\ outcome'[c] = "failed"
      /\ \A d \in Cli \ {c} : outcome'[d] = outcome[d]
      BY Mapped, MappedAfter
<1>3. outcome' = [outcome EXCEPT ![c] = "failed"]
      BY <1>2, Mapped, MappedAfter
<1>4. CASE outcome[c] = "failed"
      BY <1>1, <1>3, <1>4, Mapped
<1>5. CASE outcome[c] = "running"
      BY <1>1, <1>3, <1>5 DEF Promise!Fail
<1> QED BY <1>2, <1>4, <1>5

(* While nothing has failed, everything before the goroutine that holds    *)
(* the slot is installed.                                                  *)
LEMMA Prefix ==
    ASSUME TypeOK, SequenceInv, NEW c \in Cli, NEW i \in Selected,
           pc[c][i] \in Holding, ~cancelled[c]
    PROVE  /\ \A j \in Selected : j < i => pc[c][j] = "ok" /\ j \in wrote[c]
           /\ \A j \in Selected : j > i => pc[c][j] = "none" /\ j \notin wrote[c]
<1>1. i = launched[c]
      BY LastLaunched
<1> QED BY <1>1 DEF SequenceInv, InSequence

LEMMA CardinalityPrefix ==
    ASSUME NEW i \in Selected
    PROVE  Cardinality(1 .. i) = i /\ Cardinality(1 .. (i - 1)) = i - 1
<1>1. i \in Nat \ {0}
      BY DEF Selected
<1> QED BY <1>1, FS_Interval

LEMMA GotoMapped ==
    ASSUME TypeOK, NEW c \in Cli, NEW i \in Selected, NEW step \in PCs,
           Goto(c, i, step)
    PROVE  /\ \A d \in Cli \ {c} : Done(d)' = Done(d) /\ (Broken(d)' <=> Broken(d))
           /\ (step \in {"succeeded", "ok"} <=> pc[c][i] \in {"succeeded", "ok"}) =>
                  Done(c)' = Done(c)
           /\ (step \in {"failing", "failed", "error"} <=>
                  pc[c][i] \in {"failing", "failed", "error"}) =>
                  (Broken(c)' <=> Broken(c))
           /\ step \in {"failing", "failed", "error"} => Broken(c)'
<1>1. /\ pc'[c][i] = step
      /\ \A d \in Cli, j \in Selected : <<d, j>> # <<c, i>> => pc'[d][j] = pc[d][j]
      BY GotoStep DEF TypeOK, PCs
<1>2. ASSUME NEW d \in Cli \ {c}
      PROVE  Done(d)' = Done(d) /\ (Broken(d)' <=> Broken(d))
      <2>1. \A j \in Selected : pc'[d][j] = pc[d][j]
            BY <1>1
      <2> QED BY <2>1 DEF Done, Broken
<1>3. ASSUME step \in {"succeeded", "ok"} <=> pc[c][i] \in {"succeeded", "ok"}
      PROVE  Done(c)' = Done(c)
      <2>1. \A j \in Selected : pc'[c][j] \in {"succeeded", "ok"} <=>
                                pc[c][j] \in {"succeeded", "ok"}
            BY <1>1, <1>3
      <2> QED BY <2>1 DEF Done
<1>4. ASSUME step \in {"failing", "failed", "error"} <=>
                 pc[c][i] \in {"failing", "failed", "error"}
      PROVE  Broken(c)' <=> Broken(c)
      <2>1. \A j \in Selected : pc'[c][j] \in {"failing", "failed", "error"} <=>
                                pc[c][j] \in {"failing", "failed", "error"}
            BY <1>1, <1>4
      <2> QED BY <2>1 DEF Broken
<1>5. step \in {"failing", "failed", "error"} => Broken(c)'
      BY <1>1 DEF Broken
<1> QED BY <1>2, <1>3, <1>4, <1>5

(* The goroutine that writes a Subscription is the next in order.          *)
LEMMA TouchStep ==
    ASSUME TypeOK, SequenceInv, NEW c \in Cli, NEW i \in Selected,
           CreateSubscription(c, i) \/ UpdateSubscription(c, i)
    PROVE  Promise!Touch(c)
<1>1. /\ main[c] = "launching" /\ ~cancelled[c]
      /\ pc[c][i] \in {"create", "update"} /\ Goto(c, i, "poll")
      /\ wrote' = [wrote EXCEPT ![c] = @ \cup {i}] /\ UNCHANGED main
      BY DEF CreateSubscription, UpdateSubscription, Calls, Running, group
<1>2. /\ \A j \in Selected : j < i => pc[c][j] = "ok" /\ j \in wrote[c]
      /\ \A j \in Selected : j > i => pc[c][j] = "none" /\ j \notin wrote[c]
      BY <1>1, Prefix DEF Holding, Calling
<1>3. i \notin wrote[c] /\ wrote[c] \subseteq Selected
      BY <1>1 DEF SequenceInv, InSequence, TypeOK
<1>4. i \in 1 .. Len(Operators) /\ Len(Operators) \in Nat
      BY OperatorsDistinct DEF Selected
<1>5. wrote[c] = 1 .. (i - 1)
      <2>1. \A j \in Selected : j \in wrote[c] <=> j < i
            BY <1>2, <1>3, <1>4 DEF Selected
      <2>2. \A j \in 1 .. (i - 1) : j \in Selected /\ j < i
            BY <1>4 DEF Selected
      <2>3. \A j \in wrote[c] : j \in 1 .. (i - 1)
            BY <1>3, <1>4, <2>1 DEF Selected
      <2> QED BY <2>1, <2>2, <2>3
<1>6. Done(c) = 1 .. (i - 1)
      BY <1>1, <1>2, <1>4 DEF Done, Selected
<1>7. ~Broken(c)
      BY <1>1, <1>2, <1>4 DEF Broken, Selected
<1>8. wrote'[c] = 1 .. i
      BY <1>1, <1>4, <1>5 DEF TypeOK
<1>9. touched[c] = i - 1 /\ installed[c] = i - 1 /\ outcome[c] = "running"
      BY <1>1, <1>5, <1>6, <1>7, CardinalityPrefix, Mapped DEF touched
<1>10. touched' = [touched EXCEPT ![c] = @ + 1]
      <2>1. touched'[c] = i
            BY <1>8, CardinalityPrefix DEF touched
      <2>2. \A d \in Cli \ {c} : touched'[d] = touched[d]
            BY <1>1 DEF touched, TypeOK
      <2>3. touched'[c] = touched[c] + 1
            BY <1>4, <1>9, <2>1
      <2> HIDE DEF touched
      <2>4. DOMAIN touched = Cli /\ touched' = [d \in Cli |-> touched'[d]]
            BY DEF touched
      <2> QED BY <2>2, <2>3, <2>4
<1>11. UNCHANGED <<installed, outcome>>
      <2>1. \A d \in Cli : Done(d)' = Done(d) /\ (Broken(d)' <=> Broken(d))
            BY <1>1, GotoMapped DEF PCs, Holding, Calling, Polling
      <2> QED BY <1>1, <2>1, Mapped, MappedAfter
<1> QED BY <1>4, <1>9, <1>10, <1>11 DEF Promise!Touch

(* The goroutine whose operator is rolled out is the last that wrote.      *)
LEMMA InstallStep ==
    ASSUME TypeOK, SequenceInv, NEW c \in Cli, NEW i \in Selected,
           main[c] = "launching", pc[c][i] = "rollout", ~cancelled[c],
           Goto(c, i, "succeeded"), UNCHANGED <<main, wrote>>
    PROVE  Promise!Install(c)
<1>2. /\ \A j \in Selected : j < i => pc[c][j] = "ok" /\ j \in wrote[c]
      /\ \A j \in Selected : j > i => pc[c][j] = "none" /\ j \notin wrote[c]
      BY Prefix DEF Holding
<1>3. i \in wrote[c] /\ wrote[c] \subseteq Selected
      BY DEF SequenceInv, InSequence, TypeOK
<1>4. i \in 1 .. Len(Operators) /\ Len(Operators) \in Nat
      BY OperatorsDistinct DEF Selected
<1>5. wrote[c] = 1 .. i
      <2>1. \A j \in Selected : j \in wrote[c] <=> j <= i
            BY <1>2, <1>3, <1>4 DEF Selected
      <2>2. \A j \in 1 .. i : j \in Selected /\ j <= i
            BY <1>4 DEF Selected
      <2>3. \A j \in wrote[c] : j \in 1 .. i
            BY <1>3, <1>4, <2>1 DEF Selected
      <2> QED BY <2>1, <2>2, <2>3
<1>6. Done(c) = 1 .. (i - 1)
      BY <1>2, <1>4 DEF Done, Selected
<1>7. ~Broken(c)
      BY <1>2, <1>4 DEF Broken, Selected
<1>8. /\ pc'[c][i] = "succeeded"
      /\ \A j \in Selected : j # i => pc'[c][j] = pc[c][j]
      BY GotoStep DEF TypeOK, PCs, Holding
<1>9. Done(c)' = 1 .. i
      BY <1>2, <1>4, <1>8 DEF Done, Selected
<1>10. touched[c] = i /\ installed[c] = i - 1 /\ outcome[c] = "running"
      BY <1>5, <1>6, <1>7, CardinalityPrefix, Mapped DEF touched
<1>11. /\ \A d \in Cli \ {c} : Done(d)' = Done(d)
       /\ \A d \in Cli : Broken(d)' <=> Broken(d)
      BY GotoMapped DEF PCs, Holding
<1>12. installed' = [installed EXCEPT ![c] = @ + 1]
      <2>1. installed'[c] = i
            BY <1>9, CardinalityPrefix, MappedAfter
      <2>2. \A d \in Cli \ {c} : installed'[d] = installed[d]
            BY <1>11, Mapped, MappedAfter
      <2> QED BY <1>4, <1>10, <2>1, <2>2, Mapped, MappedAfter
<1>13. UNCHANGED <<touched, outcome>>
      BY <1>11, Mapped, MappedAfter DEF touched
<1> QED BY <1>4, <1>10, <1>12, <1>13 DEF Promise!Install

LEMMA WaitStep ==
    ASSUME TypeOK, SequenceInv, NEW c \in Cli, Wait(c)
    PROVE  \/ Promise!Succeed(c) \/ Promise!Fail(c)
           \/ UNCHANGED <<touched, installed, outcome>>
<1>1. /\ main[c] = "launching" /\ InFlight(c) = {} /\ UNCHANGED <<pc, wrote>>
      /\ main' = [main EXCEPT ![c] =
             IF \A i \in Selected : pc[c][i] = "ok" THEN "ok" ELSE "failed"]
      BY DEF Wait, Running
<1>2. \A d \in Cli : Done(d)' = Done(d) /\ (Broken(d)' <=> Broken(d))
      BY <1>1 DEF Done, Broken
<1>3. CASE \A i \in Selected : pc[c][i] = "ok"
      <2>1. main' = [main EXCEPT ![c] = "ok"]
            BY <1>1, <1>3
      <2>2. Done(c) = Selected /\ ~Broken(c)
            BY <1>3 DEF Done, Broken
      <2>3. outcome[c] = "running" /\ installed[c] = Len(Operators)
            <3>1. Cardinality(Selected) = Len(Operators)
                  <4>1. Len(Operators) \in Nat
                        BY OperatorsDistinct
                  <4>2. Cardinality(1 .. Len(Operators)) =
                            IF 1 > Len(Operators) THEN 0 ELSE Len(Operators) - 1 + 1
                        BY <4>1, FS_Interval
                  <4> QED BY <4>1, <4>2 DEF Selected
            <3> QED BY <1>1, <2>2, <3>1, Mapped
      <2>4. /\ outcome'[c] = "ok"
            /\ \A d \in Cli \ {c} : outcome'[d] = outcome[d]
            BY <1>2, <2>1, Mapped, MappedAfter DEF TypeOK
      <2>5. outcome' = [outcome EXCEPT ![c] = "ok"]
            BY <2>4, Mapped, MappedAfter
      <2>6. UNCHANGED <<touched, installed>>
            BY <1>1, <1>2, Mapped, MappedAfter DEF touched
      <2> QED BY <2>3, <2>5, <2>6 DEF Promise!Succeed
<1>4. CASE ~\A i \in Selected : pc[c][i] = "ok"
      <2>1. main'[c] = "failed" /\ \A d \in Cli \ {c} : main'[d] = main[d]
            BY <1>1, <1>4 DEF TypeOK
      <2>2. /\ \A d \in Cli : Done(d)' = Done(d)
            /\ \A d \in Cli \ {c} : main'[d] = main[d] /\ (Broken(d)' <=> Broken(d))
            BY <1>2, <2>1
      <2>3. UNCHANGED wrote
            BY <1>1
      <2> QED BY <1>1, <2>1, <2>2, <2>3, Failing
<1> QED BY <1>3, <1>4

LEMMA KillStep ==
    ASSUME TypeOK, NEW c \in Cli, Kill(c)
    PROVE  Promise!Fail(c) \/ UNCHANGED <<touched, installed, outcome>>
<1>1. /\ main[c] = "launching" /\ UNCHANGED <<pc, wrote>>
      /\ main'[c] = "failed" /\ \A d \in Cli \ {c} : main'[d] = main[d]
      BY DEF Kill, Running, TypeOK
<1>2. \A d \in Cli : Done(d)' = Done(d) /\ (Broken(d)' <=> Broken(d))
      BY <1>1 DEF Done, Broken
<1>3. /\ \A d \in Cli : Done(d)' = Done(d)
      /\ \A d \in Cli \ {c} : main'[d] = main[d] /\ (Broken(d)' <=> Broken(d))
      BY <1>1, <1>2
<1>4. UNCHANGED wrote
      BY <1>1
<1> QED BY <1>1, <1>3, <1>4, Failing

LEMMA GoroutineStep ==
    ASSUME TypeOK, SequenceInv, NEW c \in Cli, NEW i \in Selected,
           Advance(c, i) \/ Error(c, i) \/ Expire(c, i)
    PROVE  \/ Promise!Touch(c) \/ Promise!Install(c) \/ Promise!Fail(c)
           \/ UNCHANGED <<touched, installed, outcome>>
<1>1. CASE CreateSubscription(c, i) \/ UpdateSubscription(c, i)
      BY <1>1, TouchStep
<1>2. CASE ~(CreateSubscription(c, i) \/ UpdateSubscription(c, i))
      <2>1. UNCHANGED <<main, wrote>> /\ main[c] = "launching"
            BY <1>2 DEF Advance, Start, GetSubscription, Poll, GetInstallPlan,
               ApproveInstallPlan, RolloutWait, Abandon, Cancel, Release, Error,
               Expire, Calls, Running, group
      <2>2. \/ UNCHANGED pc
            \/ /\ pc[c][i] \in Calling \cup {"start", "rollout"}
               /\ Goto(c, i, "failing")
            \/ /\ pc[c][i] \in Calling \cup {"start"}
               /\ \E step \in Calling \cup {"rollout"} : Goto(c, i, step)
            \/ /\ pc[c][i] = "rollout" /\ ~cancelled[c]
               /\ Goto(c, i, "succeeded")
            \/ pc[c][i] = "failing" /\ Goto(c, i, "failed")
            \/ pc[c][i] = "failed" /\ Goto(c, i, "error")
            \/ pc[c][i] = "succeeded" /\ Goto(c, i, "ok")
            BY <1>2 DEF Advance, Start, GetSubscription, Poll, GetInstallPlan,
               ApproveInstallPlan, RolloutWait, Abandon, Cancel, Release, Error,
               Expire, Calls, Calling, Polling
      <2> USE DEF PCs, Holding, Calling, Polling
      <2>3. CASE UNCHANGED pc
            BY <2>1, <2>3, Unseen DEF Done, Broken
      <2>4. CASE /\ pc[c][i] \in Calling \cup {"start", "rollout"}
                 /\ Goto(c, i, "failing")
            <3>1. /\ \A d \in Cli : Done(d)' = Done(d)
                  /\ \A d \in Cli \ {c} : Broken(d)' <=> Broken(d)
                  /\ Broken(c)'
                  BY <2>4, GotoMapped
            <3> QED BY <2>1, <3>1, Failing
      <2>5. ASSUME pc[c][i] \in Calling \cup {"start"},
                   NEW step \in Calling \cup {"rollout"}, Goto(c, i, step)
            PROVE  UNCHANGED <<touched, installed, outcome>>
            <3>1. \A d \in Cli : Done(d)' = Done(d) /\ (Broken(d)' <=> Broken(d))
                  BY <2>5, GotoMapped
            <3> QED BY <2>1, <3>1, Unseen
      <2>6. CASE /\ pc[c][i] = "rollout" /\ ~cancelled[c]
                 /\ Goto(c, i, "succeeded")
            BY <2>1, <2>6, InstallStep
      <2>7. CASE \/ pc[c][i] = "failing" /\ Goto(c, i, "failed")
                 \/ pc[c][i] = "failed" /\ Goto(c, i, "error")
                 \/ pc[c][i] = "succeeded" /\ Goto(c, i, "ok")
            <3>1. \A d \in Cli : Done(d)' = Done(d) /\ (Broken(d)' <=> Broken(d))
                  BY <2>7, GotoMapped
            <3> QED BY <2>1, <3>1, Unseen
      <2> QED BY <2>2, <2>3, <2>4, <2>5, <2>6, <2>7
<1> QED BY <1>1, <1>2

(* With one thread, as in the code, the goroutines of each run install the *)
(* operators in their order and write nothing after the first failure,     *)
(* whatever the other runs, OLM and the clock do meanwhile.                *)
THEOREM InstallsInSequence ==
    ASSUME Threads = 1 PROVE Spec => ImplementsSequence
<1>1. Init => Promise!Init
      <2> SUFFICES ASSUME Init PROVE Promise!Init
          OBVIOUS
      <2>1. \A c \in Cli : wrote[c] = {} /\ main[c] = "launching" /\ Done(c) = {} /\ ~Broken(c)
            BY DEF Init, Everywhere, Done, Broken
      <2>2. Cardinality({}) = 0
            BY FS_EmptySet
      <2> QED BY <2>1, <2>2, Mapped DEF Promise!Init, touched
<1>2. TypeOK /\ SequenceInv /\ [Next]_vars
          => [Promise!Next]_<<touched, installed, outcome>>
      <2> SUFFICES ASSUME TypeOK, SequenceInv, [Next]_vars
                   PROVE  Promise!Next \/ UNCHANGED <<touched, installed, outcome>>
          OBVIOUS
      <2>1. ASSUME UNCHANGED <<main, pc, wrote>>
            PROVE  UNCHANGED <<touched, installed, outcome>>
            BY <2>1, Unseen DEF Done, Broken
      <2>2. CASE UNCHANGED vars
            BY <2>1, <2>2 DEF vars
      <2>3. ASSUME NEW c \in Cli, Launch(c)
            PROVE  UNCHANGED <<touched, installed, outcome>>
            <3> DEFINE i == launched[c] + 1
            <3>1. i \in Selected
                  BY <2>3, OperatorsDistinct DEF Launch, Remaining, Selected, TypeOK
            <3>2. pc[c][i] = "none" /\ Goto(c, i, "start") /\ UNCHANGED <<main, wrote>>
                  BY <2>3, <3>1 DEF Launch, SequenceInv, InSequence, TypeOK
            <3> HIDE DEF i
            <3>3. \A d \in Cli : Done(d)' = Done(d) /\ (Broken(d)' <=> Broken(d))
                  BY <3>1, <3>2, GotoMapped DEF PCs, Holding
            <3> QED BY <3>2, <3>3, Unseen
      <2>4. ASSUME NEW c \in Cli,
                   \/ Launch(c) \/ Wait(c) \/ Kill(c)
                   \/ \E i \in Selected : Advance(c, i) \/ Error(c, i) \/ Expire(c, i)
            PROVE  \/ Promise!Touch(c) \/ Promise!Install(c) \/ Promise!Succeed(c)
                   \/ Promise!Fail(c) \/ UNCHANGED <<touched, installed, outcome>>
            BY <2>3, <2>4, WaitStep, KillStep, GoroutineStep
      <2>5. CASE \/ Resolve \/ Rewrite
                 \/ \E p \in 1 .. Len(plans) : Execute(p)
                 \/ \E o \in Names : Rollout(o)
            BY <2>1, <2>5 DEF Resolve, Rewrite, Execute, Rollout, Process
      <2> QED BY <2>2, <2>4, <2>5 DEF Next, Terminated, Promise!Next
<1>3. Spec => [](TypeOK /\ SequenceInv)
      BY TypeCorrect, Sequential, PTL
<1> QED BY <1>1, <1>2, <1>3, PTL
        DEF Spec, ImplementsSequence, Promise!Spec, Promise!sequence
=============================================================================
