------------------------ MODULE EverestRolloutProofs ------------------------
(***************************************************************************)
(* Proofs about EverestRollout, for any number of commands, replicas, pods *)
(* and changes of the Deployment.                                          *)
(***************************************************************************)
EXTENDS EverestRollout, FiniteSetTheorems, TLAPS

-----------------------------------------------------------------------------
(* Sets of pods                                                            *)

LEMMA PodSets ==
    ASSUME NEW S \in SUBSET Uids
    PROVE  IsFiniteSet(S) /\ Cardinality(S) \in 0 .. MaxPods
<1>1. MaxPods \in Nat
      BY RolloutBounds
<1>2. IsFiniteSet(Uids) /\ Cardinality(Uids) = MaxPods
      BY <1>1, FS_Interval DEF Uids
<1> QED BY <1>1, <1>2, FS_Subset, FS_CardinalityType

LEMMA PodSubsets ==
    ASSUME NEW S \in SUBSET Uids, NEW T \in SUBSET S
    PROVE  /\ Cardinality(T) <= Cardinality(S)
           /\ Cardinality(T) = Cardinality(S) => T = S
BY PodSets, FS_Subset

LEMMA PodSetMembers ==
    /\ Live \subseteq Uids /\ Current \subseteq Live /\ Present \subseteq Uids
    /\ \A us : Ready(us) \subseteq us
BY DEF Live, Current, Present, Ready

-----------------------------------------------------------------------------
(* Types                                                                   *)

LEMMA InitType == Init => TypeOK
<1> SUFFICES ASSUME Init PROVE TypeOK
    OBVIOUS
<1>1. /\ MaxGeneration \in Nat \ {0} /\ MaxPods \in Nat /\ MaxCrashes \in Nat
      /\ Replicas \in Nat /\ Replicas <= MaxPods
      BY RolloutBounds, ReplicasPositive
<1>2. status \in Statuses
      BY <1>1 DEF Init, Statuses
<1>3. pod \in [Uids -> Pods]
      BY <1>1 DEF Init, Pods
<1>4. /\ generation \in 1 .. MaxGeneration /\ complete \subseteq 1 .. generation
      /\ crashes \in 0 .. MaxCrashes
      BY <1>1 DEF Init
<1>5. /\ pc \in [Cli -> Running \cup Ended \cup {"idle"}]
      /\ restarted \in [Cli -> SUBSET Uids] /\ born \in [Cli -> SUBSET Uids]
      /\ todo \in [Cli -> SUBSET Uids]
      /\ \A c \in Cli : todo[c] \subseteq restarted[c]
      BY DEF Init
<1> QED BY <1>2, <1>3, <1>4, <1>5 DEF TypeOK

LEMMA EndType ==
    ASSUME TypeOK, NEW c \in Cli, NEW how \in Ended, End(c, how),
           UNCHANGED <<generation, status>>, pod' \in [Uids -> Pods]
    PROVE  TypeOK'
BY DEF End, Goto, TypeOK

(* What a pod may become.                                                  *)
LEMMA PodType ==
    ASSUME TypeOK, NEW u \in Uids
    PROVE  /\ [pod EXCEPT ![u].life = "terminating"] \in [Uids -> Pods]
           /\ \A ready \in BOOLEAN : [pod EXCEPT ![u].ready = ready] \in [Uids -> Pods]
           /\ \A r \in Pods : [pod EXCEPT ![u] = r] \in [Uids -> Pods]
<1>1. pod \in [Uids -> Pods] /\ pod[u] \in Pods
      BY DEF TypeOK
<1>2. /\ [pod[u] EXCEPT !.life = "terminating"] \in Pods
      /\ \A ready \in BOOLEAN : [pod[u] EXCEPT !.ready = ready] \in Pods
      BY <1>1 DEF Pods
<1> QED BY <1>1, <1>2

LEMMA ControllerType ==
    ASSUME TypeOK, Change \/ Controller
    PROVE  TypeOK'
<1>1. /\ MaxGeneration \in Nat /\ MaxPods \in Nat /\ MaxCrashes \in Nat
      /\ generation \in 1 .. MaxGeneration /\ generation \in 0 .. MaxGeneration
      BY RolloutBounds DEF TypeOK
<1>2. CASE Change
      BY <1>1, <1>2 DEF Change, Process, TypeOK
<1>3. CASE WriteStatus
      <2>1. /\ Cardinality(Current) \in 0 .. MaxPods
            /\ Cardinality(Live) \in 0 .. MaxPods
            /\ Cardinality(Ready(Live)) \in 0 .. MaxPods
            BY PodSets, PodSetMembers
      <2>2. (IF AllRolledOut THEN "complete"
             ELSE IF status.observed < generation THEN "progressing"
             ELSE status.condition) \in {"progressing", "timedOut", "complete"}
            BY DEF TypeOK, Statuses
      <2>3. status' \in Statuses
            BY <1>1, <1>3, <2>1, <2>2 DEF WriteStatus, Statuses
      <2>4. complete' \subseteq 1 .. generation'
            BY <1>1, <1>3 DEF WriteStatus, TypeOK
      <2> QED BY <1>3, <2>3, <2>4 DEF WriteStatus, Process, TypeOK
<1>4. CASE ProgressDeadline
      <2>1. status' \in Statuses
            BY <1>4 DEF ProgressDeadline, TypeOK, Statuses
      <2> QED BY <1>4, <2>1 DEF ProgressDeadline, Process, TypeOK
<1>5. ASSUME pod' \in [Uids -> Pods], crashes' \in 0 .. MaxCrashes,
             UNCHANGED <<generation, status, Process, complete>>
      PROVE  TypeOK'
      BY <1>5 DEF Process, TypeOK
<1>6. CASE CreatePod
      <2>1. PICK u \in Uids : pod' = [pod EXCEPT ![u] =
                [template |-> generation, ready |-> FALSE, life |-> "live"]]
            BY <1>6 DEF CreatePod
      <2>2. [template |-> generation, ready |-> FALSE, life |-> "live"] \in Pods
            BY <1>1 DEF Pods
      <2> QED BY <1>5, <1>6, <2>1, <2>2, PodType DEF CreatePod, TypeOK
<1>7. ASSUME NEW u \in Uids, RemoveOld(u) \/ PodReady(u) \/ PodCrash(u) \/ PodGone(u)
      PROVE  TypeOK'
      <2>1. pod' \in [Uids -> Pods]
            <3>1. [template |-> 0, ready |-> FALSE, life |-> "gone"] \in Pods
                  BY <1>1 DEF Pods
            <3>2. CASE RemoveOld(u) \/ PodCrash(u) \/ PodGone(u)
                  BY <3>1, <3>2, PodType DEF RemoveOld, PodCrash, PodGone
            <3>3. CASE PodReady(u)
                  BY <3>3, PodType DEF PodReady
            <3> QED BY <1>7, <3>2, <3>3
      <2>2. crashes' \in 0 .. MaxCrashes
            BY <1>1, <1>7 DEF RemoveOld, PodReady, PodCrash, PodGone, TypeOK
      <2> QED BY <1>5, <1>7, <2>1, <2>2 DEF RemoveOld, PodReady, PodCrash, PodGone
<1> QED BY <1>2, <1>3, <1>4, <1>6, <1>7 DEF Controller

LEMMA CommandType ==
    ASSUME TypeOK, NEW c \in Cli, Start(c) \/ Advance(c) \/ Expire(c) \/ Fail(c)
    PROVE  TypeOK'
<1> USE DEF Running, Ended
<1>1. CASE Start(c)
      BY <1>1, PodSetMembers DEF Start, Goto, cluster, TypeOK
<1>2. CASE InstallEverest(c)
      <2>1. generation' \in 1 .. MaxGeneration /\ complete' \subseteq 1 .. generation'
            BY <1>2, RolloutBounds DEF InstallEverest, TypeOK, history
      <2> QED BY <1>2, <2>1 DEF InstallEverest, Goto, history, TypeOK
<1>3. CASE PollRollout(c)
      BY <1>3, EndType DEF PollRollout, cluster, TypeOK
<1>4. CASE ListPods(c)
      <2>1. CASE End(c, "failed")
            BY <1>4, <2>1, EndType DEF ListPods, cluster, TypeOK
      <2>2. CASE restarted' = [restarted EXCEPT ![c] = Present]
            BY <1>4, <2>1, <2>2, PodSetMembers
               DEF ListPods, Goto, history, cluster, TypeOK
      <2> QED BY <1>4, <2>1, <2>2 DEF ListPods
<1>5. CASE DeletePod(c)
      <2>1. PICK u \in todo[c] :
               \/ /\ u \in Present
                  /\ pod' = [pod EXCEPT ![u].life = "terminating"]
                  /\ todo' = [todo EXCEPT ![c] = @ \ {u}]
                  /\ Goto(c, IF todo[c] = {u} THEN "poll" ELSE "delete")
                  /\ UNCHANGED <<restarted, history>>
               \/ u \notin Present /\ End(c, "failed") /\ UNCHANGED pod
            BY <1>5 DEF DeletePod
      <2>2. UNCHANGED <<generation, status>> /\ u \in Uids
            BY <1>5 DEF DeletePod, TypeOK
      <2>3. CASE End(c, "failed") /\ UNCHANGED pod
            BY <2>2, <2>3, EndType DEF TypeOK
      <2>4. CASE /\ pod' = [pod EXCEPT ![u].life = "terminating"]
                 /\ todo' = [todo EXCEPT ![c] = @ \ {u}]
                 /\ Goto(c, IF todo[c] = {u} THEN "poll" ELSE "delete")
                 /\ UNCHANGED <<restarted, history>>
            BY <2>2, <2>4, PodType DEF Goto, history, TypeOK
      <2> QED BY <2>1, <2>3, <2>4
<1>6. CASE PollPods(c) \/ Expire(c) \/ Fail(c)
      BY <1>6, EndType DEF PollPods, Expire, Fail, cluster, TypeOK
<1> QED BY <1>1, <1>2, <1>3, <1>4, <1>5, <1>6 DEF Advance

(* The variables stay in their types.                                      *)
THEOREM TypeCorrect == Spec => []TypeOK
<1>1. TypeOK /\ [Next]_vars => TypeOK'
      <2> SUFFICES ASSUME TypeOK, [Next]_vars PROVE TypeOK'
          OBVIOUS
      <2>1. CASE UNCHANGED vars
            BY <2>1 DEF vars, TypeOK
      <2> QED BY <2>1, ControllerType, CommandType DEF Next, Terminated
<1> QED BY <1>1, InitType, PTL DEF Spec
-----------------------------------------------------------------------------
(* The end of the rollout wait                                             *)

(* Pods that go, or become ready or not, and a status that stays.          *)
LEMMA NewestPods ==
    ASSUME TypeOK, TypeOK', NewestInv, UNCHANGED <<generation, status, complete>>,
           Current' \subseteq Current,
           \A u \in Uids : pod'[u].template <= generation
    PROVE  NewestInv'
<1>1. Cardinality(Current') <= Cardinality(Current)
      BY PodSubsets, PodSetMembers
<1>2. Cardinality(Current) \in Nat /\ Cardinality(Current') \in Nat
      BY PodSets, PodSetMembers
<1>3. Cardinality(Current') <= Replicas
      BY <1>1, <1>2, ReplicasPositive DEF NewestInv
<1> QED BY <1>3 DEF NewestInv, Observed, CountsSuffice

LEMMA OnePod ==
    ASSUME TypeOK, NewestInv, NEW u \in Uids, UNCHANGED generation,
           \A v \in Uids \ {u} : pod'[v] = pod[v],
           \/ pod'[u].life # "live" /\ pod'[u].template <= generation
           \/ pod'[u].life = pod[u].life /\ pod'[u].template = pod[u].template
    PROVE  Current' \subseteq Current /\ \A v \in Uids : pod'[v].template <= generation
BY DEF Current, Live, NewestInv

(* A new specification has no pod and no status yet.                       *)
LEMMA NewestChange ==
    ASSUME TypeOK, NewestInv, generation' = generation + 1, UNCHANGED <<status, pod>>
    PROVE  NewestInv'
<1>1. generation \in Nat /\ status.observed \in Nat
      BY RolloutBounds DEF TypeOK, Statuses
<1>2. \A u \in Uids : pod[u].template \in Nat /\ pod[u].template <= generation
      BY DEF NewestInv, TypeOK, Pods
<1>3. Current' = {}
      BY <1>1, <1>2 DEF Current, Live
<1>4. Cardinality(Current') <= Replicas
      BY <1>3, FS_EmptySet, ReplicasPositive
<1>5. ~Observed'
      BY <1>1 DEF Observed, NewestInv
<1> QED BY <1>1, <1>2, <1>4, <1>5 DEF NewestInv

(* Where enough pods are counted, they are all the pods there are.         *)
LEMMA NewestStatus ==
    ASSUME TypeOK, NewestInv, WriteStatus
    PROVE  NewestInv'
<1>1. /\ status'.observed = generation
      /\ status'.updated = Cardinality(Current)
      /\ status'.total = Cardinality(Live)
      /\ status'.available = Cardinality(Ready(Live))
      BY DEF WriteStatus
<1>2. /\ UNCHANGED <<generation, pod>>
      /\ complete' = IF AllRolledOut THEN complete \cup {generation} ELSE complete
      BY DEF WriteStatus
<1>3. /\ Cardinality(Current) \in Nat /\ Cardinality(Live) \in Nat
      /\ Cardinality(Ready(Live)) \in Nat /\ Replicas \in Nat /\ generation \in Nat
      BY PodSets, PodSetMembers, ReplicasPositive, RolloutBounds DEF TypeOK
<1>4. ASSUME CountsSuffice'
      PROVE  AllRolledOut
      <2>1. /\ Cardinality(Current) >= Replicas
            /\ Cardinality(Live) <= Cardinality(Current)
            /\ Cardinality(Ready(Live)) >= Cardinality(Current)
            BY <1>1, <1>2, <1>4 DEF CountsSuffice
      <2>2. Cardinality(Current) = Replicas
            BY <1>3, <2>1 DEF NewestInv
      <2>3. Live = Current
            <3>1. /\ Cardinality(Current) <= Cardinality(Live)
                  /\ Cardinality(Current) = Cardinality(Live) => Current = Live
                  BY PodSubsets, PodSetMembers
            <3> QED BY <1>3, <2>1, <3>1
      <2>4. Ready(Live) = Live
            <3>1. /\ Cardinality(Ready(Live)) <= Cardinality(Live)
                  /\ Cardinality(Ready(Live)) = Cardinality(Live) => Ready(Live) = Live
                  BY PodSubsets, PodSetMembers
            <3> QED BY <1>3, <2>1, <2>3, <3>1
      <2> QED BY <2>2, <2>3, <2>4 DEF AllRolledOut
<1>5. CountsSuffice' => generation' \in complete'
      BY <1>2, <1>4
<1>6. Current' = Current
      BY <1>2 DEF Current, Live
<1> QED BY <1>1, <1>2, <1>3, <1>5, <1>6 DEF NewestInv

LEMMA NewestCreate ==
    ASSUME TypeOK, NewestInv, CreatePod
    PROVE  NewestInv'
<1>1. PICK u \in Uids :
         /\ pod[u].life = "none"
         /\ pod' = [pod EXCEPT ![u] = [template |-> generation, ready |-> FALSE,
                                       life |-> "live"]]
      BY DEF CreatePod
<1>2. UNCHANGED <<generation, status, complete>> /\ Cardinality(Current) < Replicas
      BY DEF CreatePod
<1>3. /\ pod'[u] = [template |-> generation, ready |-> FALSE, life |-> "live"]
      /\ \A v \in Uids \ {u} : pod'[v] = pod[v]
      BY <1>1 DEF TypeOK
<1>4. u \notin Current /\ Current' = Current \cup {u}
      BY <1>1, <1>2, <1>3 DEF Current, Live
<1>5. IsFiniteSet(Current) /\ Cardinality(Current) \in Nat
      BY PodSets, PodSetMembers
<1>6. Cardinality(Current') = Cardinality(Current) + 1
      BY <1>4, <1>5, FS_AddElement
<1>7. Cardinality(Current') <= Replicas
      BY <1>2, <1>5, <1>6, ReplicasPositive
<1>8. \A v \in Uids : pod'[v].template <= generation
      BY <1>3, RolloutBounds DEF NewestInv, TypeOK
<1> QED BY <1>2, <1>7, <1>8 DEF NewestInv, Observed, CountsSuffice

LEMMA NewestStep ==
    ASSUME TypeOK, TypeOK', NewestInv, Next
    PROVE  NewestInv'
<1>1. CASE UNCHANGED <<generation, status, pod, complete>>
      BY <1>1 DEF NewestInv, Current, Live, Observed, CountsSuffice
<1>2. CASE Change
      BY <1>2, NewestChange DEF Change
<1>3. CASE WriteStatus \/ CreatePod
      BY <1>3, NewestStatus, NewestCreate
<1>4. CASE ProgressDeadline
      <2>1. /\ status'.observed = status.observed /\ status'.updated = status.updated
            /\ status'.total = status.total /\ status'.available = status.available
            BY <1>4 DEF ProgressDeadline, TypeOK, Statuses
      <2> QED BY <1>4, <2>1
              DEF ProgressDeadline, NewestInv, Current, Live, Observed, CountsSuffice
<1>5. ASSUME NEW u \in Uids, RemoveOld(u) \/ PodReady(u) \/ PodCrash(u) \/ PodGone(u)
      PROVE  NewestInv'
      <2>1. UNCHANGED <<generation, status, complete>>
            BY <1>5 DEF RemoveOld, PodReady, PodCrash, PodGone
      <2>2. /\ \A v \in Uids \ {u} : pod'[v] = pod[v]
            /\ \/ pod'[u].life # "live" /\ pod'[u].template <= generation
               \/ pod'[u].life = pod[u].life /\ pod'[u].template = pod[u].template
            <3>1. pod \in [Uids -> Pods] /\ generation \in Nat
                  /\ pod[u].template <= generation
                  BY RolloutBounds DEF TypeOK, NewestInv
            <3>2. CASE RemoveOld(u)
                  BY <3>1, <3>2 DEF RemoveOld, Pods
            <3>3. CASE PodReady(u) \/ PodCrash(u)
                  BY <3>1, <3>3 DEF PodReady, PodCrash, Pods
            <3>4. CASE PodGone(u)
                  BY <3>1, <3>4 DEF PodGone, Pods
            <3> QED BY <1>5, <3>2, <3>3, <3>4
      <2> QED BY <2>1, <2>2, OnePod, NewestPods
<1>6. ASSUME NEW c \in Cli, InstallEverest(c)
      PROVE  NewestInv'
      BY <1>1, <1>6, NewestChange DEF InstallEverest, history
<1>7. ASSUME NEW c \in Cli, DeletePod(c)
      PROVE  NewestInv'
      <2>1. UNCHANGED <<generation, status, complete>>
            BY <1>7 DEF DeletePod, End, history
      <2>2. CASE UNCHANGED pod
            BY <1>1, <2>1, <2>2
      <2>3. ASSUME NEW u \in Uids, pod' = [pod EXCEPT ![u].life = "terminating"]
            PROVE  NewestInv'
            <3>1. /\ \A v \in Uids \ {u} : pod'[v] = pod[v]
                  /\ pod'[u].life # "live" /\ pod'[u].template <= generation
                  BY <2>3 DEF TypeOK, Pods, NewestInv
            <3> QED BY <2>1, <3>1, OnePod, NewestPods
      <2> QED BY <1>7, <2>2, <2>3 DEF DeletePod, TypeOK
<1>8. ASSUME NEW c \in Cli,
             \/ Start(c) \/ PollRollout(c) \/ ListPods(c) \/ PollPods(c)
             \/ Expire(c) \/ Fail(c)
      PROVE  NewestInv'
      <2>1. UNCHANGED <<generation, status, pod, complete>>
            BY <1>8 DEF Start, PollRollout, ListPods, PollPods, Expire, Fail, End,
               cluster, history
      <2> QED BY <1>1, <2>1
<1> QED BY <1>1, <1>2, <1>3, <1>4, <1>5, <1>6, <1>7, <1>8
        DEF Next, Advance, Controller, Terminated, vars

-----------------------------------------------------------------------------
(* The pods a restart replaces                                             *)

LEMMA OtherSteps ==
    ASSUME TypeOK, NEW c \in Cli, NEW step, Goto(c, step)
    PROVE  pc'[c] = step /\ \A d \in Cli \ {c} : pc'[d] = pc[d]
BY DEF Goto, TypeOK

(* Pods of the past do not come back.                                      *)
LEMMA PodsStep ==
    ASSUME TypeOK, Next
    PROVE  \A u \in Uids : pod[u].life # "none" =>
               pod'[u].life # "none" /\ (u \in Present' => u \in Present)
<1>1. CASE UNCHANGED pod
      BY <1>1 DEF Present
<1>2. CASE CreatePod
      <2>1. PICK u \in Uids :
               /\ pod[u].life = "none"
               /\ pod' = [pod EXCEPT ![u] = [template |-> generation,
                                             ready |-> FALSE, life |-> "live"]]
            BY <1>2 DEF CreatePod
      <2> QED BY <2>1 DEF Present, TypeOK
<1>3. ASSUME NEW u \in Uids, RemoveOld(u) \/ PodReady(u) \/ PodCrash(u) \/ PodGone(u)
      PROVE  \A v \in Uids : pod[v].life # "none" =>
                 pod'[v].life # "none" /\ (v \in Present' => v \in Present)
      <2>1. u \in Uids /\ pod \in [Uids -> Pods]
            BY <1>3 DEF TypeOK
      <2>2. CASE RemoveOld(u) \/ PodGone(u)
            BY <2>1, <2>2 DEF RemoveOld, PodGone, Present, Live, Pods
      <2>3. CASE PodReady(u) \/ PodCrash(u)
            BY <2>1, <2>3 DEF PodReady, PodCrash, Present, Pods
      <2> QED BY <1>3, <2>2, <2>3
<1>4. ASSUME NEW c \in Cli, DeletePod(c)
      PROVE  \A v \in Uids : pod[v].life # "none" =>
                 pod'[v].life # "none" /\ (v \in Present' => v \in Present)
      <2>1. \/ UNCHANGED pod
            \/ \E u \in Present : pod' = [pod EXCEPT ![u].life = "terminating"]
            BY <1>4 DEF DeletePod
      <2> QED BY <1>1, <2>1 DEF Present, TypeOK, Pods
<1> QED BY <1>1, <1>2, <1>3, <1>4
        DEF Next, Advance, Controller, Terminated, vars, Change, WriteStatus,
            ProgressDeadline, Start, InstallEverest, PollRollout, ListPods,
            PollPods, Expire, Fail, cluster

(* What the commands of others and the controller do to a command.         *)
LEMMA ReplacedOthers ==
    ASSUME TypeOK, TypeOK', ReplacedInv, Next, NEW c \in Cli,
           pc'[c] = pc[c], restarted'[c] = restarted[c], born'[c] = born[c]
    PROVE  Recorded(c)'
<1>1. born[c] \subseteq Uids
      BY DEF TypeOK
<1> QED BY <1>1, PodsStep DEF ReplacedInv, Recorded

LEMMA RecordedEnd ==
    ASSUME TypeOK, TypeOK', NEW c \in Cli, NEW how \in Ended, End(c, how)
    PROVE  /\ Recorded(c)'
           /\ \A d \in Cli \ {c} : /\ pc'[d] = pc[d] /\ born'[d] = born[d]
                                  /\ restarted'[d] = restarted[d]
<1>1. pc'[c] = how /\ born'[c] = {}
      BY DEF End, Goto, TypeOK
<1>2. Recorded(c)'
      BY <1>1 DEF Recorded, Ended
<1>3. \A d \in Cli \ {c} : /\ pc'[d] = pc[d] /\ born'[d] = born[d]
                            /\ restarted'[d] = restarted[d]
      BY DEF End, Goto, TypeOK
<1> QED BY <1>2, <1>3

LEMMA RecordedStep ==
    ASSUME TypeOK, TypeOK', ReplacedInv, Next, NEW c \in Cli,
           Start(c) \/ Advance(c) \/ Expire(c) \/ Fail(c)
    PROVE  /\ Recorded(c)'
           /\ \A d \in Cli \ {c} : /\ pc'[d] = pc[d] /\ born'[d] = born[d]
                                  /\ restarted'[d] = restarted[d]
<1>0. Recorded(c) /\ born[c] \subseteq Uids
      BY DEF ReplacedInv, TypeOK
<1>1. CASE End(c, "failed") \/ End(c, "done")
      BY <1>1, RecordedEnd DEF Ended
<1>2. CASE Start(c)
      <2>1. /\ pc'[c] = IF Tasks[c] = "apply" THEN "apply" ELSE "list"
            /\ born'[c] = Present /\ UNCHANGED <<pod, restarted>>
            /\ \A d \in Cli \ {c} : pc'[d] = pc[d] /\ born'[d] = born[d]
            BY <1>2 DEF Start, Goto, TypeOK, cluster
      <2>2. Tasks[c] \in {"apply", "restart"}
            BY TasksKnown
      <2>3. \A u \in Present : pod[u].life # "none"
            BY DEF Present
      <2> QED BY <2>1, <2>2, <2>3 DEF Recorded
<1>3. CASE InstallEverest(c)
      <2>1. /\ pc[c] = "apply" /\ pc'[c] = "rollout"
            /\ \A d \in Cli \ {c} : pc'[d] = pc[d]
            /\ UNCHANGED <<pod, restarted, born>>
            BY <1>3 DEF InstallEverest, Goto, history, TypeOK
      <2> QED BY <1>0, <2>1 DEF Recorded
<1>4. CASE ListPods(c)
      <2>1. CASE /\ restarted' = [restarted EXCEPT ![c] = Present]
                 /\ Goto(c, "delete") /\ UNCHANGED history
            <3>1. /\ pc[c] = "list" /\ pc'[c] = "delete" /\ restarted'[c] = Present
                  /\ \A d \in Cli \ {c} : /\ pc'[d] = pc[d]
                                          /\ restarted'[d] = restarted[d]
                  /\ UNCHANGED <<pod, born>>
                  BY <1>4, <2>1 DEF ListPods, Goto, history, cluster, TypeOK
            <3>2. Present' = Present
                  BY <3>1 DEF Present
            <3> QED BY <1>0, <3>1, <3>2 DEF Recorded
      <2> QED BY <1>1, <1>4, <2>1 DEF ListPods
<1>5. CASE DeletePod(c)
      <2>1. CASE /\ \E u \in Uids : Goto(c, IF todo[c] = {u} THEN "poll" ELSE "delete")
                 /\ UNCHANGED <<restarted, history>>
            <3>1. /\ pc[c] = "delete" /\ pc'[c] \in {"delete", "poll"}
                  /\ \A d \in Cli \ {c} : pc'[d] = pc[d]
                  /\ UNCHANGED <<restarted, born>>
                  BY <1>5, <2>1 DEF DeletePod, Goto, history, TypeOK
            <3> QED BY <1>0, <3>1, PodsStep DEF Recorded
      <2>2. todo[c] \subseteq Uids
            BY DEF TypeOK
      <2> QED BY <1>1, <1>5, <2>1, <2>2 DEF DeletePod
<1> QED BY <1>1, <1>2, <1>3, <1>4, <1>5
        DEF Advance, PollRollout, PollPods, Expire, Fail

LEMMA ReplacedStep ==
    ASSUME TypeOK, TypeOK', ReplacedInv, Next
    PROVE  ReplacedInv'
<1>1. ASSUME NEW c \in Cli, Start(c) \/ Advance(c) \/ Expire(c) \/ Fail(c)
      PROVE  ReplacedInv'
      BY <1>1, RecordedStep, ReplacedOthers DEF ReplacedInv
<1>2. CASE Change \/ Controller \/ Terminated
      <2>1. UNCHANGED <<pc, restarted, born>>
            BY <1>2 DEF Change, Controller, Terminated, WriteStatus, ProgressDeadline,
               CreatePod, RemoveOld, PodReady, PodCrash, PodGone, Process, vars
      <2> QED BY <2>1, ReplacedOthers DEF ReplacedInv
<1> QED BY <1>1, <1>2 DEF Next

-----------------------------------------------------------------------------
(* What holds when a command ends well                                     *)

LEMMA CommandsInv == Spec => [](TypeOK /\ NewestInv /\ ReplacedInv)
<1>1. Init /\ TypeOK => NewestInv
      <2> SUFFICES ASSUME Init, TypeOK PROVE NewestInv
          OBVIOUS
      <2>1. Replicas \in Nat /\ Replicas <= MaxPods /\ MaxPods \in Nat
            BY ReplicasPositive, RolloutBounds
      <2>2. Current = 1 .. Replicas
            BY <2>1 DEF Init, Current, Live, Uids
      <2>3. Cardinality(Current) = Replicas
            BY <2>1, <2>2, FS_Interval
      <2>4. \A u \in Uids : pod[u].template <= generation
            BY DEF Init
      <2> QED BY <2>1, <2>3, <2>4 DEF Init, NewestInv
<1>2. Init => ReplacedInv
      BY DEF Init, ReplacedInv, Recorded
<1>3. TypeOK /\ TypeOK' /\ NewestInv /\ ReplacedInv /\ [Next]_vars
         => NewestInv' /\ ReplacedInv'
      <2>1. NewestInv /\ ReplacedInv /\ UNCHANGED vars => NewestInv' /\ ReplacedInv'
            BY DEF vars, NewestInv, ReplacedInv, Recorded, Current, Live, Present,
               Observed, CountsSuffice
      <2> QED BY <2>1, NewestStep, ReplacedStep
<1> QED BY <1>1, <1>2, <1>3, TypeCorrect, PTL DEF Spec

(* A command succeeds in one of the two waits.                             *)
LEMMA WhoCompletes ==
    ASSUME TypeOK, [Next]_vars, NEW c \in Cli, Completes(c)
    PROVE  \/ PollRollout(c) /\ RolledOut
           \/ PollPods(c) /\ Present # {} /\ Replaced(c)
<1>1. pc[c] \in Running /\ pc'[c] = "done" /\ pc'[c] # pc[c]
      BY DEF Completes, Running
<1>2. ASSUME NEW d \in Cli, Start(d) \/ Advance(d) \/ Expire(d) \/ Fail(d)
      PROVE  \/ PollRollout(c) /\ RolledOut
             \/ PollPods(c) /\ Present # {} /\ Replaced(c)
      <2>1. PICK step : Goto(d, step)
            BY <1>2 DEF Start, Advance, Expire, Fail, InstallEverest, PollRollout,
               ListPods, DeletePod, PollPods, End
      <2>2. d = c /\ step = "done"
            BY <1>1, <2>1, OtherSteps
      <2>3. CASE PollRollout(d)
            <3>1. TimedOut => pc'[c] = "failed"
                  BY <2>2, <2>3, OtherSteps DEF PollRollout, End
            <3> QED BY <1>1, <2>2, <2>3, <3>1 DEF PollRollout
      <2>4. CASE PollPods(d)
            <3>1. Present = {} /\ End(d, "failed") => pc'[c] = "failed"
                  BY <2>2, OtherSteps DEF End
            <3> QED BY <1>1, <2>2, <2>4, <3>1 DEF PollPods
      <2>5. CASE ~PollRollout(d) /\ ~PollPods(d)
            <3>1. \E how \in {"apply", "list", "rollout", "delete", "poll", "failed"} :
                     Goto(d, how)
                  BY <1>2, <2>5 DEF Start, Advance, Expire, Fail, InstallEverest,
                     ListPods, DeletePod, End
            <3> QED BY <1>1, <2>2, <3>1, OtherSteps
      <2> QED BY <2>3, <2>4, <2>5
<1> QED BY <1>1, <1>2
        DEF Next, Change, Controller, Terminated, WriteStatus, ProgressDeadline,
            CreatePod, RemoveOld, PodReady, PodCrash, PodGone, Process, vars

(* An install or upgrade does not report success before the newest         *)
(* specification of the Deployment was rolled out, whoever changes it.     *)
THEOREM NewestRolledOut == Spec => RolledOutIsNewest
<1>1. TypeOK /\ NewestInv /\ ReplacedInv /\ [Next]_vars =>
         \A c \in Cli : Tasks[c] = "apply" /\ Completes(c) => generation \in complete
      <2> SUFFICES ASSUME TypeOK, NewestInv, ReplacedInv, [Next]_vars,
                          NEW c \in Cli, Tasks[c] = "apply", Completes(c)
                   PROVE  generation \in complete
          OBVIOUS
      <2>1. ~PollPods(c)
            BY DEF PollPods, ReplacedInv, Recorded
      <2>2. RolledOut
            BY <2>1, WhoCompletes
      <2> QED BY <2>2 DEF RolledOut, NewestInv, CountsSuffice
<1> QED BY <1>1, CommandsInv, PTL DEF RolledOutIsNewest, Spec

(* A restart does not report success while a pod is left that was there    *)
(* when it began, or none at all.                                          *)
THEOREM AllReplaced == Spec => RestartReplacesAll
<1>1. TypeOK /\ NewestInv /\ ReplacedInv /\ [Next]_vars =>
         \A c \in Cli : Tasks[c] = "restart" /\ Completes(c) =>
             born[c] \cap Present = {} /\ Present # {}
      <2> SUFFICES ASSUME TypeOK, ReplacedInv, [Next]_vars,
                          NEW c \in Cli, Tasks[c] = "restart", Completes(c)
                   PROVE  born[c] \cap Present = {} /\ Present # {}
          OBVIOUS
      <2>1. ~PollRollout(c)
            BY DEF PollRollout, ReplacedInv, Recorded
      <2>2. PollPods(c) /\ Present # {} /\ Replaced(c)
            BY <2>1, WhoCompletes
      <2>3. born[c] \cap Present \subseteq restarted[c]
            BY <2>2 DEF PollPods, ReplacedInv, Recorded
      <2> QED BY <2>2, <2>3 DEF Replaced
<1> QED BY <1>1, CommandsInv, PTL DEF RestartReplacesAll, Spec
=============================================================================
