--------------------------- MODULE EverestRollout ---------------------------
(***************************************************************************)
(* How the CLI follows a workload of Everest after changing it. An install *)
(* or upgrade that applies the manifest waits on the status of the         *)
(* Deployment (InstallEverest, DoRolloutWait); an install that finds       *)
(* Everest there deletes the pods and waits until others are ready in      *)
(* their place (RestartEverest). Neither the status nor the list of pods   *)
(* is the truth of the moment it is used, and several commands and OLM may *)
(* change the workload at once.                                            *)
(*                                                                         *)
(* The Deployment controller is external: it creates a pod of the newest   *)
(* template when one is missing, removes pods of older ones once the new   *)
(* ones are ready, and writes what it sees into the status. A rollout that *)
(* does not complete exceeds its progress deadline; one that completed     *)
(* is never held to a deadline again.                                      *)
(***************************************************************************)
EXTENDS Naturals, FiniteSets

CONSTANTS
    Cli,            \* invocations of everestctl
    Tasks,          \* what each does: "apply" the manifest or "restart"
    Replicas,       \* of the Deployment
    MaxGeneration,  \* bound on the changes of the Deployment
    MaxPods,        \* bound on the pods created
    MaxCrashes      \* bound on the pods that stop being ready

ASSUME TasksKnown == Tasks \in [Cli -> {"apply", "restart"}]
ASSUME ReplicasPositive == Replicas \in Nat \ {0} /\ Replicas <= MaxPods
ASSUME RolloutBounds ==
    MaxGeneration \in Nat \ {0} /\ {MaxPods, MaxCrashes} \subseteq Nat

Uids == 1 .. MaxPods

VARIABLES
    generation,  \* of the Deployment's specification, and so its template
    status,      \* of the Deployment, as its controller last wrote it
    pod,         \* of each uid: its template, its readiness, its life
    pc,
    restarted,   \* podsToRestart
    todo,        \* the pods a restart has yet to delete
    born,        \* history: the pods there were when a command began
    complete,    \* history: the generations that were seen rolled out
    crashes

cluster == <<generation, status, pod>>
history == <<born, complete, crashes>>
vars == <<generation, status, pod, pc, restarted, todo, born, complete, crashes>>

Statuses == [observed : 0 .. MaxGeneration, updated : 0 .. MaxPods,
             total : 0 .. MaxPods, available : 0 .. MaxPods,
             condition : {"progressing", "timedOut", "complete"}]
Pods == [template : 0 .. MaxGeneration, ready : BOOLEAN,
         life : {"none", "live", "terminating", "gone"}]

Running == {"apply", "rollout", "list", "delete", "poll"}
Ended == {"done", "failed"}

TypeOK ==
    /\ generation \in 1 .. MaxGeneration
    /\ status \in Statuses
    /\ pod \in [Uids -> Pods]
    /\ pc \in [Cli -> Running \cup Ended \cup {"idle"}]
    /\ restarted \in [Cli -> SUBSET Uids]
    /\ todo \in [Cli -> SUBSET Uids]
    /\ \A c \in Cli : todo[c] \subseteq restarted[c]
    /\ born \in [Cli -> SUBSET Uids]
    /\ complete \subseteq 1 .. generation
    /\ crashes \in 0 .. MaxCrashes

(* A Deployment that was rolled out.                                       *)
Init ==
    /\ generation = 1
    /\ status = [observed |-> 1, updated |-> Replicas, total |-> Replicas,
                 available |-> Replicas, condition |-> "complete"]
    /\ pod = [u \in Uids |-> IF u <= Replicas
                THEN [template |-> 1, ready |-> TRUE, life |-> "live"]
                ELSE [template |-> 0, ready |-> FALSE, life |-> "none"]]
    /\ pc = [c \in Cli |-> "idle"]
    /\ restarted = [c \in Cli |-> {}]
    /\ todo = [c \in Cli |-> {}]
    /\ born = [c \in Cli |-> {}]
    /\ complete = {1}
    /\ crashes = 0

-----------------------------------------------------------------------------
(* The Deployment controller and OLM                                       *)

Live == {u \in Uids : pod[u].life = "live"}
Current == {u \in Live : pod[u].template = generation}
Ready(us) == {u \in us : pod[u].ready}
(* Pods that are being terminated are still listed.                        *)
Present == {u \in Uids : pod[u].life \in {"live", "terminating"}}

Process == <<pc, restarted, todo, born>>

Change ==
    /\ generation < MaxGeneration
    /\ generation' = generation + 1
    /\ UNCHANGED <<status, pod, Process, complete, crashes>>

AllRolledOut ==
    /\ Cardinality(Current) = Replicas
    /\ Live = Current /\ Ready(Current) = Current

WriteStatus ==
    /\ status' = [observed |-> generation,
                  updated |-> Cardinality(Current),
                  total |-> Cardinality(Live),
                  available |-> Cardinality(Ready(Live)),
                  condition |->
                    IF AllRolledOut THEN "complete"
                    ELSE IF status.observed < generation THEN "progressing"
                    ELSE status.condition]
    /\ status' # status
    /\ complete' = IF AllRolledOut THEN complete \cup {generation} ELSE complete
    /\ UNCHANGED <<generation, pod, Process, crashes>>

ProgressDeadline ==
    /\ status.observed = generation /\ status.condition = "progressing"
    /\ status' = [status EXCEPT !.condition = "timedOut"]
    /\ UNCHANGED <<generation, pod, Process, complete, crashes>>

CreatePod ==
    /\ Cardinality(Current) < Replicas
    /\ \E u \in Uids :
         /\ pod[u].life = "none" /\ \A v \in 1 .. u - 1 : pod[v].life # "none"
         /\ pod' = [pod EXCEPT ![u] = [template |-> generation, ready |-> FALSE,
                                       life |-> "live"]]
    /\ UNCHANGED <<generation, status, Process, complete, crashes>>

RemoveOld(u) ==
    /\ u \in Live \ Current
    /\ Cardinality(Ready(Current)) = Replicas
    /\ pod' = [pod EXCEPT ![u].life = "terminating"]
    /\ UNCHANGED <<generation, status, Process, complete, crashes>>

PodReady(u) ==
    /\ u \in Live /\ ~pod[u].ready
    /\ pod' = [pod EXCEPT ![u].ready = TRUE]
    /\ UNCHANGED <<generation, status, Process, complete, crashes>>

PodCrash(u) ==
    /\ crashes < MaxCrashes
    /\ u \in Ready(Present)
    /\ pod' = [pod EXCEPT ![u].ready = FALSE]
    /\ crashes' = crashes + 1
    /\ UNCHANGED <<generation, status, Process, complete>>

PodGone(u) ==
    /\ pod[u].life = "terminating"
    /\ pod' = [pod EXCEPT ![u] = [template |-> 0, ready |-> FALSE,
                                  life |-> "gone"]]
    /\ UNCHANGED <<generation, status, Process, complete, crashes>>

-----------------------------------------------------------------------------
(* The commands                                                            *)

Goto(c, step) == pc' = [pc EXCEPT ![c] = step]

(* The command is over, and with it its locals.                            *)
End(c, how) ==
    /\ Goto(c, how)
    /\ restarted' = [restarted EXCEPT ![c] = {}]
    /\ todo' = [todo EXCEPT ![c] = {}]
    /\ born' = [born EXCEPT ![c] = {}]
    /\ UNCHANGED <<complete, crashes>>

Start(c) ==
    /\ pc[c] = "idle"
    /\ Goto(c, IF Tasks[c] = "apply" THEN "apply" ELSE "list")
    /\ born' = [born EXCEPT ![c] = Present]
    /\ UNCHANGED <<cluster, restarted, todo, complete, crashes>>

(* A manifest that says what the cluster has changes nothing.              *)
InstallEverest(c) ==
    /\ pc[c] = "apply"
    /\ \/ generation < MaxGeneration /\ generation' = generation + 1
       \/ UNCHANGED generation
    /\ Goto(c, "rollout")
    /\ UNCHANGED <<status, pod, restarted, todo, history>>

(* The counts are believed whatever specification they were written for.   *)
Anyhow == TRUE
Observed == generation <= status.observed

(* The condition of the Deployment is not looked at.                       *)
NoDeadline == FALSE
TimedOut == Observed /\ status.condition = "timedOut"

RolledOut ==
    /\ Observed /\ ~TimedOut
    /\ status.updated >= Replicas
    /\ status.total <= status.updated
    /\ status.available >= status.updated

PollRollout(c) ==
    /\ pc[c] = "rollout"
    /\ TimedOut \/ RolledOut
    /\ End(c, IF TimedOut THEN "failed" ELSE "done")
    /\ UNCHANGED cluster

(* The pods to compare with later are not kept.                            *)
UnrecordedList(c) ==
    /\ pc[c] = "list" /\ Present # {}
    /\ todo' = [todo EXCEPT ![c] = Present]
    /\ Goto(c, "delete")
    /\ UNCHANGED <<cluster, restarted, history>>

(* The poll around the list ends at its first error: no pods, no retry.    *)
ListPods(c) ==
    /\ pc[c] = "list"
    /\ \/ /\ Present # {}
          /\ restarted' = [restarted EXCEPT ![c] = Present]
          /\ todo' = [todo EXCEPT ![c] = Present]
          /\ Goto(c, "delete")
          /\ UNCHANGED history
       \/ Present = {} /\ End(c, "failed")
    /\ UNCHANGED cluster

(* A pod that is gone already is an error.                                 *)
DeletePod(c) ==
    /\ pc[c] = "delete"
    /\ \E u \in todo[c] :
         \/ /\ u \in Present
            /\ pod' = [pod EXCEPT ![u].life = "terminating"]
            /\ todo' = [todo EXCEPT ![c] = @ \ {u}]
            /\ Goto(c, IF todo[c] = {u} THEN "poll" ELSE "delete")
            /\ UNCHANGED <<restarted, history>>
         \/ u \notin Present /\ End(c, "failed") /\ UNCHANGED pod
    /\ UNCHANGED <<generation, status>>

SomeReplaced(c) == Cardinality(Present) > Cardinality(restarted[c] \cap Present)
Replaced(c) == restarted[c] \cap Present = {}

PollPods(c) ==
    /\ pc[c] = "poll"
    /\ \/ Present = {} /\ End(c, "failed")
       \/ /\ Present # {} /\ Replaced(c) /\ Ready(Present) = Present
          /\ End(c, "done")
    /\ UNCHANGED cluster

(* The five minutes of the poll are over.                                  *)
Expire(c) ==
    /\ pc[c] = "poll"
    /\ End(c, "failed")
    /\ UNCHANGED cluster

(* An API call fails, or the process is killed.                            *)
Fail(c) ==
    /\ pc[c] \in Running
    /\ End(c, "failed")
    /\ UNCHANGED cluster

Advance(c) ==
    \/ InstallEverest(c) \/ PollRollout(c) \/ ListPods(c) \/ DeletePod(c)
    \/ PollPods(c)

Controller ==
    \/ WriteStatus \/ ProgressDeadline \/ CreatePod
    \/ \E u \in Uids : RemoveOld(u) \/ PodReady(u) \/ PodCrash(u) \/ PodGone(u)

Terminated == (\A c \in Cli : pc[c] \in Ended) /\ UNCHANGED vars

Next ==
    \/ \E c \in Cli : Start(c) \/ Advance(c) \/ Expire(c) \/ Fail(c)
    \/ Change \/ Controller \/ Terminated

Spec == Init /\ [][Next]_vars

(* Commands go on when they can, the clock reaches the deadlines, and the  *)
(* controller writes the status. Nobody promises that a pod becomes ready. *)
FairSpec ==
    /\ Spec
    /\ \A c \in Cli : WF_vars(Advance(c)) /\ WF_vars(Expire(c))
    /\ WF_vars(WriteStatus) /\ WF_vars(ProgressDeadline)

-----------------------------------------------------------------------------
(* Properties                                                              *)

Completes(c) == pc[c] \in Running /\ pc'[c] = "done"

(* "waits until a deployment has been rolled out susccessfully": when the  *)
(* wait ends well, the newest specification has been seen rolled out, even *)
(* if others changed the Deployment meanwhile. It rests on the comparison  *)
(* of the generations before the counts of the status are believed.        *)
RolledOutIsNewest ==
    [][\A c \in Cli : Tasks[c] = "apply" /\ Completes(c) =>
         generation \in complete]_vars

(* A restart that succeeds leaves no pod that was there when it began,     *)
(* terminating ones included, whatever the controller or another restart   *)
(* created and removed in between.                                         *)
RestartReplacesAll ==
    [][\A c \in Cli : Tasks[c] = "restart" /\ Completes(c) =>
         born[c] \cap Present = {} /\ Present # {}]_vars

(* Every command ends: the restart by its own deadlines, the rollout wait, *)
(* which has none, by the Deployment's progress deadline. The one way to   *)
(* wait for ever is a rollout that completed and then lost pods.           *)
Ends ==
    \A c \in Cli : pc[c] \in Running ~>
        \/ pc[c] \in Ended
        \/ status.condition = "complete" /\ status.available < Replicas
-----------------------------------------------------------------------------
(* Inductive invariants                                                    *)

(* A status written for the newest specification that counts enough pods   *)
(* was written when it was rolled out, as there are never more current     *)
(* pods than replicas.                                                     *)
CountsSuffice ==
    /\ status.updated >= Replicas
    /\ status.total <= status.updated
    /\ status.available >= status.updated
NewestInv ==
    /\ \A u \in Uids : pod[u].template <= generation
    /\ Cardinality(Current) <= Replicas
    /\ status.observed <= generation
    /\ Observed /\ CountsSuffice => generation \in complete

(* A pod that is gone does not come back: those there were at the start    *)
(* and still are, the restart has listed.                                  *)
Recorded(c) ==
    /\ pc[c] \in {"apply", "rollout"} => Tasks[c] = "apply"
    /\ pc[c] \in {"list", "delete", "poll"} => Tasks[c] = "restart"
    /\ \A u \in born[c] : pod[u].life # "none"
    /\ pc[c] \in {"delete", "poll"} => born[c] \cap Present \subseteq restarted[c]
ReplacedInv == \A c \in Cli : Recorded(c)
=============================================================================
