----------------------------- MODULE OLMInstall -----------------------------
(***************************************************************************)
(* How the CLI puts the Operator Lifecycle Manager and the Percona catalog *)
(* on the cluster and upgrades them: InstallOLMOperator applies the        *)
(* objects of two embedded files one by one, each file again from its      *)
(* start every second for at most 30 s while an object cannot be applied;  *)
(* no transaction covers the objects and the process may die between any   *)
(* two. `install` looks at the olm-operator Deployment to decide whether   *)
(* OLM is there, `upgrade` at the version of the packageserver CSV.        *)
(*                                                                         *)
(* OLM itself is external: once its operator and the CSV are there it runs *)
(* a packageserver, and a package is available when that and the catalog   *)
(* are there.                                                              *)
(***************************************************************************)
EXTENDS Naturals, Sequences

CONSTANTS
    Cli,          \* invocations of everestctl
    Commands,     \* the commands each may run
    Shipped,      \* the OLM version each invocation ships
    Found,        \* the OLM version on the cluster at first; 0: none
    Overlaps      \* bound on the invocations that start while others run

ASSUME CommandsKnown == Commands \in [Cli -> SUBSET {"install", "upgrade"}]
ASSUME VersionsPositive == Shipped \in [Cli -> Nat \ {0}] /\ Found \in Nat
ASSUME OverlapsNat == Overlaps \in Nat

(* The objects in the order of crds.yaml and olm.yaml that the CLI or OLM  *)
(* tell apart.                                                             *)
Files == << <<"crds">>, <<"olm-operator", "catalog-operator",
                          "olm-operators", "packageserver">> >>
Objects == {"crds", "olm-operator", "catalog-operator", "olm-operators",
            "packageserver"}

VARIABLES
    object,     \* the version each object was applied at; 0: absent
    catalog,    \* the version of the Percona catalog; 0: absent
    served,     \* the version of the packageserver that runs; 0: none
    pc, command,
    file, next, \* the file being applied and the object in it
    expired,    \* the 30 s for the file are over
    overlaps    \* history: invocations that started while others ran

olm == <<object, catalog, served>>
place == <<file, next, expired>>
vars == <<object, catalog, served, pc, command, file, next, expired, overlaps>>

Running == {"check", "confirm", "apply", "rollout", "packageserver",
            "catalog", "packages"}
Ended == {"done", "failed"}

TypeOK ==
    /\ object \in [Objects -> Nat]
    /\ catalog \in Nat /\ served \in Nat
    /\ pc \in [Cli -> Running \cup Ended \cup {"idle"}]
    /\ command \in [Cli -> {"install", "upgrade", "none"}]
    /\ file \in [Cli -> 1 .. Len(Files)]
    /\ next \in [Cli -> Nat]
    /\ \A c \in Cli : next[c] \in 1 .. Len(Files[file[c]])
    /\ expired \in [Cli -> BOOLEAN]
    /\ overlaps \in 0 .. Overlaps

Init ==
    /\ object = [o \in Objects |-> Found]
    /\ catalog = Found
    /\ served = Found
    /\ pc = [c \in Cli |-> "idle"]
    /\ command = [c \in Cli |-> "none"]
    /\ file = [c \in Cli |-> 1]
    /\ next = [c \in Cli |-> 1]
    /\ expired = [c \in Cli |-> FALSE]
    /\ overlaps = 0

-----------------------------------------------------------------------------
Goto(c, step) == pc' = [pc EXCEPT ![c] = step]

(* The invocation fails or dies: its locals are gone.                      *)
Stops(c) ==
    /\ Goto(c, "failed")
    /\ file' = [file EXCEPT ![c] = 1]
    /\ next' = [next EXCEPT ![c] = 1]
    /\ expired' = [expired EXCEPT ![c] = FALSE]
    /\ command' = [command EXCEPT ![c] = "none"]
    /\ UNCHANGED <<olm, overlaps>>

Start(c) ==
    /\ pc[c] = "idle"
    /\ \E m \in Commands[c] : command' = [command EXCEPT ![c] = m]
    /\ \/ (\A d \in Cli : pc[d] \notin Running) /\ UNCHANGED overlaps
       \/ /\ \E d \in Cli : pc[d] \in Running
          /\ overlaps < Overlaps
          /\ overlaps' = overlaps + 1
    /\ Goto(c, "check")
    /\ UNCHANGED <<olm, place>>

(* The olm-operator Deployment stands for the whole of OLM; an error of    *)
(* the call that asks for it counts as its absence.                        *)
CheckInstall(c) ==
    /\ pc[c] = "check" /\ command[c] = "install"
    /\ \/ object["olm-operator"] # 0 /\ Goto(c, "catalog")
       \/ Goto(c, "apply")
    /\ UNCHANGED <<olm, command, place, overlaps>>

(* A version read from an object that is applied early.                    *)
OperatorVersion == object["olm-operator"]
FoundVersion == object["packageserver"]

SameRelease(c) == FoundVersion = Shipped[c]
(* The comparison of the installed version with the shipped one.           *)
UpToDate(c) == FoundVersion >= Shipped[c]

(* upgradeOLM: nothing to do for an equal or a greater version; without a  *)
(* CSV it fails, see Fail.                                                 *)
CheckUpgrade(c) ==
    /\ pc[c] = "check" /\ command[c] = "upgrade"
    /\ FoundVersion # 0
    /\ Goto(c, IF UpToDate(c) THEN "catalog" ELSE "confirm")
    /\ UNCHANGED <<olm, command, place, overlaps>>

(* The user, or --upgrade-olm, decides.                                    *)
Confirm(c) ==
    /\ pc[c] = "confirm"
    /\ \E step \in {"apply", "catalog"} : Goto(c, step)
    /\ UNCHANGED <<olm, command, place, overlaps>>

PastLastOfFile(c) == next[c] > Len(Files[file[c]])
LastOfFile(c) == next[c] = Len(Files[file[c]])

ApplyObject(c) ==
    /\ pc[c] = "apply"
    /\ object' = [object EXCEPT ![Files[file[c]][next[c]]] = Shipped[c]]
    /\ \/ /\ ~LastOfFile(c)
          /\ next' = [next EXCEPT ![c] = @ + 1]
          /\ UNCHANGED <<pc, file, expired>>
       \/ /\ LastOfFile(c) /\ file[c] < Len(Files)
          /\ file' = [file EXCEPT ![c] = @ + 1]
          /\ next' = [next EXCEPT ![c] = 1]
          /\ expired' = [expired EXCEPT ![c] = FALSE]
          /\ UNCHANGED pc
       \/ /\ LastOfFile(c) /\ file[c] = Len(Files)
          /\ file' = [file EXCEPT ![c] = 1]
          /\ next' = [next EXCEPT ![c] = 1]
          /\ expired' = [expired EXCEPT ![c] = FALSE]
          /\ Goto(c, "rollout")
    /\ UNCHANGED <<catalog, served, command, overlaps>>

(* A retry that takes the object for applied.                              *)
SkipObject(c) ==
    /\ pc[c] = "apply" /\ ~expired[c] /\ ~LastOfFile(c)
    /\ next' = [next EXCEPT ![c] = @ + 1]
    /\ UNCHANGED <<olm, pc, command, file, expired, overlaps>>

(* A deadline per attempt instead of one for the file.                     *)
ReapplyAnew(c) ==
    /\ pc[c] = "apply"
    /\ next' = [next EXCEPT ![c] = 1]
    /\ expired' = [expired EXCEPT ![c] = FALSE]
    /\ UNCHANGED <<olm, pc, command, file, overlaps>>

(* An object cannot be applied: the file is applied again from its start.  *)
Reapply(c) ==
    /\ pc[c] = "apply" /\ ~expired[c]
    /\ next' = [next EXCEPT ![c] = 1]
    /\ UNCHANGED <<olm, pc, command, file, expired, overlaps>>

Expire(c) ==
    /\ pc[c] = "apply" /\ ~expired[c]
    /\ expired' = [expired EXCEPT ![c] = TRUE]
    /\ UNCHANGED <<olm, pc, command, file, next, overlaps>>

GiveUp(c) ==
    /\ pc[c] = "apply" /\ expired[c]
    /\ Stops(c)

(* waitForDeploymentRollout; applyCSVs finds no Subscription in the files. *)
Rollout(c) ==
    /\ pc[c] = "rollout"
    /\ object["olm-operator"] # 0 /\ object["catalog-operator"] # 0
    /\ Goto(c, "packageserver")
    /\ UNCHANGED <<olm, command, place, overlaps>>

RolloutPackageserver(c) ==
    /\ pc[c] = "packageserver" /\ served # 0
    /\ Goto(c, "catalog")
    /\ UNCHANGED <<olm, command, place, overlaps>>

ApplyCatalog(c) ==
    /\ pc[c] = "catalog"
    /\ catalog' = Shipped[c]
    /\ Goto(c, "packages")
    /\ UNCHANGED <<object, served, command, place, overlaps>>

(* DoPackageWait has no deadline.                                          *)
PackageWait(c) ==
    /\ pc[c] = "packages"
    /\ served # 0 /\ catalog # 0
    /\ Goto(c, "done")
    /\ UNCHANGED <<olm, command, place, overlaps>>

(* An API call fails outside the poll, or a wait sees an error.            *)
Fail(c) ==
    /\ pc[c] \in Running \ {"apply"}
    /\ Stops(c)

Kill(c) ==
    /\ pc[c] \in Running
    /\ Stops(c)

(* OLM runs the packageserver its CSV asks for.                            *)
Serve ==
    /\ object["olm-operator"] # 0 /\ object["crds"] # 0
    /\ served # object["packageserver"]
    /\ served' = object["packageserver"]
    /\ UNCHANGED <<object, catalog, pc, command, place, overlaps>>

Advance(c) ==
    \/ CheckInstall(c) \/ CheckUpgrade(c) \/ Confirm(c) \/ ApplyObject(c)
    \/ GiveUp(c) \/ Rollout(c) \/ RolloutPackageserver(c) \/ ApplyCatalog(c)
    \/ PackageWait(c)

(* Nothing is left to do: every invocation has ended, or waits for ever.   *)
Terminated == (\A c \in Cli : pc[c] \in Ended) /\ UNCHANGED vars

Next ==
    \/ \E c \in Cli :
         Start(c) \/ Advance(c) \/ Reapply(c) \/ Expire(c) \/ Fail(c) \/ Kill(c)
    \/ Serve \/ Terminated

Spec == Init /\ [][Next]_vars

(* A process that can go on does, the clock passes the deadline, OLM       *)
(* serves; failures and kills need not happen.                             *)
Fairness ==
    /\ \A c \in Cli : WF_vars(Advance(c)) /\ WF_vars(Expire(c))
    /\ WF_vars(Serve)

FairSpec == Spec /\ Fairness
-----------------------------------------------------------------------------
(* Properties                                                              *)

(* upgradeOLM trusts the version of the packageserver CSV, one of many     *)
(* objects applied without a transaction: wherever earlier upgrades died   *)
(* or gave up, no object is older than the CSV says, unless two ran at     *)
(* once or an older release was installed over OLM (InstallsNewest). The   *)
(* CSV is applied last and nothing goes past an object that was not        *)
(* applied.                                                                *)
CSVIsCommitPoint ==
    overlaps = 0 => \A o \in Objects : object[o] >= object["packageserver"]

(* An upgrade that finds nothing to do finds all of OLM at its version or  *)
(* a later one, also after an upgrade that died halfway.                   *)
NothingToDoMeansUpgraded ==
    [][\A c \in Cli :
         /\ command[c] = "upgrade" /\ pc[c] = "check" /\ pc'[c] = "catalog"
         /\ overlaps = 0
         => \A o \in Objects : object[o] >= Shipped[c]]_vars

(* "Nothing to do here. Installed OLM is greater that we ship with the     *)
(* CLI.": no sequence of upgrades lowers the version of OLM. The version   *)
(* is read before the prompt, so a second upgrade meanwhile breaks it.     *)
NeverDowngraded ==
    [][overlaps = 0 =>
         object'["packageserver"] >= object["packageserver"]]_vars

(* Every command ends, also one that resumes what a killed one left and    *)
(* one that runs beside another: the retries of a file end at the deadline,*)
(* and the waits without a deadline wait for objects that no command takes *)
(* away.                                                                   *)
Ends == \A c \in Cli : pc[c] \in Running ~> pc[c] \in Ended
-----------------------------------------------------------------------------
(* Inductive invariant                                                     *)

(* Whoever installs has a release that is not older than what any other    *)
(* brings: an install whose question for OLM fails applies its own version *)
(* over the one there is.                                                  *)
InstallsNewest ==
    \A c \in Cli : "install" \in Commands[c] =>
        Shipped[c] >= Found /\ \A d \in Cli : Shipped[c] >= Shipped[d]

Brought == {Found} \cup {Shipped[c] : c \in Cli}

(* What an attempt that is at this object has applied in this and the      *)
(* earlier files is of its release.                                        *)
Applied(c) ==
    \A f \in 1 .. file[c] : \A i \in 1 .. Len(Files[f]) :
        f < file[c] \/ i < next[c] => object[Files[f][i]] = Shipped[c]

(* Of one invocation after the other: those that decided to upgrade are    *)
(* newer than the CSV until they apply it, and what they have applied is   *)
(* theirs.                                                                 *)
OLMInv ==
    /\ \A o \in Objects : object[o] \in Brought
    /\ \A c \in Cli :
         /\ command[c] \in Commands[c] \cup {"none"}
         /\ pc[c] # "apply" => file[c] = 1 /\ next[c] = 1
    /\ overlaps = 0 =>
         /\ \A c, d \in Cli : pc[c] \in Running /\ pc[d] \in Running => c = d
         /\ \A c \in Cli : pc[c] \in {"confirm", "apply"} =>
               object["packageserver"] <= Shipped[c]
         /\ \A c \in Cli : pc[c] = "apply" => Applied(c)
    /\ CSVIsCommitPoint
=============================================================================
