-------------------------- MODULE OLMInstallProofs --------------------------
(***************************************************************************)
(* Proofs about OLMInstall, for any releases and any number of invocations *)
(* of everestctl.                                                          *)
(***************************************************************************)
EXTENDS OLMInstall, TLAPS

(* The two files, and where each object is in them.                        *)
LEMMA FilesAre ==
    /\ Len(Files) = 2 /\ Len(Files[1]) = 1 /\ Len(Files[2]) = 4
    /\ Files[1][1] = "crds" /\ Files[2][1] = "olm-operator"
    /\ Files[2][2] = "catalog-operator" /\ Files[2][3] = "olm-operators"
    /\ Files[2][4] = "packageserver"
BY DEF Files

LEMMA ObjectAt ==
    \A f \in 1 .. Len(Files) : \A i \in 1 .. Len(Files[f]) :
        Files[f][i] \in Objects
BY FilesAre DEF Objects

-----------------------------------------------------------------------------
(* Type correctness                                                        *)

LEMMA InitType == Init => TypeOK
BY VersionsPositive, OverlapsNat, FilesAre DEF Init, TypeOK

LEMMA StopsType == ASSUME TypeOK, NEW c \in Cli, Stops(c) PROVE TypeOK'
BY FilesAre DEF TypeOK, Stops, Goto, Ended, olm

LEMMA ApplyType ==
    ASSUME TypeOK, NEW c \in Cli, ApplyObject(c) PROVE TypeOK'
<1> USE DEF TypeOK
<1>1. Files[file[c]][next[c]] \in Objects /\ Shipped[c] \in Nat
      BY ObjectAt, VersionsPositive
<1>2. object' \in [Objects -> Nat] /\ UNCHANGED <<catalog, served, command, overlaps>>
      BY <1>1 DEF ApplyObject
<1>3. CASE /\ ~LastOfFile(c)
           /\ next' = [next EXCEPT ![c] = @ + 1]
           /\ UNCHANGED <<pc, file, expired>>
      BY <1>2, <1>3, FilesAre DEF LastOfFile
<1>4. ASSUME /\ LastOfFile(c)
             /\ file' = [file EXCEPT ![c] = 1] \/ file' = [file EXCEPT ![c] = 2]
             /\ next' = [next EXCEPT ![c] = 1]
             /\ expired' = [expired EXCEPT ![c] = FALSE]
             /\ UNCHANGED pc \/ Goto(c, "rollout")
      PROVE  TypeOK'
      <2>1. /\ pc' \in [Cli -> Running \cup Ended \cup {"idle"}]
            /\ expired' \in [Cli -> BOOLEAN]
            /\ next' \in [Cli -> Nat]
            BY <1>4 DEF Goto, Running
      <2>2. file' \in [Cli -> 1 .. Len(Files)]
            <3>1. 1 \in 1 .. Len(Files) /\ 2 \in 1 .. Len(Files)
                  BY FilesAre
            <3> QED BY <1>4, <3>1
      <2>3. ASSUME NEW d \in Cli PROVE next'[d] \in 1 .. Len(Files[file'[d]])
            <3>1. CASE d = c
                  <4>1. next'[d] = 1 /\ file'[d] \in {1, 2}
                        BY <1>4, <3>1
                  <4> QED BY <4>1, FilesAre
            <3>2. CASE d # c
                  BY <1>4, <3>2
            <3> QED BY <3>1, <3>2
      <2> QED BY <1>2, <2>1, <2>2, <2>3
<1>5. CASE LastOfFile(c) /\ file[c] < Len(Files)
      BY <1>4, <1>5, FilesAre DEF ApplyObject
<1>6. CASE LastOfFile(c) /\ file[c] = Len(Files)
      BY <1>4, <1>6, FilesAre DEF ApplyObject
<1> QED BY <1>3, <1>5, <1>6 DEF ApplyObject

LEMMA StepType ==
    ASSUME TypeOK, NEW c \in Cli,
           Start(c) \/ Advance(c) \/ Reapply(c) \/ Expire(c) \/ Fail(c) \/ Kill(c)
    PROVE  TypeOK'
<1> USE DEF TypeOK, Goto, olm, place
<1>1. CASE Start(c)
      <2>1. command' \in [Cli -> {"install", "upgrade", "none"}]
            <3>1. PICK m \in {"install", "upgrade"} :
                     command' = [command EXCEPT ![c] = m]
                  BY <1>1, CommandsKnown DEF Start
            <3> QED BY <3>1
      <2>2. overlaps' \in 0 .. Overlaps
            BY <1>1, OverlapsNat DEF Start
      <2> QED BY <1>1, <2>1, <2>2 DEF Start, Running
<1>2. CASE CheckInstall(c)
      BY <1>2 DEF CheckInstall, Running
<1>3. CASE CheckUpgrade(c)
      BY <1>3 DEF CheckUpgrade, Running
<1>4. CASE Confirm(c)
      BY <1>4 DEF Confirm, Running
<1>5. CASE ApplyObject(c)
      BY <1>5, ApplyType
<1>6. CASE GiveUp(c) \/ Fail(c) \/ Kill(c)
      BY <1>6, StopsType DEF GiveUp, Fail, Kill
<1>7. CASE Rollout(c)
      BY <1>7 DEF Rollout, Running
<1>8. CASE RolloutPackageserver(c)
      BY <1>8 DEF RolloutPackageserver, Running
<1>9. CASE ApplyCatalog(c)
      BY <1>9, VersionsPositive DEF ApplyCatalog, Running
<1>10. CASE PackageWait(c)
      BY <1>10 DEF PackageWait, Ended
<1>11. CASE Reapply(c)
      BY <1>11, FilesAre DEF Reapply
<1>12. CASE Expire(c)
      BY <1>12 DEF Expire
<1> QED
    BY <1>1, <1>2, <1>3, <1>4, <1>5, <1>6, <1>7, <1>8, <1>9, <1>10, <1>11,
       <1>12 DEF Advance

(* Type correctness: every invocation is always at an object of the file   *)
(* it is in, wherever its attempts began again.                            *)
THEOREM TypeCorrect == Spec => []TypeOK
<1>1. TypeOK /\ [Next]_vars => TypeOK'
      <2> SUFFICES ASSUME TypeOK, [Next]_vars PROVE TypeOK'
          OBVIOUS
      <2>1. CASE UNCHANGED vars
            BY <2>1 DEF vars, TypeOK
      <2>2. CASE Serve
            BY <2>2 DEF Serve, TypeOK, Objects, place
      <2> QED BY <2>1, <2>2, StepType DEF Next, Terminated
<1> QED BY <1>1, InitType, PTL DEF Spec
-----------------------------------------------------------------------------
(* Installing one invocation after the other                               *)

LEMMA InitInv == Init => OLMInv
<1> SUFFICES ASSUME Init PROVE OLMInv
    OBVIOUS
<1>1. \A c \in Cli : /\ pc[c] = "idle" /\ command[c] = "none"
                     /\ file[c] = 1 /\ next[c] = 1
      BY DEF Init
<1>2. \A o \in Objects : object[o] = Found /\ Found >= Found
      BY VersionsPositive DEF Init
<1>3. "packageserver" \in Objects
      BY DEF Objects
<1> QED
    BY <1>1, <1>2, <1>3 DEF OLMInv, Brought, CSVIsCommitPoint, Running

(* An object that is in the file being applied is packageserver only at    *)
(* the very end, when all the others have been applied.                    *)
LEMMA AppliedAll ==
    ASSUME TypeOK, NEW c \in Cli, Applied(c),
           Files[file[c]][next[c]] = "packageserver"
    PROVE  /\ file[c] = 2 /\ next[c] = 4
           /\ \A o \in Objects \ {"packageserver"} : object[o] = Shipped[c]
<1>1. file[c] = 2 /\ next[c] = 4
      <2>1. file[c] \in {1, 2} /\ next[c] \in 1 .. Len(Files[file[c]])
            BY FilesAre DEF TypeOK
      <2>2. CASE file[c] = 1
            BY <2>1, <2>2, FilesAre
      <2>3. CASE file[c] = 2
            <3>1. next[c] \in {1, 2, 3, 4}
                  BY <2>1, <2>3, FilesAre
            <3> QED BY <2>3, <3>1, FilesAre
      <2> QED BY <2>1, <2>2, <2>3
<1>2. \A f \in 1 .. 2 : \A i \in 1 .. Len(Files[f]) :
          f < 2 \/ i < 4 => object[Files[f][i]] = Shipped[c]
      BY <1>1, FilesAre DEF Applied
<1>3. object["crds"] = Shipped[c]
      BY <1>2, FilesAre
<1>4. /\ object["olm-operator"] = Shipped[c]
      /\ object["catalog-operator"] = Shipped[c]
      /\ object["olm-operators"] = Shipped[c]
      BY <1>2, FilesAre
<1> QED BY <1>1, <1>3, <1>4 DEF Objects

(* The objects that no other invocation writes meanwhile.                  *)
LEMMA ApplyInv ==
    ASSUME TypeOK, OLMInv, NEW c \in Cli, ApplyObject(c)
    PROVE  OLMInv'
<1> USE DEF TypeOK
<1> DEFINE o == Files[file[c]][next[c]]
<1>1. /\ o \in Objects /\ Shipped[c] \in Nat /\ Shipped[c] \in Brought
      /\ object' = [object EXCEPT ![o] = Shipped[c]]
      BY ObjectAt, VersionsPositive DEF ApplyObject, Brought
<1>2. /\ \A q \in Objects : object'[q] \in Brought
      /\ \A d \in Cli :
           /\ command'[d] \in Commands[d] \cup {"none"}
           /\ pc'[d] # "apply" => file'[d] = 1 /\ next'[d] = 1
      BY <1>1 DEF OLMInv, ApplyObject, Goto
<1>3. ASSUME overlaps' = 0
      PROVE  /\ \A d, e \in Cli : pc'[d] \in Running /\ pc'[e] \in Running => d = e
             /\ \A d \in Cli : pc'[d] \in {"confirm", "apply"} =>
                   object'["packageserver"] <= Shipped[d]
             /\ \A d \in Cli : pc'[d] = "apply" => Applied(d)'
             /\ \A q \in Objects : object'[q] >= object'["packageserver"]
      <2>1. overlaps = 0 /\ pc[c] = "apply" /\ "apply" \in Running
            BY <1>3 DEF ApplyObject, Running
      <2>2. /\ \A d \in Cli : pc[d] \in Running => d = c
            /\ object["packageserver"] <= Shipped[c]
            /\ Applied(c)
            /\ \A q \in Objects : object[q] >= object["packageserver"]
            BY <2>1 DEF OLMInv, CSVIsCommitPoint
      <2>3. \A d \in Cli : pc'[d] \in Running => d = c
            BY <2>1, <2>2 DEF ApplyObject, Goto
      <2>4. \A q \in Objects : object'[q] >= object'["packageserver"]
            <3>1. CASE o = "packageserver"
                  <4>1. \A q \in Objects \ {"packageserver"} : object'[q] = Shipped[c]
                        BY <1>1, <2>2, <3>1, AppliedAll
                  <4>2. object'["packageserver"] = Shipped[c]
                        BY <1>1, <3>1
                  <4> QED BY <1>1, <4>1, <4>2
            <3>2. CASE o # "packageserver"
                  BY <1>1, <2>2, <3>2 DEF Objects
            <3> QED BY <3>1, <3>2
      <2>5. object'["packageserver"] <= Shipped[c]
            BY <1>1, <2>2 DEF Objects
      <2>6. pc'[c] = "apply" => Applied(c)'
            <3> SUFFICES ASSUME pc'[c] = "apply",
                                NEW f \in 1 .. file'[c], NEW i \in 1 .. Len(Files[f]),
                                f < file'[c] \/ i < next'[c]
                         PROVE  object'[Files[f][i]] = Shipped[c]
                BY DEF Applied
            <3>1. CASE /\ ~LastOfFile(c)
                       /\ next' = [next EXCEPT ![c] = @ + 1]
                       /\ UNCHANGED file
                  <4>1. f < file[c] \/ i < next[c] \/ (f = file[c] /\ i = next[c])
                        BY <3>1, FilesAre
                  <4>2. Files[f][i] \in Objects /\ f \in 1 .. file[c]
                        BY <3>1, ObjectAt
                  <4>3. object[Files[f][i]] = Shipped[c] \/ Files[f][i] = o
                        BY <2>2, <4>1, <4>2 DEF Applied
                  <4> QED BY <1>1, <4>2, <4>3
            <3>2. CASE /\ LastOfFile(c) /\ file[c] < Len(Files)
                       /\ file' = [file EXCEPT ![c] = @ + 1]
                       /\ next' = [next EXCEPT ![c] = 1]
                  <4>1. file[c] = 1 /\ next[c] = 1 /\ f = 1 /\ i = 1
                        <5>1. file[c] = 1 /\ file'[c] = 2 /\ next'[c] = 1
                              BY <3>2, FilesAre
                        <5>2. f = 1
                              BY <5>1, FilesAre
                        <5>3. next[c] = 1 /\ i = 1
                              BY <3>2, <5>1, <5>2, FilesAre DEF LastOfFile
                        <5> QED BY <5>1, <5>2, <5>3
                  <4> QED BY <1>1, <4>1
            <3>3. CASE Goto(c, "rollout")
                  BY <3>3 DEF Goto
            <3> QED BY <3>1, <3>2, <3>3 DEF ApplyObject
      <2> QED BY <2>3, <2>4, <2>5, <2>6 DEF Running
<1> QED BY <1>2, <1>3 DEF OLMInv, CSVIsCommitPoint

(* A step that applies nothing keeps the invariant if what it says of the  *)
(* invocation that takes it is true afterwards.                            *)
LEMMA QuietInv ==
    ASSUME TypeOK, OLMInv, NEW c \in Cli, UNCHANGED object,
           UNCHANGED overlaps,
           pc[c] \in Running, \A d \in Cli \ {c} : pc'[d] = pc[d],
           \A d \in Cli \ {c} : UNCHANGED <<file[d], next[d]>>,
           \A d \in Cli : command'[d] \in {command[d], "none"},
           pc'[c] # "apply" => file'[c] = 1 /\ next'[c] = 1,
           overlaps = 0 =>
              /\ pc'[c] \in {"confirm", "apply"} =>
                    object["packageserver"] <= Shipped[c]
              /\ pc'[c] = "apply" => Applied(c)'
    PROVE  OLMInv'
<1>1. ASSUME overlaps = 0, NEW d \in Cli
      PROVE  /\ pc'[d] \in Running => d = c
             /\ pc'[d] \in {"confirm", "apply"} =>
                   object["packageserver"] <= Shipped[d]
             /\ pc'[d] = "apply" => Applied(d)'
      BY <1>1 DEF OLMInv, Running
<1>2. \A d \in Cli :
          /\ command'[d] \in Commands[d] \cup {"none"}
          /\ pc'[d] # "apply" => file'[d] = 1 /\ next'[d] = 1
      BY DEF OLMInv
<1> QED BY <1>1, <1>2 DEF OLMInv, CSVIsCommitPoint

(* The CSV is not newer than what an installing invocation brings.         *)
LEMMA InstallIsNewest ==
    ASSUME TypeOK, OLMInv, InstallsNewest, NEW c \in Cli,
           command[c] = "install"
    PROVE  object["packageserver"] <= Shipped[c]
<1>1. "install" \in Commands[c] /\ object["packageserver"] \in Brought
      BY DEF OLMInv, Objects
<1> QED BY <1>1, VersionsPositive DEF InstallsNewest, Brought

LEMMA StartInv == ASSUME TypeOK, OLMInv, NEW c \in Cli, Start(c) PROVE OLMInv'
<1>1. /\ UNCHANGED <<object, file, next>>
      /\ \A d \in Cli : command'[d] \in Commands[d] \cup {"none"}
      /\ pc[c] = "idle"
      /\ pc' = [pc EXCEPT ![c] = "check"]
      BY DEF Start, OLMInv, olm, place, Goto, TypeOK
<1>2. overlaps' = 0 => overlaps = 0 /\ \A d \in Cli : pc[d] \notin Running
      BY DEF Start, TypeOK
<1>3. \A d \in Cli : Applied(d) => Applied(d)'
      BY <1>1 DEF Applied
<1>4. \A d \in Cli : d # c => pc'[d] = pc[d]
      BY <1>1 DEF TypeOK
<1>5. pc'[c] = "check" 
      BY <1>1 DEF TypeOK
<1>6. ASSUME overlaps' = 0
      PROVE  /\ \A d \in Cli : pc'[d] \in Running => d = c
             /\ \A d \in Cli : pc'[d] \notin {"confirm", "apply"}
      BY <1>2, <1>4, <1>5, <1>6 DEF Running
<1>7. \A d \in Cli : pc'[d] # "apply" => file'[d] = 1 /\ next'[d] = 1
      BY <1>1, <1>4, <1>5 DEF OLMInv
<1> QED BY <1>1, <1>2, <1>6, <1>7 DEF OLMInv, CSVIsCommitPoint

LEMMA StopsInv ==
    ASSUME TypeOK, OLMInv, NEW c \in Cli, pc[c] \in Running, Stops(c)
    PROVE  OLMInv'
BY QuietInv DEF Stops, Goto, olm, TypeOK

LEMMA StepInv ==
    ASSUME TypeOK, OLMInv, InstallsNewest, NEW c \in Cli,
           Start(c) \/ Advance(c) \/ Reapply(c) \/ Expire(c) \/ Fail(c) \/ Kill(c)
    PROVE  OLMInv'
<1> USE DEF TypeOK, Goto, olm, place, Running
<1>1. CASE Start(c)
      BY <1>1, StartInv
<1>2. CASE CheckInstall(c)
      <2>1. object["packageserver"] <= Shipped[c]
            BY <1>2, InstallIsNewest DEF CheckInstall
      <2>2. file'[c] = 1 /\ next'[c] = 1
            BY <1>2 DEF CheckInstall, OLMInv
      <2>3. Applied(c)'
            BY <2>2 DEF Applied
      <2> QED BY <1>2, <2>1, <2>2, <2>3, QuietInv DEF CheckInstall
<1>3. CASE CheckUpgrade(c)
      <2>1. /\ pc'[c] = "catalog" \/ pc'[c] = "confirm"
            /\ pc'[c] = "confirm" => object["packageserver"] <= Shipped[c]
            <3>1. object["packageserver"] \in Nat /\ Shipped[c] \in Nat
                  BY VersionsPositive DEF Objects
            <3>2. pc'[c] = IF UpToDate(c) THEN "catalog" ELSE "confirm"
                  BY <1>3 DEF CheckUpgrade
            <3> QED BY <3>1, <3>2 DEF UpToDate, FoundVersion
      <2>2. file'[c] = 1 /\ next'[c] = 1
            BY <1>3 DEF CheckUpgrade, OLMInv
      <2> QED BY <1>3, <2>1, <2>2, QuietInv DEF CheckUpgrade
<1>4. CASE Confirm(c)
      <2>1. file'[c] = 1 /\ next'[c] = 1
            BY <1>4 DEF Confirm, OLMInv
      <2>2. Applied(c)'
            BY <2>1 DEF Applied
      <2>3. overlaps = 0 => object["packageserver"] <= Shipped[c]
            BY <1>4 DEF Confirm, OLMInv
      <2> QED BY <1>4, <2>1, <2>2, <2>3, QuietInv DEF Confirm
<1>5. CASE ApplyObject(c)
      BY <1>5, ApplyInv
<1>6. CASE GiveUp(c) \/ Fail(c) \/ Kill(c)
      BY <1>6, StopsInv DEF GiveUp, Fail, Kill
<1>7. CASE Rollout(c)
      BY <1>7, QuietInv DEF Rollout, OLMInv
<1>8. CASE RolloutPackageserver(c)
      BY <1>8, QuietInv DEF RolloutPackageserver, OLMInv
<1>9. CASE ApplyCatalog(c)
      BY <1>9, QuietInv DEF ApplyCatalog, OLMInv
<1>10. CASE PackageWait(c)
      BY <1>10, QuietInv DEF PackageWait, OLMInv
<1>11. CASE Reapply(c)
      <2>1. overlaps = 0 => /\ object["packageserver"] <= Shipped[c]
                            /\ Applied(c)
            BY <1>11 DEF Reapply, OLMInv
      <2>2. next'[c] = 1 /\ UNCHANGED file
            BY <1>11 DEF Reapply
      <2>3. Applied(c) => Applied(c)'
            BY <1>11, <2>2 DEF Reapply, Applied
      <2> QED BY <1>11, <2>1, <2>2, <2>3, QuietInv DEF Reapply
<1>12. CASE Expire(c)
      <2>1. overlaps = 0 => /\ object["packageserver"] <= Shipped[c]
                            /\ Applied(c)
            BY <1>12 DEF Expire, OLMInv
      <2>2. Applied(c) => Applied(c)'
            BY <1>12 DEF Expire, Applied
      <2> QED BY <1>12, <2>1, <2>2, QuietInv DEF Expire
<1> QED
    BY <1>1, <1>2, <1>3, <1>4, <1>5, <1>6, <1>7, <1>8, <1>9, <1>10, <1>11,
       <1>12 DEF Advance

(* Where nobody installs an older release, one invocation after the other  *)
(* applies the objects in the order that makes the CSV the last, from      *)
(* whatever state earlier ones died in.                                    *)
THEOREM Inductive ==
    ASSUME InstallsNewest PROVE Spec => []OLMInv
<1>1. TypeOK /\ OLMInv /\ [Next]_vars => OLMInv'
      <2> SUFFICES ASSUME TypeOK, OLMInv, [Next]_vars PROVE OLMInv'
          OBVIOUS
      <2>1. CASE UNCHANGED vars
            BY <2>1 DEF vars, OLMInv, CSVIsCommitPoint, Applied
      <2>2. CASE Serve
            BY <2>2 DEF Serve, OLMInv, CSVIsCommitPoint, Applied, place
      <2> QED BY <2>1, <2>2, StepInv DEF Next, Terminated
<1> QED BY <1>1, InitInv, TypeCorrect, PTL DEF Spec

(* The version of the packageserver CSV, which upgradeOLM trusts, is that  *)
(* of the oldest object of OLM, for any number of upgrades that died or    *)
(* gave up halfway.                                                        *)
THEOREM CommitPoint ==
    ASSUME InstallsNewest PROVE Spec => []CSVIsCommitPoint
<1>1. OLMInv => CSVIsCommitPoint
      BY DEF OLMInv
<1> QED BY <1>1, Inductive, PTL

(* An upgrade that goes past OLM because it found its release or a later   *)
(* one leaves no object behind that is older.                              *)
THEOREM NothingMissed ==
    ASSUME InstallsNewest PROVE Spec => NothingToDoMeansUpgraded
<1> DEFINE Missed(c) ==
        /\ command[c] = "upgrade" /\ pc[c] = "check" /\ pc'[c] = "catalog"
        /\ overlaps = 0
        /\ ~\A o \in Objects : object[o] >= Shipped[c]
<1>1. ASSUME TypeOK, CSVIsCommitPoint, [Next]_vars, NEW c \in Cli
      PROVE  ~Missed(c)
      <2> SUFFICES ASSUME Missed(c) PROVE FALSE
          OBVIOUS
      <2>1. pc[c] = "check" /\ pc'[c] = "catalog" /\ command[c] = "upgrade"
            OBVIOUS
      <2>2. CheckUpgrade(c)
            BY <1>1, <2>1 DEF Next, vars, Start, Advance, CheckInstall,
               CheckUpgrade, Confirm, ApplyObject, GiveUp, Rollout,
               RolloutPackageserver, ApplyCatalog, PackageWait, Reapply,
               Expire, Fail, Kill, Stops, Goto, Serve, Terminated, TypeOK,
               place, olm
      <2>3. object["packageserver"] >= Shipped[c]
            BY <1>1, <2>1, <2>2 DEF CheckUpgrade, Goto, UpToDate, FoundVersion, TypeOK
      <2>4. \A o \in Objects : object[o] >= Shipped[c]
            BY <1>1, <2>3, VersionsPositive DEF CSVIsCommitPoint, TypeOK, Objects
      <2> QED BY <2>4
<1>2. TypeOK /\ CSVIsCommitPoint /\ [Next]_vars =>
          [\A c \in Cli :
             /\ command[c] = "upgrade" /\ pc[c] = "check" /\ pc'[c] = "catalog"
             /\ overlaps = 0
             => \A o \in Objects : object[o] >= Shipped[c]]_vars
      BY <1>1
<1> QED BY <1>2, TypeCorrect, CommitPoint, PTL DEF Spec, NothingToDoMeansUpgraded

(* No sequence of invocations lowers the version of OLM: whoever applies   *)
(* the CSV found an older one, or installs the newest release.             *)
THEOREM NoDowngrade ==
    ASSUME InstallsNewest PROVE Spec => NeverDowngraded
<1>1. ASSUME TypeOK, OLMInv, [Next]_vars, overlaps = 0
      PROVE  object'["packageserver"] >= object["packageserver"]
      <2>1. object["packageserver"] \in Nat
            BY <1>1 DEF TypeOK, Objects
      <2>2. ASSUME NEW c \in Cli, ApplyObject(c)
            PROVE  object'["packageserver"] >= object["packageserver"]
            <3>1. object["packageserver"] <= Shipped[c] /\ Shipped[c] \in Nat
                  BY <1>1, <2>2, VersionsPositive DEF ApplyObject, OLMInv
            <3> QED BY <1>1, <2>1, <2>2, <3>1 DEF ApplyObject, TypeOK, Objects
      <2>3. \/ \E c \in Cli : ApplyObject(c)
            \/ UNCHANGED object
            BY <1>1 DEF Next, vars, Start, Advance, CheckInstall,
               CheckUpgrade, Confirm, GiveUp, Rollout,
               RolloutPackageserver, ApplyCatalog, PackageWait, Reapply,
               Expire, Fail, Kill, Stops, Serve, Terminated, place, olm
      <2> QED BY <2>1, <2>2, <2>3
<1>2. TypeOK /\ OLMInv /\ [Next]_vars =>
          [overlaps = 0 =>
             object'["packageserver"] >= object["packageserver"]]_vars
      BY <1>1
<1> QED BY <1>2, TypeCorrect, Inductive, PTL DEF Spec, NeverDowngraded
=============================================================================
