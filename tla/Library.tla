------------------------------ MODULE Library ------------------------------
(***************************************************************************)
(* The library of the client. Manifests, CustomResources, Lookups and      *)
(* OperatorWaits share no state, so that a behaviour need only be one of   *)
(* one of them, the others staying as they are.                            *)
(***************************************************************************)
EXTENDS Manifests, CustomResources, Lookups, OperatorWaits

VARIABLE subject    \* the one that moves
libraryVars == <<manifestVars, resourceVars, lookupVars, waitVars, subject>>

-----------------------------------------------------------------------------
Init ==
    /\ ManifestInit /\ ResourceInit /\ LookupInit /\ WaitInit
    /\ subject \in {"manifests", "resources", "lookups", "waits"}
    /\ present = {} \/ subject = "manifests"
    /\ env = <<>> \/ subject = "lookups"

Next ==
    \/ /\ subject = "manifests" /\ ManifestNext
       /\ UNCHANGED <<resourceVars, lookupVars, waitVars, subject>>
    \/ /\ subject = "resources" /\ ResourceNext
       /\ UNCHANGED <<manifestVars, lookupVars, waitVars, subject>>
    \/ /\ subject = "lookups" /\ LookupNext
       /\ UNCHANGED <<manifestVars, resourceVars, waitVars, subject>>
    \/ /\ subject = "waits" /\ WaitNext
       /\ UNCHANGED <<manifestVars, resourceVars, lookupVars, subject>>

(* A call that has a request to make makes it, and gets an answer or an    *)
(* error. Nothing is assumed of rollouts, of OLM and of users.             *)
Spec == Init /\ [][Next]_libraryVars
             /\ WF_manifestVars(ManifestProgress)

(* The types of the modules.                                               *)
TypeOK == ManifestTypeOK /\ ResourceTypeOK /\ LookupTypeOK /\ WaitTypeOK
=============================================================================
