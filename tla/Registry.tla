----------------------------- MODULE Registry ------------------------------
(***************************************************************************)
(* What `everestctl install` promises about the list of managed            *)
(* namespaces, whatever API calls it takes: an install asks for a set of   *)
(* namespaces, the set is added to the list in one step, and success is    *)
(* reported only after that. An install may abort, before or after the     *)
(* addition; nothing ever leaves the list.                                 *)
(***************************************************************************)
CONSTANTS Namespaces, Cli, Installed

VARIABLES
    managed,   \* the namespaces Everest manages
    status,    \* of each install
    request    \* the namespaces each install was asked for

registry == <<managed, status, request>>

Init ==
    /\ managed = Installed
    /\ status = [c \in Cli |-> "idle"]
    /\ request = [c \in Cli |-> {}]

Ask(c) ==
    /\ status[c] = "idle"
    /\ status' = [status EXCEPT ![c] = "running"]
    /\ \E l \in SUBSET Namespaces : request' = [request EXCEPT ![c] = l]
    /\ UNCHANGED managed

Register(c) ==
    /\ status[c] = "running"
    /\ status' = [status EXCEPT ![c] = "registered"]
    /\ managed' = managed \cup request[c]
    /\ UNCHANGED request

Report(c) ==
    /\ status[c] = "registered"
    /\ status' = [status EXCEPT ![c] = "reported"]
    /\ UNCHANGED <<managed, request>>

Abort(c) ==
    /\ status[c] \in {"running", "registered"}
    /\ status' = [status EXCEPT ![c] = "aborted"]
    /\ UNCHANGED <<managed, request>>

Next == \E c \in Cli : Ask(c) \/ Register(c) \/ Report(c) \/ Abort(c)

Spec == Init /\ [][Next]_registry
=============================================================================
