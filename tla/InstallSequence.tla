-------------------------- MODULE InstallSequence --------------------------
(***************************************************************************)
(* What provisionOperators promises of one run: the selected operators are *)
(* installed one after the other in their order, no operator is touched    *)
(* before the ones ahead of it are installed, nothing is touched after a   *)
(* failure, and success is reported only when all of them are installed.   *)
(***************************************************************************)
EXTENDS Naturals

CONSTANTS Cli, Selected    \* the runs; the number of operators selected

VARIABLES
    touched,     \* per run, how many operators it wrote a Subscription for
    installed,   \* per run, how many of them it saw rolled out
    outcome      \* of each run

sequence == <<touched, installed, outcome>>

Init ==
    /\ touched = [c \in Cli |-> 0]
    /\ installed = [c \in Cli |-> 0]
    /\ outcome = [c \in Cli |-> "running"]

Touch(c) ==
    /\ outcome[c] = "running"
    /\ touched[c] = installed[c] /\ touched[c] < Selected
    /\ touched' = [touched EXCEPT ![c] = @ + 1]
    /\ UNCHANGED <<installed, outcome>>

Install(c) ==
    /\ outcome[c] = "running"
    /\ installed[c] < touched[c]
    /\ installed' = [installed EXCEPT ![c] = @ + 1]
    /\ UNCHANGED <<touched, outcome>>

Succeed(c) ==
    /\ outcome[c] = "running" /\ installed[c] = Selected
    /\ outcome' = [outcome EXCEPT ![c] = "ok"]
    /\ UNCHANGED <<touched, installed>>

Fail(c) ==
    /\ outcome[c] = "running"
    /\ outcome' = [outcome EXCEPT ![c] = "failed"]
    /\ UNCHANGED <<touched, installed>>

Next == \E c \in Cli : Touch(c) \/ Install(c) \/ Succeed(c) \/ Fail(c)

Spec == Init /\ [][Next]_sequence
=============================================================================
