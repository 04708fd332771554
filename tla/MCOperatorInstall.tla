-------------------------- MODULE MCOperatorInstall --------------------------
(* Instances of OperatorInstall for TLC: two of the three operators, one or *)
(* two runs on the same namespace.                                          *)
EXTENDS OperatorInstall

TwoOperators == <<"pxc", "psmdb">>
OneRun == {"first"}
TwoRuns == {"first", "second"}
Fresh == {}
Reinstalled == {"pxc"}
=============================================================================
