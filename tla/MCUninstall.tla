---------------------------- MODULE MCUninstall ----------------------------
(* Instances of Uninstall for TLC: two databases in two namespaces, a      *)
(* backup storage and a monitoring config, each there or not at first.     *)
EXTENDS Uninstall

TwoNamespaces == {"db1", "db2"}
TwoDatabases == {"pxc1", "pg1"}
OneStorage == {"s3"}
OneConfig == {"pmm"}
Homes == [d \in Databases |-> IF d = "pxc1" THEN "db1" ELSE "db2"]
=============================================================================
