----------------------------- MODULE MCInstall -----------------------------
(* Instances of Install for TLC: an install, a second one, a reset or an   *)
(* upgrade, and a third process that resets the token or uninstalls.       *)
EXTENDS Install

ThreeCli == {"c1", "c2", "c3"}
OneNamespace == {"db1"}
TwoInstalls == [c \in Cli |-> CASE c = "c1" -> {"install"}
                                 [] c = "c2" -> {"install", "reset", "upgrade"}
                                 [] c = "c3" -> {"reset", "uninstall"}]
Same == [c \in Cli |-> DBNamespaces]
NoSecret == [token |-> "none", salt |-> 0]
=============================================================================
