-------------------------- MODULE MCEverestUpgrade --------------------------
(* An instance of EverestUpgrade for TLC: two upgrades that disagree about *)
(* telemetry, and a namespace that may have Subscriptions beside one that  *)
(* has none.                                                               *)
EXTENDS EverestUpgrade, TLC

TwoUpgrades == {"first", "second"}
Opposed == [c \in Cli |-> IF c = "first" THEN "true" ELSE "1"]
TwoNamespaces == {"n1", "n2"}
AllInOne == [s \in Subscriptions |-> "n1"]
Symmetry == Permutations(Subscriptions)
TwoTypes == {"ClusterIP", "LoadBalancer"}
=============================================================================
