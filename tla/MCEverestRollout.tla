-------------------------- MODULE MCEverestRollout --------------------------
(* An instance of EverestRollout for TLC: an upgrade and an install that   *)
(* finds Everest, one replica.                                             *)
EXTENDS EverestRollout

TwoCli == {"upgrade", "install"}
OneApplies == [c \in Cli |-> IF c = "upgrade" THEN "apply" ELSE "restart"]
=============================================================================
