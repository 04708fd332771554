---------------------------- MODULE MCOLMInstall ----------------------------
(* Instances of OLMInstall for TLC: three invocations of two releases.     *)
EXTENDS OLMInstall

ThreeCli == {"c1", "c2", "c3"}
(* The releases of c1 and c3 ship OLM 2, that of c2 ships OLM 3. An        *)
(* install of the older release would lower OLM where its check fails.     *)
Releases == [c \in Cli |-> IF c = "c2" THEN 3 ELSE 2]
Mixed == [c \in Cli |-> IF c = "c2" THEN {"install", "upgrade"} ELSE {"upgrade"}]
=============================================================================
