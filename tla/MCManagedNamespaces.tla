------------------------ MODULE MCManagedNamespaces ------------------------
(* Instances of ManagedNamespaces for TLC: two or three invocations, two   *)
(* namespaces, and a third one where Everest is already installed.         *)
EXTENDS ManagedNamespaces, TLC

CONSTANTS n1, n2, n3, c1, c2, c3

TwoNamespaces == {n1, n2}
ThreeNamespaces == {n1, n2, n3}
OneInstalled == {n3}
TwoCli == {c1, c2}
ThreeCli == {c1, c2, c3}
Both == {"install", "upgrade"}
Installs == {"install"}
Nothing == {}

(* Invocations are interchangeable, and so are the namespaces that no      *)
(* earlier install registered.                                             *)
Symmetry == Permutations(Cli) \cup Permutations({n1, n2})
=============================================================================
