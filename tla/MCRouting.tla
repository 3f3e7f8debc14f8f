------------------------------ MODULE MCRouting ------------------------------
(* Routing on small sets of deployments and requests.                        *)
EXTENDS Routing, TLC

\* Deployments are interchangeable, and so are requests.
Symmetry == Permutations(Deployments) \cup Permutations(Requests)
==============================================================================
