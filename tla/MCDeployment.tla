----------------------------- MODULE MCDeployment -----------------------------
(* Instances of Deployment for TLC. *)
EXTENDS Deployment, TLC

\* Slots are interchangeable, and so are deployments.
Symmetry == Permutations(Slots) \cup Permutations(Deployments)
===============================================================================
