-------------------------- MODULE MCDeploymentQueue --------------------------
(* Instances of DeploymentQueue for TLC. *)
EXTENDS DeploymentQueue, TLC

CONSTANTS d1, d2, e1, e2

Symmetry == Permutations(Deployment) \cup Permutations(Engine)
=============================================================================
