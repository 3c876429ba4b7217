-------------------------- MODULE MCConfigDeployment --------------------------
(* Instances of ConfigDeployment for TLC. *)
EXTENDS ConfigDeployment, TLC

\* Configurations are compared for equality only.
Symmetry == Permutations(Config)
=============================================================================
