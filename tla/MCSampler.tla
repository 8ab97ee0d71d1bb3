-------------------------------- MODULE MCSampler ---------------------------------
(* Instances of Sampler for TLC. *)
EXTENDS Sampler, TLC

CONSTANTS cloud, edge

\* The hosts are alike; liveness is checked without symmetry.
HostSymmetry == Permutations({cloud, edge})
=============================================================================
