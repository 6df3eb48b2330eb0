----------------------------- MODULE MCMeshNode -----------------------------
(* MeshNode with two servers; no symmetry, since liveness is checked.      *)
EXTENDS MeshNode

CONSTANTS s1, s2

TwoServers == {s1, s2}
=============================================================================
