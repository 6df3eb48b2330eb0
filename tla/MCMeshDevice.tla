---------------------------- MODULE MCMeshDevice ----------------------------
(* MeshDevice and MeshJson on a few devices; interchanging devices changes *)
(* nothing.                                                                *)
EXTENDS MeshJson, TLC

CONSTANTS m1, m2, m3, m4, m5

FiveMacs == {m1, m2, m3, m4, m5}
Interchangeable == Permutations(FiveMacs)
=============================================================================
