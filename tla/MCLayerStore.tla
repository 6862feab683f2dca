---------------------------- MODULE MCLayerStore ----------------------------
(* Instances of LayerStore for TLC.                                        *)
EXTENDS LayerStore

CONSTANTS a, b, c

Symmetry == Permutations(Paths)
=============================================================================
