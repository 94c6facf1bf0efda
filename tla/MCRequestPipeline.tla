------------------------- MODULE MCRequestPipeline -------------------------
(* RequestPipeline for TLC.                                                *)
EXTENDS RequestPipeline, TLC

CONSTANTS r1, r2

Symmetry == Permutations(Requests)
=============================================================================
