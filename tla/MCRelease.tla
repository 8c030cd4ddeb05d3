----------------------------- MODULE MCRelease ------------------------------
(* Two builds and two runs of the pipeline, which are alike.                *)
EXTENDS Release, TLC

CONSTANTS b1, b2, p1, p2

Alike == Permutations(Builders) \cup Permutations(Publishers)
=============================================================================
