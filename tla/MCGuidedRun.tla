---------------------------- MODULE MCGuidedRun ----------------------------
(* Instances of GuidedRun for TLC. *)
EXTENDS GuidedRun
=============================================================================
