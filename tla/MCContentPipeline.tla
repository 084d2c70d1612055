------------------------- MODULE MCContentPipeline -------------------------
(***************************************************************************)
(* ContentPipeline for TLC.                                                *)
(***************************************************************************)
EXTENDS ContentSafety, TLC

\* Workers, items and moderator requests are interchangeable.
ActorSymmetry == Permutations(Workers) \cup Permutations(Contents)
=============================================================================
