------------------------- MODULE MCArtifactService -------------------------
(* Instances of ArtifactService for TLC.  Contents and ids are only ever   *)
(* compared for equality.                                                  *)
EXTENDS ArtifactService, TLC

Symmetry == Permutations(Contents) \cup Permutations(Ids)
=============================================================================
