------------------------- MODULE MCAssetGeneration -------------------------
(* Instances of AssetGeneration for TLC.                                   *)
EXTENDS AssetGeneration, TLC

(* The runs of the processor are interchangeable.                          *)
Symmetry == Permutations(Workers)
=============================================================================
