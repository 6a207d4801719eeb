------------------------- MODULE MCSceneGeneration -------------------------
(* Instances of SceneGeneration for TLC.                                   *)
EXTENDS SceneGeneration, TLC

(* Ticks of the pump, runs of the worker and jobs of which none may be     *)
(* cancelled are interchangeable.                                          *)
Symmetry == Permutations(Pumps) \cup Permutations(Workers) \cup Permutations(Jobs)
=============================================================================
