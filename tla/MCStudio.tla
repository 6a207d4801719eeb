------------------------------ MODULE MCStudio ------------------------------
(* Instances of Studio for TLC.                                            *)
EXTENDS Studio, TLC

CONSTANTS g1, g2   \* the scenes of the graph

(* Repetitions are followed for edits that name no revision, any other     *)
(* being refused when it is repeated, keyed or not, since the revision     *)
(* moved on; and for edits that write what no candidate does.              *)
MCFollowed == {r \in Edits : r.expected = Unguarded /\ r.content # Generated}

(* Choices that branch back and forth, one behind a gate, one that no      *)
(* preflight should pass for its effect and one for its gate.              *)
Gate1(key, operator) == [key |-> key, operator |-> operator, value |-> 1]

Row(source, target, gate, kind, operation, value) ==
  [source |-> source, target |-> target, gate |-> gate,
   effect |-> [kind |-> kind, operation |-> operation, value |-> value]]

MCChoiceRows ==
  {Row(g1, g2, NoGate, "story", "increment", 1),
   Row(g2, g1, Gate1("trust", "gte"), "character", "increment", 1),
   Row(g2, NoScene, Gate1("trust", "eq"), "character", "set", 0),
   Row(g1, g2, NoGate, "story", "set", Text),
   Row(g1, NoScene, Gate1("unknown", "eq"), "story", "set", 0)}

MCLevels == 0..2

MCMemoryOf == [j \in ConsolidateJobs |-> CHOOSE m \in Memories : TRUE]

(* The parts share ids (x1, x2 and z1, z2 in the configuration), which are *)
(* interchangeable in each of them.  The scenes of the graph are not,      *)
(* because the choices name them.                                          *)
Symmetry == Permutations(Pumps) \cup Permutations(AnalyzeJobs)
=============================================================================
