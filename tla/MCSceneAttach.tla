---------------------------- MODULE MCSceneAttach ----------------------------
(* Model-checking instances of SceneAttach.                                 *)
EXTENDS SceneAttach, TLC

VisSymmetry == Permutations(Vis)

=============================================================================
