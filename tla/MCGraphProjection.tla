-------------------------- MODULE MCGraphProjection --------------------------
(***************************************************************************)
(* Model checking of GraphProjection.                                      *)
(***************************************************************************)
EXTENDS GraphProjection, TLC

\* Contents are alike, and so are workers.
ContentSymmetry == Permutations(Content)

ContentRebuilderSymmetry == Permutations(Content) \cup Permutations(Rebuilder)
=============================================================================
