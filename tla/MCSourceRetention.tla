-------------------------- MODULE MCSourceRetention --------------------------
(***************************************************************************)
(* Model checking of SourceRetention.                                      *)
(***************************************************************************)
EXTENDS SourceRetention, TLC

\* Documents are alike, and so are texts and runs.
Symmetry == Permutations(Doc) \cup Permutations(Text) \cup Permutations(Run)
=============================================================================
