------------------------- MODULE MCVectorProjection -------------------------
(***************************************************************************)
(* Model checking of VectorProjection.                                     *)
(***************************************************************************)
EXTENDS VectorProjection, TLC

\* Chunks are alike, and so are workers.
ChunkSymmetry == Permutations(Chunk)

ChunkWorkerSymmetry == Permutations(Chunk) \cup Permutations(Worker)

\* One vault.
AllChunks == {Chunk}

\* Runs over one vault, and over all of them.
AnyVault == (SUBSET Chunk) \ {{}}

OnlyIncremental == {FALSE}

BothKinds == {TRUE, FALSE}
=============================================================================
