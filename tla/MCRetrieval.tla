----------------------------- MODULE MCRetrieval -----------------------------
(***************************************************************************)
(* Model checking of Retrieval.                                            *)
(***************************************************************************)
EXTENDS Retrieval

TheChunk(d, v, s, n, r) == [doc |-> d, version |-> v, section |-> s, ordinal |-> n, role |-> r]

\* Two documents.  The first has a heading and two chunks below it, one of them in a
\* subsection, and a second version; the second version of the other is empty.
TwoDocuments ==
  {TheChunk("d1", 1, "top", 0, "structural_anchor"), TheChunk("d1", 1, "top", 1, "content_evidence"),
   TheChunk("d1", 1, "sub", 2, "content_evidence"), TheChunk("d1", 2, "top", 1, "content_evidence"),
   TheChunk("d2", 1, "top", 0, "content_evidence")}

SubInTop == [s \in {"top", "sub"} |-> {"top", s}]
=============================================================================
