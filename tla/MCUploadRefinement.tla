-------------------------- MODULE MCUploadRefinement --------------------------
(***************************************************************************)
(* A small instance of UploadRefinement for TLC.                           *)
(***************************************************************************)
EXTENDS UploadRefinement, TLC

CONSTANTS h1, h2, u1, u2, f1, f2, a, b, c

\* A file of two pieces, whose second chunk may be one read too long; the chunk
\* after it comes after the last byte.
MCPayloads == [i \in 0 .. LastChunk |->
    CASE i = 0 -> {<<a>>} [] i = 1 -> {<<b>>, <<b, c>>} [] OTHER -> {<<>>}]

\* Every upload claims the same place of the same group.
SameSlot == [u \in Uploads |-> a]

Symmetry == Permutations({h1, h2}) \cup Permutations({u1, u2})
                \cup Permutations({f1, f2})
=============================================================================
