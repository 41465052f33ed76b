--------------------------- MODULE MCUploadSession ---------------------------
(***************************************************************************)
(* Small instances of UploadSession for TLC.                               *)
(***************************************************************************)
EXTENDS UploadSessionInvariant, TLC

CONSTANTS h1, h2, u1, f1, f2, a, b, c

\* A file of two pieces, whose second chunk may be empty or one read too long.  The
\* chunk after it brings the rest of the file or comes after its last byte.
MCPayloads == [i \in 0 .. LastChunk |->
    CASE i = 0 -> {<<a>>} [] i = 1 -> {<<>>, <<b>>, <<b, c>>} [] OTHER -> {<<>>, <<c>>}]

\* As many chunks of one piece as fit, and empty ones after them.
MCFitting == [i \in 0 .. LastChunk |-> IF i < Expected THEN {<<a>>} ELSE {<<>>}]

\* Uploads that belong to no group.
NoSlot == [u \in Uploads |-> None]

Symmetry == Permutations({h1, h2}) \cup Permutations({f1, f2})
=============================================================================
