----------------------------- MODULE MCFileStore -----------------------------
(***************************************************************************)
(* Small instances of FileStore and its refinement for TLC.                *)
(***************************************************************************)
EXTENDS FileRefinement, TLC

CONSTANTS h1, h2, f1

Symmetry == Permutations({h1, h2})
=============================================================================
