----------------------------- MODULE MCPoolPages -----------------------------
(***************************************************************************)
(* Instances of the pages for TLC.                                         *)
(***************************************************************************)
EXTENDS PoolPagesProperties, TLC

CONSTANTS p1, p2

PoolSymmetry == Permutations({p1, p2})
=============================================================================
