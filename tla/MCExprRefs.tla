----------------------------- MODULE MCExprRefs -----------------------------
(* Instances of ExprRefs for TLC.                                            *)
EXTENDS ExprRefs, TLC

Symmetry == Permutations(Handle) \union Permutations(Node)
=============================================================================
