----------------------------- MODULE MCLFApplyTwo -----------------------------
(***************************************************************************)
(* Two callers of applyResource on the same principal and resource.  They  *)
(* are interchangeable and so are the permissions, none of which is pinned.*)
(***************************************************************************)
EXTENDS LFApply, TLC

Symmetry == Permutations(Proc) \cup Permutations(Flag)
==============================================================================
