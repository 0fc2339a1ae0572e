--------------------------- MODULE MCNtConnection ---------------------------
(***************************************************************************)
(* NtConnection for TLC: workers are interchangeable.                      *)
(***************************************************************************)
EXTENDS NtConnection, TLC

Symmetry == Permutations(Workers)
=============================================================================
