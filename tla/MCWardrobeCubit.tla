--------------------------- MODULE MCWardrobeCubit ---------------------------
(* Instances of WardrobeCubit for TLC.                                      *)
EXTENDS WardrobeCubit

Symmetry == Permutations(Ids) \cup Permutations(Contents) \cup Permutations(Calls)
=============================================================================
