---------------------------- MODULE MCOutfitsCubit ----------------------------
(* Instances of OutfitsCubit for TLC.                                       *)
EXTENDS OutfitsCubit

Symmetry == Permutations(Ids) \cup Permutations(Calls)
=============================================================================
