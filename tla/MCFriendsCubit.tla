---------------------------- MODULE MCFriendsCubit ----------------------------
(* Instances of FriendsCubit for TLC.                                       *)
EXTENDS FriendsCubit, TLC

Symmetry == Permutations(Rows) \cup Permutations(Calls)
=============================================================================
