----------------------------- MODULE MCWardrobe ------------------------------
(* Instances of Wardrobe for TLC.                                           *)
EXTENDS Wardrobe, TLC

CONSTANTS alice, bob, i1, i2

(* alice has both items: the check of the key is all that keeps them apart. *)
MCItemOwner == [i \in Items |-> alice]

(* i2 is filled by another client.                                          *)
MCAppItems == {i1}

Symmetry == Permutations(Handlers) \cup Permutations(Keys)
=============================================================================
