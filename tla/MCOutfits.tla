----------------------------- MODULE MCOutfits ------------------------------
(* Instances of Outfits for TLC.                                            *)
EXTENDS Outfits, TLC

CONSTANTS alice, bob, i1, i2, i3, o1

(* alice has an outfit and two items, bob has the other items.              *)
MCItemOwner == [i \in Items |-> IF i \in {i1, i2} THEN alice ELSE bob]

MCOutfitOwner == [o \in Outfits |-> alice]

Symmetry == Permutations(Handlers) \cup Permutations({i1, i2})
=============================================================================
