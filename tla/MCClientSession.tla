--------------------------- MODULE MCClientSession ---------------------------
(* Instances of ClientSession for TLC.                                      *)
EXTENDS ClientSession, TLC

Symmetry == Permutations(Jti) \cup Permutations(Calls)
=============================================================================
