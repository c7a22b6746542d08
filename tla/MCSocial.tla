------------------------------ MODULE MCSocial ------------------------------
(* Instances of Social for TLC.                                             *)
EXTENDS Social, TLC

CONSTANTS alice, bob, r1

(* Every resource is alice's.                                               *)
MCOwner == [r \in Resources |-> alice]

Symmetry == Permutations(Handlers) \cup Permutations(Fid) \cup Permutations(Sid)
=============================================================================
