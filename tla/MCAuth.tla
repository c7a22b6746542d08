------------------------------- MODULE MCAuth -------------------------------
(* Instances of Auth for TLC: users, emails, tokens and handlers are        *)
(* interchangeable.                                                         *)
EXTENDS Auth, TLC

Symmetry == Permutations(Users) \cup Permutations(Emails)
              \cup Permutations(Jti) \cup Permutations(Handlers)
=============================================================================
