------------------------------ MODULE Passwords ------------------------------
(***************************************************************************)
(* The password policy of the API (api/app/core/passwords.py) and the       *)
(* fields of a registration it reads (api/app/schemas/auth.py).  A text is  *)
(* a sequence of characters, of which the code sees the kinds and the       *)
(* lowercase form.                                                          *)
(*                                                                          *)
(* Left out: which of the reasons the refusal names, and the two characters *)
(* that str.lower does not take by itself: U+0130 becomes two characters,   *)
(* and U+03A3, capital sigma, one of two by where in its word it stands.    *)
(* All others satisfy PasswordsAssumption.                                  *)
(***************************************************************************)
EXTENDS SequencesExt

CONSTANTS Chars,      \* any characters but U+0130 and U+03A3
          KindsOf,    \* islower, isupper, isdigit, not isalnum: some are two of them
          LowerOf,    \* str.lower, a character at a time
          Blanks,     \* what str.strip drops
          Common,     \* COMMON_PASSWORDS
          MinLength,  \* MIN_PASSWORD_LENGTH
          MaxLength,  \* MAX_PASSWORD_LENGTH
          MinToken,   \* 4: a shorter identifier is not looked for
          MaxName     \* 100: max_length of display_name

Kinds == {"lower", "upper", "digit", "symbol"}

Lower(s) == [k \in DOMAIN s |-> LowerOf[s[k]]]

ASSUME PasswordsAssumption ==
  /\ KindsOf \in [Chars -> SUBSET Kinds]
  /\ LowerOf \in [Chars -> Chars]
  /\ \A c \in Chars : LowerOf[LowerOf[c]] = LowerOf[c]
  /\ Blanks \subseteq Chars
  /\ \A c \in Blanks : LowerOf[c] \in Blanks
  /\ Common \subseteq Seq(Chars)
  /\ \A w \in Common : /\ w # <<>> /\ Lower(w) = w
                        /\ {w[1], w[Len(w)]} \cap Blanks = {}
  /\ {MinLength, MaxLength, MinToken, MaxName} \subseteq Nat \ {0}

-----------------------------------------------------------------------------

Strip(s) == LET kept == {k \in DOMAIN s : s[k] \notin Blanks}
            IN  IF kept = {} THEN <<>> ELSE SubSeq(s, Min(kept), Max(kept))

CharacterClasses(password) == UNION {KindsOf[c] : c \in ToSet(password)}

(* Should the case of a long enough identifier matter:                      *)
ContainsAsTyped(password, token) ==
  Len(token) >= MinToken /\ token \in SubSeqs(password)

ContainsToken(password, token) ==
  Len(token) >= MinToken /\ Lower(token) \in SubSeqs(Lower(password))

(* validate_password_strength refuses the password of the form.             *)
Weak(form) ==
  LET password == form.password
  IN  \/ Len(password) < MinLength
      \/ Len(password) > MaxLength
      \/ Lower(Strip(password)) \in Common
      \/ Cardinality(ToSet(password)) = 1
      \/ Cardinality(CharacterClasses(password)) < 2
      \/ ContainsToken(password, form.local)
      \/ ContainsToken(password, form.name)

(* RegisterRequest: the fields first, then the policy.                      *)
Acceptable(form) == /\ Len(form.password) <= MaxLength
                    /\ Len(form.name) \in 1..MaxName
                    /\ ~Weak(form)

-----------------------------------------------------------------------------
(* What the policy promises, character by character.                        *)

(* c and d are one letter, up to its case.                                  *)
SameLetter(c, d) == LowerOf[c] = LowerOf[d]

(* From its position at on, s spells w.                                     *)
Spells(s, at, w) ==
  /\ at + Len(w) - 1 <= Len(s)
  /\ \A k \in DOMAIN w : SameLetter(s[at + k - 1], w[k])

(* s is w between blanks.                                                   *)
Wraps(s, at, w) ==
  /\ Spells(s, at, w)
  /\ \A k \in DOMAIN s : k < at \/ k >= at + Len(w) => s[k] \in Blanks

(* Nobody who knows the list, the email and the name finds the password by  *)
(* changing cases and adding around it.                                     *)
Strong(form) ==
  LET s == form.password
  IN  /\ Len(s) \in MinLength..MaxLength
      /\ \E j, k \in DOMAIN s : s[j] # s[k]
      /\ \E j, k \in DOMAIN s : \E a \in KindsOf[s[j]], b \in KindsOf[s[k]] : a # b
      /\ \A at \in DOMAIN s :
           /\ \A w \in Common : ~Wraps(s, at, w)
           /\ \A w \in {form.local, form.name} : Len(w) >= MinToken => ~Spells(s, at, w)
=============================================================================
