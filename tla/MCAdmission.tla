---------------------------- MODULE MCAdmission ----------------------------
(* An instance of Admission for TLC: an alphabet of one character of each   *)
(* kind and one of two kinds, the circled a (U+24D0), which is islower and  *)
(* not isalnum, passwords that pass every boundary, identifiers of every    *)
(* length.                                                                  *)
EXTENDS Admission

MCChars == {"a", "A", "1", " ", "circled a"}

MCKindsOf == [c \in MCChars |->
                CASE c = "a" -> {"lower"} [] c = "A" -> {"upper"} [] c = "1" -> {"digit"}
                  [] c = " " -> {"symbol"} [] c = "circled a" -> {"lower", "symbol"}]

MCLowerOf == [c \in MCChars |-> IF c = "A" THEN "a" ELSE c]

MCCommon == {<<"1", "a">>, <<"a", "1", "1">>}

MCPasses == [1..3 -> MCChars \ {"circled a"}] \cup {<<"1", "a">>, <<"1", "a", " ", " ">>}
              \cup [1..3 -> {"a", "circled a"}]

MCLocals == {<<"A", "1">>}

MCNames == {<<>>, <<"1">>, <<"a", "a">>, <<"1", "1", "1">>}

MCLimit == [e \in Endpoints |-> IF e = "register" THEN 1 ELSE 2]

MCWindow == [e \in Endpoints |-> IF e = "register" THEN 3 ELSE 2]
=============================================================================
