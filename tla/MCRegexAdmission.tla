-------------------------- MODULE MCRegexAdmission --------------------------
(* Three patterns of different length, one broken, in two flavors. *)
EXTENDS RegexAdmission

MCBytes == [p \in Patterns |-> CASE p = "a" -> 1 [] p = "bb" -> 2 [] OTHER -> 3]
MCBad == {<<"default", "bb">>, <<"header_name", "bb">>, <<"header_name", "ccc">>}
=============================================================================
