---------------------------- MODULE MCDomainTrie ----------------------------
(* Instances of DomainTrie and ListParser for TLC: names of up to three    *)
(* labels.                                                                 *)
EXTENDS ListParser

\* Two branches below one top-level label.
TwoBranches == {<<"com">>, <<"com", "a">>, <<"com", "a", "b">>, <<"com", "c">>, <<"com", "c", "b">>}

\* One of the names is written with a capital.
MCNames == {<<"com", "A">>, <<"com", "a", "b">>, <<"com", "c">>}
MCLower == [l \in {"com", "a", "b", "c", "A"} |-> IF l = "A" THEN "a" ELSE l]
=============================================================================
