----------------------------- MODULE DomainRules -----------------------------
(***************************************************************************)
(* What a DomainTrie promises, without the trie: a set of domains, each    *)
(* with or without its subdomains, that answers by comparing suffixes.     *)
(*                                                                         *)
(* A domain is the sequence of its labels, the top-level label first       *)
(* (reversedLabels), so that a parent domain is a prefix.                  *)
(***************************************************************************)
EXTENDS Naturals, Sequences, FiniteSets

CONSTANT Domains   \* the non-empty sequences of labels considered

VARIABLES
    rules,     \* rules[d]: "none", "exact" or "wildcard"
    incoming   \* the rules of the blocklist being parsed

vars == <<rules, incoming>>

Parent(a, d) == Len(a) < Len(d) /\ SubSeq(d, 1, Len(a)) = a

\* "Returns true if the domain itself or any parent domain with wildcard flag
\* matches" (trie.go).
Matches(d) ==
    \/ rules[d] # "none"
    \/ \E a \in Domains : Parent(a, d) /\ rules[a] = "wildcard"

NoRules == [d \in Domains |-> "none"]

Init == rules = NoRules /\ incoming = NoRules

Stronger(old, wildcard) ==
    IF wildcard \/ old = "wildcard" THEN "wildcard" ELSE "exact"

AddRule(d, wildcard) ==
    rules' = [rules EXCEPT ![d] = Stronger(@, wildcard)] /\ UNCHANGED incoming

RemoveRule(d) == rules' = [rules EXCEPT ![d] = "none"] /\ UNCHANGED incoming

ClearRules == rules' = NoRules /\ UNCHANGED incoming

ParseRule(d, wildcard) ==
    incoming' = [incoming EXCEPT ![d] = Stronger(@, wildcard)] /\ UNCHANGED rules

ParseNew == incoming' = NoRules /\ UNCHANGED rules

MergeRules ==
    /\ rules' = [d \in Domains |-> IF incoming[d] = "none" THEN rules[d]
                                   ELSE Stronger(rules[d], incoming[d] = "wildcard")]
    /\ UNCHANGED incoming

Next ==
    \/ \E d \in Domains, wildcard \in BOOLEAN : AddRule(d, wildcard) \/ ParseRule(d, wildcard)
    \/ \E d \in Domains : RemoveRule(d)
    \/ ClearRules \/ ParseNew \/ MergeRules

Spec == Init /\ [][Next]_vars
=============================================================================
