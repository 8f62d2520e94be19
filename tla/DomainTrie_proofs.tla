-------------------------- MODULE DomainTrie_proofs --------------------------
(***************************************************************************)
(* The trie implements the set of rules, and walking it answers what       *)
(* comparing suffixes would, for any set of domains and any lists.         *)
(***************************************************************************)
EXTENDS ListParser, FiniteSetTheorems, WellFoundedInduction, TLAPS

\* Only an endpoint is a wildcard: Remove takes both flags, and no other
\* operation sets one without the other.
WildEnds(t) == \A p \in DOMAIN t : t[p] \in Node /\ (t[p].isWild => t[p].isEnd)

FlagInv == WildEnds(trie) /\ WildEnds(other)

-----------------------------------------------------------------------------
(* What the operations on nodes do to flags and rules                      *)

\* A domain and its parents, by length.
LEMMA PathFacts ==
  ASSUME NEW d \in Domains
  PROVE  /\ Len(d) \in Nat /\ Len(d) > 0 /\ SubSeq(d, 1, Len(d)) = d /\ d \in Path(d)
         /\ \A i \in 1..Len(d) :
              /\ SubSeq(d, 1, i) \in Domains /\ Len(SubSeq(d, 1, i)) = i
              /\ \A j \in 1..i : SubSeq(SubSeq(d, 1, i), 1, j) = SubSeq(d, 1, j)
  <1> DEFINE S == {d[i] : i \in DOMAIN d}
  <1>1. d \in Seq(S) /\ d # <<>> /\ \A i \in 1..Len(d) : SubSeq(d, 1, i) \in Domains
    BY Zenon, DomainsAssumption
  <1> HIDE DEF S
  <1>2. Len(d) \in Nat /\ Len(d) > 0
    BY <1>1
  <1>3. SubSeq(d, 1, Len(d)) = d
    BY <1>1
  <1>4. d \in Path(d)
    <2>1. Len(d) \in 1..Len(d)
      BY <1>2
    <2> QED
      BY Zenon, <1>3, <2>1 DEF Path
  <1>5. ASSUME NEW i \in 1..Len(d)
        PROVE  /\ Len(SubSeq(d, 1, i)) = i
               /\ \A j \in 1..i : SubSeq(SubSeq(d, 1, i), 1, j) = SubSeq(d, 1, j)
    <2>1. Len(SubSeq(d, 1, i)) = i
      BY <1>1
    <2>2. ASSUME NEW j \in 1..i PROVE SubSeq(SubSeq(d, 1, i), 1, j) = SubSeq(d, 1, j)
      BY <1>1
    <2> QED
      BY Zenon, <2>1, <2>2
  <1> QED
    BY Zenon, <1>1, <1>2, <1>3, <1>4, <1>5

\* The empty trie has no rules.
LEMMA EmptyRules == WildEnds(Empty) /\ \A d : rule(Empty, d) = "none"
  BY Zenon DEF WildEnds, Empty, rule, isEnd

\* The flags a node has before Add comes to it.
LEMMA WithDomainFlags ==
  ASSUME NEW t, WildEnds(t), NEW d, NEW wildcard \in BOOLEAN
  PROVE  WildEnds(withDomain(t, d, wildcard))
  <1> DEFINE u == withDomain(t, d, wildcard)
  <1> SUFFICES ASSUME NEW p \in DOMAIN u PROVE u[p] \in Node /\ (u[p].isWild => u[p].isEnd)
    BY Zenon DEF WildEnds
  <1>1. p \in DOMAIN t => t[p] \in Node /\ (t[p].isWild => t[p].isEnd)
    BY Zenon DEF WildEnds
  <1>2. newNode \in Node /\ ~newNode.isWild
    BY Zenon DEF newNode, Node
  <1>3. DOMAIN u = DOMAIN t \cup Path(d)
    BY Zenon DEF withDomain
  <1>4. CASE p = d
    <2>1. PICK n \in Node : u[p] = [isEnd |-> TRUE, isWild |-> n.isWild \/ wildcard]
      BY Zenon, <1>1, <1>2, <1>3, <1>4 DEF withDomain
    <2>2. n.isWild \/ wildcard \in BOOLEAN
      BY Zenon DEF Node
    <2> QED
      BY <2>1, <2>2 DEF Node
  <1>5. CASE p # d
    BY Zenon, <1>1, <1>2, <1>3, <1>5 DEF withDomain
  <1> QED
    BY Zenon, <1>4, <1>5

\* Add and the parser change the rule of their domain and no other's.
LEMMA WithDomainRules ==
  ASSUME NEW t, WildEnds(t), NEW d, NEW wildcard \in BOOLEAN, NEW x \in Domains
  PROVE  rule(withDomain(t, d, wildcard), x) =
           IF x = d THEN Rules!Stronger(rule(t, d), wildcard) ELSE rule(t, x)
  <1> DEFINE u == withDomain(t, d, wildcard)
  <1>1. DOMAIN u = DOMAIN t \cup Path(d)
    BY Zenon DEF withDomain
  <1>2. CASE x = d
    <2>1. d \in Path(d)
      BY Zenon, <1>2, PathFacts
    <2>2. CASE d \in DOMAIN t
      <3>1. u[d] = [isEnd |-> TRUE, isWild |-> t[d].isWild \/ wildcard]
        BY Zenon, <1>1, <2>2 DEF withDomain
      <3>2. t[d] \in Node /\ (t[d].isWild => t[d].isEnd)
        BY Zenon, <2>2 DEF WildEnds
      <3> QED
        BY <1>1, <1>2, <2>2, <3>1, <3>2 DEF rule, isEnd, Rules!Stronger, Node
    <2>3. CASE d \notin DOMAIN t
      <3>1. u[d] = [isEnd |-> TRUE, isWild |-> newNode.isWild \/ wildcard]
        BY Zenon, <1>1, <2>1, <2>3 DEF withDomain
      <3> QED
        BY <1>1, <1>2, <2>1, <2>3, <3>1 DEF rule, isEnd, Rules!Stronger, newNode
    <2> QED
      BY Zenon, <2>2, <2>3
  <1>3. CASE x # d
    <2>1. CASE x \in DOMAIN t
      BY Zenon, <1>1, <1>3, <2>1 DEF withDomain, rule, isEnd
    <2>2. CASE x \notin DOMAIN t
      BY Zenon, <1>1, <1>3, <2>2 DEF withDomain, rule, isEnd, newNode
    <2> QED
      BY Zenon, <2>1, <2>2
  <1> QED
    BY Zenon, <1>2, <1>3

\* What Remove makes of the nodes.
Removed(t, d) ==
    LET unset == [t EXCEPT ![d] = newNode]
    IN [p \in DOMAIN t \ orphans(unset, d) |-> unset[p]]

\* Remove takes the rule of its domain and no other's, whatever nodes it deletes.
LEMMA RemovedRules ==
  ASSUME NEW t, WildEnds(t), NEW d \in Domains, isEnd(t, d)
  PROVE  /\ WildEnds(Removed(t, d))
         /\ \A x \in Domains : rule(Removed(t, d), x) = IF x = d THEN "none" ELSE rule(t, x)
  <1> DEFINE unset == [t EXCEPT ![d] = newNode]
             gone  == orphans(unset, d)
  <1>1. \A p \in DOMAIN t : unset[p] = IF p = d THEN newNode ELSE t[p]
    BY Zenon
  <1>2. /\ DOMAIN Removed(t, d) = DOMAIN t \ gone
        /\ \A p \in DOMAIN t \ gone : Removed(t, d)[p] = unset[p]
    BY Zenon DEF Removed
  <1>3. newNode \in Node /\ ~newNode.isWild /\ ~newNode.isEnd
    BY Zenon DEF newNode, Node
  <1>4. \A x \in Domains : x \in gone => ~unset[x].isEnd
    <2> SUFFICES ASSUME NEW x \in Domains, x \in gone PROVE ~unset[x].isEnd
      BY Zenon
    <2>1. Len(x) >= Len(x)
      BY PathFacts
    <2> QED
      BY Zenon, <2>1 DEF orphans
  <1> HIDE DEF gone, unset
  <1>5. WildEnds(Removed(t, d))
    BY Zenon, <1>1, <1>2, <1>3 DEF WildEnds
  <1>6. ASSUME NEW x \in Domains
        PROVE  rule(Removed(t, d), x) = IF x = d THEN "none" ELSE rule(t, x)
    BY Zenon, <1>1, <1>2, <1>3, <1>4 DEF rule, isEnd
  <1> QED
    BY Zenon, <1>5, <1>6

\* A merged trie has the stronger rule of the two for every domain.
LEMMA MergedRules ==
  ASSUME NEW t, NEW u, WildEnds(t), WildEnds(u)
  PROVE  /\ WildEnds(merged(t, u))
         /\ \A x : rule(merged(t, u), x) =
              IF rule(u, x) = "none" THEN rule(t, x)
              ELSE Rules!Stronger(rule(t, x), rule(u, x) = "wildcard")
  <1> DEFINE m == merged(t, u)
  <1>1. /\ DOMAIN m = DOMAIN t \cup DOMAIN u
        /\ \A p \in DOMAIN t \ DOMAIN u : m[p] = t[p]
        /\ \A p \in DOMAIN u \ DOMAIN t : m[p] = u[p]
        /\ \A p \in DOMAIN t \cap DOMAIN u :
             m[p] = [isEnd  |-> t[p].isEnd \/ u[p].isEnd, isWild |-> t[p].isWild \/ u[p].isWild]
    BY Zenon DEF merged
  <1> HIDE DEF m
  <1>2. ASSUME NEW p \in DOMAIN t \cap DOMAIN u
        PROVE  /\ m[p] \in Node
               /\ m[p].isEnd = (t[p].isEnd \/ u[p].isEnd)
               /\ m[p].isWild = (t[p].isWild \/ u[p].isWild)
    BY <1>1 DEF WildEnds, Node
  <1>3. WildEnds(m)
    BY Zenon, <1>1, <1>2 DEF WildEnds
  <1>4. ASSUME NEW x
        PROVE  rule(m, x) = IF rule(u, x) = "none" THEN rule(t, x)
                            ELSE Rules!Stronger(rule(t, x), rule(u, x) = "wildcard")
    <2>1. CASE x \in DOMAIN t /\ x \in DOMAIN u
      BY Zenon, <1>1, <1>2, <2>1 DEF WildEnds, rule, isEnd, Rules!Stronger
    <2>2. CASE x \in DOMAIN t /\ x \notin DOMAIN u
      BY Zenon, <1>1, <2>2 DEF rule, isEnd
    <2>3. CASE x \notin DOMAIN t
      BY Zenon, <1>1, <2>3 DEF WildEnds, rule, isEnd, Rules!Stronger
    <2> QED
      BY Zenon, <2>1, <2>2, <2>3
  <1> QED
    BY Zenon, <1>3, <1>4 DEF m

-----------------------------------------------------------------------------
(* The steps                                                               *)

\* A line of a list adds a domain to the parser's trie, or nothing.
LEMMA LineAdds ==
  ASSUME NEW text, NEW means, NEW entry, ParseLine(text, means, entry)
  PROVE  UNCHANGED vars \/ \E d : \E wildcard \in BOOLEAN : ParserAdd(d, wildcard)
  BY Zenon DEF ParseLine

\* The steps of trie and parser, less what the parser keeps to itself.
LEMMA TrieSteps ==
  ASSUME [PNext]_<<vars, parser>>
  PROVE  \/ \E d \in Domains, wildcard \in BOOLEAN : Add(d, wildcard)
         \/ \E d \in Domains : Remove(d)
         \/ Clear \/ Merge \/ ParserNew
         \/ \E d : \E wildcard \in BOOLEAN : ParserAdd(d, wildcard)
         \/ UNCHANGED vars
  <1>1. CASE Operate
    BY Zenon, <1>1 DEF Operate
  <1>2. CASE Parse
    BY Zenon, <1>2, LineAdds DEF Parse, ParseBegin, ParseEntry, ParseOther, ParseRemark, ParseEnd,
                          ParseFails
  <1> QED
    BY Zenon, <1>1, <1>2 DEF PNext

\* The rules of a trie.
RulesOf(t) == [d \in Domains |-> rule(t, d)]

\* Initially there are no rules.
LEMMA InitRefines == PInit => FlagInv /\ Rules!Init
  BY Zenon, EmptyRules DEF PInit, Init, FlagInv, Rules!Init, Rules!NoRules

\* Every step keeps the flags in order and is a step on rules, or none.
LEMMA StepRefines ==
  ASSUME FlagInv, [PNext]_<<vars, parser>>
  PROVE  FlagInv' /\ [Rules!Next]_(Rules!vars)
  <1> USE DEF FlagInv
  <1>1. ASSUME NEW d \in Domains, NEW wildcard \in BOOLEAN, Add(d, wildcard)
        PROVE  FlagInv' /\ Rules!AddRule(d, wildcard)
    <2>1. trie' = withDomain(trie, d, wildcard) /\ UNCHANGED other
      BY Zenon, <1>1 DEF Add
    <2>2. FlagInv'
      BY Zenon, <2>1, WithDomainFlags
    <2>3. RulesOf(trie') = [RulesOf(trie) EXCEPT ![d] = Rules!Stronger(@, wildcard)]
      <3>1. \A x \in Domains : rule(trie', x) =
              IF x = d THEN Rules!Stronger(rule(trie, d), wildcard) ELSE rule(trie, x)
        BY <2>1, WithDomainRules
      <3> QED
        BY Zenon, <3>1 DEF RulesOf
    <2> QED
      BY Zenon, <2>1, <2>2, <2>3 DEF RulesOf, Rules!AddRule
  <1>2. ASSUME NEW d \in Domains, Remove(d) PROVE FlagInv' /\ Rules!RemoveRule(d)
    <2>1. isEnd(trie, d) /\ trie' = Removed(trie, d) /\ UNCHANGED other
      BY Zenon, <1>2 DEF Remove, Removed
    <2>2. FlagInv'
      BY Zenon, <2>1, RemovedRules
    <2>3. RulesOf(trie') = [RulesOf(trie) EXCEPT ![d] = "none"]
      BY Zenon, <2>1, RemovedRules DEF RulesOf
    <2> QED
      BY Zenon, <2>1, <2>2, <2>3 DEF RulesOf, Rules!RemoveRule
  <1>3. CASE Clear
    <2>1. trie' = Empty /\ UNCHANGED other
      BY Zenon, <1>3 DEF Clear
    <2>2. FlagInv' /\ Rules!ClearRules
      BY Zenon, <2>1, EmptyRules DEF Rules!ClearRules, Rules!NoRules
    <2> QED
      BY Zenon, <2>2 DEF Rules!Next
  <1>4. CASE Merge
    <2>1. trie' = merged(trie, other) /\ UNCHANGED other
      BY Zenon, <1>4 DEF Merge
    <2>2. FlagInv'
      BY Zenon, <2>1, MergedRules
    <2>3. RulesOf(trie') =
            [d \in Domains |-> IF RulesOf(other)[d] = "none" THEN RulesOf(trie)[d]
                               ELSE Rules!Stronger(RulesOf(trie)[d], RulesOf(other)[d] = "wildcard")]
      BY <2>1, MergedRules DEF RulesOf
    <2>4. Rules!MergeRules
      BY Zenon, <2>1, <2>3 DEF RulesOf, Rules!MergeRules
    <2> QED
      BY Zenon, <2>2, <2>4 DEF Rules!Next
  <1>5. CASE ParserNew
    <2>1. other' = Empty /\ UNCHANGED trie
      BY Zenon, <1>5 DEF ParserNew
    <2>2. FlagInv' /\ Rules!ParseNew
      BY Zenon, <2>1, EmptyRules DEF Rules!ParseNew, Rules!NoRules
    <2> QED
      BY Zenon, <2>2 DEF Rules!Next
  <1>6. ASSUME NEW d, NEW wildcard \in BOOLEAN, ParserAdd(d, wildcard)
        PROVE  FlagInv' /\ [Rules!Next]_(Rules!vars)
    <2>1. other' = withDomain(other, d, wildcard) /\ UNCHANGED trie
      BY Zenon, <1>6 DEF ParserAdd
    <2>2. FlagInv'
      BY Zenon, <2>1, WithDomainFlags
    <2>3. \A x \in Domains : rule(other', x) =
            IF x = d THEN Rules!Stronger(rule(other, d), wildcard) ELSE rule(other, x)
      BY <2>1, WithDomainRules
    <2>4. CASE d \in Domains
      <3>1. RulesOf(other') = [RulesOf(other) EXCEPT ![d] = Rules!Stronger(@, wildcard)]
        BY Zenon, <2>3, <2>4 DEF RulesOf
      <3>2. Rules!ParseRule(d, wildcard)
        BY Zenon, <2>1, <3>1 DEF RulesOf, Rules!ParseRule
      <3> QED
        BY Zenon, <2>2, <2>4, <3>2 DEF Rules!Next
    <2>5. CASE d \notin Domains
      <3>1. RulesOf(other') = RulesOf(other)
        BY Zenon, <2>3, <2>5 DEF RulesOf
      <3> QED
        BY Zenon, <2>1, <2>2, <3>1 DEF RulesOf, Rules!vars
    <2> QED
      BY Zenon, <2>4, <2>5
  <1>7. CASE UNCHANGED vars
    BY Zenon, <1>7 DEF vars, Rules!vars
  <1> QED
    BY Zenon, <1>1, <1>2, <1>3, <1>4, <1>5, <1>6, <1>7, TrieSteps DEF Rules!Next

\* A trie that is added to, removed from, cleared, merged into and parsed in any
\* order behaves like a set of rules.
THEOREM Refinement == PSpec => ImplementsRules
  <1>1. FlagInv /\ [PNext]_<<vars, parser>> => FlagInv' /\ [Rules!Next]_(Rules!vars)
    BY Zenon, StepRefines
  <1> QED
    BY <1>1, InitRefines, PTL DEF PSpec, ImplementsRules, Rules!Spec
-----------------------------------------------------------------------------
(* The shape of the tries                                                  *)

ends(t) == {d \in Domains : isEnd(t, d)}

\* A tree of domains, every branch of which ends in a domain that is in the set.
WellGrown(t) ==
    /\ Trie(t) /\ WildEnds(t)
    /\ \A p \in DOMAIN t : t[p].isEnd \/ Children(t, p) # {}
    /\ IsFiniteSet(ends(t))

ShapeInv ==
    /\ WellGrown(trie) /\ WellGrown(other)
    /\ size = Cardinality(ends(trie))
    /\ format \in Formats \cup {"auto"} /\ kind \in Formats
\* A node's parents are prefixes of it, and have its parents.
LEMMA PathOf ==
  ASSUME NEW d \in Domains, NEW p \in Path(d)
  PROVE  /\ p \in Domains /\ Len(p) \in 1..Len(d) /\ p = SubSeq(d, 1, Len(p))
         /\ Path(p) \subseteq Path(d)
  <1>1. PICK i \in 1..Len(d) : p = SubSeq(d, 1, i)
    BY Zenon DEF Path
  <1>2. /\ p \in Domains /\ Len(p) = i /\ Len(d) \in Nat
        /\ \A j \in 1..i : SubSeq(p, 1, j) = SubSeq(d, 1, j)
    BY Zenon, <1>1, PathFacts
  <1>3. \A j \in 1..i : j \in 1..Len(d)
    BY <1>2
  <1>4. Path(p) \subseteq Path(d)
    BY Zenon, <1>2, <1>3 DEF Path
  <1> QED
    BY Zenon, <1>1, <1>2, <1>4

\* A node is on the path of its children.
LEMMA ChildPath ==
  ASSUME NEW t, NEW p \in Domains, NEW q \in Domains, q \in Children(t, p)
  PROVE  p \in Path(q) /\ Len(q) = Len(p) + 1
  <1>1. Len(q) = Len(p) + 1 /\ SubSeq(q, 1, Len(p)) = p
    BY Zenon DEF Children
  <1>2. Len(p) \in 1..Len(q)
    BY <1>1, PathFacts
  <1> QED
    BY Zenon, <1>1, <1>2 DEF Path

\* The next node of a path is a child.
LEMMA NextChild ==
  ASSUME NEW t, NEW d \in Domains, NEW i \in 1..(Len(d) - 1), SubSeq(d, 1, i + 1) \in DOMAIN t
  PROVE  SubSeq(d, 1, i + 1) \in Children(t, SubSeq(d, 1, i))
  <1>1. i \in 1..Len(d) /\ i + 1 \in 1..Len(d) /\ i \in 1..(i + 1)
    BY PathFacts
  <1>2. /\ Len(SubSeq(d, 1, i)) = i /\ Len(SubSeq(d, 1, i + 1)) = i + 1
        /\ SubSeq(SubSeq(d, 1, i + 1), 1, i) = SubSeq(d, 1, i)
    BY Zenon, <1>1, PathFacts
  <1> QED
    BY Zenon, <1>2 DEF Children

\* A trie has an endpoint where it has a rule.
LEMMA EndsAreRules == \A t, x : isEnd(t, x) <=> rule(t, x) # "none"
  BY Zenon DEF rule

\* The empty trie.
LEMMA EmptyGrown == WellGrown(Empty) /\ ends(Empty) = {}
  <1>1. DOMAIN Empty = {} /\ WildEnds(Empty)
    BY Zenon, EmptyRules DEF Empty
  <1>2. ends(Empty) = {}
    BY Zenon, <1>1 DEF ends, isEnd
  <1> QED
    BY Zenon, <1>1, <1>2, FS_EmptySet DEF WellGrown, Trie

\* Add grows one branch, to a domain of the set.
LEMMA WithDomainGrown ==
  ASSUME NEW t, WellGrown(t), NEW d \in Domains, NEW wildcard \in BOOLEAN
  PROVE  /\ WellGrown(withDomain(t, d, wildcard))
         /\ ends(withDomain(t, d, wildcard)) = ends(t) \cup {d}
  <1> DEFINE u == withDomain(t, d, wildcard)
  <1>1. /\ DOMAIN u = DOMAIN t \cup Path(d)
        /\ \A p \in DOMAIN t : p # d => u[p] = t[p]
        /\ u[d].isEnd
    <2>1. DOMAIN u = DOMAIN t \cup Path(d)
      BY Zenon DEF withDomain
    <2>2. \A p \in DOMAIN t : p # d => u[p] = t[p]
      BY Zenon DEF withDomain
    <2>3. u[d].isEnd
      BY Zenon, PathFacts DEF withDomain
    <2> QED
      BY Zenon, <2>1, <2>2, <2>3
  <1>2. WildEnds(t) /\ Trie(t) /\ IsFiniteSet(ends(t))
    BY Zenon DEF WellGrown
  <1>3. WildEnds(u)
    BY Zenon, <1>2, WithDomainFlags
  <1>4. ASSUME NEW x \in Domains PROVE isEnd(u, x) <=> isEnd(t, x) \/ x = d
    <2>1. rule(u, x) = IF x = d THEN Rules!Stronger(rule(t, d), wildcard) ELSE rule(t, x)
      BY ZenonT(60), <1>2, WithDomainRules
    <2>2. Rules!Stronger(rule(t, d), wildcard) # "none"
      BY Zenon DEF Rules!Stronger
    <2> HIDE DEF u
    <2> QED
      BY Zenon, <2>1, <2>2, EndsAreRules
  <1> HIDE DEF u
  <1>5. ends(u) = ends(t) \cup {d}
    BY Zenon, <1>4 DEF ends
  <1>6. Trie(u)
    <2>1. \A p \in DOMAIN u : p \in Domains /\ Path(p) \subseteq DOMAIN u
      BY Zenon, <1>1, <1>2, PathOf DEF Trie
    <2>2. \A p \in DOMAIN u : u[p] \in Node
      BY Zenon, <1>3 DEF WildEnds
    <2> QED
      BY Zenon, <2>1, <2>2 DEF Trie
  <1>7. ASSUME NEW p \in DOMAIN u PROVE u[p].isEnd \/ Children(u, p) # {}
    <2>1. CASE p = d
      BY Zenon, <1>1, <2>1
    <2>2. CASE p # d /\ p \in Path(d)
      <3>1. PICK i \in 1..Len(d) : p = SubSeq(d, 1, i)
        BY Zenon, <2>2 DEF Path
      <3>2. Len(d) \in Nat /\ i # Len(d)
        BY Zenon, <2>2, <3>1, PathFacts
      <3>3. i \in 1..(Len(d) - 1) /\ i + 1 \in 1..Len(d)
        BY <3>2
      <3>4. SubSeq(d, 1, i + 1) \in DOMAIN u
        BY Zenon, <1>1, <3>3 DEF Path
      <3> QED
        BY Zenon, <3>1, <3>3, <3>4, NextChild
    <2>3. CASE p # d /\ p \in DOMAIN t
      <3>1. Children(t, p) \subseteq Children(u, p)
        BY Zenon, <1>1 DEF Children
      <3> QED
        BY Zenon, <1>1, <2>3, <3>1 DEF WellGrown
    <2> QED
      BY Zenon, <1>1, <2>1, <2>2, <2>3
  <1>8. IsFiniteSet(ends(u))
    BY Zenon, <1>2, <1>5, FS_AddElement
  <1> QED
    BY Zenon, <1>3, <1>5, <1>6, <1>7, <1>8 DEF WellGrown, u

\* Merge grows the branches of both.
LEMMA MergedGrown ==
  ASSUME NEW t, NEW u, WellGrown(t), WellGrown(u)
  PROVE  WellGrown(merged(t, u)) /\ ends(merged(t, u)) = ends(t) \cup ends(u)
  <1> DEFINE m == merged(t, u)
  <1>1. /\ WildEnds(t) /\ Trie(t) /\ IsFiniteSet(ends(t))
        /\ WildEnds(u) /\ Trie(u) /\ IsFiniteSet(ends(u))
    BY Zenon DEF WellGrown
  <1>2. DOMAIN m = DOMAIN t \cup DOMAIN u
    BY Zenon DEF merged
  <1>3. /\ WildEnds(m)
        /\ \A x : rule(m, x) = IF rule(u, x) = "none" THEN rule(t, x)
                               ELSE Rules!Stronger(rule(t, x), rule(u, x) = "wildcard")
    BY Zenon, <1>1, MergedRules
  <1> HIDE DEF m
  <1>4. ASSUME NEW x PROVE isEnd(m, x) <=> isEnd(t, x) \/ isEnd(u, x)
    <2>1. Rules!Stronger(rule(t, x), rule(u, x) = "wildcard") # "none"
      BY Zenon DEF Rules!Stronger
    <2>2. CASE rule(u, x) = "none"
      <3>1. rule(m, x) = rule(t, x)
        BY Zenon, <1>3, <2>2
      <3> QED
        BY Zenon, <2>2, <3>1, EndsAreRules
    <2>3. CASE rule(u, x) # "none"
      <3>1. rule(m, x) # "none"
        BY Zenon, <1>3, <2>1, <2>3
      <3> QED
        BY Zenon, <2>3, <3>1, EndsAreRules
    <2> QED
      BY Zenon, <2>2, <2>3
  <1>5. ends(m) = ends(t) \cup ends(u)
    BY Zenon, <1>4 DEF ends
  <1>6. Trie(m)
    BY Zenon, <1>1, <1>2, <1>3 DEF Trie, WildEnds
  <1>7. ASSUME NEW p \in DOMAIN m PROVE m[p].isEnd \/ Children(m, p) # {}
    <2>1. Children(t, p) \subseteq Children(m, p) /\ Children(u, p) \subseteq Children(m, p)
      BY Zenon, <1>2 DEF Children
    <2>2. isEnd(m, p) <=> m[p].isEnd
      BY Zenon DEF isEnd
    <2> QED
      BY Zenon, <1>2, <1>4, <2>1, <2>2 DEF WellGrown, isEnd
  <1>8. IsFiniteSet(ends(m))
    BY Zenon, <1>1, <1>5, FS_Union
  <1> QED
    BY Zenon, <1>3, <1>5, <1>6, <1>7, <1>8 DEF WellGrown, m
\* The nodes Remove deletes, by their length: from some length on, all of the
\* path is bare.
LEMMA OrphanFacts ==
  ASSUME NEW t, NEW d \in Domains, NEW i \in 1..Len(d)
  PROVE  SubSeq(d, 1, i) \in orphans(t, d) <=>
           \A j \in i..Len(d) :
              /\ ~t[SubSeq(d, 1, j)].isEnd /\ ~t[SubSeq(d, 1, j)].isWild
              /\ Children(t, SubSeq(d, 1, j)) \subseteq Path(d)
  <1>1. \A j \in 1..Len(d) : Len(SubSeq(d, 1, j)) = j
    BY Zenon, PathFacts
  <1>2. Path(d) = {SubSeq(d, 1, j) : j \in 1..Len(d)}
    BY Zenon DEF Path
  <1>3. \A j \in 1..Len(d) : j >= i <=> j \in i..Len(d)
    BY PathFacts
  <1>4. \A j \in i..Len(d) : j \in 1..Len(d)
    BY PathFacts
  <1> DEFINE Bare(q) == ~t[q].isEnd /\ ~t[q].isWild /\ Children(t, q) \subseteq Path(d)
  <1>5. SubSeq(d, 1, i) \in orphans(t, d) <=>
          \A q \in Path(d) : Len(q) >= Len(SubSeq(d, 1, i)) => Bare(q)
    BY Zenon, <1>2 DEF orphans
  <1> HIDE DEF Bare
  <1>6. (\A q \in Path(d) : Len(q) >= Len(SubSeq(d, 1, i)) => Bare(q)) <=>
          \A j \in i..Len(d) : Bare(SubSeq(d, 1, j))
    BY Zenon, <1>1, <1>2, <1>3, <1>4
  <1> QED
    BY Zenon, <1>5, <1>6 DEF Bare

\* Below a deleted node there is nothing but deleted nodes.
LEMMA OrphansBelow ==
  ASSUME NEW t, Trie(t), NEW d \in Domains, NEW p \in DOMAIN t, NEW q \in Path(p),
         q \in orphans(t, d)
  PROVE  p \in orphans(t, d)
  <1>1. p \in Domains /\ Path(p) \subseteq DOMAIN t
    BY Zenon DEF Trie
  <1>2. q \in Path(d)
    BY Zenon DEF orphans
  <1> DEFINE n == Len(q)
             T == {j \in n..Len(p) : SubSeq(p, 1, j) \notin Path(d)}
  <1>3. /\ n \in 1..Len(p) /\ q = SubSeq(p, 1, n) /\ Len(p) \in Nat
        /\ n \in 1..Len(d) /\ q = SubSeq(d, 1, n) /\ Len(d) \in Nat
    BY Zenon, <1>1, <1>2, PathOf, PathFacts
  <1> HIDE DEF n
  <1>4. \A j \in n..Len(d) : Children(t, SubSeq(d, 1, j)) \subseteq Path(d)
    BY Zenon, <1>3, OrphanFacts
  <1>5. T = {}
    <2> SUFFICES ASSUME T # {} PROVE FALSE
      BY Zenon
    <2>1. T \in SUBSET Nat
      BY <1>3
    <2>2. PICK m \in T : \A j \in T : ~(<<j, m>> \in OpToRel(<, Nat))
      BY Zenon, <2>1, NatLessThanWellFounded, WFMin
    <2>3. m \in n..Len(p) /\ SubSeq(p, 1, m) \notin Path(d)
      BY Zenon
    <2>4. m # n
      BY Zenon, <1>2, <1>3, <2>3
    <2>5. /\ m - 1 \in n..Len(p) /\ m - 1 \in 1..(Len(p) - 1) /\ m - 1 \in 1..Len(p)
          /\ (m - 1) + 1 = m /\ m \in 1..Len(p) /\ m - 1 < m /\ m - 1 \in Nat /\ m \in Nat
      BY <1>3, <2>3, <2>4
    <2>6. SubSeq(p, 1, m - 1) \in Path(d)
      <3>1. m - 1 \notin T
        BY Zenon, <2>2, <2>5 DEF OpToRel
      <3> QED
        BY Zenon, <2>5, <3>1
    <2>7. SubSeq(p, 1, m) \in DOMAIN t
      BY Zenon, <1>1, <2>5 DEF Path
    <2>8. SubSeq(p, 1, m) \in Children(t, SubSeq(p, 1, m - 1))
      BY Zenon, <1>1, <2>5, <2>7, NextChild
    <2>9. Len(SubSeq(p, 1, m - 1)) = m - 1
      BY Zenon, <1>1, <2>5, PathFacts
    <2>10. SubSeq(p, 1, m - 1) = SubSeq(d, 1, m - 1) /\ m - 1 \in 1..Len(d)
      <3> DEFINE r == SubSeq(p, 1, m - 1)
      <3>1. r \in Path(d) /\ Len(r) = m - 1
        BY Zenon, <2>6, <2>9
      <3> HIDE DEF r
      <3>2. r = SubSeq(d, 1, Len(r)) /\ Len(r) \in 1..Len(d)
        BY Zenon, <3>1, PathOf
      <3>3. r = SubSeq(d, 1, m - 1) /\ m - 1 \in 1..Len(d)
        BY Zenon, <3>1, <3>2
      <3> QED
        BY Zenon, <3>3 DEF r
    <2>11. m - 1 \in n..Len(d)
      BY <1>3, <2>5, <2>10
    <2> QED
      BY Zenon, <1>4, <2>3, <2>8, <2>10, <2>11
  <1>6. Len(p) \in n..Len(p)
    BY <1>3
  <1>7. p \in Path(d)
    <2>1. SubSeq(p, 1, Len(p)) \in Path(d)
      BY Zenon, <1>5, <1>6
    <2>2. SubSeq(p, 1, Len(p)) = p
      BY Zenon, <1>1, PathFacts
    <2> QED
      BY Zenon, <2>1, <2>2
  <1>8. Len(p) \in 1..Len(d) /\ p = SubSeq(d, 1, Len(p))
    BY Zenon, <1>7, PathOf
  <1>9. \A j \in Len(p)..Len(d) : j \in n..Len(d)
    BY <1>3
  <1> QED
    BY Zenon, <1>3, <1>8, <1>9, OrphanFacts

\* Remove cuts a branch back to the next domain or fork, and no further.
LEMMA RemovedGrown ==
  ASSUME NEW t, WellGrown(t), NEW d \in Domains, isEnd(t, d)
  PROVE  WellGrown(Removed(t, d)) /\ ends(Removed(t, d)) = ends(t) \ {d}
  <1> DEFINE v    == [t EXCEPT ![d] = newNode]
             gone == orphans(v, d)
             u    == Removed(t, d)
  <1>1. WildEnds(t) /\ Trie(t) /\ IsFiniteSet(ends(t)) /\ d \in DOMAIN t
    BY Zenon DEF WellGrown, isEnd
  <1>2. /\ DOMAIN v = DOMAIN t
        /\ \A p \in DOMAIN t : v[p] = IF p = d THEN newNode ELSE t[p]
    BY Zenon
  <1>3. DOMAIN u = DOMAIN t \ gone /\ \A p \in DOMAIN u : u[p] = v[p]
    BY Zenon DEF Removed
  <1>4. /\ WildEnds(u)
        /\ \A x \in Domains : rule(u, x) = IF x = d THEN "none" ELSE rule(t, x)
    BY Zenon, <1>1, RemovedRules
  <1> HIDE DEF u, v
  <1>5. ends(u) = ends(t) \ {d}
    BY Zenon, <1>4, EndsAreRules DEF ends
  <1>6. Trie(v)
    <2>1. newNode \in Node
      BY Zenon DEF newNode, Node
    <2> QED
      BY Zenon, <1>1, <1>2, <2>1 DEF Trie
  <1>7. gone \subseteq Path(d)
    BY Zenon DEF orphans
  <1>8. Trie(u)
    <2>1. ASSUME NEW p \in DOMAIN u PROVE p \in Domains /\ Path(p) \subseteq DOMAIN u
      <3>1. p \in DOMAIN t /\ p \notin gone /\ p \in Domains /\ Path(p) \subseteq DOMAIN t
        BY Zenon, <1>1, <1>3 DEF Trie
      <3>2. ASSUME NEW q \in Path(p) PROVE q \notin gone
        BY Zenon, <1>2, <1>6, <3>1, OrphansBelow
      <3> QED
        BY Zenon, <1>3, <3>1, <3>2
    <2> QED
      BY Zenon, <1>4, <2>1 DEF Trie, WildEnds
  <1>9. \A p \in DOMAIN v : v[p].isWild => v[p].isEnd
    BY <1>1, <1>2 DEF WildEnds, newNode
  <1>10. ASSUME NEW p \in DOMAIN u PROVE u[p].isEnd \/ Children(u, p) # {}
    <2>1. p \in DOMAIN t /\ p \notin gone /\ p \in Domains /\ u[p] = v[p]
      BY Zenon, <1>1, <1>3 DEF Trie
    <2>2. \A q : q \in DOMAIN u /\ q \in Children(v, p) => q \in Children(u, p)
      BY Zenon DEF Children
    <2>3. \A q \in Children(v, p) : q \in DOMAIN t /\ q \in Domains
      BY Zenon, <1>1, <1>2 DEF Children, Trie
    <2>4. CASE p \notin Path(d)
      <3>1. v[p] = t[p]
        BY Zenon, <1>2, <2>1, <2>4, PathFacts
      <3>2. CASE t[p].isEnd
        BY Zenon, <2>1, <3>1, <3>2
      <3>3. CASE ~t[p].isEnd
        <4>1. PICK q : q \in Children(t, p)
          BY Zenon, <2>1, <3>3 DEF WellGrown
        <4>2. q \in Children(v, p)
          BY Zenon, <1>2, <4>1 DEF Children
        <4>3. p \in Path(q)
          BY Zenon, <2>1, <2>3, <4>2, ChildPath
        <4>4. q \notin Path(d)
          BY Zenon, <2>4, <4>3, PathOf
        <4> QED
          BY Zenon, <1>3, <1>7, <2>2, <2>3, <4>2, <4>4
      <3> QED
        BY Zenon, <3>2, <3>3
    <2>5. CASE p \in Path(d)
      <3> DEFINE i == Len(p)
      <3>1. i \in 1..Len(d) /\ p = SubSeq(d, 1, i) /\ Len(d) \in Nat
        BY Zenon, <2>5, PathOf, PathFacts
      <3> HIDE DEF i
      <3>2. PICK j \in i..Len(d) :
              \/ v[SubSeq(d, 1, j)].isEnd \/ v[SubSeq(d, 1, j)].isWild
              \/ ~(Children(v, SubSeq(d, 1, j)) \subseteq Path(d))
        BY Zenon, <2>1, <3>1, OrphanFacts
      <3>3. CASE j = i
        <4>1. CASE v[p].isEnd \/ v[p].isWild
          BY Zenon, <1>2, <1>9, <2>1, <4>1
        <4>2. CASE ~(Children(v, p) \subseteq Path(d))
          BY Zenon, <1>3, <1>7, <2>2, <2>3, <4>2
        <4> QED
          BY Zenon, <3>1, <3>2, <3>3, <4>1, <4>2
      <3>4. CASE j # i
        <4>1. /\ i \in 1..(Len(d) - 1) /\ i + 1 \in 1..Len(d) /\ j \in (i + 1)..Len(d)
          BY <3>1, <3>2, <3>4
        <4>2. SubSeq(d, 1, i + 1) \notin gone
          BY Zenon, <3>2, <4>1, OrphanFacts
        <4>3. SubSeq(d, 1, i + 1) \in DOMAIN t
          BY Zenon, <1>1, <4>1 DEF Trie, Path
        <4>4. SubSeq(d, 1, i + 1) \in DOMAIN u
          BY Zenon, <1>3, <4>2, <4>3
        <4> QED
          BY Zenon, <3>1, <4>1, <4>4, NextChild
      <3> QED
        BY Zenon, <3>3, <3>4
    <2> QED
      BY Zenon, <2>4, <2>5
  <1>11. IsFiniteSet(ends(u))
    BY ZenonT(60), <1>1, <1>5, FS_RemoveElement
  <1> QED
    BY Zenon, <1>4, <1>5, <1>8, <1>10, <1>11 DEF WellGrown, u
-----------------------------------------------------------------------------
(* The steps of the tries                                                  *)

\* What a line adds is one of the domains.
LEMMA LineDomain ==
  ASSUME format \in Formats \cup {"auto"}, NEW text,
         \A f \in Formats \cup {"auto"} : parseLine(TrimSpace(text), f) \in Domains \cup {<<>>},
         NEW means, NEW entry, ParseLine(text, means, entry)
  PROVE  /\ UNCHANGED vars \/ \E d \in Domains : \E wildcard \in BOOLEAN : ParserAdd(d, wildcard)
         /\ format' \in Formats \cup {"auto"} /\ kind' = kind
  <1> DEFINE line == TrimSpace(text)
             f    == IF format = "auto" /\ line # <<>> THEN detectFormat(line) ELSE format
             d    == IF line = <<>> THEN <<>> ELSE parseLine(line, f)
  <1>1. /\ format' = f /\ kind' = kind
        /\ IF d = <<>> THEN UNCHANGED vars ELSE ParserAdd(d, TRUE)
    BY Zenon DEF ParseLine
  <1>2. detectFormat(line) \in Formats \cup {"auto"}
    BY Zenon DEF detectFormat, Formats
  <1>3. f \in Formats \cup {"auto"}
    BY Zenon, <1>2
  <1>4. parseLine(line, f) \in Domains \cup {<<>>}
    BY Zenon, <1>3
  <1> HIDE DEF f
  <1> QED
    BY Zenon, <1>1, <1>3, <1>4
\* The steps of trie and parser again, with what the parser adds.
LEMMA ShapeSteps ==
  ASSUME ShapeInv, [PNext]_<<vars, parser>>
  PROVE  /\ format' \in Formats \cup {"auto"} /\ kind' \in Formats
         /\ \/ \E d \in Domains, wildcard \in BOOLEAN : Add(d, wildcard)
            \/ \E d \in Domains : Remove(d)
            \/ Clear \/ Merge \/ ParserNew
            \/ \E d \in Domains : \E wildcard \in BOOLEAN : ParserAdd(d, wildcard)
            \/ UNCHANGED vars
  <1>1. kind \in Formats /\ format \in Formats \cup {"auto"}
    BY Zenon DEF ShapeInv
  <1>2. CASE Operate
    BY Zenon, <1>1, <1>2 DEF Operate, parser
  <1>3. CASE \E k \in Formats : \E f \in {k, "auto"} : ParseBegin(k, f)
    BY Zenon, <1>1, <1>3 DEF ParseBegin
  <1>4. CASE ParseEnd \/ ParseFails
    BY Zenon, <1>1, <1>4 DEF ParseEnd, ParseFails
  <1>5. ASSUME NEW name \in Names, ParseEntry(name) \/ ParseOther(name)
        PROVE  \E text, means, entry :
                 /\ ParseLine(text, means, entry)
                 /\ \A f \in Formats \cup {"auto"} : parseLine(TrimSpace(text), f) \in Domains \cup {<<>>}
    <2>1. PICK text \in entries(kind, name) \cup others(kind, name) :
             \E means, entry : ParseLine(text, means, entry)
      BY Zenon, <1>5 DEF ParseEntry, ParseOther
    <2> QED
      BY Zenon, <1>1, <2>1, ListedAssumption
  <1>6. CASE ParseRemark
    BY Zenon, <1>1, <1>6, LineDomain, ListedAssumption DEF ParseRemark
  <1>7. CASE \E name \in Names : ParseEntry(name) \/ ParseOther(name)
    BY Zenon, <1>1, <1>5, <1>7, LineDomain
  <1>8. CASE UNCHANGED <<vars, parser>>
    BY Zenon, <1>1, <1>8 DEF parser
  <1> QED
    BY Zenon, <1>2, <1>3, <1>4, <1>6, <1>7, <1>8 DEF PNext, Parse

\* Two empty tries are in shape.
LEMMA ShapeInit == PInit => ShapeInv
  <1> SUFFICES ASSUME PInit PROVE ShapeInv
    BY Zenon
  <1>1. trie = Empty /\ other = Empty /\ size = 0
    BY Zenon DEF PInit, Init
  <1>2. format \in Formats \cup {"auto"} /\ kind \in Formats
    BY Zenon DEF PInit, Formats
  <1> QED
    BY Zenon, <1>1, <1>2, EmptyGrown, FS_EmptySet DEF ShapeInv

\* Every step keeps the tries in shape and the size right.
LEMMA ShapeNext ==
  ASSUME ShapeInv, [PNext]_<<vars, parser>>
  PROVE  ShapeInv'
  <1> USE DEF ShapeInv
  <1>0. WellGrown(trie) /\ WellGrown(other) /\ size = Cardinality(ends(trie)) /\ IsFiniteSet(ends(trie))
    BY Zenon DEF WellGrown
  <1>1. format' \in Formats \cup {"auto"} /\ kind' \in Formats
    BY Zenon, ShapeSteps
  <1>2. ASSUME WellGrown(trie'), WellGrown(other'), size' = Cardinality(ends(trie')) PROVE ShapeInv'
    <2>1. WellGrown(trie)' /\ WellGrown(other)' /\ size' = Cardinality(ends(trie))'
      BY Zenon, <1>2 DEF WellGrown, Trie, WildEnds, Children, ends, isEnd
    <2> QED
      BY Zenon, <1>1, <2>1
  <1>3. ASSUME NEW d \in Domains, NEW wildcard \in BOOLEAN, Add(d, wildcard) PROVE ShapeInv'
    <2>1. /\ trie' = withDomain(trie, d, wildcard) /\ other' = other
          /\ size' = IF isEnd(trie, d) THEN size ELSE size + 1
      BY Zenon, <1>3 DEF Add
    <2>2. WellGrown(trie') /\ ends(trie') = ends(trie) \cup {d}
      BY Zenon, <1>0, <2>1, WithDomainGrown
    <2>3. d \in ends(trie) <=> isEnd(trie, d)
      BY Zenon DEF ends
    <2>4. size' = Cardinality(ends(trie'))
      BY ZenonT(60), <1>0, <2>1, <2>2, <2>3, FS_AddElement
    <2> QED
      BY Zenon, <1>0, <1>2, <2>1, <2>2, <2>4
  <1>4. ASSUME NEW d \in Domains, Remove(d) PROVE ShapeInv'
    <2>1. isEnd(trie, d) /\ trie' = Removed(trie, d) /\ other' = other /\ size' = size - 1
      BY Zenon, <1>4 DEF Remove, Removed
    <2>2. WellGrown(trie') /\ ends(trie') = ends(trie) \ {d}
      BY Zenon, <1>0, <2>1, RemovedGrown
    <2>3. d \in ends(trie)
      BY Zenon, <2>1 DEF ends
    <2>4. size' = Cardinality(ends(trie'))
      BY Zenon, <1>0, <2>1, <2>2, <2>3, FS_RemoveElement
    <2> QED
      BY Zenon, <1>0, <1>2, <2>1, <2>2, <2>4
  <1>5. CASE Clear
    <2>1. trie' = Empty /\ other' = other /\ size' = 0
      BY Zenon, <1>5 DEF Clear
    <2> QED
      BY Zenon, <1>0, <1>2, <2>1, EmptyGrown, FS_EmptySet
  <1>6. CASE Merge
    <2> DEFINE new == {p \in DOMAIN other : other[p].isEnd /\ ~isEnd(trie, p)}
    <2>1. trie' = merged(trie, other) /\ other' = other /\ size' = size + Cardinality(new)
      BY Zenon, <1>6 DEF Merge
    <2>2. WellGrown(trie') /\ ends(trie') = ends(trie) \cup ends(other)
      BY Zenon, <1>0, <2>1, MergedGrown
    <2>3. new = ends(other) \ ends(trie)
      BY Zenon, <1>0 DEF WellGrown, Trie, ends, isEnd
    <2> HIDE DEF new
    <2>4. IsFiniteSet(new) /\ ends(trie') = ends(trie) \cup new /\ ends(trie) \cap new = {}
      BY Zenon, <1>0, <2>2, <2>3, FS_Difference DEF WellGrown
    <2>5. /\ Cardinality(ends(trie) \cup new) =
               Cardinality(ends(trie)) + Cardinality(new) - Cardinality(ends(trie) \cap new)
          /\ Cardinality(ends(trie)) \in Nat /\ Cardinality(new) \in Nat
          /\ Cardinality(ends(trie) \cap new) = 0
      BY Zenon, <1>0, <2>4, FS_Union, FS_CardinalityType, FS_EmptySet
    <2>6. size' = Cardinality(ends(trie'))
      BY <1>0, <2>1, <2>4, <2>5
    <2> QED
      BY Zenon, <1>0, <1>2, <2>1, <2>2, <2>6
  <1>7. CASE ParserNew
    <2>1. other' = Empty /\ trie' = trie /\ size' = size
      BY Zenon, <1>7 DEF ParserNew
    <2> QED
      BY Zenon, <1>0, <1>2, <2>1, EmptyGrown
  <1>8. ASSUME NEW d \in Domains, NEW wildcard \in BOOLEAN, ParserAdd(d, wildcard) PROVE ShapeInv'
    <2>1. other' = withDomain(other, d, wildcard) /\ trie' = trie /\ size' = size
      BY Zenon, <1>8 DEF ParserAdd
    <2> QED
      BY Zenon, <1>0, <1>2, <2>1, WithDomainGrown
  <1>9. CASE UNCHANGED vars
    BY Zenon, <1>0, <1>2, <1>9 DEF vars
  <1> QED
    BY Zenon, <1>3, <1>4, <1>5, <1>6, <1>7, <1>8, <1>9, ShapeSteps

\* Walking the labels finds what comparing suffixes finds.
LEMMA WalkMatches ==
  ASSUME Trie(trie), WildEnds(trie), NEW d \in Domains
  PROVE  Contains(trie, d) <=> Rules!Matches(d)
  <1>1. Rules!Matches(d) <=>
          \/ rule(trie, d) # "none"
          \/ \E a \in Domains : Len(a) < Len(d) /\ SubSeq(d, 1, Len(a)) = a /\ rule(trie, a) = "wildcard"
    BY Zenon DEF Rules!Matches, Rules!Parent
  <1>2. \A a : rule(trie, a) = "wildcard" <=> a \in DOMAIN trie /\ trie[a].isWild
    <2> SUFFICES ASSUME NEW a PROVE rule(trie, a) = "wildcard" <=> a \in DOMAIN trie /\ trie[a].isWild
      BY Zenon
    <2>1. a \in DOMAIN trie => (trie[a].isWild => trie[a].isEnd)
      BY Zenon DEF WildEnds
    <2> QED
      BY Zenon, <2>1 DEF rule, isEnd
  <1>3. Path(d) \subseteq DOMAIN trie /\ trie[d].isEnd <=> rule(trie, d) # "none"
    <2>1. d \in DOMAIN trie => Path(d) \subseteq DOMAIN trie
      BY Zenon DEF Trie
    <2> QED
      BY Zenon, <2>1, PathFacts, EndsAreRules DEF isEnd
  <1>4. ASSUME NEW i \in 1..(Len(d) - 1), \A j \in 1..i : SubSeq(d, 1, j) \in DOMAIN trie,
               trie[SubSeq(d, 1, i)].isWild
        PROVE  \E a \in Domains : Len(a) < Len(d) /\ SubSeq(d, 1, Len(a)) = a /\ rule(trie, a) = "wildcard"
    <2> DEFINE a == SubSeq(d, 1, i)
    <2>1. i \in 1..Len(d) /\ i < Len(d) /\ i \in 1..i
      BY PathFacts
    <2>2. a \in Domains /\ Len(a) = i
      BY Zenon, <2>1, PathFacts
    <2>3. a \in DOMAIN trie
      BY Zenon, <1>4, <2>1
    <2>4. rule(trie, a) = "wildcard"
      BY Zenon, <1>2, <1>4, <2>3
    <2>5. SubSeq(d, 1, Len(a)) = a /\ Len(a) < Len(d)
      BY Zenon, <2>1, <2>2
    <2> QED
      BY Zenon, <2>2, <2>4, <2>5
  <1>5. ASSUME NEW a \in Domains, Len(a) < Len(d), SubSeq(d, 1, Len(a)) = a, rule(trie, a) = "wildcard"
        PROVE  \E i \in 1..(Len(d) - 1) :
                  /\ \A j \in 1..i : SubSeq(d, 1, j) \in DOMAIN trie
                  /\ trie[SubSeq(d, 1, i)].isWild
    <2> DEFINE i == Len(a)
    <2>1. i \in 1..(Len(d) - 1) /\ i \in 1..Len(d)
      BY <1>5, PathFacts
    <2>2. a \in DOMAIN trie /\ trie[a].isWild /\ Path(a) \subseteq DOMAIN trie
      BY Zenon, <1>2, <1>5 DEF Trie
    <2>3. \A j \in 1..i : SubSeq(a, 1, j) = SubSeq(d, 1, j)
      <3>1. \A j \in 1..i : SubSeq(SubSeq(d, 1, i), 1, j) = SubSeq(d, 1, j)
        BY Zenon, <2>1, PathFacts
      <3> QED
        BY Zenon, <1>5, <3>1
    <2>4. \A j \in 1..i : SubSeq(a, 1, j) \in DOMAIN trie
      BY Zenon, <2>2 DEF Path
    <2>5. trie[SubSeq(d, 1, i)].isWild
      BY Zenon, <1>5, <2>2
    <2>6. \A j \in 1..i : SubSeq(d, 1, j) \in DOMAIN trie
      BY Zenon, <2>3, <2>4
    <2> HIDE DEF i
    <2> QED
      BY Zenon, <2>1, <2>5, <2>6
  <1> QED
    BY Zenon, <1>1, <1>3, <1>4, <1>5 DEF Contains

\* After any sequence of additions, removals, merges and parsed lists the tries
\* are trees, the walk answers what comparing suffixes would, Size counts the
\* domains, and no node is left that leads to none.
THEOREM WalkIsSuffixMatch == PSpec => []ContainsMatchesSuffixes
  <1>1. ShapeInv /\ [PNext]_<<vars, parser>> => ShapeInv'
    BY Zenon, ShapeNext
  <1>2. ShapeInv => ContainsMatchesSuffixes
    <2> SUFFICES ASSUME ShapeInv PROVE ContainsMatchesSuffixes
      BY Zenon
    <2>1. /\ Trie(trie) /\ WildEnds(trie) /\ Trie(other) /\ IsFiniteSet(ends(trie))
          /\ size = Cardinality(ends(trie))
          /\ \A p \in DOMAIN trie : trie[p].isEnd \/ Children(trie, p) # {}
      BY Zenon DEF ShapeInv, WellGrown
    <2>2. size \in Nat
      BY Zenon, <2>1, FS_CardinalityType
    <2>3. \A d \in Domains : Contains(trie, d) <=> Rules!Matches(d)
      BY Zenon, <2>1, WalkMatches
    <2> QED
      BY Zenon, <2>1, <2>2, <2>3 DEF ContainsMatchesSuffixes, TypeOK, ends
  <1> QED
    BY <1>1, <1>2, ShapeInit, PTL DEF PSpec

-----------------------------------------------------------------------------
(* What the parser makes of the lines of a list                            *)

\* The text between the first and the last token that is no space.
LEMMA Trimmed ==
  ASSUME NEW S, NEW line \in Seq(S), NEW i \in 1..Len(line), NEW j \in 1..Len(line),
         line[i] # Space, line[j] # Space,
         \A k \in 1..Len(line) : k < i \/ k > j => line[k] = Space
  PROVE  TrimSpace(line) = SubSeq(line, i, j)
  <1> DEFINE solid == {k \in DOMAIN line : line[k] # Space}
             first == CHOOSE k \in solid : \A m \in solid : k <= m
             last  == CHOOSE k \in solid : \A m \in solid : k >= m
  <1>1. DOMAIN line = 1..Len(line) /\ Len(line) \in Nat
    OBVIOUS
  <1>2. i \in solid /\ j \in solid /\ \A k \in solid : k \in Nat /\ i <= k /\ j >= k
    BY <1>1
  <1> HIDE DEF solid
  <1>3. first = i
    <2>1. first \in solid /\ first <= i
      BY Zenon, <1>2
    <2> HIDE DEF first
    <2> QED
      BY <2>1, <1>2
  <1>4. last = j
    <2>1. last \in solid /\ last >= j
      BY Zenon, <1>2
    <2> HIDE DEF last
    <2> QED
      BY <2>1, <1>2
  <1>5. solid # {}
    BY Zenon, <1>2
  <1> QED
    BY Zenon, <1>3, <1>4, <1>5 DEF TrimSpace, solid

\* The text before the first such token.
LEMMA CutAt ==
  ASSUME NEW S, NEW line \in Seq(S), NEW token, NEW i \in 1..Len(line), line[i] = token,
         \A j \in 1..(i - 1) : line[j] # token
  PROVE  upTo(line, token) = SubSeq(line, 1, i - 1)
  <1>1. DOMAIN line = 1..Len(line) /\ Len(line) \in Nat
    OBVIOUS
  <1>2. Has(line, token)
    BY Zenon, <1>1 DEF Has
  <1>3. (CHOOSE k \in DOMAIN line : line[k] = token /\ \A j \in 1..(k - 1) : line[j] # token) = i
    BY <1>1
  <1> QED
    BY Zenon, <1>2, <1>3 DEF upTo

\* The text that has the first token only.
LEMMA FirstToken ==
  ASSUME NEW S, NEW s \in Seq(S), Len(s) > 0
  PROVE  SubSeq(s, 1, 1) = <<s[1]>>
  <1> DEFINE t == SubSeq(s, 1, 1)
  <1>1. t[1] = s[1] /\ Len(t) = 1 /\ t \in Seq(S)
    OBVIOUS
  <1> HIDE DEF t
  <1>2. t = <<t[1]>>
    BY <1>1
  <1> QED
    BY Zenon, <1>1, <1>2 DEF t

\* A text that begins and ends with other tokens than spaces.
LEMMA Untrimmed ==
  ASSUME NEW S, NEW s \in Seq(S), Len(s) > 0, s[1] # Space, s[Len(s)] # Space
  PROVE  TrimSpace(s) = s
  <1>1. /\ 1 \in 1..Len(s) /\ Len(s) \in 1..Len(s)
        /\ \A k \in 1..Len(s) : ~(k < 1 \/ k > Len(s))
    OBVIOUS
  <1>2. TrimSpace(s) = SubSeq(s, 1, Len(s))
    BY Zenon, <1>1, Trimmed
  <1>3. SubSeq(s, 1, Len(s)) = s
    OBVIOUS
  <1> QED
    BY Zenon, <1>2, <1>3

\* A text whose second token is the one sought.
LEMMA CutSecond ==
  ASSUME NEW S, NEW s \in Seq(S), NEW token, Len(s) > 1, s[1] # token, s[2] = token
  PROVE  upTo(s, token) = <<s[1]>>
  <1> DEFINE i == 2
  <1>1. /\ i \in 1..Len(s) /\ s[i] = token /\ \A j \in 1..(i - 1) : s[j] # token
        /\ i - 1 = 1 /\ Len(s) > 0
    OBVIOUS
  <1> HIDE DEF i
  <1>2. upTo(s, token) = SubSeq(s, 1, i - 1)
    BY Zenon, <1>1, CutAt
  <1> QED
    BY Zenon, <1>1, <1>2, FirstToken

\* A token alone.
LEMMA OneToken ==
  ASSUME NEW a
  PROVE  /\ \A token : a # token => upTo(<<a>>, token) = <<a>> /\ ~Has(<<a>>, token)
         /\ a # Space => /\ TrimSpace(<<a>>) = <<a>>
                        /\ TrimSpace(<<a, Space>>) = <<a>>
                        /\ TrimSpace(<<Space, a>>) = <<a>>
                        /\ TrimSpace(<<Space, Space, a>>) = <<a>>
  <1>1. /\ <<a>> \in Seq({a}) /\ Len(<<a>>) = 1 /\ <<a>>[1] = a /\ DOMAIN <<a>> = {1} /\ 1 > 0
    OBVIOUS
  <1>2. \A token : a # token => upTo(<<a>>, token) = <<a>> /\ ~Has(<<a>>, token)
    BY Zenon, <1>1 DEF upTo, Has
  <1>3. ASSUME a # Space PROVE TrimSpace(<<a>>) = <<a>>
    BY Zenon, <1>1, <1>3, Untrimmed
  <1>4. ASSUME a # Space PROVE TrimSpace(<<a, Space>>) = <<a>>
    <2> DEFINE s == <<a, Space>>
    <2>1. /\ s \in Seq({a, Space}) /\ Len(s) = 2 /\ s[1] = a /\ s[2] = Space
          /\ 1 \in 1..2 /\ 2 > 0 /\ \A k \in 1..2 : k < 1 \/ k > 1 => k = 2
      OBVIOUS
    <2> HIDE DEF s
    <2>2. TrimSpace(s) = SubSeq(s, 1, 1)
      BY Zenon, <1>4, <2>1, Trimmed
    <2> QED
      BY Zenon, <2>1, <2>2, FirstToken DEF s
  <1>5. ASSUME a # Space PROVE TrimSpace(<<Space, a>>) = <<a>>
    <2> DEFINE s == <<Space, a>>
    <2>1. /\ s \in Seq({a, Space}) /\ Len(s) = 2 /\ s[1] = Space /\ s[2] = a
          /\ 2 \in 1..2 /\ \A k \in 1..2 : k < 2 \/ k > 2 => k = 1
      OBVIOUS
    <2>3. SubSeq(s, 2, 2) = <<a>>
      <3> DEFINE t == SubSeq(s, 2, 2)
      <3>1. t[1] = a /\ Len(t) = 1 /\ t \in Seq({a, Space})
        OBVIOUS
      <3> HIDE DEF t
      <3>2. t = <<t[1]>>
        BY <3>1
      <3> QED
        BY Zenon, <3>1, <3>2 DEF t
    <2> HIDE DEF s
    <2>2. TrimSpace(s) = SubSeq(s, 2, 2)
      BY Zenon, <1>5, <2>1, Trimmed
    <2> QED
      BY Zenon, <2>3, <2>2 DEF s
  <1>6. ASSUME a # Space PROVE TrimSpace(<<Space, Space, a>>) = <<a>>
    <2> DEFINE s == <<Space, Space, a>>
    <2>1. /\ s \in Seq({a, Space}) /\ Len(s) = 3 /\ s[1] = Space /\ s[2] = Space /\ s[3] = a
          /\ 3 \in 1..3 /\ \A k \in 1..3 : k < 3 \/ k > 3 => k \in {1, 2}
      OBVIOUS
    <2>3. SubSeq(s, 3, 3) = <<a>>
      <3> DEFINE t == SubSeq(s, 3, 3)
      <3>1. t[1] = a /\ Len(t) = 1 /\ t \in Seq({a, Space})
        OBVIOUS
      <3> HIDE DEF t
      <3>2. t = <<t[1]>>
        BY <3>1
      <3> QED
        BY Zenon, <3>1, <3>2 DEF t
    <2> HIDE DEF s
    <2>2. TrimSpace(s) = SubSeq(s, 3, 3)
      BY Zenon, <1>6, <2>1, Trimmed
    <2> QED
      BY Zenon, <2>3, <2>2 DEF s
  <1> QED
    BY Zenon, <1>2, <1>3, <1>4, <1>5, <1>6

-----------------------------------------------------------------------------
(* Tokens                                                                  *)

\* The characters ListParser does not name.
Dot   == <<".">>
Slash == <<"/">>
Star  == <<"*">>
Bang  == <<"!">>

\* No name is one of the characters.
LEMMA NameToken ==
  ASSUME NEW name \in Names
  PROVE  name \notin {Space, Hash, Bars, Caret, Dollar, Dot, Slash, Star, Bang, Zero, Loopback}
  <1>1. /\ Len(Space) = 1 /\ Len(Hash) = 1 /\ Len(Caret) = 1 /\ Len(Dollar) = 1 /\ Len(Bars) = 1
        /\ Len(Dot) = 1 /\ Len(Slash) = 1 /\ Len(Star) = 1 /\ Len(Bang) = 1
    BY DEF Space, Hash, Caret, Dollar, Bars, Dot, Slash, Star, Bang
  <1>2. name \in Seq(DOMAIN lowerLabel) /\ Len(name) >= 2 /\ name \notin {Zero, Loopback}
    BY Zenon, NamesAssumption
  <1>3. ~(1 >= 2)
    OBVIOUS
  <1> QED
    BY Zenon, <1>1, <1>2, <1>3

\* The characters and the addresses differ from each other.
LEMMA Tokens ==
  /\ Space \notin {Hash, Bars, Caret, Dollar, Dot, Slash, Star, Bang, Zero, Loopback}
  /\ Hash \notin {Bars, Caret, Dollar, Dot, Slash, Star, Bang, Zero, Loopback}
  /\ Bang \notin {Bars, Zero, Loopback}
  /\ Bars \notin {Caret, Dollar, Slash, Star, Zero, Loopback}
  /\ Caret \notin {Dollar, Slash, Star}
  /\ Dollar \notin {Slash, Star}
  /\ Zero # Loopback
  BY DEF Space, Hash, Caret, Dollar, Bars, Dot, Slash, Star, Bang, Zero, Loopback

\* A name alone, or with its dot, is the domain it means.
LEMMA DomainOfName ==
  ASSUME NEW name \in Names
  PROVE  /\ domainOf(<<name>>) = meaning(name)
         /\ domainOf(<<name, Dot>>) = meaning(name)
         /\ domainOf(<<name, Space>>) = meaning(name)
         /\ meaning(name) # <<>>
  <1>1. /\ name \in Seq(DOMAIN lowerLabel) /\ Len(name) >= 2
        /\ name # Space /\ name # Dot /\ Dot # Space
    BY Zenon, NamesAssumption, NameToken, Tokens
  <1>2. TrimSpace(<<name>>) = <<name>> /\ TrimSpace(<<name, Space>>) = <<name>>
    BY Zenon, <1>1, OneToken
  <1>3. /\ <<name>> # <<>> /\ Len(<<name>>) = 1 /\ <<name>>[1] = name /\ DOMAIN <<name>> = {1}
        /\ <<name, Dot>> # <<>> /\ Len(<<name, Dot>>) = 2 /\ <<name, Dot>>[2] = Dot
        /\ <<name, Dot>>[1] = name /\ 2 - 1 = 1 /\ <<name, Dot>> \in Seq({name, Dot}) /\ 2 > 0
    OBVIOUS
  <1>10. TrimSpace(<<name, Dot>>) = <<name, Dot>>
    BY Zenon, <1>1, <1>3, Untrimmed
  <1>4. SubSeq(<<name, Dot>>, 1, 1) = <<name>>
    BY Zenon, <1>3, FirstToken
  <1> DEFINE lower(n) == [i \in DOMAIN n |-> [k \in DOMAIN n[i] |->
           IF n[i][k] \in DOMAIN lowerLabel THEN lowerLabel[n[i][k]] ELSE n[i][k]]]
  <1>5. /\ normalizeDomain(<<name>>) = lower(<<name>>)
        /\ normalizeDomain(<<name, Space>>) = lower(<<name>>)
    BY Zenon, <1>1, <1>2, <1>3 DEF normalizeDomain, Dot
  <1>6. normalizeDomain(<<name, Dot>>) = lower(<<name>>)
    <2>1. <<name, Dot>>[Len(<<name, Dot>>)] = Dot /\ Len(<<name, Dot>>) - 1 = 1
      BY Zenon, <1>3
    <2> QED
      BY Zenon, <1>10, <1>3, <1>4, <2>1 DEF normalizeDomain, Dot
  <1>7. lower(<<name>>) = <<meaning(name)>>
    <2>1. \A k \in DOMAIN name : name[k] \in DOMAIN lowerLabel
      BY <1>1
    <2>2. lower(<<name>>) = [i \in {1} |-> meaning(name)]
      BY Zenon, <1>3, <2>1 DEF meaning
    <2>3. \A m : [i \in {1} |-> m] = <<m>>
      OBVIOUS
    <2> QED
      BY Zenon, <2>2, <2>3
  <1>8. Len(meaning(name)) = Len(name) /\ meaning(name) # <<>>
    BY <1>1 DEF meaning
  <1>9. isValidDomain(<<meaning(name)>>) /\ <<meaning(name)>>[1] = meaning(name)
    <2>1. \A m : Len(<<m>>) = 1 /\ <<m>>[1] = m
      OBVIOUS
    <2> QED
      BY Zenon, <1>1, <1>8, <2>1 DEF isValidDomain
  <1> HIDE DEF lower
  <1>11. \A text : normalizeDomain(text) = <<meaning(name)>> => domainOf(text) = meaning(name)
    BY Zenon, <1>9 DEF domainOf
  <1> QED
    BY Zenon, <1>5, <1>6, <1>7, <1>8, <1>11

\* Nothing is no domain, and neither is a single label.
LEMMA NoDomain ==
  /\ TrimSpace(<<>>) = <<>> /\ domainOf(<<>>) = <<>>
  /\ TrimSpace(<<Space>>) = <<>>
  /\ domainOf(<<<<"localhost">>>>) = <<>>
  <1>1. DOMAIN <<>> = {} /\ Len(<<>>) # 1
    OBVIOUS
  <1>2. TrimSpace(<<>>) = <<>>
    BY Zenon, <1>1 DEF TrimSpace
  <1>3. TrimSpace(<<Space>>) = <<>>
    <2>1. DOMAIN <<Space>> = {1} /\ <<Space>>[1] = Space
      OBVIOUS
    <2> QED
      BY Zenon, <2>1 DEF TrimSpace
  <1>4. domainOf(<<>>) = <<>>
    <2> DEFINE f == normalizeDomain(<<>>)
    <2>1. f = [i \in {} |-> [k \in DOMAIN <<>>[i] |->
                IF <<>>[i][k] \in DOMAIN lowerLabel THEN lowerLabel[<<>>[i][k]] ELSE <<>>[i][k]]]
      BY Zenon, <1>1, <1>2 DEF normalizeDomain
    <2>2. Len(f) = 0
      <3> HIDE DEF f
      <3>1. DOMAIN f = {}
        BY Zenon, <2>1
      <3>2. f = <<>>
        BY <2>1
      <3> QED
        BY <3>2
    <2>3. Len(f) # 1
      BY <2>2
    <2> HIDE DEF f
    <2> QED
      BY Zenon, <2>3 DEF domainOf, isValidDomain, f
  <1>5. domainOf(<<<<"localhost">>>>) = <<>>
    <2> DEFINE one == <<"localhost">>
               f   == normalizeDomain(<<one>>)
    <2>1. one # Space /\ one # Dot
      BY DEF Space, Dot
    <2>2. /\ <<one>> # <<>> /\ Len(<<one>>) = 1 /\ <<one>>[1] = one /\ DOMAIN <<one>> = {1}
          /\ DOMAIN one = {1}
      OBVIOUS
    <2>3. f = [i \in {1} |-> [k \in {1} |->
                 IF one[k] \in DOMAIN lowerLabel THEN lowerLabel[one[k]] ELSE one[k]]]
      BY Zenon, <2>1, <2>2, OneToken DEF normalizeDomain, Dot
    <2> HIDE DEF f
    <2>4. Len(f[1]) = 1
      BY <2>3
    <2>5. ~(1 >= 2)
      OBVIOUS
    <2> QED
      BY Zenon, <2>4, <2>5 DEF domainOf, isValidDomain, f
  <1> QED
    BY Zenon, <1>2, <1>3, <1>4, <1>5

\* The machine's own name is read as it is.
LEMMA OwnName ==
  domainOf(<<<<"localdomain", "localhost">>>>) = <<"localdomain", "localhost">>
  <1> DEFINE own == <<"localdomain", "localhost">>
             f   == normalizeDomain(<<own>>)
  <1>1. own # Space /\ own # Dot
    BY DEF Space, Dot
  <1>2. /\ <<own>> # <<>> /\ Len(<<own>>) = 1 /\ <<own>>[1] = own /\ DOMAIN <<own>> = {1}
        /\ DOMAIN own = {1, 2} /\ own[1] = "localdomain" /\ own[2] = "localhost"
    OBVIOUS
  <1>3. \A k \in {1, 2} : own[k] \in DOMAIN lowerLabel => lowerLabel[own[k]] = own[k]
    BY Zenon, <1>2, NamesAssumption
  <1>4. f = [i \in {1} |-> [k \in {1, 2} |->
               IF own[k] \in DOMAIN lowerLabel THEN lowerLabel[own[k]] ELSE own[k]]]
    BY Zenon, <1>1, <1>2, OneToken DEF normalizeDomain, Dot
  <1>5. f = [i \in {1} |-> [k \in {1, 2} |-> own[k]]]
    BY Zenon, <1>3, <1>4
  <1>6. [k \in {1, 2} |-> own[k]] = own
    <2>1. own \in Seq({"localdomain", "localhost"}) /\ Len(own) = 2
      OBVIOUS
    <2>3. 1..2 = {1, 2}
      OBVIOUS
    <2>2. \A s \in Seq({"localdomain", "localhost"}) : s = [k \in 1..Len(s) |-> s[k]]
      OBVIOUS
    <2> QED
      BY Zenon, <2>1, <2>2, <2>3
  <1>9. \A m : [i \in {1} |-> m] = <<m>>
    OBVIOUS
  <1>7. f = <<own>>
    BY Zenon, <1>5, <1>6, <1>9
  <1>8. Len(own) >= 2
    OBVIOUS
  <1> HIDE DEF f, own
  <1> QED
    BY Zenon, <1>2, <1>7, <1>8 DEF domainOf, isValidDomain, f, own

-----------------------------------------------------------------------------
(* Lines                                                                   *)

\* The texts of an entry in the adblock format.
LEMMA AdblockEntry ==
  ASSUME NEW name \in Names, NEW line \in entries("adblock", name)
  PROVE  /\ TrimSpace(line) = line /\ line # <<>> /\ Head(line) = Bars
         /\ parseAdblockLine(line) = meaning(name)
  <1> DEFINE party == <<"third-party">>
             S == {Bars, name, Caret, Dollar, Slash, party}
             rest == Tail(line)
             text == upTo(upTo(rest, Caret), Dollar)
  <1>1. line \in {<<Bars, name>>, <<Bars, name, Caret>>, <<Bars, name, Dollar, party>>,
                 <<Bars, name, Caret, Dollar, Slash>>}
    BY Zenon DEF entries, Slash
  <1>2. /\ name \notin {Space, Caret, Dollar, Slash, Star} /\ Dollar # Caret
        /\ Space \notin {Bars, Caret, Slash}
    BY Zenon, NameToken, Tokens
  <1>3. party # Space /\ party # Caret
    BY DEF Space, Caret
  <1> HIDE DEF party
  <1>4. /\ line \in Seq(S) /\ Len(line) > 0 /\ line[1] = Bars /\ Head(line) = Bars /\ line # <<>>
        /\ line[Len(line)] \in {name, Caret, party, Slash}
    <2> DEFINE Solid(l) == /\ l \in Seq(S) /\ Len(l) > 0 /\ l[1] = Bars /\ Head(l) = Bars /\ l # <<>>
                           /\ l[Len(l)] \in {name, Caret, party, Slash}
    <2>1. Solid(<<Bars, name>>)  OBVIOUS
    <2>2. Solid(<<Bars, name, Caret>>)  OBVIOUS
    <2>3. Solid(<<Bars, name, Dollar, party>>)  OBVIOUS
    <2>4. Solid(<<Bars, name, Caret, Dollar, Slash>>)  OBVIOUS
    <2> HIDE DEF Solid
    <2>5. Solid(line)
      BY Zenon, <1>1, <2>1, <2>2, <2>3, <2>4
    <2> QED
      BY Zenon, <2>5 DEF Solid
  <1>5. TrimSpace(line) = line
    BY Zenon, <1>2, <1>3, <1>4, Untrimmed
  <1>6. text = <<name>>
    <2>1. CASE line = <<Bars, name>>
      <3>1. rest = <<name>>
        BY <2>1
      <3> QED
        BY Zenon, <1>2, <3>1, OneToken
    <2>2. CASE line \in {<<Bars, name, Caret>>, <<Bars, name, Caret, Dollar, Slash>>}
      <3>1. rest \in Seq(S) /\ Len(rest) > 1 /\ rest[1] = name /\ rest[2] = Caret
        <4>1. CASE line = <<Bars, name, Caret>>
          BY <4>1
        <4>2. CASE line = <<Bars, name, Caret, Dollar, Slash>>
          BY <4>2
        <4> QED
          BY Zenon, <2>2, <4>1, <4>2
      <3>2. upTo(rest, Caret) = <<name>>
        BY Zenon, <1>2, <3>1, CutSecond
      <3> QED
        BY Zenon, <1>2, <3>2, OneToken
    <2>3. CASE line = <<Bars, name, Dollar, party>>
      <3>1. /\ rest \in Seq(S) /\ Len(rest) > 1 /\ rest[1] = name /\ rest[2] = Dollar
            /\ rest[3] = party /\ DOMAIN rest = {1, 2, 3}
        BY <2>3
      <3>2. upTo(rest, Caret) = rest
        BY Zenon, <1>2, <1>3, <3>1 DEF upTo, Has
      <3> QED
        BY Zenon, <1>2, <3>1, <3>2, CutSecond
    <2> QED
      BY Zenon, <1>1, <2>1, <2>2, <2>3
  <1> HIDE DEF text, rest
  <1>7. ~Has(text, Slash) /\ ~Has(text, Star)
    BY Zenon, <1>2, <1>6, OneToken
  <1>8. parseAdblockLine(line) = domainOf(text)
    BY Zenon, <1>4, <1>7 DEF parseAdblockLine, HasPrefix, text, rest, Slash, Star
  <1> QED
    BY Zenon, <1>4, <1>5, <1>6, <1>8, DomainOfName

\* Those of a line that lists nothing: not one begins as a remark does.
LEMMA AdblockOther ==
  ASSUME NEW name \in Names, NEW line \in others("adblock", name)
  PROVE  /\ TrimSpace(line) = line /\ line # <<>> /\ Head(line) \notin {Space, Hash, Bang}
         /\ parseAdblockLine(line) = <<>>
  <1> DEFINE open == <<"[">>  plus == <<"Adblock Plus">>  except == <<"@@">>  path == <<"path">>
             S == {Bars, name, Caret, Slash, Star, open, plus, except, path}
             rest == Tail(line)
             text == upTo(upTo(rest, Caret), Dollar)
  <1>1. line \in {<<open, plus>>, <<except, Bars, name, Caret>>, <<Bars, name, Slash, path>>,
                 <<Bars, Star, name, Caret>>}
    BY Zenon DEF others, Slash, Star
  <1>2. /\ name \notin {Space, Caret, Dollar} /\ Star \notin {Caret, Dollar}
        /\ Slash \notin {Caret, Dollar}
        /\ Bars \notin {Space, Hash, Bang} /\ Caret # Space
    BY Zenon, NameToken, Tokens
  <1>3. /\ open \notin {Bars, Space, Hash, Bang} /\ except \notin {Bars, Space, Hash, Bang}
        /\ plus # Space /\ path \notin {Space, Caret, Dollar}
    BY DEF Space, Caret, Dollar, Bars, Hash, Bang
  <1> HIDE DEF open, plus, except, path
  <1>4. /\ line \in Seq(S) /\ Len(line) > 0 /\ line # <<>> /\ Head(line) = line[1]
        /\ line[1] \in {open, except, Bars} /\ line[Len(line)] \in {plus, Caret, path}
    <2> DEFINE Solid(l) == /\ l \in Seq(S) /\ Len(l) > 0 /\ l # <<>> /\ Head(l) = l[1]
                           /\ l[1] \in {open, except, Bars} /\ l[Len(l)] \in {plus, Caret, path}
    <2>1. Solid(<<open, plus>>)  OBVIOUS
    <2>2. Solid(<<except, Bars, name, Caret>>)  OBVIOUS
    <2>3. Solid(<<Bars, name, Slash, path>>)  OBVIOUS
    <2>4. Solid(<<Bars, Star, name, Caret>>)  OBVIOUS
    <2> HIDE DEF Solid
    <2>5. Solid(line)
      BY Zenon, <1>1, <2>1, <2>2, <2>3, <2>4
    <2> QED
      BY Zenon, <2>5 DEF Solid
  <1>5. TrimSpace(line) = line
    BY Zenon, <1>2, <1>3, <1>4, Untrimmed
  <1>6. Head(line) \notin {Space, Hash, Bang}
    BY Zenon, <1>2, <1>3, <1>4
  <1>7. CASE ~HasPrefix(line, Bars)
    <2>1. ~Has(<<>>, Slash) /\ ~Has(<<>>, Star)
      <3>1. DOMAIN <<>> = {}
        OBVIOUS
      <3> QED
        BY Zenon, <3>1 DEF Has
    <2> QED
      BY Zenon, <1>4, <1>5, <1>6, <1>7, <2>1, NoDomain DEF parseAdblockLine, Slash, Star
  <1>8. ASSUME HasPrefix(line, Bars), Has(text, Slash) \/ Has(text, Star)
        PROVE  parseAdblockLine(line) = <<>>
    BY Zenon, <1>8 DEF parseAdblockLine, Slash, Star
  <1>9. CASE line = <<Bars, name, Slash, path>>
    <2>1. /\ Head(line) = Bars /\ DOMAIN rest = {1, 2, 3}
          /\ rest[1] = name /\ rest[2] = Slash /\ rest[3] = path
      BY <1>9
    <2> HIDE DEF rest
    <2>2. upTo(rest, Caret) = rest /\ upTo(rest, Dollar) = rest
      BY Zenon, <1>2, <1>3, <2>1 DEF upTo, Has
    <2>3. Has(text, Slash)
      BY Zenon, <2>1, <2>2 DEF Has
    <2> QED
      BY Zenon, <1>4, <1>5, <1>6, <1>8, <2>1, <2>3 DEF HasPrefix
  <1>10. CASE line = <<Bars, Star, name, Caret>>
    <2> DEFINE i == 3
    <2>1. /\ rest \in Seq(S) /\ i \in 1..Len(rest) /\ rest[i] = Caret /\ Head(line) = Bars
          /\ rest[1] = Star /\ rest[2] = name /\ (\A j \in 1..(i - 1) : j \in {1, 2})
          /\ i - 1 = 2
      BY <1>10
    <2>2. SubSeq(rest, 1, 2) = <<Star, name>>
      <3>1. rest = <<Star, name, Caret>>
        BY <1>10
      <3>2. SubSeq(<<Star, name, Caret>>, 1, 2) = <<Star, name>>
        <4> DEFINE s == <<Star, name, Caret>>
                   t == <<Star, name>>
        <4>1. /\ s \in Seq({Star, name, Caret}) /\ t \in Seq({Star, name, Caret})
              /\ Len(s) = 3 /\ Len(t) = 2
          OBVIOUS
        <4>2. t[1] = s[1] /\ t[2] = s[2]
          OBVIOUS
        <4> HIDE DEF s, t
        <4>3. SubSeq(s, 1, 2) = t
          BY <4>1, <4>2
        <4> QED
          BY Zenon, <4>3 DEF s, t
      <3> QED
        BY Zenon, <3>1, <3>2
    <2> HIDE DEF i, rest
    <2>3. \A j \in 1..(i - 1) : rest[j] # Caret
      BY Zenon, <2>1, <1>2
    <2>4. upTo(rest, Caret) = SubSeq(rest, 1, i - 1)
      BY Zenon, <2>1, <2>3, CutAt
    <2>5. DOMAIN <<Star, name>> = {1, 2} /\ <<Star, name>>[1] = Star /\ <<Star, name>>[2] = name
      OBVIOUS
    <2>6. upTo(<<Star, name>>, Dollar) = <<Star, name>> /\ Has(<<Star, name>>, Star)
      BY Zenon, <2>5, <1>2 DEF upTo, Has
    <2>7. Has(text, Star)
      BY Zenon, <2>1, <2>2, <2>4, <2>6
    <2> QED
      BY Zenon, <1>4, <1>5, <1>6, <1>8, <2>1, <2>7 DEF HasPrefix
  <1>11. line \in {<<open, plus>>, <<except, Bars, name, Caret>>} => ~HasPrefix(line, Bars)
    <2>1. Head(<<open, plus>>) = open /\ Head(<<except, Bars, name, Caret>>) = except
      OBVIOUS
    <2> QED
      BY Zenon, <2>1, <1>3 DEF HasPrefix
  <1> QED
    BY Zenon, <1>1, <1>7, <1>9, <1>10, <1>11

\* What the hosts format makes of an address, a space and a token.
LEMMA HostsFields ==
  ASSUME NEW a, NEW b, a \notin {Space, Hash}, b \notin {Space, Hash}
  PROVE  LET line == <<a, Space, b>>
         IN /\ TrimSpace(line) = line /\ line # <<>> /\ Head(line) = a
            /\ a \notin {Zero, Loopback} => parseHostsLine(line) = <<>>
            /\ a \in {Zero, Loopback} =>
                 parseHostsLine(line) = IF domainOf(<<b>>) = <<"localdomain", "localhost">>
                                        THEN <<>> ELSE domainOf(<<b>>)
  <1> DEFINE line  == <<a, Space, b>>
             text  == TrimSpace(upTo(line, Hash))
             first == upTo(text, Space)
             rest  == TrimSpace(SubSeq(text, Len(first) + 1, Len(text)))
  <1>1. /\ line \in Seq({a, Space, b}) /\ Len(line) = 3 /\ line[1] = a /\ line[2] = Space
        /\ line[3] = b /\ Head(line) = a /\ line # <<>> /\ DOMAIN line = {1, 2, 3}
        /\ 3 > 0 /\ 3 > 1 /\ 1 + 1 = 2
    OBVIOUS
  <1>2. SubSeq(line, 2, 3) = <<Space, b>>
    <2> DEFINE s == line
               t == <<Space, b>>
    <2>1. s \in Seq({a, Space, b}) /\ t \in Seq({a, Space, b}) /\ Len(s) = 3 /\ Len(t) = 2
      OBVIOUS
    <2>2. t[1] = s[2] /\ t[2] = s[3]
      OBVIOUS
    <2> HIDE DEF s, t
    <2>3. SubSeq(s, 2, 3) = t
      BY <2>1, <2>2
    <2> QED
      BY Zenon, <2>3 DEF s, t
  <1>13. Len(<<a>>) = 1
    OBVIOUS
  <1>3. Space # Hash
    BY Zenon, Tokens
  <1> HIDE DEF line
  <1>4. TrimSpace(line) = line
    BY Zenon, <1>1, Untrimmed
  <1>5. upTo(line, Hash) = line
    BY Zenon, <1>1, <1>3 DEF upTo, Has
  <1>6. text = line
    BY Zenon, <1>4, <1>5
  <1>7. upTo(line, Space) = <<a>>
    BY Zenon, <1>1, CutSecond
  <1>8. first = <<a>>
    BY Zenon, <1>6, <1>7
  <1>9. rest = <<b>>
    <2>1. TrimSpace(<<Space, b>>) = <<b>>
      BY Zenon, OneToken
    <2>2. SubSeq(line, Len(<<a>>) + 1, Len(line)) = <<Space, b>>
      BY Zenon, <1>1, <1>2, <1>13
    <2> QED
      BY Zenon, <1>6, <1>8, <2>1, <2>2
  <1>10. upTo(<<b>>, Space) = <<b>>
    BY Zenon, OneToken
  <1>11. first \in {<<Zero>>, <<Loopback>>} <=> a \in {Zero, Loopback}
    <2>1. \A x, y : <<x>> = <<y>> <=> x = y
      OBVIOUS
    <2> QED
      BY Zenon, <1>8, <2>1
  <1> HIDE DEF text, first, rest
  <1>12. parseHostsLine(line) =
           IF first \notin {<<Zero>>, <<Loopback>>}
              \/ domainOf(upTo(rest, Space)) = <<"localdomain", "localhost">>
           THEN <<>> ELSE domainOf(upTo(rest, Space))
    BY Zenon DEF parseHostsLine, text, first, rest
  <1> QED
    BY Zenon, <1>1, <1>4, <1>9, <1>10, <1>11, <1>12 DEF line

\* A line that begins with a space, has two between its fields, and a remark after.
LEMMA HostsSpaced ==
  ASSUME NEW name \in Names
  PROVE  LET line == <<Loopback, Space, Space, name, Space, Hash, name>>
         IN /\ TrimSpace(<<Space, Loopback, Space, Space, name, Space, Hash, name>>) = line
            /\ line # <<>> /\ Head(line) = Loopback
            /\ parseHostsLine(line) = meaning(name)
  <1> DEFINE S     == {Loopback, Space, name, Hash}
             given == <<Space, Loopback, Space, Space, name, Space, Hash, name>>
             line  == <<Loopback, Space, Space, name, Space, Hash, name>>
             left  == <<Loopback, Space, Space, name, Space>>
             kept  == <<Loopback, Space, Space, name>>
             text  == TrimSpace(upTo(line, Hash))
             first == upTo(text, Space)
             rest  == TrimSpace(SubSeq(text, Len(first) + 1, Len(text)))
  <1>1. /\ name \notin {Space, Hash} /\ Loopback \notin {Space, Hash} /\ Space # Hash
    BY Zenon, NameToken, Tokens
  <1>2. TrimSpace(given) = line
    <2> DEFINE i == 2  j == 8
    <2>1. /\ given \in Seq(S) /\ i \in 1..Len(given) /\ j \in 1..Len(given)
          /\ given[i] = Loopback /\ given[j] = name /\ given[1] = Space
      OBVIOUS
    <2>2. \A k \in 1..8 : k < i \/ k > j => k = 1
      OBVIOUS
    <2>3. Len(given) = 8
      OBVIOUS
    <2>4. SubSeq(given, 2, 8) = line
      <3> DEFINE s == given
                 t == line
      <3>1. s \in Seq(S) /\ t \in Seq(S) /\ Len(s) = 8 /\ Len(t) = 7
        OBVIOUS
      <3>2. /\ t[1] = s[2] /\ t[2] = s[3] /\ t[3] = s[4] /\ t[4] = s[5] /\ t[5] = s[6]
            /\ t[6] = s[7] /\ t[7] = s[8]
        OBVIOUS
      <3> HIDE DEF s, t
      <3>3. SubSeq(s, 2, 8) = t
        BY <3>1, <3>2
      <3> QED
        BY Zenon, <3>3 DEF s, t
    <2> HIDE DEF i, j, given, line
    <2>5. TrimSpace(given) = SubSeq(given, i, j)
      BY Zenon, <1>1, <2>1, <2>2, <2>3, Trimmed
    <2> QED
      BY Zenon, <2>4, <2>5 DEF i, j
  <1>3. upTo(line, Hash) = left
    <2> DEFINE i == 6
    <2>1. /\ line \in Seq(S) /\ i \in 1..Len(line) /\ line[i] = Hash /\ i - 1 = 5
          /\ line[1] = Loopback /\ line[2] = Space /\ line[3] = Space /\ line[4] = name
          /\ line[5] = Space
      OBVIOUS
    <2>2. \A k \in 1..5 : k \in {1, 2, 3, 4, 5}
      OBVIOUS
    <2>3. SubSeq(line, 1, 5) = left
      <3> DEFINE s == line
                 t == left
      <3>1. s \in Seq(S) /\ t \in Seq(S) /\ Len(s) = 7 /\ Len(t) = 5
        OBVIOUS
      <3>2. t[1] = s[1] /\ t[2] = s[2] /\ t[3] = s[3] /\ t[4] = s[4] /\ t[5] = s[5]
        OBVIOUS
      <3> HIDE DEF s, t
      <3>3. SubSeq(s, 1, 5) = t
        BY <3>1, <3>2
      <3> QED
        BY Zenon, <3>3 DEF s, t
    <2> HIDE DEF i, line, left
    <2>4. \A k \in 1..(i - 1) : line[k] # Hash
      BY Zenon, <1>1, <2>1, <2>2
    <2>6. line \in Seq(S) /\ i \in 1..Len(line) /\ line[i] = Hash
      BY Zenon, <2>1
    <2>5. upTo(line, Hash) = SubSeq(line, 1, i - 1)
      <3> HIDE DEF S, given, kept, text, first, rest
      <3>1. \A l \in Seq(S) : \A n \in 1..Len(l) :
              l[n] = Hash /\ (\A k \in 1..(n - 1) : l[k] # Hash)
                => upTo(l, Hash) = SubSeq(l, 1, n - 1)
        BY Zenon, CutAt
      <3> QED
        BY Zenon, <2>4, <2>6, <3>1
    <2> QED
      BY Zenon, <2>1, <2>3, <2>5
  <1>4. TrimSpace(left) = kept
    <2> DEFINE i == 1  j == 4
    <2>1. /\ left \in Seq(S) /\ i \in 1..Len(left) /\ j \in 1..Len(left) /\ Len(left) = 5
          /\ left[i] = Loopback /\ left[j] = name /\ left[5] = Space
      OBVIOUS
    <2>2. \A k \in 1..5 : k < i \/ k > j => k = 5
      OBVIOUS
    <2>3. SubSeq(left, 1, 4) = kept
      <3> DEFINE s == left
                 t == kept
      <3>1. s \in Seq(S) /\ t \in Seq(S) /\ Len(s) = 5 /\ Len(t) = 4
        OBVIOUS
      <3>2. t[1] = s[1] /\ t[2] = s[2] /\ t[3] = s[3] /\ t[4] = s[4]
        OBVIOUS
      <3> HIDE DEF s, t
      <3>3. SubSeq(s, 1, 4) = t
        BY <3>1, <3>2
      <3> QED
        BY Zenon, <3>3 DEF s, t
    <2> HIDE DEF i, j, left, kept
    <2>4. TrimSpace(left) = SubSeq(left, i, j)
      BY Zenon, <1>1, <2>1, <2>2, Trimmed
    <2> QED
      BY Zenon, <2>3, <2>4 DEF i, j
  <1>5. /\ kept \in Seq(S) /\ Len(kept) = 4 /\ kept[1] = Loopback /\ kept[2] = Space /\ 4 > 1
        /\ Len(<<Loopback>>) + 1 = 2
    OBVIOUS
  <1>6. SubSeq(kept, 2, 4) = <<Space, Space, name>>
    <2> DEFINE s == kept
               t == <<Space, Space, name>>
    <2>1. s \in Seq(S) /\ t \in Seq(S) /\ Len(s) = 4 /\ Len(t) = 3
      OBVIOUS
    <2>2. t[1] = s[2] /\ t[2] = s[3] /\ t[3] = s[4]
      OBVIOUS
    <2> HIDE DEF s, t
    <2>3. SubSeq(s, 2, 4) = t
      BY <2>1, <2>2
    <2> QED
      BY Zenon, <2>3 DEF s, t
  <1>7. line # <<>> /\ Head(line) = Loopback
    OBVIOUS
  <1> HIDE DEF given, line, left, kept
  <1>8. text = kept
    BY Zenon, <1>3, <1>4
  <1>9. first = <<Loopback>>
    <2>1. upTo(kept, Space) = <<Loopback>>
      BY Zenon, <1>1, <1>5, CutSecond
    <2> QED
      BY Zenon, <1>8, <2>1
  <1>10. rest = <<name>>
    <2>1. TrimSpace(<<Space, Space, name>>) = <<name>>
      BY Zenon, <1>1, OneToken
    <2> QED
      BY Zenon, <1>5, <1>6, <1>8, <1>9, <2>1
  <1>11. upTo(<<name>>, Space) = <<name>> /\ domainOf(<<name>>) = meaning(name)
         /\ meaning(name) # <<"localdomain", "localhost">>
    BY Zenon, <1>1, OneToken, DomainOfName, NamesAssumption
  <1> HIDE DEF text, first, rest
  <1>12. parseHostsLine(line) =
           IF first \notin {<<Zero>>, <<Loopback>>}
              \/ domainOf(upTo(rest, Space)) = <<"localdomain", "localhost">>
           THEN <<>> ELSE domainOf(upTo(rest, Space))
    BY Zenon DEF parseHostsLine, text, first, rest
  <1>13. parseHostsLine(line) = meaning(name)
    BY Zenon, <1>9, <1>10, <1>11, <1>12
  <1> QED
    BY Zenon, <1>2, <1>7, <1>13 DEF given, line

\* A hosts line that lists a name is read as the name, remark and indentation aside.
LEMMA HostsEntry ==
  ASSUME NEW name \in Names, NEW text \in entries("hosts", name)
  PROVE  LET line == TrimSpace(text)
         IN /\ line # <<>> /\ Head(line) \in {Zero, Loopback}
            /\ parseHostsLine(line) = meaning(name)
  <1>1. text \in {<<Zero, Space, name>>,
                 <<Space, Loopback, Space, Space, name, Space, Hash, name>>}
    BY Zenon DEF entries
  <1>2. name \notin {Space, Hash} /\ Zero \notin {Space, Hash}
    BY Zenon, NameToken, Tokens
  <1>3. CASE text = <<Zero, Space, name>>
    <2>1. domainOf(<<name>>) = meaning(name) /\ meaning(name) # <<"localdomain", "localhost">>
      BY Zenon, DomainOfName, NamesAssumption
    <2> DEFINE l == <<Zero, Space, name>>
    <2>2. /\ TrimSpace(l) = l /\ l # <<>> /\ Head(l) = Zero
          /\ Zero \in {Zero, Loopback} =>
               parseHostsLine(l) = IF domainOf(<<name>>) = <<"localdomain", "localhost">>
                                   THEN <<>> ELSE domainOf(<<name>>)
      BY Zenon, <1>2, HostsFields
    <2> HIDE DEF l
    <2>3. parseHostsLine(l) = meaning(name)
      BY Zenon, <2>1, <2>2
    <2>4. TrimSpace(text) = l
      BY Zenon, <1>3, <2>2 DEF l
    <2> QED
      BY Zenon, <2>2, <2>3, <2>4
  <1>4. CASE text = <<Space, Loopback, Space, Space, name, Space, Hash, name>>
    BY Zenon, <1>4, HostsSpaced
  <1> QED
    BY Zenon, <1>1, <1>3, <1>4

\* The host's own name and lines for other addresses.
LEMMA HostsOther ==
  ASSUME NEW name \in Names, NEW line \in others("hosts", name)
  PROVE  /\ TrimSpace(line) = line /\ line # <<>> /\ Head(line) \notin {Space, Hash, Bang}
         /\ parseHostsLine(line) = <<>>
  <1> DEFINE own == <<"localdomain", "localhost">>
             six == <<"::1">>
  <1>1. line \in {<<Loopback, Space, own>>, <<six, Space, name>>}
    BY Zenon DEF others
  <1>2. name \notin {Space, Hash} /\ Loopback \notin {Space, Hash, Bang}
    BY Zenon, NameToken, Tokens
  <1>3. own \notin {Space, Hash} /\ six \notin {Space, Hash, Bang, Zero, Loopback}
    BY DEF Space, Hash, Bang, Zero, Loopback
  <1> HIDE DEF six
  <1>4. CASE line = <<Loopback, Space, own>>
    BY Zenon, <1>2, <1>3, <1>4, OwnName, HostsFields
  <1>5. CASE line = <<six, Space, name>>
    BY Zenon, <1>2, <1>3, <1>5, HostsFields
  <1> QED
    BY Zenon, <1>1, <1>4, <1>5

\* A line of a list of domains is read as its name, with or without dot and remark.
LEMMA DomainsEntry ==
  ASSUME NEW name \in Names, NEW line \in entries("domains", name)
  PROVE  /\ TrimSpace(line) = line /\ line # <<>> /\ Head(line) = name
         /\ parseDomainsLine(line) = meaning(name)
  <1>1. line \in {<<name>>, <<name, Dot>>, <<name, Space, Hash, name>>}
    BY Zenon DEF entries, Dot
  <1>2. name \notin {Space, Hash} /\ Dot \notin {Space, Hash} /\ Space # Hash
    BY Zenon, NameToken, Tokens
  <1>3. /\ line \in Seq({name, Dot, Space, Hash}) /\ Len(line) > 0 /\ line # <<>>
        /\ line[1] = name /\ Head(line) = name /\ line[Len(line)] \in {name, Dot}
    <2> DEFINE Solid(l) == /\ l \in Seq({name, Dot, Space, Hash}) /\ Len(l) > 0 /\ l # <<>>
                           /\ l[1] = name /\ Head(l) = name /\ l[Len(l)] \in {name, Dot}
    <2>1. Solid(<<name>>)  OBVIOUS
    <2>2. Solid(<<name, Dot>>)  OBVIOUS
    <2>3. Solid(<<name, Space, Hash, name>>)  OBVIOUS
    <2> HIDE DEF Solid
    <2>4. Solid(line)
      BY Zenon, <1>1, <2>1, <2>2, <2>3
    <2> QED
      BY Zenon, <2>4 DEF Solid
  <1>4. TrimSpace(line) = line
    BY Zenon, <1>2, <1>3, Untrimmed
  <1>5. upTo(line, Hash) \in {<<name>>, <<name, Dot>>, <<name, Space>>}
    <2>1. CASE line = <<name>>
      BY Zenon, <1>2, <2>1, OneToken
    <2>2. CASE line = <<name, Dot>>
      <3>1. DOMAIN line = {1, 2} /\ line[1] = name /\ line[2] = Dot
        BY <2>2
      <3> QED
        BY Zenon, <1>2, <2>2, <3>1 DEF upTo, Has
    <2>3. CASE line = <<name, Space, Hash, name>>
      <3> DEFINE i == 3
                 t == <<name, Space>>
      <3>1. /\ i \in 1..Len(line) /\ line[i] = Hash /\ i - 1 = 2 /\ Len(line) = 4
            /\ line[1] = name /\ line[2] = Space
        BY <2>3
      <3>2. t \in Seq({name, Dot, Space, Hash}) /\ Len(t) = 2 /\ t[1] = name /\ t[2] = Space
        OBVIOUS
      <3>3. \A k \in 1..2 : k \in {1, 2}
        OBVIOUS
      <3> HIDE DEF i, t
      <3>4. \A k \in 1..(i - 1) : line[k] # Hash
        BY Zenon, <1>2, <3>1, <3>3
      <3>5. i \in 1..Len(line) /\ line[i] = Hash
        BY Zenon, <3>1
      <3>6. upTo(line, Hash) = SubSeq(line, 1, i - 1)
        BY Zenon, <1>3, <3>4, <3>5, CutAt
      <3>7. SubSeq(line, 1, 2) = t
        BY <1>3, <3>1, <3>2
      <3> QED
        BY Zenon, <3>1, <3>6, <3>7 DEF t
    <2> QED
      BY Zenon, <1>1, <2>1, <2>2, <2>3
  <1> QED
    BY Zenon, <1>3, <1>4, <1>5, DomainOfName DEF parseDomainsLine

\* A single label is no domain.
LEMMA DomainsOther ==
  ASSUME NEW name \in Names, NEW line \in others("domains", name)
  PROVE  /\ TrimSpace(line) = line /\ line # <<>> /\ Head(line) \notin {Space, Hash, Bang}
         /\ parseDomainsLine(line) = <<>>
  <1> DEFINE own == <<"localhost">>
  <1>1. line = <<own>>
    BY Zenon DEF others
  <1>2. own \notin {Space, Hash, Bang}
    BY DEF Space, Hash, Bang
  <1>3. \A a : <<a>> # <<>> /\ Head(<<a>>) = a
    OBVIOUS
  <1>4. TrimSpace(line) = line /\ upTo(line, Hash) = line
    BY Zenon, <1>1, <1>2, OneToken
  <1> QED
    BY Zenon, <1>1, <1>2, <1>3, <1>4, NoDomain DEF parseDomainsLine

\* A blank line or a comment lists nothing, whatever the format, and decides on none.
LEMMA Remark ==
  ASSUME NEW text \in remarks, NEW f
  PROVE  LET line == TrimSpace(text)
         IN line # <<>> => detectFormat(line) = "auto" /\ parseLine(line, f) = <<>>
  <1>1. text \in {<<>>, <<Space>>, <<Hash>>, <<Hash, Space, Zero>>, <<Bang, Bars>>}
    BY Zenon DEF remarks, Bang
  <1>2. CASE text \in {<<>>, <<Space>>}
    BY Zenon, <1>2, NoDomain
  <1>3. CASE text \in {<<Hash>>, <<Hash, Space, Zero>>, <<Bang, Bars>>}
    <2> DEFINE Solid(l) == /\ l \in Seq({Hash, Space, Zero, Bang, Bars}) /\ Len(l) > 0 /\ l # <<>>
                           /\ l[1] = Head(l) /\ Head(l) \in {Hash, Bang}
                           /\ l[Len(l)] \in {Hash, Zero, Bars}
    <2>1. Solid(<<Hash>>)  OBVIOUS
    <2>2. Solid(<<Hash, Space, Zero>>)  OBVIOUS
    <2>3. Solid(<<Bang, Bars>>)  OBVIOUS
    <2> HIDE DEF Solid
    <2>4. Solid(text)
      BY Zenon, <1>3, <2>1, <2>2, <2>3
    <2>5. TrimSpace(text) = text
      BY Zenon, <2>4, Tokens, Untrimmed DEF Solid
    <2>6. comment(text)
      BY Zenon, <2>4 DEF Solid, comment, HasPrefix, Bang
    <2>7. detectFormat(text) = "auto"
      <3>1. /\ ~HasPrefix(text, Bars) /\ ~HasPrefix(text, Zero) /\ ~HasPrefix(text, Loopback)
        BY Zenon, <2>4, Tokens DEF Solid, HasPrefix
      <3> QED
        BY <2>6, <3>1 DEF detectFormat
    <2>8. parseLine(text, f) = <<>>
      BY <2>6 DEF parseLine
    <2> QED
      BY Zenon, <2>5, <2>7, <2>8
  <1> QED
    BY Zenon, <1>1, <1>2, <1>3

\* A line that lists a name shows the format it is written in and is read as the name.
LEMMA EntryRead ==
  ASSUME NEW k \in Formats, NEW name \in Names, NEW text \in entries(k, name)
  PROVE  LET line == TrimSpace(text)
         IN line # <<>> /\ detectFormat(line) = k /\ parseLine(line, k) = meaning(name)
  <1> DEFINE line == TrimSpace(text)
  <1> HIDE DEF line
  <1>1. /\ line # <<>>
        /\ k = "adblock" => Head(line) = Bars /\ parseAdblockLine(line) = meaning(name)
        /\ k = "hosts" => Head(line) \in {Zero, Loopback} /\ parseHostsLine(line) = meaning(name)
        /\ k = "domains" => Head(line) = name /\ parseDomainsLine(line) = meaning(name)
    BY Zenon, AdblockEntry, HostsEntry, DomainsEntry DEF Formats, line
  <1>2. /\ Bars \notin {Hash, Bang, Zero, Loopback} /\ Zero \notin {Hash, Bang, Bars}
        /\ Loopback \notin {Hash, Bang, Bars}
        /\ name \notin {Hash, Bang, Bars, Zero, Loopback}
    BY Zenon, Tokens, NameToken
  <1>3. Head(line) \notin {Hash, Bang}
    BY Zenon, <1>1, <1>2 DEF Formats
  <1>4. ~comment(line)
    BY Zenon, <1>3 DEF comment, HasPrefix, Bang
  <1>5. CASE k = "adblock"
    <2>1. HasPrefix(line, Bars) /\ ~HasPrefix(line, Zero) /\ ~HasPrefix(line, Loopback)
      BY Zenon, <1>1, <1>2, <1>5 DEF HasPrefix
    <2>2. detectFormat(line) = "adblock"
      BY <1>4, <2>1 DEF detectFormat
    <2>3. parseLine(line, "adblock") = parseAdblockLine(line)
      BY <1>4 DEF parseLine
    <2> QED
      BY Zenon, <1>1, <1>5, <2>2, <2>3 DEF line
  <1>6. CASE k = "hosts"
    <2>1. ~HasPrefix(line, Bars) /\ (HasPrefix(line, Zero) \/ HasPrefix(line, Loopback))
      BY Zenon, <1>1, <1>2, <1>6 DEF HasPrefix
    <2>2. detectFormat(line) = "hosts"
      BY <1>4, <2>1 DEF detectFormat
    <2>3. parseLine(line, "hosts") = parseHostsLine(line)
      BY <1>4 DEF parseLine
    <2> QED
      BY Zenon, <1>1, <1>6, <2>2, <2>3 DEF line
  <1>7. CASE k = "domains"
    <2>1. ~HasPrefix(line, Bars) /\ ~HasPrefix(line, Zero) /\ ~HasPrefix(line, Loopback)
      BY Zenon, <1>1, <1>2, <1>7 DEF HasPrefix
    <2>2. detectFormat(line) = "domains"
      BY <1>4, <2>1 DEF detectFormat
    <2>3. parseLine(line, "domains") = parseDomainsLine(line)
      BY <1>4 DEF parseLine
    <2> QED
      BY Zenon, <1>1, <1>7, <2>2, <2>3 DEF line
  <1> QED
    BY Zenon, <1>5, <1>6, <1>7 DEF Formats

\* A line of the format that lists no name is no remark, and reads as no domain.
LEMMA OtherRead ==
  ASSUME NEW k \in Formats, NEW name \in Names, NEW text \in others(k, name)
  PROVE  text \notin remarks /\ parseLine(TrimSpace(text), k) = <<>>
  <1>1. /\ TrimSpace(text) = text /\ text # <<>> /\ Head(text) \notin {Space, Hash, Bang}
        /\ k = "adblock" => parseAdblockLine(text) = <<>>
        /\ k = "hosts" => parseHostsLine(text) = <<>>
        /\ k = "domains" => parseDomainsLine(text) = <<>>
    BY Zenon, AdblockOther, HostsOther, DomainsOther DEF Formats
  <1>2. text \notin remarks
    <2> DEFINE Remarked(l) == l = <<>> \/ Head(l) \in {Space, Hash, Bang}
    <2>1. Remarked(<<Space>>)  OBVIOUS
    <2>2. Remarked(<<Hash>>)  OBVIOUS
    <2>3. Remarked(<<Hash, Space, Zero>>)  OBVIOUS
    <2>4. Remarked(<<Bang, Bars>>)  OBVIOUS
    <2>5. Remarked(<<>>)  OBVIOUS
    <2>6. ~Remarked(text)
      BY Zenon, <1>1
    <2> HIDE DEF Remarked
    <2> QED
      BY Zenon, <2>1, <2>2, <2>3, <2>4, <2>5, <2>6 DEF remarks, Bang
  <1>3. ~comment(text)
    BY Zenon, <1>1 DEF comment, HasPrefix, Bang
  <1>4. /\ parseLine(text, "adblock") = parseAdblockLine(text)
        /\ parseLine(text, "hosts") = parseHostsLine(text)
        /\ parseLine(text, "domains") = parseDomainsLine(text)
    <2>1. parseLine(text, "adblock") = parseAdblockLine(text)
      BY <1>3 DEF parseLine
    <2>2. parseLine(text, "hosts") = parseHostsLine(text)
      BY <1>3 DEF parseLine
    <2>3. parseLine(text, "domains") = parseDomainsLine(text)
      BY <1>3 DEF parseLine
    <2> QED
      BY Zenon, <2>1, <2>2, <2>3
  <1> QED
    BY Zenon, <1>1, <1>2, <1>4 DEF Formats

-----------------------------------------------------------------------------
(* The list is read                                                        *)

endsOf(t) == {d \in DOMAIN t : t[d].isEnd}

\* Besides ListRead: until a line that lists nothing has chosen the format, the
\* format is the one the list is written in, or still open.
ReadInv ==
    /\ kind \in Formats
    /\ ~headed => /\ format \in {kind, "auto"}
                  /\ endsOf(other) = listed
                  /\ \A d \in listed : other[d].isWild

\* Adding a domain with its subdomains.
LEMMA WildAdded ==
  ASSUME NEW t, NEW d \in Domains
  PROVE  LET u == withDomain(t, d, TRUE)
         IN /\ endsOf(u) = endsOf(t) \cup {d} /\ u[d].isWild
            /\ \A p \in endsOf(t) : p # d => u[p] = t[p]
  <1> DEFINE u == withDomain(t, d, TRUE)
  <1>1. d \in Path(d)
    BY Zenon, PathFacts
  <1>2. /\ DOMAIN u = DOMAIN t \cup Path(d)
        /\ \A p \in DOMAIN t : p # d => u[p] = t[p]
        /\ \A p \in Path(d) : p \notin DOMAIN t /\ p # d => u[p] = newNode
    BY Zenon DEF withDomain
  <1>3. u[d] = [isEnd |-> TRUE,
                isWild |-> (IF d \in DOMAIN t THEN t[d] ELSE newNode).isWild \/ TRUE]
    BY Zenon, <1>1 DEF withDomain
  <1> HIDE DEF u
  <1>4. u[d].isEnd /\ u[d].isWild
    <2>1. \A w : LET n == [isEnd |-> TRUE, isWild |-> w] IN n.isEnd = TRUE /\ n.isWild = w
      OBVIOUS
    <2> QED
      BY Zenon, <1>3, <2>1
  <1>5. ~newNode.isEnd
    BY DEF newNode
  <1>6. endsOf(u) = endsOf(t) \cup {d}
    BY Zenon, <1>1, <1>2, <1>4, <1>5 DEF endsOf
  <1>7. \A p \in endsOf(t) : p # d => u[p] = t[p]
    BY Zenon, <1>2 DEF endsOf
  <1> QED
    BY Zenon, <1>4, <1>6, <1>7 DEF u

\* A line that lists a name adds it.
LEMMA EntryStep ==
  ASSUME ReadInv, NEW name \in Names, ParseEntry(name)
  PROVE  ReadInv'
  <1>1. PICK text \in entries(kind, name) : ParseLine(text, {meaning(name)}, TRUE)
    BY Zenon DEF ParseEntry
  <1> DEFINE line == TrimSpace(text)
             f    == IF format = "auto" /\ line # <<>> THEN detectFormat(line) ELSE format
             d    == IF line = <<>> THEN <<>> ELSE parseLine(line, f)
             mine == meaning(name)
  <1>2. /\ format' = f /\ (IF d = <<>> THEN UNCHANGED vars ELSE ParserAdd(d, TRUE))
        /\ listed' = listed \cup {mine} /\ (~headed' => ~headed) /\ kind' = kind
    BY Zenon, <1>1 DEF ParseLine
  <1>3. kind \in Formats
    BY Zenon DEF ReadInv
  <1>4. line # <<>> /\ detectFormat(line) = kind /\ parseLine(line, kind) = mine /\ mine # <<>>
    BY Zenon, <1>1, <1>3, EntryRead, DomainOfName
  <1>5. mine \in Domains
    BY Zenon, <1>1, <1>3, <1>4, ListedAssumption
  <1> SUFFICES ASSUME ~headed'
               PROVE  /\ format' \in {kind', "auto"}
                      /\ endsOf(other)' = listed' /\ \A e \in listed' : other'[e].isWild
    BY Zenon, <1>2, <1>3 DEF ReadInv
  <1>6. format \in {kind, "auto"} /\ endsOf(other) = listed /\ \A e \in listed : other[e].isWild
    BY Zenon, <1>2 DEF ReadInv
  <1>7. f = kind /\ d = mine
    BY Zenon, <1>4, <1>6
  <1>8. other' = withDomain(other, mine, TRUE)
    BY Zenon, <1>2, <1>4, <1>7 DEF ParserAdd
  <1> HIDE DEF f, d, mine, line
  <1>9. /\ endsOf(other') = endsOf(other) \cup {mine} /\ other'[mine].isWild
        /\ \A p \in endsOf(other) : p # mine => other'[p] = other[p]
    BY Zenon, <1>5, <1>8, WildAdded
  <1>10. endsOf(other)' = endsOf(other')
    BY Zenon DEF endsOf
  <1>11. \A e \in listed' : other'[e].isWild
    <2> TAKE e \in listed'
    <2>1. e \in listed \/ e = mine
      BY Zenon, <1>2
    <2>2. e \in endsOf(other) /\ e # mine => other'[e] = other[e] /\ other[e].isWild
      BY Zenon, <1>6, <1>9
    <2>3. e \in endsOf(other) /\ e # mine => other'[e].isWild
      BY Zenon, <2>2
    <2>4. e = mine => other'[e].isWild
      BY Zenon, <1>9
    <2> QED
      BY Zenon, <1>6, <2>1, <2>3, <2>4
  <1>12. endsOf(other)' = listed'
    BY Zenon, <1>2, <1>6, <1>9, <1>10
  <1> QED
    BY Zenon, <1>2, <1>7, <1>11, <1>12

\* A line that lists none leaves the trie alone, unless it has chosen the format.
LEMMA IdleLine ==
  ASSUME ReadInv, NEW text, ParseLine(text, {}, FALSE),
         \/ text \in remarks
         \/ text \notin remarks /\ parseLine(TrimSpace(text), kind) = <<>>
  PROVE  ReadInv'
  <1> DEFINE line == TrimSpace(text)
             f    == IF format = "auto" /\ line # <<>> THEN detectFormat(line) ELSE format
             d    == IF line = <<>> THEN <<>> ELSE parseLine(line, f)
  <1>1. /\ format' = f /\ (IF d = <<>> THEN UNCHANGED vars ELSE ParserAdd(d, TRUE))
        /\ listed' = listed \cup {} /\ kind' = kind
        /\ ~headed' => ~headed /\ ~(format = "auto" /\ text \notin remarks)
    BY Zenon DEF ParseLine
  <1>2. kind \in Formats
    BY Zenon DEF ReadInv
  <1> SUFFICES ASSUME ~headed'
               PROVE  /\ format' \in {kind', "auto"}
                      /\ endsOf(other)' = listed' /\ \A e \in listed' : other'[e].isWild
    BY Zenon, <1>1, <1>2 DEF ReadInv
  <1>3. format \in {kind, "auto"} /\ endsOf(other) = listed /\ \A e \in listed : other[e].isWild
    BY Zenon, <1>1 DEF ReadInv
  <1>4. f \in {kind, "auto"} /\ d = <<>>
    <2>1. CASE text \in remarks
      <3>1. line # <<>> => detectFormat(line) = "auto" /\ parseLine(line, f) = <<>>
        <4> HIDE DEF f
        <4> QED
          BY Zenon, <2>1, Remark
      <3> QED
        BY Zenon, <1>3, <3>1
    <2>2. CASE text \notin remarks
      <3>1. format = kind /\ format # "auto" /\ parseLine(line, kind) = <<>>
        BY Zenon, <1>1, <1>3, <2>2
      <3> QED
        BY Zenon, <3>1
    <2> QED
      BY Zenon, <2>1, <2>2
  <1>5. other' = other
    BY Zenon, <1>1, <1>4 DEF vars
  <1>6. listed' = listed
    BY Zenon, <1>1
  <1>7. endsOf(other)' = listed' /\ \A e \in listed' : other'[e].isWild
    BY Zenon, <1>3, <1>5, <1>6 DEF endsOf
  <1> QED
    BY Zenon, <1>1, <1>4, <1>7

\* Every step of parser and trie keeps the list read.
LEMMA ReadNext ==
  ASSUME ReadInv, [PNext]_<<vars, parser>>
  PROVE  ReadInv'
  <1>1. CASE Operate \/ ParseEnd \/ UNCHANGED <<vars, parser>>
    <2>1. other' = other /\ format' = format /\ kind' = kind /\ listed' = listed /\ headed' = headed
      BY Zenon, <1>1 DEF Operate, ParseEnd, Add, Remove, Clear, Merge, vars, parser
    <2> QED
      BY Zenon, <2>1 DEF ReadInv, endsOf
  <1>2. ASSUME NEW k \in Formats, NEW g \in {k, "auto"}, ParseBegin(k, g)
        PROVE  ReadInv'
    <2>1. other' = Empty /\ format' = g /\ kind' = k /\ listed' = {}
      BY Zenon, <1>2 DEF ParseBegin, ParserNew
    <2>2. endsOf(Empty) = {}
      BY Zenon DEF endsOf, Empty
    <2>3. endsOf(other)' = {}
      BY Zenon, <2>1, <2>2 DEF endsOf
    <2> QED
      BY Zenon, <2>1, <2>3 DEF ReadInv
  <1>3. ASSUME NEW name \in Names, ParseEntry(name)
        PROVE  ReadInv'
    BY Zenon, <1>3, EntryStep
  <1>4. ASSUME NEW name \in Names, ParseOther(name)
        PROVE  ReadInv'
    <2>1. PICK text \in others(kind, name) : ParseLine(text, {}, FALSE)
      BY Zenon, <1>4 DEF ParseOther
    <2>2. kind \in Formats
      BY Zenon DEF ReadInv
    <2>3. text \notin remarks /\ parseLine(TrimSpace(text), kind) = <<>>
      BY Zenon, <2>1, <2>2, OtherRead
    <2> QED
      BY Zenon, <2>1, <2>3, IdleLine
  <1>5. CASE ParseRemark
    BY Zenon, <1>5, IdleLine DEF ParseRemark
  <1>6. CASE ParseFails
    <2>1. other' = Empty /\ format' = format /\ kind' = kind /\ listed' = {} /\ headed' = headed
      BY Zenon, <1>6 DEF ParseFails, ParserNew
    <2>2. endsOf(Empty) = {}
      BY Zenon DEF endsOf, Empty
    <2>3. endsOf(other)' = {}
      BY Zenon, <2>1, <2>2 DEF endsOf
    <2> QED
      BY Zenon, <2>1, <2>3 DEF ReadInv
  <1> QED
    BY Zenon, <1>1, <1>2, <1>3, <1>4, <1>5, <1>6 DEF PNext, Parse

\* A list whose first line that is no comment lists a name is read as it was written,
\* whatever names it lists, in any of its formats, given or detected; but for the
\* subdomains of a hosts list's names (Parse, detectFormat and the line parsers).
THEOREM ReadAsWritten == PSpec => []ListRead
  <1>1. PInit => ReadInv
    <2>1. endsOf(Empty) = {}
      BY Zenon DEF endsOf, Empty
    <2> QED
      BY Zenon, <2>1 DEF PInit, Init, ReadInv, Formats
  <1>2. ReadInv /\ [PNext]_<<vars, parser>> => ReadInv'
    BY Zenon, ReadNext
  <1>3. ReadInv => ListRead
    BY Zenon DEF ReadInv, ListRead, endsOf
  <1> QED
    BY <1>1, <1>2, <1>3, PTL DEF PSpec
=============================================================================
