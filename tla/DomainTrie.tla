----------------------------- MODULE DomainTrie -----------------------------
(***************************************************************************)
(* The domain trie of internal/filtering/trie.go.  Its nodes are their     *)
(* paths from the root; trie is a function from the paths of the nodes     *)
(* other than the root to their flags.  Every operation holds the trie's   *)
(* lock from start to end and is one step.  A second trie is what Merge    *)
(* takes; the parser builds it (see ListParser, which has the next-state   *)
(* relation).                                                              *)
(***************************************************************************)
EXTENDS Naturals, Sequences, FiniteSets

CONSTANT Domains   \* the non-empty sequences of labels considered

ASSUME DomainsAssumption ==
    \A d \in Domains : /\ d # <<>> /\ d \in Seq({d[i] : i \in DOMAIN d})
                       /\ \A i \in 1..Len(d) : SubSeq(d, 1, i) \in Domains

VARIABLES
    trie,     \* the nodes of the trie
    size,     \* t.size
    other     \* the nodes of the trie being parsed

vars == <<trie, size, other>>

Node       == [isEnd : BOOLEAN, isWild : BOOLEAN]
newNode    == [isEnd |-> FALSE, isWild |-> FALSE]
Empty      == [p \in {} |-> newNode]
Path(d)    == {SubSeq(d, 1, i) : i \in 1..Len(d)}
Children(t, p) == {q \in DOMAIN t : Len(q) = Len(p) + 1 /\ SubSeq(q, 1, Len(p)) = p}

Init ==
    /\ trie = Empty /\ size = 0
    /\ other = Empty

\* Add's walk: the missing nodes of the path, and the flags of the last one.
withDomain(t, d, wildcard) ==
    [p \in DOMAIN t \cup Path(d) |->
        LET n == IF p \in DOMAIN t THEN t[p] ELSE newNode
        IN IF p = d THEN [isEnd |-> TRUE, isWild |-> n.isWild \/ wildcard] ELSE n]

isEnd(t, d) == d \in DOMAIN t /\ t[d].isEnd

Add(d, wildcard) ==
    /\ trie' = withDomain(trie, d, wildcard)
    /\ size' = IF isEnd(trie, d) THEN size ELSE size + 1
    /\ UNCHANGED other

\* Contains' walk: it fails at the first missing node, unless a wildcard
\* above the last label has matched before.
Contains(t, d) ==
    \/ \E i \in 1..(Len(d) - 1) :
          /\ \A j \in 1..i : SubSeq(d, 1, j) \in DOMAIN t
          /\ t[SubSeq(d, 1, i)].isWild
    \/ Path(d) \subseteq DOMAIN t /\ t[d].isEnd

\* Remove's walk up from d: the nodes it deletes, up to the first that is an
\* endpoint or has a child off the path.
orphans(t, d) ==
    {p \in Path(d) : \A q \in Path(d) : Len(q) >= Len(p) =>
        /\ ~t[q].isEnd /\ ~t[q].isWild
        /\ Children(t, q) \subseteq Path(d)}

\* A variant: the wildcard flag is left behind.
RemoveKeepsWild(d) ==
    /\ isEnd(trie, d)
    /\ LET unset == [trie EXCEPT ![d].isEnd = FALSE]
       IN trie' = [p \in DOMAIN trie \ orphans(unset, d) |-> unset[p]]
    /\ size' = size - 1
    /\ UNCHANGED other

Remove(d) ==
    /\ isEnd(trie, d)
    /\ LET unset == [trie EXCEPT ![d] = newNode]
       IN trie' = [p \in DOMAIN trie \ orphans(unset, d) |-> unset[p]]
    /\ size' = size - 1
    /\ UNCHANGED other

Clear ==
    /\ trie' = Empty /\ size' = 0
    /\ UNCHANGED other

\* A variant: nodes the trie already has keep their flags.
mergedNew(t, u) ==
    [p \in DOMAIN t \cup DOMAIN u |-> IF p \in DOMAIN t THEN t[p] ELSE u[p]]

\* mergeNode from the roots: every node of u, with the flags of both.
merged(t, u) ==
    [p \in DOMAIN t \cup DOMAIN u |->
        IF p \notin DOMAIN u THEN t[p]
        ELSE IF p \notin DOMAIN t THEN u[p]
        ELSE [isEnd  |-> t[p].isEnd \/ u[p].isEnd,
              isWild |-> t[p].isWild \/ u[p].isWild]]

Merge ==
    /\ trie' = merged(trie, other)
    /\ size' = size + Cardinality({p \in DOMAIN other : other[p].isEnd /\ ~isEnd(trie, p)})
    /\ UNCHANGED other

\* The parser adds a domain to the trie it builds.
ParserAdd(d, wildcard) ==
    /\ other' = withDomain(other, d, wildcard)
    /\ UNCHANGED <<trie, size>>

\* It starts a new list.
ParserNew ==
    /\ other' = Empty
    /\ UNCHANGED <<trie, size>>

-----------------------------------------------------------------------------
(* Properties.                                                             *)

\* The nodes are a prefix-closed set: each is reached from the root.
Trie(t) ==
    /\ DOMAIN t \subseteq Domains
    /\ \A p \in DOMAIN t : t[p] \in Node /\ Path(p) \subseteq DOMAIN t

\* Both tries stay trees: no Remove or Merge cuts a node off from the root.
TypeOK ==
    /\ Trie(trie) /\ Trie(other)
    /\ size \in Nat

\* The rule a trie has for d.
rule(t, d) ==
    IF ~isEnd(t, d) THEN "none" ELSE IF t[d].isWild THEN "wildcard" ELSE "exact"

Rules == INSTANCE DomainRules WITH
    rules    <- [d \in Domains |-> rule(trie, d)],
    incoming <- [d \in Domains |-> rule(other, d)]

\* After any sequence of additions, removals and merges, Contains answers what
\* comparing suffixes would: removing a domain neither hides nor keeps another.
\* Size is the number of domains, whatever was added twice, merged or removed, and
\* no node is left that leads to no domain.  Both tries are well formed throughout.
ContainsMatchesSuffixes ==
    /\ TypeOK
    /\ \A d \in Domains : Contains(trie, d) <=> Rules!Matches(d)
    /\ size = Cardinality({d \in Domains : isEnd(trie, d)})
    /\ \A p \in DOMAIN trie : trie[p].isEnd \/ Children(trie, p) # {}

\* The trie implements the set of rules: every operation changes what the trie
\* says of the domains as the operation on rules does, and nothing else.
ImplementsRules == Rules!Spec
=============================================================================
