----------------------------- MODULE ListParser -----------------------------
(***************************************************************************)
(* The blocklist parser (internal/filtering/parser.go) reading a list line *)
(* by line into a trie of its own, which Merge then takes.                 *)
(*                                                                         *)
(* A line is a sequence of tokens.  A token is a sequence of labels: a     *)
(* name (top-level label first, as in the trie), an IPv4 address, or one   *)
(* of the characters below.  The list has an author, who writes it in one  *)
(* of the three formats.                                                   *)
(***************************************************************************)
EXTENDS DomainTrie

CONSTANTS
    Names,      \* names a list may contain, as written
    lowerLabel  \* the labels of Names in lower case

VARIABLES
    format,   \* the format Parse goes by: "auto" until a line decides
    parsing,  \* Parse has not returned yet
    kind,     \* the format the list is written in
    listed,   \* the domains of the lines read so far, as their author meant them
    headed    \* format was chosen by a line that lists no domain

parser == <<format, parsing, kind, listed, headed>>

Formats == {"adblock", "hosts", "domains"}

Space    == <<" ">>
Hash     == <<"#">>
Bars     == <<"||">>
Caret    == <<"^">>
Dollar   == <<"$">>
Zero     == <<"0", "0", "0", "0">>
Loopback == <<"1", "0", "0", "127">>

\* strings.HasPrefix, strings.Contains, line[:strings.Index(line, token)] and TrimSpace
HasPrefix(line, token) == line # <<>> /\ Head(line) = token
Has(line, token)       == \E i \in DOMAIN line : line[i] = token
upTo(line, token) ==
    IF ~Has(line, token) THEN line
    ELSE SubSeq(line, 1, (CHOOSE i \in DOMAIN line :
             line[i] = token /\ \A j \in 1..(i - 1) : line[j] # token) - 1)
TrimSpace(line) ==
    LET solid == {i \in DOMAIN line : line[i] # Space}
    IN IF solid = {} THEN <<>>
       ELSE SubSeq(line, CHOOSE i \in solid : \A j \in solid : i <= j,
                         CHOOSE i \in solid : \A j \in solid : i >= j)

\* normalizeDomain: lower case, one trailing dot gone.
normalizeDomain(line) ==
    LET t == TrimSpace(line)
        n == IF t # <<>> /\ t[Len(t)] = <<".">> THEN SubSeq(t, 1, Len(t) - 1) ELSE t
    IN [i \in DOMAIN n |-> [k \in DOMAIN n[i] |->
           IF n[i][k] \in DOMAIN lowerLabel THEN lowerLabel[n[i][k]] ELSE n[i][k]]]

\* isValidDomain: at least one dot, nothing but labels.  (An address is one.)
isValidDomain(domain) == Len(domain) = 1 /\ Len(domain[1]) >= 2

\* The domain of the text, or <<>>.
domainOf(text) ==
    LET domain == normalizeDomain(text)
    IN IF isValidDomain(domain) THEN domain[1] ELSE <<>>

comment(line) == HasPrefix(line, Hash) \/ HasPrefix(line, <<"!">>)

\* A variant: a comment decides like any other line.
detectComments(line) ==
    CASE HasPrefix(line, Bars) -> "adblock"
      [] HasPrefix(line, Zero) \/ HasPrefix(line, Loopback) -> "hosts"
      [] OTHER -> "domains"

detectFormat(line) ==
    CASE comment(line) -> "auto"
      [] HasPrefix(line, Bars) -> "adblock"
      [] HasPrefix(line, Zero) \/ HasPrefix(line, Loopback) -> "hosts"
      [] OTHER -> "domains"

\* Exceptions (@@), paths and inner wildcards are skipped.
parseAdblockLine(line) ==
    LET text == IF HasPrefix(line, Bars) THEN upTo(upTo(Tail(line), Caret), Dollar) ELSE <<>>
    IN IF Has(text, <<"/">>) \/ Has(text, <<"*">>) THEN <<>> ELSE domainOf(text)

\* The second field, when the first is one of the two addresses.
parseHostsLine(line) ==
    LET text   == TrimSpace(upTo(line, Hash))
        first  == upTo(text, Space)
        rest   == TrimSpace(SubSeq(text, Len(first) + 1, Len(text)))
        domain == domainOf(upTo(rest, Space))
    IN IF first \notin {<<Zero>>, <<Loopback>>} \/ domain = <<"localdomain", "localhost">>
       THEN <<>> ELSE domain

parseDomainsLine(line) == domainOf(upTo(line, Hash))

parseLine(line, f) ==
    CASE comment(line)  -> <<>>
      [] f = "adblock" /\ ~comment(line) -> parseAdblockLine(line)
      [] f = "hosts" /\ ~comment(line)   -> parseHostsLine(line)
      [] OTHER -> parseDomainsLine(line)

-----------------------------------------------------------------------------
(* The author.                                                             *)

meaning(name) == [k \in DOMAIN name |-> lowerLabel[name[k]]]

\* The lines that list a name.
entries(k, name) ==
    CASE k = "adblock" -> {<<Bars, name>>, <<Bars, name, Caret>>, <<Bars, name, Dollar, <<"third-party">>>>,
                           <<Bars, name, Caret, Dollar, <<"/">>>>}
      [] k = "hosts"   -> {<<Zero, Space, name>>, <<Space, Loopback, Space, Space, name, Space, Hash, name>>}
      [] k = "domains" -> {<<name>>, <<name, <<".">>>>, <<name, Space, Hash, name>>}

\* Blank lines and comments.
remarks == {<<>>, <<Space>>, <<Hash>>, <<Hash, Space, Zero>>, <<<<"!">>, Bars>>}

\* Lines of the format that list nothing: headers, exceptions, rules for parts
\* of a site, the host's own names.
others(k, name) ==
    CASE k = "adblock" -> {<<<<"[">>, <<"Adblock Plus">>>>, <<<<"@@">>, Bars, name, Caret>>,
                           <<Bars, name, <<"/">>, <<"path">>>>, <<Bars, <<"*">>, name, Caret>>}
      [] k = "hosts"   -> {<<Loopback, Space, <<"localdomain", "localhost">>>>, <<<<"::1">>, Space, name>>}
      [] k = "domains" -> {<<<<"localhost">>>>}

\* Names are written with labels lowerLabel knows, two or more of them.  None is an
\* address a hosts line begins with, nor the machine's own name, which is lower case.
ASSUME NamesAssumption ==
    /\ \A name \in Names : /\ name \in Seq(DOMAIN lowerLabel) /\ Len(name) >= 2
                           /\ name \notin {Zero, Loopback}
                           /\ meaning(name) # <<"localdomain", "localhost">>
    /\ \A l \in DOMAIN lowerLabel \cap {"localdomain", "localhost"} : lowerLabel[l] = l

\* Domains has every domain the parser finds in a line.
ASSUME ListedAssumption ==
    \A f \in Formats \cup {"auto"} :
        /\ \A text \in remarks : parseLine(TrimSpace(text), f) \in Domains \cup {<<>>}
        /\ \A k \in Formats, name \in Names : \A text \in entries(k, name) \cup others(k, name) :
             parseLine(TrimSpace(text), f) \in Domains \cup {<<>>}

-----------------------------------------------------------------------------

PInit ==
    /\ Init
    /\ format = "auto" /\ parsing = FALSE /\ kind = "domains" /\ listed = {} /\ headed = FALSE

\* The operations of the trie; the one parsed is complete.
Operate ==
    /\ \/ \E d \in Domains, wildcard \in BOOLEAN : Add(d, wildcard)
       \/ \E d \in Domains : Remove(d)
       \/ Clear
       \/ ~parsing /\ Merge
    /\ UNCHANGED parser

\* ParseFile or ParseURL opened the list; its format is given, or is "auto".
ParseBegin(k, f) ==
    /\ ~parsing
    /\ ParserNew
    /\ parsing' = TRUE /\ format' = f /\ kind' = k /\ listed' = {} /\ headed' = FALSE

\* One turn of the loop of Parse.
ParseLine(text, means, entry) ==
    LET line == TrimSpace(text)
        f    == IF format = "auto" /\ line # <<>> THEN detectFormat(line) ELSE format
        d    == IF line = <<>> THEN <<>> ELSE parseLine(line, f)
    IN /\ parsing
       /\ format' = f
       /\ IF d = <<>> THEN UNCHANGED vars ELSE ParserAdd(d, TRUE)
       /\ listed' = listed \cup means
       /\ headed' = (headed \/ (format = "auto" /\ text \notin remarks /\ ~entry))
       /\ UNCHANGED <<parsing, kind>>

ParseEntry(name)  == \E text \in entries(kind, name) : ParseLine(text, {meaning(name)}, TRUE)
ParseRemark       == \E text \in remarks : ParseLine(text, {}, FALSE)
ParseOther(name)  == \E text \in others(kind, name) : ParseLine(text, {}, FALSE)

ParseEnd ==
    /\ parsing /\ parsing' = FALSE
    /\ UNCHANGED <<vars, format, kind, listed, headed>>

\* scanner.Err: no trie is returned.
ParseFails ==
    /\ parsing
    /\ ParserNew
    /\ parsing' = FALSE /\ listed' = {}
    /\ UNCHANGED <<format, kind, headed>>

Parse ==
    \/ \E k \in Formats : \E f \in {k, "auto"} : ParseBegin(k, f)
    \/ \E name \in Names : ParseEntry(name) \/ ParseOther(name)
    \/ ParseRemark \/ ParseEnd \/ ParseFails

PNext == Operate \/ Parse

PSpec == PInit /\ [][PNext]_<<vars, parser>>

\* A list is read as it was written: the trie holds the names of its entries and
\* no others, whether the format was given or detected; in the formats other than
\* hosts with their subdomains.  Whether a name of a hosts list stands for its
\* subdomains is left open.  Excepted is a list whose first line that is no comment
\* lists no name, for it decides the format of the whole list (Parse, detectFormat
\* and the line parsers).
ListRead ==
    ~headed => /\ {d \in DOMAIN other : other[d].isEnd} = listed
               /\ kind # "hosts" => \A d \in listed : other[d].isWild
=============================================================================
