--------------------------- MODULE MCPolicyEngine ---------------------------
(* Instances of PolicyEngine for TLC.  Every operation treats each domain  *)
(* by itself, so one domain is enough.                                     *)
EXTENDS PolicyEngine

CONSTANTS c1, c2

\* The domain is on the second of two blocklists.
TwoLists == <<{}, {"ads"}>>

\* The domain has two spellings in the tables.
LowerCase == [s \in Spellings |-> "ads"]

Ask(table, op, rows) == [table : {table}, op : {op}, row : rows]

\* Two overlapping calls: one undoes what the other does, or is about something else.
TwoRequests ==
    [c \in Calls |->
        IF c = c1
        THEN Ask("whitelist", "add", {"ads"}) \cup Ask("blacklist", "add", {"ads"})
                \cup Ask("enabled", "remove", {1}) \cup Ask("lists", "remove", {2})
        ELSE Ask("whitelist", "remove", {"ads"}) \cup Ask("blacklist", "remove", Spellings)
                \cup Ask("enabled", "add", {1}) \cup Ask("lists", "add", {2})]
=============================================================================
