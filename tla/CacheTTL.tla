------------------------------ MODULE CacheTTL ------------------------------
(***************************************************************************)
(* The arithmetic of cached lifetimes: how long a response is cached       *)
(* (analyzeCacheDecision and capTTL) and the TTLs a client is given when   *)
(* it is served from the cache (adjustTTLs).                               *)
(*                                                                         *)
(* A response is its rcode, the TTLs of its answer records, the TTLs of    *)
(* its authority and additional records (OPT left out: adjustTTLs skips    *)
(* it) and what extractSOAMinimum reads from its authority section (0: no  *)
(* SOA).  TTLs are unsigned integers modulo Word, as uint32 is modulo 2^32.*)
(***************************************************************************)
EXTENDS Integers, Sequences

CONSTANTS
    Word,            \* a TTL has values 0 .. Word - 1
    MaxTTL,          \* c.maxTTL, in seconds
    MaxNegativeTTL,  \* c.maxNegativeTTL, in seconds
    ServfailTTL,     \* the 30 seconds of analyzeCacheDecision
    NegativeTTL      \* the 300 seconds of analyzeCacheDecision

ASSUME TTLAssumption ==
    /\ Word \in Nat \ {0, 1}
    /\ MaxTTL \in Nat \ {0} /\ MaxNegativeTTL \in Nat \ {0}
    /\ ServfailTTL \in Nat \ {0} /\ NegativeTTL \in Nat \ {0}

TTLs     == 0..(Word - 1)
RCodes   == {"noerror", "servfail", "nxdomain", "other", "malformed"}
Types    == {"positive", "nxdomain", "nodata", "servfail"}
Response == [rcode : RCodes, answers : Seq(TTLs), others : Seq(TTLs), soa : TTLs]

TTLsIn(s) == {s[i] : i \in DOMAIN s}

\* findMinimumTTL: the smallest TTL that is not 0, or 0.
findMinimumTTL(answers) ==
    LET ttls == TTLsIn(answers) \ {0}
    IN IF ttls = {} THEN 0 ELSE CHOOSE t \in ttls : \A u \in ttls : t <= u

orDefault(ttl) == IF ttl <= 0 THEN NegativeTTL ELSE ttl

decision(ttl, type) == [ttl |-> ttl, type |-> type]

analyzeCacheDecision(r) ==
    CASE r.rcode = "malformed" -> decision(0, "positive")
      [] r.rcode = "servfail"  -> decision(ServfailTTL, "servfail")
      [] r.rcode = "nxdomain"  -> decision(orDefault(r.soa), "nxdomain")
      [] r.rcode = "other"     -> decision(0, "positive")
      [] OTHER -> IF r.answers = <<>>
                  THEN decision(orDefault(r.soa), "nodata")
                  ELSE decision(findMinimumTTL(r.answers), "positive")

\* capTTL; negativeEnabled is never switched off.
capTTL(ttl, type) ==
    LET cap == IF type = "positive" THEN MaxTTL ELSE MaxNegativeTTL
    IN IF ttl > cap THEN cap ELSE ttl

\* max(uint32(1), oldTTL-ageSeconds), the subtraction being that of uint32.
adjustTTL(ttl, age) ==
    LET new == (ttl - age) % Word
    IN IF new > 1 THEN new ELSE 1

\* A variant: the age is subtracted from the answers only, twice.
adjustTTLsTwice(r, age) ==
    IF age <= 0 THEN r
    ELSE [r EXCEPT !.answers = [i \in DOMAIN @ |-> adjustTTL(@[i], 2 * age)]]

\* adjustTTLs, age in whole seconds: every record of every section.
adjustTTLs(r, age) ==
    IF age <= 0 THEN r
    ELSE [r EXCEPT !.answers = [i \in DOMAIN @ |-> adjustTTL(@[i], age)],
                   !.others  = [i \in DOMAIN @ |-> adjustTTL(@[i], age)]]
=============================================================================
