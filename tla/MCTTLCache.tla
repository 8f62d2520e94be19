----------------------------- MODULE MCTTLCache -----------------------------
(* Instances of TTLCache for TLC.                                          *)
EXTENDS TTLCache, TLC

\* A positive answer above the cap, with a record that expires before it; a
\* negative answer without SOA; a response that is not cached.
MixedResponses ==
    {[rcode |-> "noerror",  answers |-> <<4, 3>>, others |-> <<1>>, soa |-> 0],
     [rcode |-> "nxdomain", answers |-> <<>>,     others |-> <<4>>, soa |-> 0],
     [rcode |-> "other",    answers |-> <<2>>,    others |-> <<>>,  soa |-> 0]}

Symmetry == Permutations(Callers) \cup Permutations(Keys)
=============================================================================
