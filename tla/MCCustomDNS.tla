----------------------------- MODULE MCCustomDNS -----------------------------
(* Instances of CustomDNS for TLC.                                         *)
EXTENDS CustomDNS, TLC

\* A host with one address or with one of each family, and an alias of it.
SmallValues == [host |-> {{"v4"}, {"v4", "v6"}}, cname |-> {{"h"}}]

Symmetry == Permutations(Clients)
=============================================================================
